--------------------------- MODULE FindFileProofs ---------------------------
(***************************************************************************)
(* Proofs about path walking, for every medium, set of paths and size of   *)
(* the heap: that handles keep their memory, and that the file found is    *)
(* the one the path names.                                                 *)
(***************************************************************************)
EXTENDS FindFile, FiniteSetTheorems, SequenceTheorems, WellFoundedInduction,
        TLAPS

USE FindAssumption

------------------------------------------------------------------------------
(***************************************************************************)
(* The inductive invariant.                                                *)
(***************************************************************************)
(* The data of a handle is allocated, is what the handle says, and is      *)
(* nobody else's.                                                          *)
Kept ==
  /\ \A h \in open : h.data \in DOMAIN mem /\ mem[h.data] = h.file
  /\ \A g, h \in open : g.data = h.data => g = h

Unshared(i) == i \in DOMAIN mem /\ \A h \in open : h.data # i

(* While a path is walked the call has its copy and, below the root, the   *)
(* data of the directory it is in, and no other handle has them.           *)
Walking ==
  /\ rest \in Seq(Names)
  /\ pc = "walk" =>
       /\ Unshared(copy)
       /\ dir # RootHandle =>
            Unshared(dir.data) /\ mem[dir.data] = dir.file /\ dir.data # copy

Counted ==
  pc = "walk" => Cardinality(Unowned(mem, open)) =
                   before + (IF dir = RootHandle THEN 1 ELSE 2)

IInv == TypeOK /\ Kept /\ Walking /\ Counted /\ LeavesLittle

------------------------------------------------------------------------------
(***************************************************************************)
(* The memory.                                                             *)
(***************************************************************************)
LEMMA Least ==
  ASSUME NEW T, T \subseteq Nat, T # {}
  PROVE  \E i \in T : \A j \in T : i <= j
<1>1. PICK i \in T : \A j \in T : ~ (<<j, i>> \in OpToRel(<, Nat))
  BY NatLessThanWellFounded, WFMin
<1>2. \A j \in T : ~ (j < i)
  BY <1>1 DEF OpToRel
<1> QED BY <1>2

LEMMA ObjectsFinite == IsFiniteSet(Objects) /\ Cardinality(Objects) = MaxMem
BY FS_Interval DEF Objects

(* Where there is room, the object handed out is a free one. *)
LEMMA FreshFree ==
  ASSUME NEW m, DOMAIN m \subseteq Objects, NEW n \in Nat \ {0}, Room(m, n)
  PROVE  Fresh(m) \in Objects /\ Fresh(m) \notin DOMAIN m
<1> DEFINE D == DOMAIN m
           T == Objects \ D
<1>1. IsFiniteSet(D) /\ Cardinality(D) \in Nat /\ Cardinality(D) + n <= MaxMem
  BY ObjectsFinite, FS_Subset, FS_CardinalityType DEF Room
<1> HIDE DEF D
<1>2. T # {}
  <2> SUFFICES ASSUME T = {} PROVE FALSE
    OBVIOUS
  <2>1. D = Objects
    BY DEF D
  <2> QED BY <1>1, <2>1, ObjectsFinite
<1>3. \E i \in T : \A j \in T : i <= j
  <2>1. T \subseteq Nat
    BY DEF Objects
  <2> HIDE DEF T
  <2> QED BY <1>2, <2>1, Least
<1>4. Fresh(m) \in T
  <2>1. Fresh(m) = CHOOSE i \in T : \A j \in T : i <= j
    BY DEF Fresh, D
  <2> HIDE DEF T
  <2> QED BY <1>3, <2>1
<1> QED BY <1>4 DEF D

(* What PutAt and Without do to a memory. *)
LEMMA PutAtIs ==
  ASSUME NEW m, NEW n, NEW c
  PROVE  /\ DOMAIN PutAt(m, n, c) = DOMAIN m \cup {n}
         /\ PutAt(m, n, c)[n] = c
         /\ \A i \in DOMAIN m : i # n => PutAt(m, n, c)[i] = m[i]
BY DEF PutAt

LEMMA WithoutIs ==
  ASSUME NEW m, NEW n
  PROVE  /\ DOMAIN Without(m, n) = DOMAIN m \ {n}
         /\ \A i \in DOMAIN m \ {n} : Without(m, n)[i] = m[i]
BY DEF Without

(* One object more takes one place. *)
LEMMA PutRoom ==
  ASSUME NEW m, DOMAIN m \subseteq Objects, Room(m, 2), NEW c
  PROVE  LET p == Put(m, c)
         IN  DOMAIN p \subseteq Objects /\ Room(p, 1) /\ DOMAIN m \subseteq DOMAIN p
<1> DEFINE f == Fresh(m)
           p == Put(m, c)
<1>1. f \in Objects /\ f \notin DOMAIN m
  BY FreshFree
<1>2. DOMAIN p = DOMAIN m \cup {f}
  BY PutAtIs DEF Put
<1>3. IsFiniteSet(DOMAIN m) /\ Cardinality(DOMAIN m) \in Nat
  BY ObjectsFinite, FS_Subset, FS_CardinalityType
<1> HIDE DEF f, p
<1>4. Cardinality(DOMAIN p) = Cardinality(DOMAIN m) + 1
  BY <1>1, <1>2, <1>3, FS_AddElement
<1> QED BY <1>1, <1>2, <1>3, <1>4 DEF Room, p

LEMMA DataFree ==
  ASSUME DOMAIN mem \subseteq Objects, Room(mem, Needs)
  PROVE  Data \in Objects /\ Data \notin DOMAIN mem
<1>1. CASE Dot(Head(rest))
  BY <1>1, FreshFree DEF Needs, Data
<1>2. CASE ~Dot(Head(rest))
  <2>1. Room(mem, 2)
    BY <1>2 DEF Needs
  <2> DEFINE p == Put(mem, "entries")
  <2>2. DOMAIN p \subseteq Objects /\ Room(p, 1) /\ DOMAIN mem \subseteq DOMAIN p
    BY <2>1, PutRoom
  <2> HIDE DEF p
  <2>3. Fresh(p) \in Objects /\ Fresh(p) \notin DOMAIN p
    BY <2>2, FreshFree
  <2> QED BY <1>2, <2>2, <2>3 DEF Data, p
<1> QED BY <1>1, <1>2

LEMMA UnownedFinite ==
  ASSUME NEW m, DOMAIN m \subseteq Objects, NEW hs
  PROVE  IsFiniteSet(Unowned(m, hs)) /\ Cardinality(Unowned(m, hs)) \in Nat
<1>1. Unowned(m, hs) \subseteq Objects
  BY DEF Unowned
<1> QED BY <1>1, ObjectsFinite, FS_Subset, FS_CardinalityType

LEMMA Counts ==
  ASSUME NEW S, IsFiniteSet(S), NEW x
  PROVE  /\ x \notin S => Cardinality(S \cup {x}) = Cardinality(S) + 1
         /\ x \in S => Cardinality(S \ {x}) = Cardinality(S) - 1
         /\ Cardinality(S) \in Nat
BY FS_AddElement, FS_RemoveElement, FS_CardinalityType

------------------------------------------------------------------------------
(***************************************************************************)
(* The invariant.                                                          *)
(***************************************************************************)
LEMMA StrippedType ==
  ASSUME NEW p \in Paths
  PROVE  Stripped(p) \in Seq(Names) /\ Len(Stripped(p)) > 0
<1>1. {p[i] : i \in DOMAIN p} \subseteq Names
  BY DEF Names
<1>2. p \in Seq(Names) /\ Len(p) > 0
  BY <1>1, SeqMonotonic
<1> QED BY <1>2 DEF Stripped

LEMMA InitIInv == Init => IInv
<1> SUFFICES ASSUME Init PROVE IInv
  OBVIOUS
<1>1. failed \in BOOLEAN /\ rest \in Seq(Names)
  <2>1. failed = FALSE /\ rest = <<>>
    BY DEF Init
  <2> QED BY <2>1, EmptySeq, Zenon
<1>2. TypeOK
  BY <1>1 DEF Init, TypeOK, Objects
<1> QED BY <1>1, <1>2 DEF Init, IInv, Kept, Walking, Counted, LeavesLittle

(* What the copies of these definitions say of the next state when memory  *)
(* and handles do not change.                                              *)
LEMMA CallStep ==
  ASSUME IInv, NEW p \in Paths, Call(p)
  PROVE  IInv'
<1>1. /\ asked' = p /\ failed' = FALSE /\ open' = open
      /\ before' = Cardinality(Unowned(mem, open))
      /\ DOMAIN mem \subseteq Objects /\ rest \in Seq(Names) /\ copy \in 0 .. MaxMem
      /\ ret \in {0, -1} /\ Kept
  <2>1. open' = open
    BY DEF Call, Panic
  <2> QED BY <2>1 DEF Call, IInv, TypeOK, Walking
<1>2. before' \in Nat /\ failed' \in BOOLEAN /\ IsFiniteSet(Unowned(mem, open))
  BY <1>1, UnownedFinite
<1>3. CASE Nameless(Stripped(p))
  <2>1. /\ pc' = "done" /\ ret' = -1 /\ mem' = mem /\ rest' = rest /\ copy' = copy
    BY <1>3 DEF Call, Return, walk
  <2>2. TypeOK' /\ Walking' /\ Counted'
    BY <1>1, <1>2, <2>1 DEF TypeOK, Walking, Counted
  <2>3. LeavesLittle'
    BY <1>1, <1>2, <2>1 DEF LeavesLittle
  <2> QED BY <1>1, <2>1, <2>2, <2>3 DEF IInv, Kept
<1>4. CASE ~Nameless(Stripped(p)) /\ ~Room(mem, 1)
  <2>1. /\ pc' = "panic" /\ UNCHANGED <<mem, ret, rest, copy>>
    BY <1>4 DEF Call, Panic, walk
  <2> QED BY <1>1, <1>2, <2>1 DEF IInv, TypeOK, Kept, Walking, Counted, LeavesLittle
<1>5. CASE ~Nameless(Stripped(p)) /\ Room(mem, 1)
  <2> DEFINE n == Fresh(mem)
  <2>1. n \in Objects /\ n \notin DOMAIN mem
    BY <1>1, <1>5, FreshFree
  <2>2. /\ pc' = "walk" /\ rest' = Stripped(p) /\ dir' = RootHandle /\ copy' = n
        /\ mem' = PutAt(mem, n, "path") /\ ret' = ret
    BY <1>5 DEF Call, Put
  <2> HIDE DEF n
  <2>3. /\ DOMAIN mem' = DOMAIN mem \cup {n}
        /\ \A i \in DOMAIN mem : mem'[i] = mem[i]
    <3>1. /\ DOMAIN PutAt(mem, n, "path") = DOMAIN mem \cup {n}
          /\ \A i \in DOMAIN mem : i # n => PutAt(mem, n, "path")[i] = mem[i]
      BY DEF PutAt
    <3> QED BY <2>1, <2>2, <3>1
  <2>4. rest' \in Seq(Names) /\ Len(rest') > 0
    BY <2>2, StrippedType
  <2>5. TypeOK'
    BY <1>1, <1>2, <2>1, <2>2, <2>3, <2>4 DEF TypeOK, Objects
  <2>6. Kept' /\ Walking'
    BY <1>1, <2>1, <2>2, <2>3, <2>4 DEF Kept, Walking, Unshared
  <2>7. Counted'
    <3>1. /\ Unowned(mem', open') = Unowned(mem, open) \cup {n}
          /\ n \notin Unowned(mem, open)
      BY <1>1, <2>1, <2>3 DEF Unowned, Kept
    <3> QED BY <1>1, <1>2, <2>2, <3>1, Counts DEF Counted
  <2> QED BY <2>2, <2>5, <2>6, <2>7 DEF IInv, LeavesLittle
<1> QED BY <1>3, <1>4, <1>5

LEMMA CloseStep ==
  ASSUME IInv, NEW h \in open, Close(h)
  PROVE  IInv'
<1>1. /\ pc' = "idle" /\ open' = open \ {h} /\ mem' = Without(mem, h.data)
      /\ UNCHANGED <<rest, copy, ret, asked, before, failed>>
  BY DEF Close, walk, thisCall
<1>2. /\ DOMAIN mem' = DOMAIN mem \ {h.data}
      /\ \A i \in DOMAIN mem \ {h.data} : mem'[i] = mem[i]
  BY <1>1, WithoutIs
<1>3. TypeOK'
  BY <1>1, <1>2 DEF IInv, TypeOK
<1>4. Kept'
  BY <1>1, <1>2 DEF IInv, Kept
<1> QED BY <1>1, <1>3, <1>4 DEF IInv, Walking, Counted, LeavesLittle

(* tdir1 given up: its object is gone, unless it was the root.             *)
LEMMA ClosedIs ==
  ASSUME NEW m
  PROVE  LET gone == IF dir = RootHandle THEN {} ELSE {dir.data}
         IN  /\ DOMAIN Closed(m) = DOMAIN m \ gone
             /\ \A i \in DOMAIN m \ gone : Closed(m)[i] = m[i]
BY WithoutIs DEF Closed

LEMMA TrailStep ==
  ASSUME IInv, Trail
  PROVE  IInv'
<1> DEFINE gone == IF dir = RootHandle THEN {} ELSE {dir.data}
<1>1. /\ pc = "walk" /\ pc' = "done" /\ ret' = 0 /\ mem' = Closed(mem)
      /\ UNCHANGED <<open, rest, copy, asked, before, failed>>
  BY DEF Trail, Return, walk, thisCall
<1>2. /\ DOMAIN mem' = DOMAIN mem \ gone
      /\ \A i \in DOMAIN mem \ gone : mem'[i] = mem[i]
  BY <1>1, ClosedIs
<1>3. \A h \in open : h.data \notin gone
  BY <1>1 DEF IInv, Walking, Unshared
<1>4. TypeOK'
  BY <1>1, <1>2 DEF IInv, TypeOK
<1>5. Kept'
  BY <1>1, <1>2, <1>3 DEF IInv, Kept
<1>6. LeavesLittle'
  <2>1. DOMAIN mem \subseteq Objects /\ before \in Nat
    BY DEF IInv, TypeOK
  <2>2. Unowned(mem', open') = Unowned(mem, open) \ gone
    BY <1>1, <1>2 DEF Unowned
  <2>3. Cardinality(Unowned(mem, open)) = before + (IF dir = RootHandle THEN 1 ELSE 2)
    BY <1>1 DEF IInv, Counted
  <2>4. dir # RootHandle => dir.data \in Unowned(mem, open)
    BY <1>1 DEF IInv, Walking, Unshared, Unowned
  <2>5. Cardinality(Unowned(mem', open')) = before + 1
    <3>1. CASE dir = RootHandle
      <4>1. Unowned(mem', open') = Unowned(mem, open)
        BY <2>2, <3>1
      <4> QED BY <2>3, <3>1, <4>1
    <3>2. CASE dir # RootHandle
      <4>1. Unowned(mem', open') = Unowned(mem, open) \ {dir.data}
        BY <2>2, <3>2
      <4> QED BY <2>1, <2>3, <2>4, <3>2, <4>1, UnownedFinite, Counts
    <3> QED BY <3>1, <3>2
  <2> QED BY <1>1, <2>1, <2>5 DEF LeavesLittle
<1> QED BY <1>1, <1>4, <1>5, <1>6 DEF IInv, Walking, Counted

(* What was found is put where nothing is. *)
LEMMA PoppedIs ==
  ASSUME IInv, NEW e, Room(mem, Needs)
  PROVE  /\ Data \in Objects /\ Data \notin DOMAIN mem
         /\ DOMAIN Popped(e) = DOMAIN mem \cup {Data}
         /\ Popped(e)[Data] = e.file
         /\ \A i \in DOMAIN mem : Popped(e)[i] = mem[i]
<1> DEFINE n == Data
<1>1. n \in Objects /\ n \notin DOMAIN mem
  BY DataFree DEF IInv, TypeOK
<1>2. Popped(e) = PutAt(mem, n, e.file)
  BY DEF Popped
<1> HIDE DEF n
<1>3. /\ DOMAIN Popped(e) = DOMAIN mem \cup {n} /\ Popped(e)[n] = e.file
      /\ \A i \in DOMAIN mem : Popped(e)[i] = mem[i]
  BY <1>1, <1>2 DEF PutAt
<1> QED BY <1>1, <1>3 DEF n

(* Found and Enter: from the memory with what was found in it, the         *)
(* directory searched is given up.                                         *)
LEMMA MovedOn ==
  ASSUME IInv, pc = "walk", NEW e, Room(mem, Needs), mem' = Closed(Popped(e))
  PROVE  /\ DOMAIN mem' \subseteq Objects
         /\ Data \in DOMAIN mem' /\ mem'[Data] = e.file /\ Data \notin DOMAIN mem
         /\ copy \in DOMAIN mem' /\ copy # Data
         /\ \A h \in open : h.data \in DOMAIN mem' /\ mem'[h.data] = h.file
         /\ DOMAIN mem' \subseteq DOMAIN mem \cup {Data}
         /\ Cardinality(Unowned(mem', open) \ {Data}) = before + 1
         /\ Cardinality(Unowned(mem', open)) = before + 2
<1> DEFINE gone == IF dir = RootHandle THEN {} ELSE {dir.data}
           n == Data
           U == Unowned(mem, open)
           V == Unowned(mem', open)
<1>1. /\ n \in Objects /\ n \notin DOMAIN mem /\ DOMAIN mem \subseteq Objects
      /\ DOMAIN mem' = (DOMAIN mem \cup {n}) \ gone
      /\ \A i \in DOMAIN mem' : mem'[i] = IF i = n THEN e.file ELSE mem[i]
  <2>1. /\ DOMAIN mem' = DOMAIN Popped(e) \ gone
        /\ \A i \in DOMAIN Popped(e) \ gone : mem'[i] = Popped(e)[i]
    BY ClosedIs
  <2>2. DOMAIN mem \subseteq Objects
    BY DEF IInv, TypeOK
  <2>3. /\ n \in Objects /\ n \notin DOMAIN mem
        /\ DOMAIN Popped(e) = DOMAIN mem \cup {n}
        /\ Popped(e)[n] = e.file
        /\ \A i \in DOMAIN mem : Popped(e)[i] = mem[i]
    BY PoppedIs
  <2> HIDE DEF n, gone
  <2> QED BY <2>1, <2>2, <2>3
<1>2. /\ gone \subseteq DOMAIN mem /\ copy \in DOMAIN mem /\ copy \notin gone
      /\ \A h \in open : h.data \in DOMAIN mem /\ h.data \notin gone
                        /\ mem[h.data] = h.file
      /\ gone \subseteq U
  BY DEF IInv, Walking, Unshared, Kept, Unowned
<1>3. /\ Cardinality(U) = before + (IF dir = RootHandle THEN 1 ELSE 2)
      /\ before \in Nat /\ IsFiniteSet(U)
  BY UnownedFinite DEF IInv, TypeOK, Counted
<1>4. Cardinality(U \ gone) = before + 1 /\ IsFiniteSet(U \ gone)
  <2>1. CASE dir = RootHandle
    <3>1. U \ gone = U
      BY <2>1
    <3> QED BY <1>3, <2>1, <3>1
  <2>2. CASE dir # RootHandle
    <3> DEFINE d == dir.data
    <3>1. U \ gone = U \ {d} /\ d \in U
      BY <1>2, <2>2
    <3> HIDE DEF d, U, gone
    <3>2. Cardinality(U \ {d}) = Cardinality(U) - 1 /\ IsFiniteSet(U \ {d})
      BY <1>3, <3>1, FS_RemoveElement
    <3>3. Cardinality(U) = before + 2 /\ Cardinality(U) - 1 = before + 1
      BY <1>3, <2>2
    <3>4. Cardinality(U \ {d}) = before + 1
      BY <3>2, <3>3, Zenon
    <3> QED BY <3>1, <3>2, <3>4, Zenon
  <2> QED BY <2>1, <2>2
<1>5. V = (U \ gone) \cup {n} /\ n \notin U \ gone /\ V \ {n} = U \ gone
  <2>1. V = DOMAIN mem' \ {h.data : h \in open} /\ U = DOMAIN mem \ {h.data : h \in open}
    BY DEF Unowned
  <2>2. n \notin {h.data : h \in open} /\ n \notin gone /\ n \notin U
    BY <1>1, <1>2, <2>1
  <2> HIDE DEF U, V, n, gone
  <2> QED BY <1>1, <2>1, <2>2
<1> DEFINE S == U \ gone
<1>6. Cardinality(V) = before + 2
  <2>1. V = S \cup {n} /\ n \notin S /\ Cardinality(S) = before + 1 /\ IsFiniteSet(S)
    BY <1>4, <1>5
  <2> HIDE DEF S, V, n, U, gone
  <2>2. Cardinality(S \cup {n}) = Cardinality(S) + 1
    BY <2>1, Counts
  <2> QED BY <1>3, <2>1, <2>2
<1>7. Cardinality(V \ {n}) = before + 1
  BY <1>4, <1>5
<1> HIDE DEF gone, n, U, V
<1>8. /\ n \in DOMAIN mem' /\ mem'[n] = e.file /\ copy \in DOMAIN mem' /\ copy # n
      /\ DOMAIN mem' \subseteq Objects /\ DOMAIN mem' \subseteq DOMAIN mem \cup {n}
  BY <1>1, <1>2
<1>9. \A h \in open : h.data \in DOMAIN mem' /\ mem'[h.data] = h.file
  BY <1>1, <1>2
<1> QED BY <1>1, <1>6, <1>7, <1>8, <1>9 DEF n, V

LEMMA FoundStep ==
  ASSUME IInv, pc = "walk", NEW e, Room(mem, Needs), Found(e),
         UNCHANGED <<asked, before>>, failed' \in BOOLEAN
  PROVE  IInv'
<1> DEFINE n == Data
           new == [file |-> e.file, data |-> n]
<1>1. /\ pc' = "done" /\ ret' = 0 /\ mem' = Closed(Popped(e))
      /\ open' = open \cup {new} /\ rest' = rest /\ copy' = copy
  BY DEF Found, Return, walk
<1>2. /\ DOMAIN mem' \subseteq Objects /\ n \in DOMAIN mem' /\ mem'[n] = e.file
      /\ \A h \in open : h.data \in DOMAIN mem' /\ mem'[h.data] = h.file
      /\ Cardinality(Unowned(mem', open) \ {n}) = before + 1
  BY <1>1, MovedOn
<1>3. \A h \in open : h.data # n
  BY <1>1, MovedOn DEF IInv, Kept
<1>4. new.data = n /\ new.file = e.file
  OBVIOUS
<1>5. TypeOK'
  BY <1>1, <1>2 DEF IInv, TypeOK
<1>6. Unowned(mem', open') = Unowned(mem', open) \ {n}
  <2>1. {h.data : h \in open \cup {new}} = {h.data : h \in open} \cup {n}
    BY <1>4
  <2> HIDE DEF n, new
  <2> QED BY <1>1, <2>1 DEF Unowned
<1> HIDE DEF n, new
<1>7. Kept'
  BY <1>1, <1>2, <1>3, <1>4 DEF IInv, Kept
<1>8. LeavesLittle'
  <2>1. before \in Nat /\ before' = before
    BY DEF IInv, TypeOK
  <2>2. Cardinality(Unowned(mem', open')) = before + 1
    BY <1>2, <1>6
  <2> QED BY <1>1, <2>1, <2>2 DEF LeavesLittle
<1> QED BY <1>1, <1>5, <1>7, <1>8 DEF IInv, Walking, Counted

LEMMA EnterStep ==
  ASSUME IInv, pc = "walk", Len(rest) # 1, NEW e, Room(mem, Needs), Enter(e),
         UNCHANGED <<asked, before>>, failed' \in BOOLEAN
  PROVE  IInv'
<1> DEFINE n == Data
<1>1. /\ mem' = Closed(Popped(e)) /\ dir' = [file |-> e.file, data |-> n]
      /\ rest' = Tail(rest) /\ UNCHANGED <<open, pc, copy, ret>>
  BY DEF Enter
<1>2. /\ DOMAIN mem' \subseteq Objects /\ n \in DOMAIN mem' /\ mem'[n] = e.file
      /\ \A h \in open : h.data \in DOMAIN mem' /\ mem'[h.data] = h.file
      /\ copy \in DOMAIN mem' /\ copy # n
      /\ Cardinality(Unowned(mem', open)) = before + 2
  BY <1>1, MovedOn
<1>3. \A h \in open : h.data # n /\ h.data # copy
  BY <1>1, MovedOn DEF IInv, Kept, Walking, Unshared
<1>4. rest' \in Seq(Names) /\ Len(rest') > 0
  <2>1. rest \in Seq(Names) /\ Len(rest) > 0
    BY DEF IInv, Walking, TypeOK
  <2>2. Len(rest) \in Nat /\ rest # <<>>
    BY <2>1, LenProperties, EmptySeq
  <2>3. Tail(rest) \in Seq(Names) /\ Len(Tail(rest)) = Len(rest) - 1
    BY <2>1, <2>2, HeadTailProperties
  <2> QED BY <1>1, <2>1, <2>2, <2>3
<1>5. dir' # RootHandle /\ dir'.data = n /\ dir'.file = e.file
  <2>1. n # 0
    BY <1>2 DEF Objects
  <2> HIDE DEF n
  <2> QED BY <1>1, <2>1 DEF RootHandle
<1> HIDE DEF n
<1>6. TypeOK'
  BY <1>1, <1>2, <1>4 DEF IInv, TypeOK
<1>7. Kept' /\ Walking'
  BY <1>1, <1>2, <1>3, <1>4, <1>5 DEF IInv, Kept, Walking, Unshared
<1>8. Counted' /\ LeavesLittle'
  BY <1>1, <1>2, <1>5 DEF Counted, LeavesLittle
<1> QED BY <1>6, <1>7, <1>8 DEF IInv

(* A search that fails gives the copy of the path back, and nothing else.  *)
LEMMA FailStep ==
  ASSUME IInv, pc = "walk", NEW m, NEW X, DOMAIN m = DOMAIN mem \cup X,
         \/ X = {}
         \/ \E i \in Objects : i \notin DOMAIN mem /\ X = {i},
         \A i \in DOMAIN mem : m[i] = mem[i],
         Fail(m), UNCHANGED <<asked, before>>, failed' \in BOOLEAN
  PROVE  IInv'
<1> DEFINE U == Unowned(mem, open)
           V == Unowned(mem', open')
<1>1. /\ pc' = "done" /\ ret' = -1 /\ mem' = Without(m, copy)
      /\ UNCHANGED <<open, rest, copy>>
  BY DEF Fail, Return, walk
<1>2. /\ DOMAIN mem' = (DOMAIN mem \cup X) \ {copy}
      /\ \A i \in DOMAIN mem \ {copy} : mem'[i] = mem[i]
  <2>1. PICK c : c = copy
    OBVIOUS
  <2>2. /\ DOMAIN Without(m, c) = (DOMAIN mem \cup X) \ {c}
        /\ \A i \in DOMAIN mem \ {c} : Without(m, c)[i] = mem[i]
    BY WithoutIs, ZenonT(60)
  <2> QED BY <1>1, <2>1, <2>2, Zenon
<1>3. /\ DOMAIN mem \subseteq Objects /\ before \in Nat /\ X \subseteq Objects
      /\ copy \in DOMAIN mem /\ \A h \in open : h.data # copy /\ h.data \in DOMAIN mem
  BY DEF IInv, TypeOK, Kept, Walking, Unshared
<1>4. TypeOK'
  BY <1>1, <1>2, <1>3 DEF IInv, TypeOK
<1>5. Kept'
  BY <1>1, <1>2, <1>3 DEF IInv, Kept
<1>6. /\ Cardinality(U) = before + (IF dir = RootHandle THEN 1 ELSE 2)
      /\ IsFiniteSet(U)
  BY <1>3, UnownedFinite DEF IInv, Counted
<1>7. V = (U \ {copy}) \cup X /\ copy \in U
  BY <1>1, <1>2, <1>3 DEF Unowned
<1>8. \A i : i \notin DOMAIN mem => i \notin U
  BY DEF Unowned
<1> DEFINE S == U \ {copy}
<1> HIDE DEF U, V
<1>9. Cardinality(S) = Cardinality(U) - 1 /\ IsFiniteSet(S)
  BY <1>6, <1>7, FS_RemoveElement
<1>10. Cardinality(S) \in before .. before + 1
  BY <1>3, <1>6, <1>9
<1>11. Cardinality(V) \in before .. before + 2
  <2>1. CASE X = {}
    <3>1. V = S
      BY <1>7, <2>1
    <3> QED BY <1>3, <1>10, <3>1
  <2>2. ASSUME NEW i \in Objects, i \notin DOMAIN mem, X = {i}
        PROVE  Cardinality(V) \in before .. before + 2
    <3>1. V = S \cup {i} /\ i \notin S
      BY <1>7, <1>8, <2>2
    <3> HIDE DEF S
    <3>2. Cardinality(V) = Cardinality(S) + 1
      BY <1>9, <3>1, FS_AddElement
    <3> QED BY <1>3, <1>10, <3>2
  <2> QED BY <2>1, <2>2
<1>12. LeavesLittle'
  BY <1>1, <1>3, <1>11 DEF LeavesLittle, V
<1> QED BY <1>1, <1>4, <1>5, <1>12 DEF IInv, Walking, Counted

LEMMA FindCases ==
  ASSUME NEW seen, Find(seen)
  PROVE  /\ pc = "walk" /\ UNCHANGED <<asked, before>> /\ failed' \in BOOLEAN
         /\ \/ Panic \/ Fail(mem)
            \/ \E e : /\ Room(mem, Needs)
                     /\ \/ Found(e) \/ Fail(Popped(e))
                        \/ Len(rest) # 1 /\ Enter(e)
<1> DEFINE t == Target(Holds(mem, dir), Head(rest), seen)
           b == t = {} /\ seen < Len(Medium[Holds(mem, dir)])
<1>1. /\ pc = "walk" /\ failed' = b /\ UNCHANGED <<asked, before>>
      /\ IF ~Room(mem, Needs) THEN Panic
         ELSE \/ t = {} /\ Fail(mem)
              \/ \E e \in t : IF Len(rest) = 1 THEN Found(e)
                              ELSE IF e.kind = "dir" THEN Enter(e)
                              ELSE Fail(Popped(e))
  BY DEF Find
<1>2. b \in BOOLEAN
  OBVIOUS
<1> HIDE DEF t, b
<1> QED BY <1>1, <1>2

LEMMA FindStep ==
  ASSUME IInv, NEW seen, Find(seen)
  PROVE  IInv'
<1>1. pc = "walk" /\ UNCHANGED <<asked, before>> /\ failed' \in BOOLEAN
  BY FindCases
<1>2. CASE Panic
  <2>1. pc' = "panic" /\ UNCHANGED <<mem, open, rest, copy, ret, asked, before>>
    BY <1>1, <1>2 DEF Panic, walk
  <2> QED BY <1>1, <2>1
          DEF IInv, TypeOK, Kept, Walking, Counted, LeavesLittle
<1>3. CASE Fail(mem)
  <2>1. DOMAIN mem = DOMAIN mem \cup {} /\ \A i \in DOMAIN mem : mem[i] = mem[i]
    OBVIOUS
  <2> QED BY <1>1, <1>3, <2>1, FailStep
<1>4. ASSUME NEW e, Room(mem, Needs), Fail(Popped(e)) PROVE IInv'
  <2> DEFINE n == Data
             X == {n}
  <2>1. /\ n \in Objects /\ n \notin DOMAIN mem
        /\ DOMAIN Popped(e) = DOMAIN mem \cup X
        /\ \A i \in DOMAIN mem : Popped(e)[i] = mem[i]
    BY <1>4, PoppedIs
  <2>2. \E i \in Objects : i \notin DOMAIN mem /\ X = {i}
    BY <2>1
  <2> HIDE DEF X, n
  <2> QED BY <1>1, <1>4, <2>1, <2>2, FailStep
<1>5. ASSUME NEW e, Room(mem, Needs), Found(e) PROVE IInv'
  BY <1>1, <1>5, FoundStep
<1>6. ASSUME NEW e, Room(mem, Needs), Len(rest) # 1, Enter(e) PROVE IInv'
  BY <1>1, <1>6, EnterStep
<1> QED BY <1>2, <1>3, <1>4, <1>5, <1>6, FindCases

LEMMA NextIInv == IInv /\ [Next]_vars => IInv'
<1> SUFFICES ASSUME IInv, [Next]_vars PROVE IInv'
  OBVIOUS
<1>1. CASE UNCHANGED vars
  BY <1>1 DEF vars, walk, thisCall, IInv, TypeOK, Kept, Walking, Unshared,
              Counted, LeavesLittle
<1>2. ASSUME NEW p \in Paths, Call(p) PROVE IInv'
  BY <1>2, CallStep
<1>3. ASSUME NEW seen, Find(seen) PROVE IInv'
  BY <1>3, FindStep
<1>4. CASE Trail
  BY <1>4, TrailStep
<1>5. ASSUME NEW h \in open, Close(h) PROVE IInv'
  BY <1>5, CloseStep
<1> QED BY <1>1, <1>2, <1>3, <1>4, <1>5 DEF Next

LEMMA Invariance == Spec => []IInv
<1> QED BY InitIInv, NextIInv, PTL DEF Spec

------------------------------------------------------------------------------
(* fs.c:8-66: the walk always has a name left to look up or the empty one  *)
(* after a last separator, and the copy of the path it reads from is       *)
(* allocated.                                                              *)
THEOREM TypeCorrect == Spec => []TypeOK
<1>1. IInv => TypeOK
  BY DEF IInv
<1> QED BY <1>1, Invariance, PTL

(* fs.c:27-48, fat.c:328-350, 408-418: for every tree of directories, path *)
(* and order of opens and closes, a directory on the way is closed once    *)
(* and only when its successor has memory of its own, so no handle ever    *)
(* loses its data or shares it.                                            *)
THEOREM HandlesKeepData == Spec => []HandlesIntact
<1>1. IInv => HandlesIntact
  <2> SUFFICES ASSUME IInv PROVE HandlesIntact
    OBVIOUS
  <2> DEFINE used == IF pc = "walk" THEN open \cup {dir} ELSE open
  <2>1. \A h \in open : /\ h.data \in DOMAIN mem /\ mem[h.data] = h.file
                        /\ h.data # 0 /\ h # RootHandle
    <3>1. 0 \notin DOMAIN mem /\ RootHandle.data = 0
      BY DEF IInv, TypeOK, Objects, RootHandle
    <3> QED BY <3>1 DEF IInv, Kept
  <2>2. \A g, h \in open : g.data = h.data => g = h
    BY DEF IInv, Kept
  <2>3. pc = "walk" /\ dir # RootHandle =>
          /\ dir.data \in DOMAIN mem /\ mem[dir.data] = dir.file
          /\ \A h \in open : h.data # dir.data
    BY DEF IInv, Walking, Unshared
  <2>4. RootHandle.data = 0 /\ RootHandle.file = Root
    BY DEF RootHandle
  <2>5. \A h \in used : Holds(mem, h) = h.file
    BY <2>1, <2>3, <2>4 DEF Holds
  <2>6. \A g, h \in used : g.data = h.data => g = h
    BY <2>1, <2>2, <2>3, <2>4
  <2> QED BY <2>5, <2>6 DEF HandlesIntact
<1> QED BY <1>1, Invariance, PTL

(* fs.c:39-66: a call leaves one object behind that no handle owns when it *)
(* succeeds and at most two when it fails, however deep the path and       *)
(* wherever a read of the medium failed.                                   *)
THEOREM CallsLeaveLittle == Spec => []LeavesLittle
<1>1. IInv => LeavesLittle
  BY DEF IInv
<1> QED BY <1>1, Invariance, PTL

------------------------------------------------------------------------------
(***************************************************************************)
(* Comparing names.  What a comparison or a walk computes is defined by    *)
(* recursion on a position; a set of numbers that has 0 and the successor  *)
(* of each of its members is all the induction they need.                  *)
(***************************************************************************)
HIDE FindAssumption

LEMMA Induction ==
  ASSUME NEW S, 0 \in S, \A k \in Nat : k \in S => k + 1 \in S
  PROVE  \A k \in Nat : k \in S
<1> DEFINE T == {k \in Nat : k \notin S}
<1> SUFFICES ASSUME T # {} PROVE FALSE
  OBVIOUS
<1>1. PICK k \in T : \A j \in T : k <= j
  BY Least
<1>2. k # 0 /\ k - 1 \in Nat /\ k - 1 \notin T
  BY <1>1
<1>3. k - 1 \in S /\ (k - 1) + 1 = k
  BY <1>2
<1> QED BY <1>1, <1>2, <1>3

(* One character of the comparison. *)
Stepped(f, name, p, j) ==
  IF p = 0 THEN 0
  ELSE IF name[j] = "." THEN SkipBlanks(f, p)
  ELSE IF CharAt(f, p) = name[j] THEN p + 1 ELSE 0

Runs(f, name, n, A) ==
  A = [j \in 0 .. n |-> IF j = 0 THEN 1 ELSE Stepped(f, name, A[j - 1], j)]

LEMMA RunsOn ==
  ASSUME NEW f, NEW name, NEW n \in Nat, NEW A, Runs(f, name, n, A)
  PROVE  \E B : Runs(f, name, n + 1, B)
<1> DEFINE x == Stepped(f, name, A[n], n + 1)
           B == [j \in 0 .. n + 1 |-> IF j = n + 1 THEN x ELSE A[j]]
<1>1. A[0] = 1 /\ \A j \in 0 .. n : j # 0 => A[j] = Stepped(f, name, A[j - 1], j)
  BY DEF Runs
<1>2. ASSUME NEW j \in 0 .. n + 1
      PROVE  B[j] = IF j = 0 THEN 1 ELSE Stepped(f, name, B[j - 1], j)
  <2>1. CASE j = 0
    BY <1>1, <2>1
  <2>2. CASE j = n + 1
    <3>1. B[j - 1] = A[n]
      BY <2>2
    <3>2. B[j] = x /\ j # 0
      BY <2>2
    <3> QED BY <2>2, <3>1, <3>2
  <2>3. CASE j # 0 /\ j # n + 1
    <3>1. j \in 0 .. n /\ j - 1 \in 0 .. n + 1 /\ j - 1 # n + 1
      BY <2>3
    <3>2. B[j] = A[j] /\ B[j - 1] = A[j - 1]
      BY <2>3, <3>1
    <3> QED BY <1>1, <2>3, <3>1, <3>2
  <2> QED BY <2>1, <2>2, <2>3
<1> DEFINE C == [j \in 0 .. n + 1 |-> IF j = 0 THEN 1 ELSE Stepped(f, name, B[j - 1], j)]
<1>3. B = C
  <2>1. \A j \in 0 .. n + 1 : B[j] = C[j]
    BY <1>2
  <2>2. DOMAIN B = 0 .. n + 1 /\ DOMAIN C = 0 .. n + 1
    OBVIOUS
  <2>3. B = [j \in 0 .. n + 1 |-> B[j]] /\ C = [j \in 0 .. n + 1 |-> C[j]]
    OBVIOUS
  <2> HIDE DEF B, C
  <2> QED BY <2>1, <2>3
<1> QED BY <1>3 DEF Runs

LEMMA RunExists ==
  ASSUME NEW f, NEW name, NEW n \in Nat
  PROVE  \E A : Runs(f, name, n, A)
<1> DEFINE S == {k \in Nat : \E A : Runs(f, name, k, A)}
<1>1. 0 \in S
  <2> DEFINE A == [j \in 0 .. 0 |-> 1]
  <2>1. A = [j \in 0 .. 0 |-> IF j = 0 THEN 1 ELSE Stepped(f, name, A[j - 1], j)]
    OBVIOUS
  <2>2. Runs(f, name, 0, A)
    BY <2>1 DEF Runs
  <2> QED BY <2>2
<1>2. \A k \in Nat : k \in S => k + 1 \in S
  BY RunsOn
<1> HIDE DEF S
<1>3. n \in S
  BY <1>1, <1>2, Induction
<1> QED BY <1>3 DEF S

LEMMA ComparedRuns ==
  ASSUME NEW f, NEW name, Len(name) \in Nat
  PROVE  \E A : Runs(f, name, Len(name), A) /\ Compared(f, name) = A[Len(name)]
<1> DEFINE C == CHOOSE A : A = [j \in 0 .. Len(name) |->
                  IF j = 0 THEN 1
                  ELSE IF A[j - 1] = 0 THEN 0
                  ELSE IF name[j] = "." THEN SkipBlanks(f, A[j - 1])
                  ELSE IF CharAt(f, A[j - 1]) = name[j] THEN A[j - 1] + 1 ELSE 0]
<1>1. Compared(f, name) = C[Len(name)]
  BY DEF Compared
<1>2. C = CHOOSE A : Runs(f, name, Len(name), A)
  BY Zenon DEF Runs, Stepped
<1> HIDE DEF C
<1>3. Runs(f, name, Len(name), C)
  BY <1>2, RunExists
<1> QED BY <1>1, <1>3

Steps(f, name, n, A) ==
  A[0] = 1 /\ \A j \in 1 .. n : A[j] = Stepped(f, name, A[j - 1], j)

LEMMA RunIs ==
  ASSUME NEW f, NEW name, NEW n \in Nat, NEW A, Runs(f, name, n, A)
  PROVE  Steps(f, name, n, A)
BY DEF Runs, Steps

(* A comparison that has failed goes on failing. *)
LEMMA StaysFailed ==
  ASSUME NEW f, NEW name, NEW n \in Nat, NEW A, Runs(f, name, n, A),
         NEW j \in 0 .. n, A[j] = 0
  PROVE  A[n] = 0
<1> DEFINE S == {k \in Nat : j + k <= n => A[j + k] = 0}
<1>1. 0 \in S
  OBVIOUS
<1>2. ASSUME NEW k \in Nat, k \in S PROVE k + 1 \in S
  <2> SUFFICES ASSUME j + (k + 1) <= n PROVE A[j + (k + 1)] = 0
    OBVIOUS
  <2>1. A[j + k] = 0
    BY <1>2
  <2> DEFINE i == j + (k + 1)
  <2>2. i \in 1 .. n /\ i - 1 = j + k
    OBVIOUS
  <2> HIDE DEF i
  <2>3. A[i] = Stepped(f, name, A[i - 1], i)
    BY <2>2, RunIs DEF Steps
  <2> QED BY <2>1, <2>2, <2>3 DEF Stepped, i
<1> HIDE DEF S
<1>3. \A k \in Nat : k \in S
  BY <1>1, <1>2, Induction
<1>4. n - j \in Nat /\ j + (n - j) = n
  OBVIOUS
<1>5. n - j \in S
  BY <1>3, <1>4
<1> QED BY <1>4, <1>5 DEF S

(* Letters are compared one by one. *)
Agree(f, p, name, j, k) == \A i \in 1 .. k : CharAt(f, p + i - 1) = name[j + i]

LEMMA LettersOn ==
  ASSUME NEW f, NEW name, NEW j \in Nat, NEW p \in Nat \ {0}, NEW k \in Nat,
         NEW i, i = j + (k + 1), name[i] # ".",
         NEW q, q = (IF Agree(f, p, name, j, k) THEN p + k ELSE 0)
  PROVE  Stepped(f, name, q, i) =
           IF Agree(f, p, name, j, k + 1) THEN p + (k + 1) ELSE 0
<1>1. CASE ~Agree(f, p, name, j, k)
  <2>1. q = 0
    BY <1>1
  <2>2. ~Agree(f, p, name, j, k + 1)
    BY <1>1 DEF Agree
  <2> QED BY <2>1, <2>2 DEF Stepped
<1>2. CASE Agree(f, p, name, j, k)
  <2>1. q = p + k /\ q \in Nat /\ q # 0 /\ p + (k + 1) - 1 = q
    BY <1>2
  <2>2. Stepped(f, name, q, i) = IF CharAt(f, q) = name[i] THEN q + 1 ELSE 0
    BY <2>1, Zenon DEF Stepped
  <2>3. Agree(f, p, name, j, k + 1) <=> CharAt(f, q) = name[i]
    <3>1. ASSUME CharAt(f, q) = name[i], NEW l \in 1 .. k + 1
          PROVE  CharAt(f, p + l - 1) = name[j + l]
      <4>1. CASE l = k + 1
        BY <2>1, <3>1, <4>1
      <4>2. CASE l \in 1 .. k
        BY <1>2, <4>2 DEF Agree
      <4> QED BY <4>1, <4>2
    <3>2. Agree(f, p, name, j, k + 1) => CharAt(f, q) = name[i]
      <4>1. k + 1 \in 1 .. k + 1
        OBVIOUS
      <4> QED BY <2>1, <4>1 DEF Agree
    <3> QED BY <3>1, <3>2 DEF Agree
  <2>4. p + (k + 1) = q + 1
    BY <2>1
  <2> QED BY <2>2, <2>3, <2>4, Zenon
<1> QED BY <1>1, <1>2

LEMMA Letters ==
  ASSUME NEW f, NEW name, NEW n \in Nat, NEW A, Runs(f, name, n, A),
         NEW j \in Nat, NEW m \in Nat, j + m <= n,
         \A i \in 1 .. m : name[j + i] # ".",
         NEW p \in Nat \ {0}, A[j] = p
  PROVE  A[j + m] = IF Agree(f, p, name, j, m) THEN p + m ELSE 0
<1> DEFINE S == {k \in Nat : k <= m =>
                   A[j + k] = IF Agree(f, p, name, j, k) THEN p + k ELSE 0}
<1>0. \A i \in 1 .. n : A[i] = Stepped(f, name, A[i - 1], i)
  BY RunIs DEF Steps
<1>1. 0 \in S
  <2>1. Agree(f, p, name, j, 0)
    BY DEF Agree
  <2> QED BY <2>1
<1>2. ASSUME NEW k \in Nat, k \in S PROVE k + 1 \in S
  <2> SUFFICES ASSUME k + 1 <= m
      PROVE A[j + (k + 1)] = IF Agree(f, p, name, j, k + 1) THEN p + (k + 1) ELSE 0
    OBVIOUS
  <2>1. A[j + k] = IF Agree(f, p, name, j, k) THEN p + k ELSE 0
    BY <1>2
  <2>2. k + 1 \in 1 .. m
    OBVIOUS
  <2>3. name[j + (k + 1)] # "."
    BY <2>2
  <2>4. PICK i \in 1 .. n : i = j + (k + 1) /\ i - 1 = j + k
    OBVIOUS
  <2>5. A[i] = Stepped(f, name, A[i - 1], i)
    BY <1>0
  <2>6. A[i] = Stepped(f, name, A[j + k], i) /\ name[i] # "."
    BY <2>3, <2>4, <2>5, Zenon
  <2> QED BY <2>1, <2>4, <2>6, LettersOn
<1> HIDE DEF S
<1>3. m \in S
  BY <1>1, <1>2, Induction
<1> QED BY <1>3 DEF S

LEMMA Sizes == BaseLen \in Nat /\ ExtLen \in Nat
BY FindAssumption

(* The characters of an entry as they lie on the medium. *)
Laid(f, e) ==
  /\ Len(f) = BaseLen + ExtLen + 1
  /\ \A i \in 1 .. Len(e.base) : f[i] = e.base[i]
  /\ \A i \in Len(e.base) + 1 .. BaseLen : f[i] = " "
  /\ \A i \in 1 .. Len(e.ext) : f[BaseLen + i] = e.ext[i]
  /\ \A i \in BaseLen + Len(e.ext) + 1 .. BaseLen + ExtLen : f[i] = " "
  /\ f[BaseLen + ExtLen + 1] = e.attr

LEMMA WordIs ==
  ASSUME NEW s, Word(s)
  PROVE  Len(s) \in Nat /\ DOMAIN s = 1 .. Len(s)
BY LenProperties DEF Word

LEMMA IsSeq ==
  ASSUME NEW S, NEW n \in Nat, NEW p \in [1 .. n -> S]
  PROVE  p \in Seq(S) /\ Len(p) = n
OBVIOUS

LEMMA PaddedIs ==
  ASSUME NEW s, Word(s), NEW n \in Nat
  PROVE  /\ \A S : {s[i] : i \in DOMAIN s} \cup {" "} \subseteq S =>
                     Padded(s, n) \in Seq(S)
         /\ Len(Padded(s, n)) = n
         /\ \A i \in 1 .. n : Padded(s, n)[i] = IF i <= Len(s) THEN s[i] ELSE " "
<1> DEFINE p == Padded(s, n)
<1>1. DOMAIN p = 1 .. n /\ \A i \in 1 .. n : p[i] = IF i <= Len(s) THEN s[i] ELSE " "
  BY DEF Padded
<1>2. Len(s) \in Nat /\ DOMAIN s = 1 .. Len(s)
  BY WordIs
<1>3. ASSUME NEW S, {s[i] : i \in DOMAIN s} \cup {" "} \subseteq S
      PROVE  p \in Seq(S) /\ Len(p) = n
  <2>1. ASSUME NEW i \in 1 .. n PROVE p[i] \in S
    <3>1. CASE i <= Len(s)
      <4>1. i \in DOMAIN s
        BY <1>2, <3>1
      <4>2. p[i] = s[i] /\ s[i] \in S
        BY <1>1, <1>3, <3>1, <4>1
      <4> QED BY <4>2
    <3>2. CASE ~(i <= Len(s))
      <4>1. p[i] = " " /\ " " \in S
        BY <1>1, <1>3, <3>2
      <4> QED BY <4>1
    <3> QED BY <3>1, <3>2
  <2>2. p = [i \in 1 .. n |-> p[i]]
    BY DEF Padded
  <2> HIDE DEF p
  <2>3. p \in [1 .. n -> S]
    BY <2>1, <2>2
  <2> QED BY <2>3, IsSeq
<1>4. Len(p) = n
  BY <1>3
<1> HIDE DEF p
<1> QED BY <1>1, <1>3, <1>4 DEF p

(* Two words and a character laid end to end. *)
Joined(f, p, q, c) == f = (p \o q) \o <<c>>

Parts(f, p, q, c) ==
  /\ Len(f) = Len(p) + Len(q) + 1
  /\ \A i \in 1 .. Len(p) : f[i] = p[i]
  /\ \A i \in 1 .. Len(q) : f[Len(p) + i] = q[i]
  /\ f[Len(p) + Len(q) + 1] = c

LEMMA EndToEnd ==
  ASSUME NEW S, NEW p \in Seq(S), NEW q \in Seq(S), NEW c \in S,
         NEW f, Joined(f, p, q, c)
  PROVE  Parts(f, p, q, c)
<1> DEFINE r == p \o q
           a == <<c>>
<1>0. f = r \o a
  BY DEF Joined
<1>1. PICK l \in Nat, m \in Nat : l = Len(p) /\ m = Len(q)
  BY LenProperties
<1>2. r \in Seq(S)
  BY ConcatProperties
<1>3. Len(r) = l + m
  BY <1>1, ConcatProperties
<1>4. \A i \in 1 .. l + m : r[i] = IF i <= l THEN p[i] ELSE q[i - l]
  BY <1>1, ConcatProperties
<1>5. a \in Seq(S) /\ Len(a) = 1 /\ a[1] = c
  OBVIOUS
<1> HIDE DEF r, a
<1>6. PICK n \in Nat : n = l + m
  BY <1>1
<1>7. Len(r) = n
  BY <1>3, <1>6
<1>8. Len(f) = n + 1
  <2>1. Len(f) = Len(r) + Len(a)
    BY <1>0, <1>2, <1>5, ConcatProperties
  <2> QED BY <1>5, <1>7, <2>1
<1>9. \A i \in 1 .. n + 1 : f[i] = IF i <= n THEN r[i] ELSE a[i - n]
  <2>0. \A i \in 1 .. Len(r) + Len(a) :
          (r \o a)[i] = IF i <= Len(r) THEN r[i] ELSE a[i - Len(r)]
    BY <1>2, <1>5, ConcatProperties
  <2>1. \A i \in 1 .. Len(r) + Len(a) : f[i] = IF i <= Len(r) THEN r[i] ELSE a[i - Len(r)]
    BY <1>0, <2>0, Zenon
  <2>2. Len(r) + Len(a) = n + 1
    BY <1>5, <1>7
  <2> QED BY <1>7, <2>1, <2>2, Zenon
<1>10. ASSUME NEW i \in 1 .. l PROVE f[i] = p[i]
  <2>1. i \in 1 .. n + 1 /\ i \in 1 .. l + m /\ i <= n /\ i <= l
    BY <1>6
  <2> QED BY <1>4, <1>9, <2>1
<1>11. ASSUME NEW i \in 1 .. m PROVE f[l + i] = q[i]
  <2>1. PICK k \in 1 .. n + 1 :
          k = l + i /\ k \in 1 .. l + m /\ k <= n /\ ~(k <= l) /\ k - l = i
    BY <1>6
  <2>2. f[k] = r[k] /\ r[k] = q[k - l]
    BY <1>4, <1>9, <2>1
  <2> QED BY <2>1, <2>2
<1>12. f[n + 1] = c
  <2>1. PICK k \in 1 .. n + 1 : k = n + 1 /\ ~(k <= n) /\ k - n = 1
    OBVIOUS
  <2>2. f[k] = a[k - n]
    BY <1>9, <2>1
  <2> QED BY <1>5, <2>1, <2>2
<1>13. l + m + 1 = n + 1
  BY <1>6
<1> QED BY <1>1, <1>8, <1>10, <1>11, <1>12, <1>13 DEF Parts

LEMMA OnDiskLaid ==
  ASSUME NEW e, Proper(e)
  PROVE  Laid(OnDisk(e), e)
<1> USE Sizes
<1> DEFINE p == Padded(e.base, BaseLen)
           q == Padded(e.ext, ExtLen)
           f == OnDisk(e)
           S == {e.base[i] : i \in DOMAIN e.base} \cup {e.ext[i] : i \in DOMAIN e.ext}
                  \cup {" ", e.attr}
<1>1. /\ p \in Seq(S) /\ Len(p) = BaseLen
      /\ \A i \in 1 .. BaseLen : p[i] = IF i <= Len(e.base) THEN e.base[i] ELSE " "
  <2>1. {e.base[i] : i \in DOMAIN e.base} \cup {" "} \subseteq S
    OBVIOUS
  <2> HIDE DEF S
  <2> QED BY <2>1, PaddedIs DEF Proper
<1>2. /\ q \in Seq(S) /\ Len(q) = ExtLen
      /\ \A i \in 1 .. ExtLen : q[i] = IF i <= Len(e.ext) THEN e.ext[i] ELSE " "
  <2>1. {e.ext[i] : i \in DOMAIN e.ext} \cup {" "} \subseteq S
    OBVIOUS
  <2> HIDE DEF S
  <2> QED BY <2>1, PaddedIs DEF Proper
<1>3. e.attr \in S /\ Joined(f, p, q, e.attr)
  BY DEF OnDisk, Joined
<1>4. PICK b \in 1 .. BaseLen, x \in 0 .. ExtLen : b = Len(e.base) /\ x = Len(e.ext)
  BY WordIs DEF Proper
<1> HIDE DEF p, q, f, S
<1>5. /\ Len(f) = BaseLen + ExtLen + 1
      /\ \A i \in 1 .. BaseLen : f[i] = p[i]
      /\ \A i \in 1 .. ExtLen : f[BaseLen + i] = q[i]
      /\ f[BaseLen + ExtLen + 1] = e.attr
  <2>1. p \in Seq(S) /\ q \in Seq(S) /\ Len(p) = BaseLen /\ Len(q) = ExtLen
    BY <1>1, <1>2
  <2>2. Parts(f, p, q, e.attr)
    BY <1>3, <2>1, EndToEnd
  <2> QED BY <2>1, <2>2 DEF Parts
<1>6. \A i \in 1 .. b : f[i] = e.base[i]
  <2> SUFFICES ASSUME NEW i \in 1 .. b PROVE f[i] = e.base[i]
    OBVIOUS
  <2>1. i \in 1 .. BaseLen /\ i <= b
    OBVIOUS
  <2>2. f[i] = p[i]
    BY <1>5, <2>1
  <2>3. p[i] = e.base[i]
    BY <1>1, <1>4, <2>1
  <2> QED BY <2>2, <2>3
<1>7. ASSUME NEW i \in b + 1 .. BaseLen PROVE f[i] = " "
  <2>1. i \in 1 .. BaseLen /\ ~(i <= b)
    OBVIOUS
  <2>2. f[i] = p[i]
    BY <1>5, <2>1
  <2>3. p[i] = " "
    BY <1>1, <1>4, <2>1
  <2> QED BY <2>2, <2>3
<1>8. ASSUME NEW i \in 1 .. x PROVE f[BaseLen + i] = e.ext[i]
  <2>1. i \in 1 .. ExtLen /\ i <= x
    OBVIOUS
  <2> QED BY <1>2, <1>4, <1>5, <2>1
<1>9. ASSUME NEW i \in BaseLen + x + 1 .. BaseLen + ExtLen PROVE f[i] = " "
  <2>1. PICK k \in 1 .. ExtLen : i = BaseLen + k /\ ~(k <= x)
    <3>1. /\ i - BaseLen \in 1 .. ExtLen /\ ~(i - BaseLen <= x)
          /\ i = BaseLen + (i - BaseLen)
      OBVIOUS
    <3> QED BY <3>1
  <2> QED BY <1>2, <1>4, <1>5, <2>1
<1> QED BY <1>4, <1>5, <1>6, <1>7, <1>8, <1>9 DEF Laid, f

LEMMA Order ==
  ASSUME NEW i \in Nat, NEW m \in Nat, NEW j \in i .. m, NEW k \in i .. m
  PROVE  j \in i .. k - 1 \/ k \in i .. j - 1 \/ j = k
OBVIOUS

(* The blanks from i on end before j. *)
BlanksEnd(f, i, j) ==
  CharAt(f, j) # " " /\ \A l \in i .. j - 1 : CharAt(f, l) = " "

LEMMA SkipIs ==
  ASSUME NEW f, Len(f) \in Nat, NEW i \in Nat, NEW k \in i .. Len(f) + 1,
         BlanksEnd(f, i, k)
  PROVE  SkipBlanks(f, i) = k
<1>1. \A j, l : BlanksEnd(f, i, j) /\ l \in i .. j - 1 => ~BlanksEnd(f, i, l)
  BY DEF BlanksEnd
<1>2. SkipBlanks(f, i) = CHOOSE j \in i .. Len(f) + 1 : BlanksEnd(f, i, j)
  BY DEF SkipBlanks, BlanksEnd
<1>3. Len(f) + 1 \in Nat
  OBVIOUS
<1>4. ASSUME NEW j \in i .. Len(f) + 1, BlanksEnd(f, i, j) PROVE j = k
  <2>1. j \in i .. k - 1 \/ k \in i .. j - 1 \/ j = k
    BY <1>3, Order, Zenon
  <2> QED BY <1>1, <1>4, <2>1, Zenon
<1> QED BY <1>2, <1>4

LEMMA ComparedWord ==
  ASSUME NEW f, NEW s, NEW n \in Nat, n = Len(s), \A i \in 1 .. n : s[i] # "."
  PROVE  Compared(f, s) = IF Agree(f, 1, s, 0, n) THEN 1 + n ELSE 0
<1>1. PICK A : Runs(f, s, n, A) /\ Compared(f, s) = A[n]
  BY ComparedRuns
<1>2. A[0] = 1
  BY <1>1, RunIs DEF Steps
<1>3. \A i \in 1 .. n : s[0 + i] # "."
  OBVIOUS
<1>4. A[0 + n] = IF Agree(f, 1, s, 0, n) THEN 1 + n ELSE 0
  BY <1>1, <1>2, <1>3, Letters
<1> QED BY <1>1, <1>4

LEMMA ComparedDotted ==
  ASSUME NEW f, NEW s, NEW n \in Nat, n = Len(s), NEW k \in 1 .. n, s[k] = ".",
         \A i \in 1 .. n : i # k => s[i] # ".",
         NEW q \in Nat \ {0}, Agree(f, 1, s, 0, k - 1) => SkipBlanks(f, k) = q
  PROVE  Compared(f, s) = IF Agree(f, 1, s, 0, k - 1) /\ Agree(f, q, s, k, n - k)
                          THEN q + (n - k) ELSE 0
<1>1. PICK A : Runs(f, s, n, A) /\ Compared(f, s) = A[n]
  BY ComparedRuns
<1>s. Steps(f, s, n, A)
  BY <1>1, RunIs
<1>2. A[0] = 1 /\ \A j \in 1 .. n : A[j] = Stepped(f, s, A[j - 1], j)
  BY <1>s DEF Steps
<1>3. A[k - 1] = IF Agree(f, 1, s, 0, k - 1) THEN k ELSE 0
  <2>1. PICK m \in Nat : m = k - 1 /\ 1 + m = k /\ 0 + m = m /\ 0 + m <= n
    OBVIOUS
  <2>2. \A i \in 1 .. m : s[0 + i] # "."
    BY <2>1
  <2>3. A[0 + m] = IF Agree(f, 1, s, 0, m) THEN 1 + m ELSE 0
    BY <1>1, <1>2, <2>1, <2>2, Letters
  <2> QED BY <2>1, <2>3, Zenon
<1>4. A[k] = Stepped(f, s, A[k - 1], k)
  BY <1>2
<1>5. CASE ~Agree(f, 1, s, 0, k - 1)
  <2>1. A[k] = 0
    BY <1>3, <1>4, <1>5 DEF Stepped
  <2>2. A[n] = 0
    <3>1. k \in 0 .. n
      OBVIOUS
    <3> QED BY <1>1, <2>1, <3>1, StaysFailed, SMTT(60)
  <2> QED BY <1>1, <1>5, <2>2
<1>6. CASE Agree(f, 1, s, 0, k - 1)
  <2>1. A[k] = q
    <3>1. A[k - 1] = k /\ k # 0
      BY <1>3, <1>6
    <3>2. A[k] = SkipBlanks(f, k)
      BY <1>4, <3>1, Zenon DEF Stepped
    <3> QED BY <1>6, <3>2
  <2>2. PICK m \in Nat : m = n - k /\ k + m = n /\ k + m <= n
    OBVIOUS
  <2>3. \A i \in 1 .. m : s[k + i] # "."
    BY <2>2
  <2>4. k \in Nat
    OBVIOUS
  <2>5. A[k + m] = IF Agree(f, q, s, k, m) THEN q + m ELSE 0
    BY <1>1, <2>1, <2>2, <2>3, <2>4, Letters
  <2>6. A[n] = IF Agree(f, q, s, k, m) THEN q + m ELSE 0
    BY <2>2, <2>5, Zenon
  <2> QED BY <1>1, <1>6, <2>2, <2>6, Zenon
<1> QED BY <1>5, <1>6

(* Nothing but blanks from i on. *)
Blank(f, i) == \A k \in i .. BaseLen + ExtLen : f[k] = " "

LEMMA MatchesWord ==
  ASSUME NEW f, NEW s, NEW n \in Nat, n = Len(s), \A i \in 1 .. n : s[i] # "."
  PROVE  Matches(f, s) <=> Agree(f, 1, s, 0, n) /\ Blank(f, 1 + n)
<1>1. Compared(f, s) = IF Agree(f, 1, s, 0, n) THEN 1 + n ELSE 0
  BY ComparedWord
<1>2. PICK m : m = 1 + n /\ m # 0
  OBVIOUS
<1> QED BY <1>1, <1>2 DEF Matches, Blank

LEMMA MatchesDotted ==
  ASSUME NEW f, NEW s, NEW n \in Nat, n = Len(s), NEW k \in 1 .. n, s[k] = ".",
         \A i \in 1 .. n : i # k => s[i] # ".",
         NEW q \in Nat \ {0}, Agree(f, 1, s, 0, k - 1) => SkipBlanks(f, k) = q
  PROVE  Matches(f, s) <=> /\ Agree(f, 1, s, 0, k - 1) /\ Agree(f, q, s, k, n - k)
                           /\ Blank(f, q + (n - k))
<1>1. Compared(f, s) = IF Agree(f, 1, s, 0, k - 1) /\ Agree(f, q, s, k, n - k)
                       THEN q + (n - k) ELSE 0
  BY ComparedDotted
<1>2. PICK m : m = q + (n - k) /\ m # 0
  OBVIOUS
<1> QED BY <1>1, <1>2 DEF Matches, Blank

(* What it takes for s to be an entry's name. *)
Plain(e, s) == Len(s) = Len(e.base) /\ \A i \in 1 .. Len(e.base) : s[i] = e.base[i]

Dotted(e, s) ==
  /\ Len(s) = Len(e.base) + 1 + Len(e.ext)
  /\ \A i \in 1 .. Len(e.base) : s[i] = e.base[i]
  /\ s[Len(e.base) + 1] = "."
  /\ \A i \in 1 .. Len(e.ext) : s[Len(e.base) + 1 + i] = e.ext[i]

LEMMA SameWord ==
  ASSUME NEW s, NEW t, Word(s), Word(t)
  PROVE  s = t <=> Len(s) = Len(t) /\ \A i \in 1 .. Len(s) : s[i] = t[i]
<1> DEFINE S == {s[i] : i \in DOMAIN s} \cup {t[i] : i \in DOMAIN t}
<1>1. s \in Seq(S) /\ t \in Seq(S)
  <2>1. /\ {s[i] : i \in DOMAIN s} \subseteq S /\ {t[i] : i \in DOMAIN t} \subseteq S
    OBVIOUS
  <2> HIDE DEF S
  <2> QED BY <2>1, SeqMonotonic DEF Word
<1> HIDE DEF S
<1> QED BY <1>1, SeqEqual

LEMMA NameIs ==
  ASSUME NEW e, NEW s, Proper(e), Word(s)
  PROVE  /\ e.ext = <<>> => (NameOf(e) = s <=> Plain(e, s))
         /\ e.ext # <<>> => (NameOf(e) = s <=> Dotted(e, s))
<1>1. Word(e.base) /\ Word(e.ext)
  BY DEF Proper
<1>2. PICK b \in Nat, x \in Nat : b = Len(e.base) /\ x = Len(e.ext)
  BY <1>1, WordIs
<1>3. CASE e.ext = <<>>
  <2>1. NameOf(e) = e.base \o <<>>
    BY <1>3 DEF NameOf
  <2>2. e.base \o <<>> = e.base
    BY <1>1, ConcatEmptySeq DEF Word
  <2>3. NameOf(e) = s <=> e.base = s
    BY <2>1, <2>2
  <2>4. e.base = s <=> /\ Len(e.base) = Len(s)
                       /\ \A i \in 1 .. Len(e.base) : e.base[i] = s[i]
    BY <1>1, SameWord, Zenon
  <2>5. Plain(e, s) <=> e.base = s
    BY <2>4, Zenon DEF Plain
  <2> QED BY <1>3, <2>3, <2>5
<1>4. CASE e.ext # <<>>
  <2> DEFINE S == {e.base[i] : i \in DOMAIN e.base} \cup {e.ext[i] : i \in DOMAIN e.ext}
                    \cup {"."}
             d == <<".">>
             r == d \o e.ext
             t == e.base \o r
  <2>1. e.base \in Seq(S) /\ e.ext \in Seq(S)
    <3>1. /\ {e.base[i] : i \in DOMAIN e.base} \subseteq S
          /\ {e.ext[i] : i \in DOMAIN e.ext} \subseteq S
      OBVIOUS
    <3> HIDE DEF S
    <3> QED BY <1>1, <3>1, SeqMonotonic DEF Word
  <2>2. d \in Seq(S) /\ Len(d) = 1 /\ d[1] = "."
    OBVIOUS
  <2>3. NameOf(e) = t
    BY <1>4 DEF NameOf
  <2> HIDE DEF S, d
  <2>4. r \in Seq(S) /\ Len(r) = 1 + x
    <3>1. r \in Seq(S) /\ Len(r) = Len(d) + Len(e.ext)
      BY <2>1, <2>2, ConcatProperties
    <3> QED BY <1>2, <2>2, <3>1, Zenon
  <2>5. r[1] = "." /\ \A i \in 1 .. x : r[1 + i] = e.ext[i]
    <3>0. \A i \in 1 .. Len(d) + Len(e.ext) :
            r[i] = IF i <= Len(d) THEN d[i] ELSE e.ext[i - Len(d)]
      BY <2>1, <2>2, ConcatProperties
    <3>1. \A i \in 1 .. 1 + x : r[i] = IF i <= 1 THEN d[i] ELSE e.ext[i - 1]
      BY <1>2, <2>2, <3>0, Zenon
    <3> HIDE DEF r
    <3>2. r[1] = "."
      BY <2>2, <3>1
    <3>3. ASSUME NEW i \in 1 .. x PROVE r[1 + i] = e.ext[i]
      <4>1. PICK k \in 1 .. 1 + x : k = 1 + i /\ ~(k <= 1) /\ k - 1 = i
        OBVIOUS
      <4>2. r[k] = e.ext[k - 1]
        BY <3>1, <4>1
      <4> QED BY <4>1, <4>2, Zenon
    <3> QED BY <3>2, <3>3
  <2> HIDE DEF r
  <2>a. b + (1 + x) = b + 1 + x
    OBVIOUS
  <2>6. t \in Seq(S) /\ Len(t) = b + 1 + x
    <3>1. t \in Seq(S) /\ Len(t) = Len(e.base) + Len(r)
      BY <2>1, <2>4, ConcatProperties
    <3> HIDE DEF t
    <3> QED BY <1>2, <2>4, <2>a, <3>1, Zenon
  <2>7. \A i \in 1 .. b + 1 + x : t[i] = IF i <= b THEN e.base[i] ELSE r[i - b]
    <3>1. \A i \in 1 .. Len(e.base) + Len(r) :
            t[i] = IF i <= Len(e.base) THEN e.base[i] ELSE r[i - Len(e.base)]
      BY <2>1, <2>4, ConcatProperties
    <3>2. Len(e.base) + Len(r) = b + 1 + x
      BY <1>2, <2>4, <2>a, Zenon
    <3> HIDE DEF t
    <3> QED BY <1>2, <3>1, <3>2, Zenon
  <2> HIDE DEF t
  <2>8. \A i \in 1 .. b : t[i] = e.base[i]
    BY <2>7
  <2>9. t[b + 1] = "."
    <3>1. PICK k \in 1 .. b + 1 + x : k = b + 1 /\ ~(k <= b) /\ k - b = 1
      OBVIOUS
    <3> QED BY <2>5, <2>7, <3>1
  <2>10. ASSUME NEW i \in 1 .. x PROVE t[b + 1 + i] = e.ext[i]
    <3>1. PICK k \in 1 .. b + 1 + x : k = b + 1 + i /\ ~(k <= b) /\ k - b = 1 + i
      OBVIOUS
    <3>2. t[k] = r[k - b] /\ r[1 + i] = e.ext[i]
      BY <2>5, <2>7, <3>1
    <3> QED BY <3>1, <3>2, Zenon
  <2>11. Word(t)
    <3>1. {t[i] : i \in DOMAIN t} \subseteq S
      BY <2>6
    <3>2. DOMAIN t = 1 .. Len(t) /\ Len(t) \in Nat /\ t \in [1 .. Len(t) -> S]
      BY <2>6, LenProperties
    <3> DEFINE T == {t[i] : i \in DOMAIN t}
    <3>3. t \in [1 .. Len(t) -> T]
      BY <3>2
    <3> HIDE DEF T
    <3>4. t \in Seq(T)
      BY <3>2, <3>3, IsSeq
    <3> QED BY <3>4 DEF Word, T
  <2>12. t = s <=> Len(t) = Len(s) /\ \A i \in 1 .. Len(t) : t[i] = s[i]
    BY <2>11, SameWord, Zenon
  <2>13. t = s => Dotted(e, s)
    BY <1>2, <2>6, <2>8, <2>9, <2>10 DEF Dotted
  <2>14. ASSUME Dotted(e, s), NEW i \in 1 .. b + 1 + x PROVE t[i] = s[i]
    <3>1. CASE i \in 1 .. b
      BY <1>2, <2>8, <2>14, <3>1 DEF Dotted
    <3>2. CASE i = b + 1
      BY <1>2, <2>9, <2>14, <3>2 DEF Dotted
    <3>3. CASE i \in b + 2 .. b + 1 + x
      <4>1. PICK k \in 1 .. x : i = b + 1 + k
        <5>1. i - (b + 1) \in 1 .. x /\ i = b + 1 + (i - (b + 1))
          BY <3>3
        <5> QED BY <5>1
      <4>2. s[b + 1 + k] = e.ext[k]
        BY <1>2, <2>14 DEF Dotted
      <4> QED BY <2>10, <4>1, <4>2
    <3> QED BY <3>1, <3>2, <3>3
  <2>15. Dotted(e, s) => Len(t) = Len(s)
    BY <1>2, <2>6 DEF Dotted
  <2>16. Dotted(e, s) => t = s
    BY <2>6, <2>12, <2>14, <2>15, Zenon
  <2> QED BY <1>4, <2>3, <2>13, <2>16
<1> QED BY <1>3, <1>4

LEMMA LaidIs ==
  ASSUME NEW e, Proper(e)
  PROVE  \E f : /\ f = OnDisk(e) /\ Laid(f, e) /\ Len(e.base) \in 1 .. BaseLen
                /\ Len(e.ext) \in 0 .. ExtLen /\ Len(f) \in Nat
                /\ \A i \in 1 .. BaseLen + ExtLen + 1 : CharAt(f, i) = f[i]
<1>1. PICK f : f = OnDisk(e) /\ Laid(f, e)
  BY OnDiskLaid
<1>2. Len(e.base) \in 1 .. BaseLen /\ Len(e.ext) \in 0 .. ExtLen
  BY WordIs, Sizes DEF Proper
<1>3. Len(f) = BaseLen + ExtLen + 1
  BY <1>1 DEF Laid
<1>4. \A i \in 1 .. BaseLen + ExtLen + 1 : CharAt(f, i) = f[i]
  BY <1>3, Sizes DEF CharAt
<1> QED BY <1>1, <1>2, <1>3, <1>4, Sizes

(* A name without an extension. *)
LEMMA WordMatches ==
  ASSUME NEW e, Proper(e), NEW s, Word(s), Len(s) <= BaseLen,
         \A i \in DOMAIN s : Letter(s[i])
  PROVE  Matches(OnDisk(e), s) <=> NameOf(e) = s
<1> USE Sizes
<1>1. PICK f : /\ f = OnDisk(e) /\ Laid(f, e) /\ Len(e.base) \in 1 .. BaseLen
               /\ Len(e.ext) \in 0 .. ExtLen
               /\ \A i \in 1 .. BaseLen + ExtLen + 1 : CharAt(f, i) = f[i]
  BY LaidIs
<1>2. PICK n \in 0 .. BaseLen : n = Len(s) /\ DOMAIN s = 1 .. n
  BY WordIs
<1>3. \A i \in 1 .. n : s[i] \notin {" ", ".", "nul"}
  BY <1>2 DEF Letter
<1>4. Matches(f, s) <=> Agree(f, 1, s, 0, n) /\ Blank(f, 1 + n)
  <2>1. n \in Nat
    OBVIOUS
  <2>2. \A i \in 1 .. n : s[i] # "."
    BY <1>3, Zenon
  <2> QED BY <1>2, <2>1, <2>2, MatchesWord, Zenon
<1>5. Agree(f, 1, s, 0, n) <=> \A i \in 1 .. n : f[i] = s[i]
  <2>1. \A i \in 1 .. n : CharAt(f, 1 + i - 1) = f[i] /\ s[0 + i] = s[i]
    BY <1>1
  <2> QED BY <2>1, Zenon DEF Agree
<1>6. PICK b \in 1 .. BaseLen, x \in 0 .. ExtLen : b = Len(e.base) /\ x = Len(e.ext)
  BY <1>1
<1>7. \A i \in 1 .. b : f[i] = e.base[i]
  BY <1>1, <1>6 DEF Laid
<1>8. \A i \in b + 1 .. BaseLen : f[i] = " "
  BY <1>1, <1>6 DEF Laid
<1>9. \A i \in 1 .. x : f[BaseLen + i] = e.ext[i] /\ e.ext[i] # " "
  <2>1. DOMAIN e.ext = 1 .. x
    BY <1>6, WordIs DEF Proper
  <2>2. \A i \in 1 .. x : Letter(e.ext[i])
    BY <2>1 DEF Proper
  <2>3. \A i \in 1 .. x : f[BaseLen + i] = e.ext[i]
    BY <1>1, <1>6 DEF Laid
  <2> QED BY <2>2, <2>3 DEF Letter
<1>10. \A i \in BaseLen + x + 1 .. BaseLen + ExtLen : f[i] = " "
  BY <1>1, <1>6 DEF Laid
<1>11. e.base[1] = "." \/ \A i \in 1 .. b : e.base[i] # " "
  <2>1. DOMAIN e.base = 1 .. b
    BY <1>6, WordIs DEF Proper
  <2> QED BY <2>1 DEF Proper, Letter
<1>12. Word(e.ext) /\ (e.ext = <<>> <=> x = 0)
  <2>1. Word(e.ext)
    BY DEF Proper
  <2>2. e.ext = <<>> => Len(e.ext) = 0
    OBVIOUS
  <2>3. Len(e.ext) = 0 => e.ext = <<>>
    BY <2>1, EmptySeq DEF Word
  <2> QED BY <1>6, <2>1, <2>2, <2>3
<1>13. ASSUME \A i \in 1 .. n : f[i] = s[i], Blank(f, 1 + n)
       PROVE  e.ext = <<>> /\ Plain(e, s)
  <2>1. \A k \in 1 + n .. BaseLen + ExtLen : f[k] = " "
    BY <1>13 DEF Blank
  <2>2. n # 0
    <3> SUFFICES ASSUME n = 0 PROVE FALSE
      OBVIOUS
    <3>1. 1 \in 1 + n .. BaseLen + ExtLen /\ 1 \in 1 .. b
      OBVIOUS
    <3>2. f[1] # " "
      BY <1>7, <1>11, <3>1
    <3> QED BY <2>1, <3>1, <3>2
  <2>3. \A i \in 1 .. b : e.base[i] # " "
    <3>1. 1 \in 1 .. b /\ 1 \in 1 .. n
      BY <2>2
    <3>2. e.base[1] # "."
      BY <1>3, <1>7, <1>13, <3>1
    <3> QED BY <1>11, <3>2
  <2>4. ~(b > n)
    <3> SUFFICES ASSUME b > n PROVE FALSE
      OBVIOUS
    <3>1. n + 1 \in 1 .. b /\ n + 1 \in 1 + n .. BaseLen + ExtLen
      OBVIOUS
    <3> QED BY <1>7, <2>1, <2>3, <3>1
  <2>5. ~(b < n)
    <3> SUFFICES ASSUME b < n PROVE FALSE
      OBVIOUS
    <3>1. b + 1 \in b + 1 .. BaseLen /\ b + 1 \in 1 .. n
      OBVIOUS
    <3> QED BY <1>3, <1>8, <1>13, <3>1
  <2>6. b = n
    BY <2>4, <2>5
  <2>7. x = 0
    <3> SUFFICES ASSUME x # 0 PROVE FALSE
      OBVIOUS
    <3>1. 1 \in 1 .. x /\ BaseLen + 1 \in 1 + n .. BaseLen + ExtLen
      OBVIOUS
    <3> QED BY <1>9, <2>1, <3>1
  <2> QED BY <1>2, <1>6, <1>7, <1>12, <1>13, <2>6, <2>7 DEF Plain
<1>14. ASSUME e.ext = <<>>, Plain(e, s)
       PROVE  (\A i \in 1 .. n : f[i] = s[i]) /\ Blank(f, 1 + n)
  <2>1. x = 0 /\ b = n /\ \A i \in 1 .. n : s[i] = e.base[i]
    BY <1>2, <1>6, <1>12, <1>14 DEF Plain
  <2>2. ASSUME NEW k \in 1 + n .. BaseLen + ExtLen PROVE f[k] = " "
    <3>1. k \in b + 1 .. BaseLen \/ k \in BaseLen + x + 1 .. BaseLen + ExtLen
      BY <2>1
    <3> QED BY <1>8, <1>10, <3>1
  <2> QED BY <1>7, <2>1, <2>2 DEF Blank
<1>15. NameOf(e) = s <=> e.ext = <<>> /\ Plain(e, s)
  <2>1. e.ext # <<>> => ~Dotted(e, s)
    <3> SUFFICES ASSUME Dotted(e, s) PROVE FALSE
      OBVIOUS
    <3>1. n = b + 1 + x /\ s[b + 1] = "."
      BY <1>2, <1>6 DEF Dotted
    <3>2. b + 1 \in 1 .. n
      BY <3>1
    <3> QED BY <1>3, <3>1, <3>2
  <2> QED BY <2>1, NameIs
<1> QED BY <1>1, <1>4, <1>5, <1>13, <1>14, <1>15

(* A name with an extension, its dot at k. *)
Split(s, k) ==
  /\ k \in 2 .. Len(s) - 1 /\ k <= BaseLen + 1 /\ Len(s) <= k + ExtLen
  /\ s[k] = "." /\ \A i \in DOMAIN s \ {k} : Letter(s[i])

SplitLetters(s, k, n) ==
  /\ n \in Nat /\ n = Len(s) /\ DOMAIN s = 1 .. n
  /\ k \in 2 .. n - 1 /\ k <= BaseLen + 1 /\ n <= k + ExtLen /\ s[k] = "."
  /\ \A i \in 1 .. n : i # k => s[i] # "." /\ s[i] # " " /\ s[i] # "nul"

LEMMA SplitIs ==
  ASSUME NEW s, Word(s), NEW k, Split(s, k)
  PROVE  \E n : SplitLetters(s, k, n)
<1>1. Len(s) \in Nat /\ DOMAIN s = 1 .. Len(s)
  BY WordIs
<1> QED BY <1>1 DEF Split, SplitLetters, Letter

LEMMA SplitNumbers ==
  ASSUME NEW s, NEW k, NEW n, SplitLetters(s, k, n)
  PROVE  /\ n \in Nat /\ n = Len(s) /\ k \in 2 .. n - 1 /\ k \in 1 .. n
         /\ k \in 2 .. BaseLen + 1 /\ n <= k + ExtLen
<1>1. n \in Nat /\ n = Len(s) /\ k \in 2 .. n - 1 /\ k <= BaseLen + 1 /\ n <= k + ExtLen
  BY Zenon DEF SplitLetters
<1> QED BY <1>1, Sizes

(* What lies in an entry with b and x characters before and after the dot. *)
Lies(f, e, b, x) ==
  /\ b \in 1 .. BaseLen /\ x \in 0 .. ExtLen /\ Len(f) = BaseLen + ExtLen + 1
  /\ b = Len(e.base) /\ x = Len(e.ext) /\ (e.ext = <<>> <=> x = 0)
  /\ \A i \in 1 .. BaseLen + ExtLen + 1 : CharAt(f, i) = f[i]
  /\ \A i \in 1 .. b : f[i] = e.base[i]
  /\ \A i \in b + 1 .. BaseLen : f[i] = " "
  /\ \A i \in 1 .. x : f[BaseLen + i] = e.ext[i]
  /\ \A i \in BaseLen + x + 1 .. BaseLen + ExtLen : f[i] = " "
  /\ f[BaseLen + ExtLen + 1] = e.attr
  /\ \A i \in 1 .. x : e.ext[i] # " "
  /\ e.base[1] = "." \/ \A i \in 1 .. b : e.base[i] # " " /\ e.base[i] # "."

LEMMA LiesOnDisk ==
  ASSUME NEW e, Proper(e)
  PROVE  \E f, b, x : f = OnDisk(e) /\ Lies(f, e, b, x)
<1>1. PICK f : /\ f = OnDisk(e) /\ Laid(f, e) /\ Len(e.base) \in 1 .. BaseLen
               /\ Len(e.ext) \in 0 .. ExtLen
               /\ \A i \in 1 .. BaseLen + ExtLen + 1 : CharAt(f, i) = f[i]
  BY LaidIs
<1>2. PICK b \in 1 .. BaseLen, x \in 0 .. ExtLen : b = Len(e.base) /\ x = Len(e.ext)
  BY <1>1
<1>3. \A i \in 1 .. x : e.ext[i] # " "
  <2>1. DOMAIN e.ext = 1 .. x
    BY <1>2, WordIs DEF Proper
  <2> QED BY <2>1 DEF Proper, Letter
<1>4. e.base[1] = "." \/ \A i \in 1 .. b : e.base[i] # " " /\ e.base[i] # "."
  <2>1. DOMAIN e.base = 1 .. b
    BY <1>2, WordIs DEF Proper
  <2> QED BY <2>1 DEF Proper, Letter
<1>5. e.ext = <<>> <=> x = 0
  <2>1. Word(e.ext)
    BY DEF Proper
  <2>2. e.ext = <<>> => Len(e.ext) = 0
    OBVIOUS
  <2>3. Len(e.ext) = 0 => e.ext = <<>>
    BY <2>1, EmptySeq DEF Word
  <2> QED BY <1>2, <2>2, <2>3
<1>6. Lies(f, e, b, x)
  BY <1>1, <1>2, <1>3, <1>4, <1>5, Zenon DEF Lies, Laid
<1> QED BY <1>1, <1>6

(* It is the name of the entries with the letters before and after it. *)
Same(e, s, k, b, x) ==
  /\ x # 0 /\ b = k - 1 /\ Len(s) = k + x
  /\ \A i \in 1 .. k - 1 : s[i] = e.base[i]
  /\ \A i \in 1 .. x : s[k + i] = e.ext[i]

LEMMA NameSplit ==
  ASSUME NEW e, Proper(e), NEW f, NEW b, NEW x, Lies(f, e, b, x),
         NEW s, Word(s), NEW k, NEW n, SplitLetters(s, k, n)
  PROVE  NameOf(e) = s <=> Same(e, s, k, b, x)
<1> USE Sizes
<1>1. /\ b \in 1 .. BaseLen /\ x \in 0 .. ExtLen /\ (e.ext = <<>> <=> x = 0)
      /\ b = Len(e.base) /\ x = Len(e.ext)
      /\ e.base[1] = "." \/ \A i \in 1 .. b : e.base[i] # "."
  BY DEF Lies
<1>2. /\ n \in Nat /\ n = Len(s) /\ k \in 2 .. n - 1 /\ s[k] = "."
      /\ \A i \in 1 .. n : i # k => s[i] # "."
  BY DEF SplitLetters
<1>3. CASE x = 0
  <2>1. ~Plain(e, s)
    <3> SUFFICES ASSUME Plain(e, s) PROVE FALSE
      OBVIOUS
    <3>1. n = b /\ \A i \in 1 .. b : s[i] = e.base[i]
      BY <1>1, <1>2 DEF Plain
    <3>2. 1 \in 1 .. b /\ k \in 1 .. b /\ 1 # k
      BY <1>2, <3>1
    <3>3. e.base[1] # "." /\ e.base[k] = "."
      BY <1>2, <3>1, <3>2
    <3> QED BY <1>1, <3>2, <3>3
  <2> QED BY <1>1, <1>3, <2>1, NameIs DEF Same
<1>4. CASE x # 0
  <2>1. NameOf(e) = s <=> Dotted(e, s)
    BY <1>1, <1>4, NameIs
  <2>2. ASSUME Dotted(e, s) PROVE Same(e, s, k, b, x)
    <3>1. /\ n = b + 1 + x /\ \A i \in 1 .. b : s[i] = e.base[i]
          /\ s[b + 1] = "." /\ \A i \in 1 .. x : s[b + 1 + i] = e.ext[i]
      BY <1>1, <1>2, <2>2 DEF Dotted
    <3>a. b \in Nat /\ x \in Nat /\ k \in Nat
      BY <1>1, <1>2
    <3>b. n = b + 1 + x
      BY <3>1
    <3>2. b + 1 = k
      <4>1. b + 1 \in 1 .. n
        BY <3>a, <3>b
      <4> QED BY <1>2, <3>1, <4>1
    <3>3. b = k - 1 /\ n = k + x
      BY <3>a, <3>b, <3>2
    <3>4. \A i \in 1 .. x : s[k + i] = e.ext[i]
      BY <3>1, <3>2, Zenon
    <3>5. \A i \in 1 .. k - 1 : s[i] = e.base[i]
      BY <3>1, <3>3, Zenon
    <3> QED BY <1>2, <1>4, <3>3, <3>4, <3>5, Zenon DEF Same
  <2>3. ASSUME Same(e, s, k, b, x) PROVE Dotted(e, s)
    <3>1. /\ b = k - 1 /\ n = k + x /\ \A i \in 1 .. k - 1 : s[i] = e.base[i]
          /\ \A i \in 1 .. x : s[k + i] = e.ext[i]
      BY <1>2, <2>3 DEF Same
    <3>2. b + 1 = k
      BY <1>1, <1>2, <3>1
    <3>3. n = b + 1 + x
      BY <1>1, <1>2, <3>1
    <3> QED BY <1>1, <1>2, <3>1, <3>2, <3>3, Zenon DEF Dotted
  <2> QED BY <2>1, <2>2, <2>3
<1> QED BY <1>3, <1>4

(* The comparison with such a name, q being where its dot leads. *)
LEMMA MatchesSplit ==
  ASSUME NEW f, NEW s, NEW k, NEW n, SplitLetters(s, k, n),
         NEW q \in Nat \ {0}, Agree(f, 1, s, 0, k - 1) => SkipBlanks(f, k) = q
  PROVE  Matches(f, s) <=> /\ Agree(f, 1, s, 0, k - 1) /\ Agree(f, q, s, k, n - k)
                           /\ Blank(f, q + (n - k))
<1>1. s[k] = "."
  BY DEF SplitLetters
<1>2. n \in Nat /\ n = Len(s) /\ k \in 1 .. n
  BY SplitNumbers
<1>3. \A i \in 1 .. n : i # k => s[i] # "."
  BY Zenon DEF SplitLetters
<1> QED BY <1>1, <1>2, <1>3, MatchesDotted, Zenon

(* The letters before the dot are those the entry begins with. *)
Begins(f, s, k) == \A i \in 1 .. k - 1 : f[i] = s[i]

LEMMA BeginsIs ==
  ASSUME NEW e, NEW f, NEW b, NEW x, Lies(f, e, b, x),
         NEW s, NEW k, NEW n, SplitLetters(s, k, n)
  PROVE  Agree(f, 1, s, 0, k - 1) <=> Begins(f, s, k)
<1> USE Sizes
<1>1. \A i \in 1 .. BaseLen + ExtLen + 1 : CharAt(f, i) = f[i]
  BY Zenon DEF Lies
<1>2. k \in 1 .. BaseLen + 1
  BY SplitNumbers
<1>3. ASSUME NEW i \in 1 .. k - 1 PROVE CharAt(f, 1 + i - 1) = f[i] /\ s[0 + i] = s[i]
  <2>1. i \in 1 .. BaseLen + ExtLen + 1 /\ 1 + i - 1 = i /\ 0 + i = i
    BY <1>2
  <2> QED BY <1>1, <2>1, Zenon
<1> QED BY <1>3, Zenon DEF Agree, Begins

LEMMA BaseBegins ==
  ASSUME NEW e, NEW f, NEW b, NEW x, Lies(f, e, b, x),
         NEW s, NEW k, NEW n, SplitLetters(s, k, n), Begins(f, s, k)
  PROVE  k - 1 <= b /\ \A i \in 1 .. b : e.base[i] # " "
<1>1. b \in 1 .. BaseLen
  BY Zenon DEF Lies
<1>2. n \in Nat /\ k \in 2 .. n - 1 /\ k \in 2 .. BaseLen + 1
  BY SplitNumbers
<1>3. 1 \in 1 .. b /\ 1 \in 1 .. k - 1 /\ 1 \in 1 .. n /\ 1 # k
  BY <1>1, <1>2
<1>4. \A i \in 1 .. k - 1 : f[i] = s[i]
  BY Zenon DEF Begins
<1>5. e.base[1] # "."
  BY <1>3, <1>4, ZenonT(60) DEF Lies, SplitLetters
<1>6. \A i \in 1 .. b : e.base[i] # " "
  BY <1>5, Zenon DEF Lies
<1>7. ~(b < k - 1)
  <2> SUFFICES ASSUME b < k - 1 PROVE FALSE
    OBVIOUS
  <2>1. PICK i \in 1 .. k - 1 : i \in b + 1 .. BaseLen /\ i \in 1 .. n /\ i # k
    <3>1. /\ b + 1 \in 1 .. k - 1 /\ b + 1 \in b + 1 .. BaseLen /\ b + 1 \in 1 .. n
          /\ b + 1 # k
      BY <1>1, <1>2, Sizes
    <3> QED BY <3>1, Zenon
  <2>2. f[i] = " "
    BY <2>1, Zenon DEF Lies
  <2>3. f[i] = s[i] /\ s[i] # " "
    BY <1>4, <2>1, Zenon DEF SplitLetters
  <2> QED BY <2>2, <2>3
<1>8. k - 1 <= b
  BY <1>1, <1>2, <1>7, Sizes
<1> QED BY <1>6, <1>8, Zenon

(* The entry's letters go on past the dot: only Dotless could match. *)
LEMMA LongBase ==
  ASSUME NEW e, NEW f, NEW b, NEW x, Lies(f, e, b, x),
         NEW s, NEW k, NEW n, SplitLetters(s, k, n), Begins(f, s, k), k <= b,
         \E i \in 1 .. BaseLen + ExtLen : f[i] # Dotless(s, k)[i]
  PROVE  ~Matches(f, s)
<1> USE Sizes
<1> SUFFICES ASSUME Matches(f, s) PROVE FALSE
  OBVIOUS
<1>1. /\ b \in 1 .. BaseLen /\ Len(f) = BaseLen + ExtLen + 1
      /\ \A i \in 1 .. b : f[i] = e.base[i]
      /\ \A i \in 1 .. BaseLen + ExtLen + 1 : CharAt(f, i) = f[i]
  BY Zenon DEF Lies
<1>2. n \in Nat /\ n = Len(s) /\ k \in 2 .. n - 1 /\ n <= k + ExtLen
  BY SplitNumbers
<1>3. SkipBlanks(f, k) = k
  <2>1. k \in 1 .. b /\ k \in 1 .. BaseLen + ExtLen + 1 /\ k \in Nat
    BY <1>1, <1>2
  <2>2. CharAt(f, k) # " "
    <3>1. e.base[k] # " "
      BY <2>1, BaseBegins
    <3> QED BY <1>1, <2>1, <3>1, Zenon
  <2>3. k \in k .. Len(f) + 1 /\ Len(f) \in Nat
    BY <1>1, <2>1
  <2>4. BlanksEnd(f, k, k)
    <3>1. \A l \in k .. k - 1 : FALSE
      BY <2>1
    <3> QED BY <2>2, <3>1, Zenon DEF BlanksEnd
  <2> QED BY <2>1, <2>3, <2>4, SkipIs
<1>4. /\ Agree(f, k, s, k, n - k) /\ Blank(f, k + (n - k))
  <2>1. k \in Nat \ {0}
    BY <1>2
  <2> QED BY <1>3, <2>1, MatchesSplit
<1>5. PICK i \in 1 .. BaseLen + ExtLen : f[i] # Dotless(s, k)[i]
  OBVIOUS
<1>6. Dotless(s, k)[i] = IF i < k THEN s[i] ELSE IF i < n THEN s[i + 1] ELSE " "
  BY <1>2 DEF Dotless
<1>7. CASE i < k
  <2>1. i \in 1 .. k - 1
    BY <1>2, <1>7
  <2>2. f[i] = s[i]
    BY <2>1 DEF Begins
  <2> QED BY <1>5, <1>6, <1>7, <2>2
<1>8. CASE k <= i /\ i < n
  <2>1. PICK j \in 1 .. n - k : k + j - 1 = i /\ k + j = i + 1
    <3>1. i - k + 1 \in 1 .. n - k /\ k + (i - k + 1) - 1 = i /\ k + (i - k + 1) = i + 1
      BY <1>2, <1>8
    <3> QED BY <3>1
  <2>2. CharAt(f, i) = s[i + 1]
    <3>1. CharAt(f, k + j - 1) = s[k + j]
      BY <1>4, Zenon DEF Agree
    <3> QED BY <2>1, <3>1, Zenon
  <2>3. i \in 1 .. BaseLen + ExtLen + 1
    OBVIOUS
  <2>4. f[i] = s[i + 1]
    BY <1>1, <2>2, <2>3
  <2>5. ~(i < k)
    BY <1>2, <1>8
  <2> QED BY <1>5, <1>6, <1>8, <2>4, <2>5
<1>9. CASE n <= i
  <2>1. i \in k + (n - k) .. BaseLen + ExtLen /\ ~(i < n) /\ ~(i < k)
    BY <1>2, <1>9
  <2>2. f[i] = " "
    BY <1>4, <2>1, Zenon DEF Blank
  <2> QED BY <1>5, <1>6, <2>1, <2>2
<1> QED BY <1>2, <1>7, <1>8, <1>9

LEMMA LiesNumbers ==
  ASSUME NEW e, NEW f, NEW b, NEW x, Lies(f, e, b, x)
  PROVE  b \in 1 .. BaseLen /\ x \in 0 .. ExtLen /\ Len(f) = BaseLen + ExtLen + 1
BY Zenon DEF Lies

(* The entry has no extension: its attributes are not a letter of the name. *)
LEMMA NoExtension ==
  ASSUME NEW e, NEW f, NEW b, NEW x, Lies(f, e, b, x),
         NEW s, NEW k, NEW n, SplitLetters(s, k, n), b = k - 1, x = 0,
         \A i \in 1 .. n : s[i] # e.attr
  PROVE  ~Matches(f, s)
<1> USE Sizes
<1> SUFFICES ASSUME Matches(f, s) PROVE FALSE
  OBVIOUS
<1>1. b \in 1 .. BaseLen /\ Len(f) = BaseLen + ExtLen + 1
  BY LiesNumbers
<1>2. n \in Nat /\ n = Len(s) /\ k \in 2 .. n - 1 /\ k \in 2 .. BaseLen + 1
  BY SplitNumbers
<1> DEFINE L == BaseLen + ExtLen
<1>3. PICK q \in k .. L + 2 : BlanksEnd(f, k, q) /\ CharAt(f, q) \in {e.attr, "nul"}
  <2>1. ASSUME NEW l \in k .. L PROVE CharAt(f, l) = " "
    <3>1. l \in b + 1 .. BaseLen \/ l \in BaseLen + x + 1 .. BaseLen + ExtLen
      BY <1>1, <1>2
    <3>2. f[l] = " "
      BY <3>1, Zenon DEF Lies
    <3>3. l \in 1 .. BaseLen + ExtLen + 1
      BY <1>2
    <3> QED BY <3>2, <3>3, Zenon DEF Lies
  <2>2. CharAt(f, L + 1) = e.attr
    <3>1. BaseLen + ExtLen + 1 \in 1 .. BaseLen + ExtLen + 1
      OBVIOUS
    <3> QED BY <3>1, Zenon DEF Lies
  <2>3. CharAt(f, L + 2) = "nul"
    <3>1. ~(L + 2 <= Len(f))
      BY <1>1
    <3> QED BY <3>1, Zenon DEF CharAt
  <2>4. CASE e.attr # " "
    <3>1. \A l \in k .. (L + 1) - 1 : l \in k .. L
      BY <1>2
    <3>2. \A l \in k .. (L + 1) - 1 : CharAt(f, l) = " "
      BY <2>1, <3>1, Zenon
    <3>3. BlanksEnd(f, k, L + 1)
      BY <2>2, <2>4, <3>2, Zenon DEF BlanksEnd
    <3>4. L + 1 \in k .. L + 2
      BY <1>2
    <3> QED BY <2>2, <3>3, <3>4, Zenon
  <2>5. CASE e.attr = " "
    <3>1. \A l \in k .. (L + 2) - 1 : l \in k .. L \/ l = L + 1
      BY <1>2
    <3>2. \A l \in k .. (L + 2) - 1 : CharAt(f, l) = " "
      BY <2>1, <2>2, <2>5, <3>1, Zenon
    <3>3. CharAt(f, L + 2) # " "
      BY <2>3
    <3>4. BlanksEnd(f, k, L + 2)
      BY <3>2, <3>3, Zenon DEF BlanksEnd
    <3>5. L + 2 \in k .. L + 2
      BY <1>2
    <3> QED BY <2>3, <3>4, <3>5, Zenon
  <2> QED BY <2>4, <2>5
<1>4. q \in Nat \ {0} /\ k \in Nat /\ q \in k .. Len(f) + 1 /\ Len(f) \in Nat
  BY <1>1, <1>2
<1>5. SkipBlanks(f, k) = q
  BY <1>3, <1>4, SkipIs
<1>6. Agree(f, q, s, k, n - k)
  BY <1>4, <1>5, MatchesSplit
<1>7. 1 \in 1 .. n - k /\ k + 1 \in 1 .. n /\ k + 1 # k /\ q + 1 - 1 = q
  BY <1>2, <1>4
<1>8. CharAt(f, q) = s[k + 1]
  BY <1>6, <1>7, Zenon DEF Agree
<1>9. s[k + 1] # "nul" /\ s[k + 1] # e.attr
  BY <1>7, Zenon DEF SplitLetters
<1> QED BY <1>3, <1>8, <1>9

(* The dot leads to the extension. *)
LEMMA Extension ==
  ASSUME NEW e, NEW f, NEW b, NEW x, Lies(f, e, b, x),
         NEW s, NEW k, NEW n, SplitLetters(s, k, n), b = k - 1, x # 0
  PROVE  SkipBlanks(f, k) = BaseLen + 1
<1> USE Sizes
<1>1. b \in 1 .. BaseLen /\ x \in 1 .. ExtLen /\ Len(f) = BaseLen + ExtLen + 1
  BY LiesNumbers
<1>2. n \in Nat /\ k \in 2 .. n - 1 /\ k \in 2 .. BaseLen + 1
  BY SplitNumbers
<1>3. CharAt(f, BaseLen + 1) # " "
  <2>1. 1 \in 1 .. x /\ BaseLen + 1 \in 1 .. BaseLen + ExtLen + 1
    BY <1>1
  <2> QED BY <2>1, Zenon DEF Lies
<1>4. ASSUME NEW l \in k .. (BaseLen + 1) - 1 PROVE CharAt(f, l) = " "
  <2>1. l \in b + 1 .. BaseLen /\ l \in 1 .. BaseLen + ExtLen + 1
    BY <1>1, <1>2
  <2> QED BY <2>1, Zenon DEF Lies
<1>5. BlanksEnd(f, k, BaseLen + 1)
  BY <1>3, <1>4, Zenon DEF BlanksEnd
<1>6. k \in Nat /\ BaseLen + 1 \in k .. Len(f) + 1 /\ Len(f) \in Nat
  BY <1>1, <1>2
<1> QED BY <1>5, <1>6, SkipIs

(* What follows it is then compared with the extension. *)
LEMMA ExtensionMatches ==
  ASSUME NEW e, NEW f, NEW b, NEW x, Lies(f, e, b, x),
         NEW s, NEW k, NEW n, SplitLetters(s, k, n), b = k - 1, x # 0,
         NEW q, q = BaseLen + 1
  PROVE  Agree(f, q, s, k, n - k) /\ Blank(f, q + (n - k))
           <=> n = k + x /\ \A i \in 1 .. x : s[k + i] = e.ext[i]
<1> USE Sizes
<1>1. b \in 1 .. BaseLen /\ x \in 1 .. ExtLen /\ Len(f) = BaseLen + ExtLen + 1
  BY LiesNumbers
<1>2. n \in Nat /\ k \in 2 .. n - 1 /\ k \in 2 .. BaseLen + 1 /\ n <= k + ExtLen
  BY SplitNumbers
<1>3. PICK m \in 1 .. ExtLen : m = n - k
  BY <1>2
<1>4. ASSUME NEW i \in 1 .. ExtLen PROVE CharAt(f, q + i - 1) = f[BaseLen + i]
  <2>1. BaseLen + i \in 1 .. BaseLen + ExtLen + 1 /\ q + i - 1 = BaseLen + i
    OBVIOUS
  <2> QED BY <2>1, Zenon DEF Lies
<1>5. Agree(f, q, s, k, m) <=> \A i \in 1 .. m : f[BaseLen + i] = s[k + i]
  <2>1. \A i \in 1 .. m : i \in 1 .. ExtLen
    OBVIOUS
  <2> QED BY <1>4, <2>1, Zenon DEF Agree
<1>6. \A i \in 1 .. x : f[BaseLen + i] = e.ext[i] /\ e.ext[i] # " "
  BY Zenon DEF Lies
<1>7. ASSUME \A i \in 1 .. m : f[BaseLen + i] = s[k + i], Blank(f, q + m)
      PROVE  n = k + x /\ \A i \in 1 .. x : s[k + i] = e.ext[i]
  <2>1. ~(m < x)
    <3> SUFFICES ASSUME m < x PROVE FALSE
      OBVIOUS
    <3>1. m + 1 \in 1 .. x /\ BaseLen + (m + 1) \in q + m .. BaseLen + ExtLen
      BY <1>1
    <3>2. f[BaseLen + (m + 1)] = " "
      BY <1>7, <3>1, Zenon DEF Blank
    <3> QED BY <1>6, <3>1, <3>2, Zenon
  <2>2. ~(x < m)
    <3> SUFFICES ASSUME x < m PROVE FALSE
      OBVIOUS
    <3>1. /\ x + 1 \in 1 .. m /\ BaseLen + (x + 1) \in BaseLen + x + 1 .. BaseLen + ExtLen
          /\ k + (x + 1) \in 1 .. n /\ k + (x + 1) # k
      BY <1>1, <1>2, <1>3
    <3>2. f[BaseLen + (x + 1)] = " "
      BY <3>1, Zenon DEF Lies
    <3>3. s[k + (x + 1)] # " "
      BY <3>1, Zenon DEF SplitLetters
    <3> QED BY <1>7, <3>1, <3>2, <3>3, Zenon
  <2>3. m = x
    BY <1>1, <2>1, <2>2
  <2>4. n = k + x
    BY <1>2, <1>3, <2>3
  <2> QED BY <1>6, <1>7, <2>3, <2>4, Zenon
<1>8. ASSUME n = k + x, \A i \in 1 .. x : s[k + i] = e.ext[i]
      PROVE  (\A i \in 1 .. m : f[BaseLen + i] = s[k + i]) /\ Blank(f, q + m)
  <2>1. m = x
    BY <1>1, <1>2, <1>3, <1>8
  <2>2. q + m = BaseLen + x + 1
    BY <1>1, <2>1
  <2>3. \A i \in BaseLen + x + 1 .. BaseLen + ExtLen : f[i] = " "
    BY Zenon DEF Lies
  <2>4. Blank(f, q + m)
    BY <2>2, <2>3, Zenon DEF Blank
  <2> QED BY <1>6, <1>8, <2>1, <2>4, Zenon
<1> QED BY <1>3, <1>5, <1>7, <1>8, Zenon

LEMMA SplitMatches ==
  ASSUME NEW e, NEW f, NEW b, NEW x, Proper(e), f = OnDisk(e), Lies(f, e, b, x),
         NEW s, NEW k, NEW n, Word(s), SplitLetters(s, k, n),
         \A i \in 1 .. n : s[i] # e.attr,
         k <= b => \E i \in 1 .. BaseLen + ExtLen : f[i] # Dotless(s, k)[i]
  PROVE  Matches(f, s) <=> NameOf(e) = s
<1>1. NameOf(e) = s <=> Same(e, s, k, b, x)
  BY NameSplit
<1>2. Agree(f, 1, s, 0, k - 1) <=> Begins(f, s, k)
  BY BeginsIs
<1>3. b \in 1 .. BaseLen /\ k \in 2 .. BaseLen + 1
  BY LiesNumbers, SplitNumbers
<1>4. \A i \in 1 .. b : f[i] = e.base[i]
  BY Zenon DEF Lies
<1>5. b = k - 1 => (Begins(f, s, k) <=> \A i \in 1 .. k - 1 : s[i] = e.base[i])
  BY <1>4, Zenon DEF Begins
<1>6. CASE ~Begins(f, s, k)
  <2>1. ~Matches(f, s)
    <3>1. 1 \in Nat \ {0}
      OBVIOUS
    <3> QED BY <1>2, <1>6, <3>1, MatchesSplit, Zenon
  <2> QED BY <1>1, <1>5, <1>6, <2>1, Zenon DEF Same
<1>7. CASE Begins(f, s, k)
  <2>1. k - 1 <= b
    BY <1>7, BaseBegins
  <2>2. k <= b \/ b = k - 1
    BY <1>3, <2>1, Sizes
  <2>3. CASE k <= b
    <3>1. ~Matches(f, s)
      BY <1>7, <2>3, LongBase
    <3>2. b # k - 1
      BY <1>3, <2>3, Sizes
    <3> QED BY <1>1, <3>1, <3>2, Zenon DEF Same
  <2>4. CASE b = k - 1 /\ x = 0
    <3>1. ~Matches(f, s)
      BY <2>4, NoExtension
    <3> QED BY <1>1, <2>4, <3>1, Zenon DEF Same
  <2>5. CASE b = k - 1 /\ x # 0
    <3>1. PICK q \in Nat \ {0} : q = BaseLen + 1
      BY Sizes
    <3>2. SkipBlanks(f, k) = q
      BY <2>5, <3>1, Extension
    <3>3. Matches(f, s) <=> Agree(f, q, s, k, n - k) /\ Blank(f, q + (n - k))
      BY <1>2, <1>7, <3>2, MatchesSplit, Zenon
    <3>4. Agree(f, q, s, k, n - k) /\ Blank(f, q + (n - k))
            <=> n = k + x /\ \A i \in 1 .. x : s[k + i] = e.ext[i]
      BY <2>5, <3>1, ExtensionMatches
    <3>5. n = Len(s)
      BY SplitNumbers
    <3> QED BY <1>1, <1>5, <1>7, <2>5, <3>3, <3>4, <3>5, Zenon DEF Same
  <2> QED BY <2>2, <2>3, <2>4, <2>5
<1> QED BY <1>6, <1>7

(* What _fat_strcmp accepts: the name of the entry, and nothing else. *)
LEMMA MatchesName ==
  ASSUME NEW d \in DOMAIN Medium, NEW a \in Listed(d),
         NEW s \in Names, ~Dot(s)
  PROVE  Matches(OnDisk(Entry(d, a)), s) <=> NameOf(Entry(d, a)) = s
<1>1. PICK e : e = Entry(d, a)
  OBVIOUS
<1>2. /\ Proper(e) /\ \A t \in Names : \A i \in DOMAIN t : t[i] # e.attr
      /\ \A t \in Names : \A k \in DOMAIN t : t[k] = "." /\ k <= Len(e.base) =>
           \E i \in 1 .. BaseLen + ExtLen : OnDisk(e)[i] # Dotless(t, k)[i]
  <2>1. e \in {Entry(d, b) : b \in Listed(d)}
    BY <1>1
  <2> QED BY <2>1, NamesAssumption, Zenon
<1>p. Proper(e)
  BY <1>2
<1>3. Written(s)
  BY NamesAssumption, Zenon
<1>4. Word(s)
  BY <1>3 DEF Written
<1>5. CASE Len(s) <= BaseLen /\ \A i \in DOMAIN s : Letter(s[i])
  BY <1>1, <1>p, <1>4, <1>5, WordMatches
<1>6. ASSUME NEW k, Split(s, k)
      PROVE  Matches(OnDisk(e), s) <=> NameOf(e) = s
  <2>1. PICK n : SplitLetters(s, k, n)
    BY <1>4, <1>6, SplitIs
  <2>2. PICK f, b, x : f = OnDisk(e) /\ Lies(f, e, b, x)
    BY <1>p, LiesOnDisk
  <2>3. k \in DOMAIN s /\ s[k] = "." /\ DOMAIN s = 1 .. n
    <3>1. DOMAIN s = 1 .. n /\ s[k] = "."
      BY <2>1, Zenon DEF SplitLetters
    <3>2. k \in 1 .. n
      BY <2>1, SplitNumbers
    <3> QED BY <3>1, <3>2, Zenon
  <2>4. b = Len(e.base)
    BY <2>2, Zenon DEF Lies
  <2>5. k <= b => \E i \in 1 .. BaseLen + ExtLen : f[i] # Dotless(s, k)[i]
    BY <1>2, <2>2, <2>3, <2>4, Zenon
  <2>6. \A i \in 1 .. n : s[i] # e.attr
    BY <1>2, <2>3, Zenon
  <2>7. Matches(f, s) <=> NameOf(e) = s
    BY <1>p, <1>4, <2>1, <2>2, <2>5, <2>6, SplitMatches
  <2> QED BY <2>2, <2>7, Zenon
<1>7. Written(s) => \/ Len(s) <= BaseLen /\ \A i \in DOMAIN s : Letter(s[i])
                    \/ \E k : Split(s, k)
  BY Zenon DEF Written, Split
<1>8. Matches(OnDisk(e), s) <=> NameOf(e) = s
  BY <1>1, <1>3, <1>5, <1>6, <1>7, Zenon
<1> QED BY <1>1, <1>8, Zenon

------------------------------------------------------------------------------
(***************************************************************************)
(* Looking a name up in a directory.                                       *)
(***************************************************************************)
LEMMA PlacesGrow ==
  ASSUME NEW d, NEW m \in Nat, NEW seen \in 0 .. m
  PROVE  /\ Places(d, seen) \subseteq Places(d, m)
         /\ seen = m => Places(d, seen) = Places(d, m)
<1>1. \A c \in 1 .. seen : c \in 1 .. m
  OBVIOUS
<1> QED BY <1>1, Zenon DEF Places

LEMMA PlaceBefore ==
  ASSUME NEW d \in DOMAIN Medium, NEW a \in Listed(d)
  PROVE  Before(a, a)
<1>1. PICK c \in 1 .. Len(Medium[d]) : a \in {c} \X DOMAIN Medium[d][c]
  BY DEF Listed, Places
<1>2. DOMAIN Medium[d][c] \subseteq Nat
  BY NamesAssumption, Zenon
<1>3. a[2] \in Nat
  BY <1>1, <1>2
<1> QED BY <1>3 DEF Before

Named(d, s) == {b \in Listed(d) : NameOf(Entry(d, b)) = s}

LEMMA Lookup ==
  ASSUME NEW d \in DOMAIN Medium, NEW s \in Names, ~Dot(s),
         NEW seen \in 0 .. Len(Medium[d])
  PROVE  /\ Matching(d, s, seen) \subseteq Named(d, s)
         /\ seen = Len(Medium[d]) => Matching(d, s, seen) = Named(d, s)
         /\ \A a, b \in Named(d, s) : a = b
<1> DEFINE N == Named(d, s)
<1>1. Len(Medium[d]) \in Nat
  BY NamesAssumption, Zenon
<1>2. /\ Places(d, seen) \subseteq Places(d, Len(Medium[d]))
      /\ seen = Len(Medium[d]) => Places(d, seen) = Places(d, Len(Medium[d]))
  BY <1>1, PlacesGrow
<1>3. \A a \in Listed(d) : Matches(OnDisk(Entry(d, a)), s) <=> NameOf(Entry(d, a)) = s
  BY MatchesName
<1>4. \A a : a \in Matching(d, s, seen) <=> a \in Places(d, seen) /\ a \in N
  BY <1>2, <1>3, Zenon DEF Matching, Wanted, Named, Listed
<1>5. N \subseteq Places(d, Len(Medium[d]))
  BY DEF Named, Listed
<1>6. \A a, b \in N : a = b
  BY NamesAssumption, Zenon DEF Named
<1> QED BY <1>2, <1>4, <1>5, <1>6, Zenon

(* A search gives the child of that name, if it can read all of the        *)
(* directory, and never another.                                           *)
LEMMA TargetIs ==
  ASSUME NEW d \in DOMAIN Medium, NEW s \in Names,
         NEW seen \in 0 .. Len(Medium[d])
  PROVE  /\ \A e \in Target(d, s, seen) :
               Child(d, s) = {e.file} /\ (e.kind = "dir" <=> e.file \in DOMAIN Medium)
         /\ Target(d, s, seen) = {} => seen < Len(Medium[d]) \/ Child(d, s) = {}
<1>1. CASE Dot(s)
  <2> DEFINE t == [kind |-> "dir", file |-> d]
  <2>1. Target(d, s, seen) = {t} /\ Child(d, s) = {d}
    BY <1>1 DEF Target, Child
  <2>2. t.kind = "dir" /\ t.file = d
    OBVIOUS
  <2> HIDE DEF t
  <2>3. \A e \in Target(d, s, seen) : e = t
    BY <2>1
  <2>4. Target(d, s, seen) # {}
    BY <2>1
  <2> QED BY <2>1, <2>2, <2>3, <2>4, Zenon
<1>2. CASE ~Dot(s)
  <2> DEFINE M == Matching(d, s, seen)
             N == Named(d, s)
  <2>1. /\ M \subseteq N /\ (seen = Len(Medium[d]) => M = N) /\ \A a, b \in N : a = b
    BY <1>2, Lookup
  <2>2. Target(d, s, seen) = {Entry(d, a) : a \in {b \in M : \A c \in M : Before(b, c)}}
    BY <1>2 DEF Target
  <2>3. Child(d, s) = {Entry(d, a).file : a \in N}
    BY <1>2 DEF Child, Named
  <2>4. N \subseteq Listed(d)
    BY DEF Named
  <2>5. \A a \in N : Before(a, a)
    BY <2>4, PlaceBefore
  <2> HIDE DEF M, N
  <2>6. ASSUME NEW e \in Target(d, s, seen)
        PROVE  Child(d, s) = {e.file} /\ (e.kind = "dir" <=> e.file \in DOMAIN Medium)
    <3>1. PICK a \in M : e = Entry(d, a)
      BY <2>2
    <3>2. a \in N /\ N = {a} /\ a \in Listed(d)
      BY <2>1, <2>4
    <3>3. Child(d, s) = {e.file}
      BY <2>3, <3>1, <3>2
    <3>4. e \in {Entry(d, b) : b \in Listed(d)}
      BY <3>1, <3>2
    <3>5. e.kind = "dir" <=> e.file \in DOMAIN Medium
      BY <3>4, NamesAssumption, Zenon
    <3> QED BY <3>3, <3>5
  <2>7. ASSUME Target(d, s, seen) = {}
        PROVE  seen < Len(Medium[d]) \/ Child(d, s) = {}
    <3>1. M = {}
      <4> SUFFICES ASSUME NEW a \in M PROVE FALSE
        OBVIOUS
      <4>1. a \in N /\ \A c \in M : c = a
        BY <2>1
      <4>2. \A c \in M : Before(a, c)
        BY <2>5, <4>1, Zenon
      <4>3. a \in {b \in M : \A c \in M : Before(b, c)}
        BY <4>2, Zenon
      <4>4. Entry(d, a) \in Target(d, s, seen)
        BY <2>2, <4>3, Zenon
      <4> QED BY <2>7, <4>4
    <3>2. CASE seen = Len(Medium[d])
      BY <2>1, <2>3, <3>1, <3>2
    <3>3. CASE seen # Len(Medium[d])
      <4>1. Len(Medium[d]) \in Nat
        BY NamesAssumption, Zenon
      <4> QED BY <3>3, <4>1
    <3> QED BY <3>2, <3>3
  <2> QED BY <2>6, <2>7
<1> QED BY <1>1, <1>2

------------------------------------------------------------------------------
(***************************************************************************)
(* Following a path.                                                       *)
(***************************************************************************)
Onward(s, D, i) == UNION {Child(d, s[i]) : d \in D \cap DOMAIN Medium}

Follows(s, n, A) ==
  A = [i \in 0 .. n |-> IF i = 0 THEN {Root} ELSE Onward(s, A[i - 1], i)]

LEMMA FollowsOn ==
  ASSUME NEW s, NEW n \in Nat, NEW A, Follows(s, n, A)
  PROVE  \E B : Follows(s, n + 1, B)
<1> DEFINE x == Onward(s, A[n], n + 1)
           B == [j \in 0 .. n + 1 |-> IF j = n + 1 THEN x ELSE A[j]]
<1>0. \A j \in 0 .. n : A[j] = IF j = 0 THEN {Root} ELSE Onward(s, A[j - 1], j)
  BY DEF Follows
<1>z. 0 \in 0 .. n
  OBVIOUS
<1>1. A[0] = {Root} /\ \A j \in 0 .. n : j # 0 => A[j] = Onward(s, A[j - 1], j)
  BY <1>0, <1>z, Zenon
<1>2. ASSUME NEW j \in 0 .. n + 1
      PROVE  B[j] = IF j = 0 THEN {Root} ELSE Onward(s, B[j - 1], j)
  <2>1. CASE j = 0
    BY <1>1, <2>1
  <2>2. CASE j = n + 1
    <3>1. B[j - 1] = A[n]
      BY <2>2
    <3>2. B[j] = x /\ j # 0
      BY <2>2
    <3> QED BY <2>2, <3>1, <3>2
  <2>3. CASE j # 0 /\ j # n + 1
    <3>1. j \in 0 .. n /\ j - 1 \in 0 .. n + 1 /\ j - 1 # n + 1
      BY <2>3
    <3>2. B[j] = A[j] /\ B[j - 1] = A[j - 1]
      BY <2>3, <3>1
    <3> QED BY <1>1, <2>3, <3>1, <3>2
  <2> QED BY <2>1, <2>2, <2>3
<1> DEFINE C == [j \in 0 .. n + 1 |-> IF j = 0 THEN {Root} ELSE Onward(s, B[j - 1], j)]
<1>3. B = C
  <2>1. \A j \in 0 .. n + 1 : B[j] = C[j]
    BY <1>2
  <2>2. B = [j \in 0 .. n + 1 |-> B[j]] /\ C = [j \in 0 .. n + 1 |-> C[j]]
    OBVIOUS
  <2> HIDE DEF B, C
  <2> QED BY <2>1, <2>2
<1> QED BY <1>3 DEF Follows

LEMMA FollowExists ==
  ASSUME NEW s, NEW n \in Nat
  PROVE  \E A : Follows(s, n, A)
<1> DEFINE S == {k \in Nat : \E A : Follows(s, k, A)}
<1>1. 0 \in S
  <2> DEFINE A == [j \in 0 .. 0 |-> {Root}]
  <2>1. A = [j \in 0 .. 0 |-> IF j = 0 THEN {Root} ELSE Onward(s, A[j - 1], j)]
    OBVIOUS
  <2>2. Follows(s, 0, A)
    BY <2>1 DEF Follows
  <2> QED BY <2>2
<1>2. \A k \in Nat : k \in S => k + 1 \in S
  BY FollowsOn
<1> HIDE DEF S
<1>3. n \in S
  BY <1>1, <1>2, Induction
<1> QED BY <1>3 DEF S

Followed(s, n, A) ==
  A[0] = {Root} /\ \A i \in 1 .. n : A[i] = Onward(s, A[i - 1], i)

LEMMA AlongIs ==
  ASSUME NEW s, NEW n \in Nat, n = Len(s)
  PROVE  Followed(s, n, Along(s))
<1>1. Along(s) = CHOOSE A : Follows(s, n, A)
  BY Zenon DEF Along, Follows, Onward
<1>2. Follows(s, n, Along(s))
  BY <1>1, FollowExists
<1>3. PICK A : A = Along(s)
  OBVIOUS
<1>4. \A i \in 0 .. n : A[i] = IF i = 0 THEN {Root} ELSE Onward(s, A[i - 1], i)
  BY <1>2, <1>3 DEF Follows
<1>5. 0 \in 0 .. n /\ \A i \in 1 .. n : i \in 0 .. n /\ i # 0
  OBVIOUS
<1>6. Followed(s, n, A)
  BY <1>4, <1>5, Zenon DEF Followed
<1> QED BY <1>3, <1>6

(* Where a path leads nowhere, it leads nowhere further on. *)
LEMMA LeadsNowhere ==
  ASSUME NEW s, NEW n \in Nat, NEW A, Followed(s, n, A),
         NEW i \in 0 .. n, A[i] \cap DOMAIN Medium = {}, i < n
  PROVE  A[n] = {}
<1> DEFINE S == {k \in Nat : i + 1 + k <= n => A[i + 1 + k] = {}}
<1>0. \A j \in 1 .. n : A[j - 1] \cap DOMAIN Medium = {} => A[j] = {}
  <2>1. \A D, j : D \cap DOMAIN Medium = {} => Onward(s, D, j) = {}
    BY DEF Onward
  <2> QED BY <2>1, Zenon DEF Followed
<1>1. 0 \in S
  <2>1. PICK j \in 1 .. n : j = i + 1 + 0 /\ j - 1 = i
    OBVIOUS
  <2>2. A[j] = {}
    BY <1>0, <2>1
  <2> QED BY <2>1, <2>2
<1>2. ASSUME NEW k \in Nat, k \in S PROVE k + 1 \in S
  <2> SUFFICES ASSUME i + 1 + (k + 1) <= n PROVE A[i + 1 + (k + 1)] = {}
    OBVIOUS
  <2>1. A[i + 1 + k] = {}
    BY <1>2
  <2>2. PICK j \in 1 .. n : j = i + 1 + (k + 1) /\ j - 1 = i + 1 + k
    OBVIOUS
  <2>3. A[j] = {}
    BY <1>0, <2>1, <2>2
  <2> QED BY <2>2, <2>3
<1> HIDE DEF S
<1>3. \A k \in Nat : k \in S
  BY <1>1, <1>2, Induction
<1>4. PICK k \in Nat : i + 1 + k = n /\ k = n - (i + 1)
  OBVIOUS
<1>5. k \in S
  BY <1>3
<1> QED BY <1>4, <1>5 DEF S

(* What is left of the path s is r, and what was read of it leads to f.    *)
OnWay(s, r, f) ==
  /\ Len(r) \in 1 .. Len(s) /\ \A i \in 1 .. Len(r) : r[i] = s[Len(s) - Len(r) + i]
  /\ f \in DOMAIN Medium /\ Along(s)[Len(s) - Len(r)] = {f}

LEMMA WayStarts ==
  ASSUME NEW s \in Seq(Names), Len(s) > 0
  PROVE  OnWay(s, s, Root)
<1>1. PICK n \in Nat : n = Len(s) /\ n \in 1 .. n /\ n - n = 0
  BY LenProperties
<1>2. Along(s)[0] = {Root}
  BY <1>1, AlongIs DEF Followed
<1>3. \A i \in 1 .. n : n - n + i = i
  OBVIOUS
<1>4. Root \in DOMAIN Medium
  BY FindAssumption
<1> QED BY <1>1, <1>2, <1>3, <1>4, Zenon DEF OnWay

(* Where the next name, the j-th of n, leads. *)
NextIs(s, r, f, n, j) ==
  /\ n \in Nat /\ j \in 1 .. n /\ n = Len(s) /\ n - j + 1 = Len(r)
  /\ Head(r) = s[j] /\ f \in DOMAIN Medium
  /\ Along(s)[j] = Child(f, Head(r))
  /\ \A i \in 1 .. Len(r) : r[i] = s[j - 1 + i]

LEMMA WayOn ==
  ASSUME NEW s \in Seq(Names), NEW r \in Seq(Names), NEW f, OnWay(s, r, f)
  PROVE  \E n, j : NextIs(s, r, f, n, j)
<1>1. PICK n \in Nat, m \in Nat : n = Len(s) /\ m = Len(r)
  BY LenProperties
<1>2. /\ m \in 1 .. n /\ \A i \in 1 .. m : r[i] = s[n - m + i]
      /\ f \in DOMAIN Medium /\ Along(s)[n - m] = {f}
  BY <1>1, Zenon DEF OnWay
<1>3. PICK j \in 1 .. n : j = n - m + 1 /\ j - 1 = n - m /\ n - j + 1 = m
  BY <1>2
<1>4. \A i \in 1 .. m : r[i] = s[j - 1 + i]
  BY <1>2, <1>3, Zenon
<1>5. Head(r) = s[j]
  <2>1. Head(r) = r[1]
    BY DEF Head
  <2>2. 1 \in 1 .. m
    BY <1>2
  <2> QED BY <1>2, <1>3, <2>1, <2>2, Zenon
<1>6. Along(s)[j] = Onward(s, {f}, j)
  <2>1. \A i \in 1 .. n : Along(s)[i] = Onward(s, Along(s)[i - 1], i)
    BY <1>1, AlongIs DEF Followed
  <2>2. Along(s)[j] = Onward(s, Along(s)[j - 1], j)
    BY <2>1
  <2> QED BY <1>2, <1>3, <2>2, Zenon
<1>7. Onward(s, {f}, j) = Child(f, s[j])
  <2>1. {f} \cap DOMAIN Medium = {f}
    BY <1>2
  <2> QED BY <2>1 DEF Onward
<1>8. Along(s)[j] = Child(f, Head(r))
  BY <1>5, <1>6, <1>7
<1>9. NextIs(s, r, f, n, j)
  BY <1>1, <1>2, <1>3, <1>4, <1>5, <1>8, Zenon DEF NextIs
<1> QED BY <1>9

LEMMA WayEnters ==
  ASSUME NEW s \in Seq(Names), NEW r \in Seq(Names), NEW f, OnWay(s, r, f),
         Len(r) # 1, NEW g \in DOMAIN Medium, Child(f, Head(r)) = {g}
  PROVE  OnWay(s, Tail(r), g)
<1>0. PICK n, j : NextIs(s, r, f, n, j)
  BY WayOn
<1>1. /\ n \in Nat /\ j \in 1 .. n /\ n = Len(s) /\ n - j + 1 = Len(r)
      /\ Along(s)[j] = {g}
      /\ \A i \in 1 .. Len(r) : r[i] = s[j - 1 + i]
  BY <1>0, Zenon DEF NextIs
<1>t. n \in Nat /\ j \in 1 .. n /\ n - j + 1 = Len(r) /\ j # n
  <2>1. n \in Nat /\ j \in 1 .. n /\ n - j + 1 = Len(r)
    BY <1>1
  <2>2. n - n + 1 = 1
    BY <2>1
  <2> QED BY <2>1, <2>2, Zenon
<1>2. PICK m \in 1 .. n : m = n - j /\ Len(r) = m + 1 /\ n - m = j
  <2>1. n - j \in 1 .. n /\ n - (n - j) = j
    BY <1>t
  <2> QED BY <1>t, <2>1, Zenon
<1>3. Len(Tail(r)) = m /\ \A i \in 1 .. m : Tail(r)[i] = r[i + 1]
  <2>1. r # <<>>
    BY <1>2
  <2>2. Len(Tail(r)) = Len(r) - 1 /\ \A i \in 1 .. Len(Tail(r)) : Tail(r)[i] = r[i + 1]
    BY <2>1, HeadTailProperties
  <2>3. Len(r) - 1 = m
    BY <1>2
  <2> QED BY <2>2, <2>3, Zenon
<1>4. ASSUME NEW i \in 1 .. m PROVE Tail(r)[i] = s[n - m + i]
  <2>1. PICK l \in 1 .. m + 1 : l = i + 1 /\ j - 1 + l = n - m + i
    BY <1>t, <1>2
  <2>2. r[l] = s[j - 1 + l]
    BY <1>1, <1>2
  <2> QED BY <1>3, <2>1, <2>2, Zenon
<1>5. Along(s)[n - m] = {g}
  BY <1>1, <1>2, Zenon
<1> QED BY <1>1, <1>3, <1>4, <1>5, Zenon DEF OnWay

LEMMA WayEnds ==
  ASSUME NEW s \in Seq(Names), NEW r \in Seq(Names), NEW f, OnWay(s, r, f),
         Len(r) = 1
  PROVE  Along(s)[Len(s)] = Child(f, Head(r)) /\ Head(r) = s[Len(s)]
<1>0. PICK n, j : NextIs(s, r, f, n, j)
  BY WayOn
<1>1. /\ n \in Nat /\ j \in 1 .. n /\ n = Len(s) /\ n - j + 1 = Len(r) /\ Head(r) = s[j]
      /\ Along(s)[j] = Child(f, Head(r))
  BY <1>0, Zenon DEF NextIs
<1>2. j = n
  BY <1>1
<1> QED BY <1>1, <1>2, Zenon

LEMMA WayLost ==
  ASSUME NEW s \in Seq(Names), NEW r \in Seq(Names), NEW f, OnWay(s, r, f),
         \/ Child(f, Head(r)) = {}
         \/ Len(r) # 1 /\ Child(f, Head(r)) \cap DOMAIN Medium = {}
  PROVE  Along(s)[Len(s)] = {}
<1>0. PICK n, j : NextIs(s, r, f, n, j)
  BY WayOn
<1>1. /\ n \in Nat /\ j \in 1 .. n /\ n = Len(s) /\ n - j + 1 = Len(r)
      /\ Along(s)[j] = Child(f, Head(r))
  BY <1>0, Zenon DEF NextIs
<1>2. Followed(s, n, Along(s))
  BY <1>1, AlongIs
<1>3. CASE j = n
  BY <1>1, <1>3
<1>4. CASE j # n
  <2>1. j \in 0 .. n /\ j < n
    BY <1>1, <1>4
  <2>2. Along(s)[j] \cap DOMAIN Medium = {}
    BY <1>1
  <2> QED BY <1>1, <1>2, <2>1, <2>2, LeadsNowhere
<1> QED BY <1>3, <1>4

(* The first separator changes nothing at the end. *)
LEMMA StrippedLast ==
  ASSUME NEW p \in Paths
  PROVE  Stripped(p)[Len(Stripped(p))] = p[Len(p)]
<1>1. p \in Seq(Names) /\ Len(p) > 0
  <2>1. {p[i] : i \in DOMAIN p} \subseteq Names
    BY DEF Names
  <2>2. p \in Seq({p[i] : i \in DOMAIN p}) /\ Len(p) > 0
    BY FindAssumption
  <2> QED BY <2>1, <2>2, SeqMonotonic
<1>2. PICK n \in Nat : n = Len(p)
  BY <1>1, LenProperties
<1>3. CASE p[1] = <<>> /\ n > 1
  <2>1. Stripped(p) = Tail(p)
    BY <1>2, <1>3 DEF Stripped
  <2>2. p # <<>>
    BY <1>2, <1>3
  <2>3. Len(Tail(p)) = Len(p) - 1 /\ \A i \in 1 .. Len(Tail(p)) : Tail(p)[i] = p[i + 1]
    BY <1>1, <2>2, HeadTailProperties
  <2>4. PICK m \in Nat : m = n - 1 /\ m \in 1 .. m /\ m + 1 = n
    BY <1>3
  <2>5. Len(Tail(p)) = m
    BY <1>2, <2>3, <2>4
  <2>6. Tail(p)[m] = p[m + 1]
    BY <2>3, <2>4, <2>5, Zenon
  <2> QED BY <1>2, <2>1, <2>4, <2>5, <2>6, Zenon
<1>4. CASE ~(p[1] = <<>> /\ n > 1)
  BY <1>2, <1>4 DEF Stripped
<1> QED BY <1>3, <1>4

------------------------------------------------------------------------------
(***************************************************************************)
(* The walk is where the path has led so far.                              *)
(***************************************************************************)
OnTheWay == pc = "walk" => OnWay(Stripped(asked), rest, dir.file)

WInv == IInv /\ OnTheWay /\ FindsNamed /\ MissesNone

LEMMA DirHolds ==
  ASSUME IInv, pc = "walk"
  PROVE  Holds(mem, dir) = dir.file
<1>1. dir # RootHandle => dir.data \in DOMAIN mem /\ mem[dir.data] = dir.file
  BY DEF IInv, Walking, Unshared
<1> QED BY <1>1 DEF Holds, RootHandle

LEMMA PathIs ==
  ASSUME IInv
  PROVE  /\ asked \in Paths /\ Stripped(asked) \in Seq(Names) /\ Len(Stripped(asked)) > 0
         /\ rest \in Seq(Names)
<1>1. asked \in Paths /\ rest \in Seq(Names)
  BY DEF IInv, TypeOK, Walking
<1> QED BY <1>1, StrippedType

LEMMA NamelessLast ==
  ASSUME NEW p, NEW s \in Seq(Names), Nameless(s), s[Len(s)] = p[Len(p)]
  PROVE  p[Len(p)] = <<>>
BY DEF Nameless

LEMMA CallWalks ==
  ASSUME WInv, NEW p \in Paths, Call(p)
  PROVE  OnTheWay' /\ FindsNamed' /\ MissesNone'
<1>1. asked' = p
  BY DEF Call
<1>2. CASE Nameless(Stripped(p))
  <2>1. pc' = "done"
    BY <1>2 DEF Call, Return
  <2>2. p[Len(p)] = <<>>
    BY <1>2, StrippedType, StrippedLast, NamelessLast
  <2>3. ~EndsInName'
    BY <1>1, <2>2 DEF EndsInName
  <2> QED BY <2>1, <2>3 DEF OnTheWay, FindsNamed, MissesNone
<1>3. CASE ~Nameless(Stripped(p)) /\ ~Room(mem, 1)
  <2>1. pc' = "panic"
    BY <1>3 DEF Call, Panic
  <2> QED BY <2>1 DEF OnTheWay, FindsNamed, MissesNone
<1>4. CASE ~Nameless(Stripped(p)) /\ Room(mem, 1)
  <2>1. pc' = "walk" /\ rest' = Stripped(p) /\ dir' = RootHandle
    BY <1>4 DEF Call
  <2>2. OnWay(Stripped(p), Stripped(p), Root)
    BY StrippedType, WayStarts
  <2>3. dir'.file = Root
    BY <2>1 DEF RootHandle
  <2> QED BY <1>1, <2>1, <2>2, <2>3 DEF OnTheWay, FindsNamed, MissesNone
<1> QED BY <1>2, <1>3, <1>4

LEMMA TrailWalks ==
  ASSUME WInv, Trail
  PROVE  OnTheWay' /\ FindsNamed' /\ MissesNone'
<1>1. pc = "walk" /\ Nameless(rest) /\ pc' = "done" /\ asked' = asked
  BY DEF Trail, Return, thisCall
<1> DEFINE s == Stripped(asked)
<1>2. OnWay(s, rest, dir.file) /\ Len(rest) = 1 /\ Head(rest) = <<>>
  BY <1>1 DEF WInv, OnTheWay, Nameless
<1>3. s \in Seq(Names) /\ rest \in Seq(Names) /\ asked \in Paths
  BY PathIs DEF WInv
<1> HIDE DEF s
<1>4. s[Len(s)] = <<>>
  BY <1>2, <1>3, WayEnds
<1>5. asked[Len(asked)] = <<>>
  BY <1>3, <1>4, StrippedLast DEF s
<1>6. ~EndsInName'
  BY <1>1, <1>5 DEF EndsInName
<1> QED BY <1>1, <1>6 DEF OnTheWay, FindsNamed, MissesNone

LEMMA FindWalks ==
  ASSUME WInv, NEW seen \in Readable, Find(seen)
  PROVE  OnTheWay' /\ FindsNamed' /\ MissesNone'
<1> DEFINE s == Stripped(asked)
           f == dir.file
           name == Head(rest)
           t == Target(f, name, seen)
<1>1. pc = "walk" /\ asked' = asked
  BY DEF Find
<1>2. Holds(mem, dir) = f
  BY <1>1, DirHolds DEF WInv
<1>3. OnWay(s, rest, f)
  BY <1>1 DEF WInv, OnTheWay
<1>4. s \in Seq(Names) /\ rest \in Seq(Names) /\ asked \in Paths
  BY PathIs DEF WInv
<1>5. f \in DOMAIN Medium /\ Len(rest) \in Nat /\ Len(rest) > 0
  BY <1>3, <1>4, LenProperties DEF OnWay
<1>6. name \in Names
  BY <1>4, <1>5, HeadTailProperties
<1>7. seen \in 0 .. Len(Medium[f])
  BY <1>2, <1>5 DEF Readable
<1>8. /\ failed' = (t = {} /\ seen < Len(Medium[f]))
      /\ IF ~Room(mem, Needs) THEN Panic
         ELSE \/ t = {} /\ Fail(mem)
              \/ \E e \in t : IF Len(rest) = 1 THEN Found(e)
                              ELSE IF e.kind = "dir" THEN Enter(e)
                              ELSE Fail(Popped(e))
  BY <1>2 DEF Find
<1> HIDE DEF s, f, name, t
<1>9. /\ \A e \in t :
            Child(f, name) = {e.file} /\ (e.kind = "dir" <=> e.file \in DOMAIN Medium)
      /\ t = {} => seen < Len(Medium[f]) \/ Child(f, name) = {}
  BY <1>5, <1>6, <1>7, TargetIs DEF t
<1>10. Meant' = Along(s)[Len(s)]
  BY <1>1 DEF Meant, s
<1>11. CASE Panic
  BY <1>11 DEF Panic, OnTheWay, FindsNamed, MissesNone
<1>12. CASE t = {} /\ Fail(mem)
  <2>1. pc' = "done" /\ ret' = -1
    BY <1>12 DEF Fail, Return
  <2>2. failed' \/ Child(f, name) = {}
    BY <1>8, <1>9, <1>12
  <2>3. failed' \/ Meant' = {}
    BY <1>3, <1>4, <1>10, <2>2, WayLost DEF name
  <2> QED BY <2>1, <2>3 DEF OnTheWay, FindsNamed, MissesNone
<1>13. ASSUME NEW e \in t, Len(rest) = 1, Found(e)
       PROVE  OnTheWay' /\ FindsNamed' /\ MissesNone'
  <2>1. pc' = "done" /\ ret' = 0 /\ file'.file = e.file
    BY <1>13 DEF Found, Return
  <2>2. Meant' = {e.file}
    BY <1>3, <1>4, <1>9, <1>10, <1>13, WayEnds DEF name
  <2> QED BY <2>1, <2>2 DEF OnTheWay, FindsNamed, MissesNone
<1>14. ASSUME NEW e \in t, Len(rest) # 1, e.kind = "dir", Enter(e)
       PROVE  OnTheWay' /\ FindsNamed' /\ MissesNone'
  <2>1. pc' = "walk" /\ rest' = Tail(rest) /\ dir'.file = e.file
    BY <1>1, <1>14 DEF Enter
  <2>2. e.file \in DOMAIN Medium /\ Child(f, name) = {e.file}
    BY <1>9, <1>14
  <2>3. OnWay(s, Tail(rest), e.file)
    BY <1>3, <1>4, <1>14, <2>2, WayEnters DEF name
  <2> QED BY <1>1, <2>1, <2>3 DEF OnTheWay, FindsNamed, MissesNone, s
<1>15. ASSUME NEW e \in t, Len(rest) # 1, e.kind # "dir", Fail(Popped(e))
       PROVE  OnTheWay' /\ FindsNamed' /\ MissesNone'
  <2>1. pc' = "done" /\ ret' = -1
    BY <1>15 DEF Fail, Return
  <2>2. Child(f, name) \cap DOMAIN Medium = {}
    BY <1>9, <1>15
  <2>3. Meant' = {}
    BY <1>3, <1>4, <1>10, <1>15, <2>2, WayLost DEF name
  <2> QED BY <2>1, <2>3 DEF OnTheWay, FindsNamed, MissesNone
<1> QED BY <1>8, <1>11, <1>12, <1>13, <1>14, <1>15

LEMMA NextWInv == WInv /\ [Next]_vars => WInv'
<1> SUFFICES ASSUME WInv, [Next]_vars PROVE WInv'
  OBVIOUS
<1>0. IInv'
  BY NextIInv DEF WInv
<1>1. CASE UNCHANGED vars
  <2>1. OnTheWay' /\ FindsNamed' /\ MissesNone'
    BY <1>1 DEF vars, walk, thisCall, WInv, OnTheWay, FindsNamed, MissesNone,
                EndsInName, Meant
  <2> QED BY <1>0, <2>1 DEF WInv
<1>2. ASSUME NEW p \in Paths, Call(p) PROVE WInv'
  BY <1>0, <1>2, CallWalks DEF WInv
<1>3. ASSUME NEW seen \in Readable, Find(seen) PROVE WInv'
  BY <1>0, <1>3, FindWalks DEF WInv
<1>4. CASE Trail
  BY <1>0, <1>4, TrailWalks DEF WInv
<1>5. ASSUME NEW h \in open, Close(h) PROVE WInv'
  <2>1. pc' = "idle"
    BY <1>5 DEF Close
  <2> QED BY <1>0, <2>1 DEF WInv, OnTheWay, FindsNamed, MissesNone
<1> QED BY <1>1, <1>2, <1>3, <1>4, <1>5 DEF Next

LEMMA WInvariance == Spec => []WInv
<1>1. Init => WInv
  <2> SUFFICES ASSUME Init PROVE WInv
    OBVIOUS
  <2>1. IInv
    BY InitIInv
  <2>2. pc = "idle"
    BY DEF Init
  <2> QED BY <2>1, <2>2 DEF WInv, OnTheWay, FindsNamed, MissesNone
<1> QED BY <1>1, NextWInv, PTL DEF Spec

(* fs.c:8-60, fat.c:251-285, 301-405: for every tree of directories, path  *)
(* and order of failing reads, a file that is found is the one its path    *)
(* names from the root down: each comparison of a name with the padded     *)
(* entries of a directory accepts the entry of that name alone, and each   *)
(* pass of the loop leaves the search in the directory the path means.     *)
THEOREM RightFileFound == Spec => []FindsNamed
<1>1. WInv => FindsNamed
  BY DEF WInv
<1> QED BY <1>1, WInvariance, PTL

(* fat.c:380-383, fs.c:27-48: and a path is reported missing only if there *)
(* is no such file or a read of the medium failed on the way.              *)
THEOREM NoFileMissed == Spec => []MissesNone
<1>1. WInv => MissesNone
  BY DEF WInv
<1> QED BY <1>1, WInvariance, PTL
=============================================================================
