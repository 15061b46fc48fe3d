----------------------------- MODULE AllocProofs -----------------------------
(***************************************************************************)
(* Proofs about the heap, for every arena, block size and request: the     *)
(* entry table stays a partition of the arena, whatever is allocated and   *)
(* freed and however often a block for the table itself is carved out in   *)
(* the middle of an allocation.                                            *)
(***************************************************************************)
EXTENDS Alloc, FiniteSetTheorems, WellFoundedInduction, TLAPS

------------------------------------------------------------------------------
(* Least elements: what the CHOOSEs of the searches pick.                  *)
LEMMA Least ==
  ASSUME NEW S, S \subseteq Nat, S # {}
  PROVE  \E m \in S : \A x \in S : m <= x
<1> DEFINE R == {p \in Nat \X Nat : p[1] < p[2]}
<1>1. IsWellFoundedOn(R, Nat)
  BY NatLessThanWellFounded DEF OpToRel
<1>2. \A x, m \in Nat : x < m => <<x, m>> \in R
  OBVIOUS
<1> HIDE DEF R
<1>3. PICK m \in S : \A x \in S : ~(<<x, m>> \in R)
  BY <1>1, WFMin
<1>4. \A x \in S : ~(x < m)
  BY <1>2, <1>3
<1> QED BY <1>4

LEMMA Division ==
  ASSUME NEW a \in Nat, NEW b \in Nat \ {0}
  PROVE  /\ a = (a \div b) * b + (a % b)
         /\ a \div b \in Nat /\ a % b \in 0 .. b - 1
OBVIOUS

LEMMA Distributes ==
  ASSUME NEW a \in Int, NEW b \in Int, NEW c \in Int
  PROVE  a * c - b * c = (a - b) * c /\ a * c + c = (a + 1) * c
OBVIOUS

LEMMA Multiple ==
  ASSUME NEW q \in Nat, NEW al \in Nat \ {0}
  PROVE  (q * al) % al = 0
<1> DEFINE p == q * al
           d == p \div al
           r == p % al
<1>0. p \in Nat
  OBVIOUS
<1> HIDE DEF p
<1>1. d \in Nat /\ r \in 0 .. al - 1 /\ p = d * al + r
  BY <1>0, Division
<1> HIDE DEF d, r
<1>2. r = (q - d) * al
  <2>1. q * al \in Nat /\ d * al \in Nat
    BY <1>0, <1>1 DEF p
  <2>2. q * al = d * al + r
    BY <1>1 DEF p
  <2>3. q * al - d * al = (q - d) * al
    BY <1>1, Distributes
  <2> QED BY <1>1, <2>1, <2>2, <2>3
<1>3. q - d \in Int
  BY <1>1
<1>4. CASE q - d >= 1
  BY <1>1, <1>2, <1>3, <1>4
<1>5. CASE q - d <= -1
  BY <1>1, <1>2, <1>3, <1>5
<1>6. CASE q - d = 0
  BY <1>1, <1>2, <1>6 DEF r, p
<1> QED BY <1>3, <1>4, <1>5, <1>6

LEMMA RoundedUp ==
  ASSUME NEW x \in Nat, NEW al \in Nat \ {0}
  PROVE  /\ RoundUp(x, al) \in Nat /\ RoundUp(x, al) >= x
         /\ RoundUp(x, al) % al = 0
<1>1. RoundUp(x, al) \in Nat /\ RoundUp(x, al) >= x
  BY DEF RoundUp
<1>2. CASE x % al = 0
  BY <1>1, <1>2 DEF RoundUp
<1>3. CASE x % al # 0
  <2> DEFINE q == x \div al
             rest == x % al
  <2>1. x = q * al + rest /\ q \in Nat /\ rest \in 0 .. al - 1
    BY Division
  <2>2. RoundUp(x, al) = x + (al - rest)
    BY <1>3 DEF RoundUp
  <2> HIDE DEF q, rest
  <2>3. q * al \in Nat
    BY <2>1
  <2>4. RoundUp(x, al) = q * al + al
    BY <2>1, <2>2, <2>3
  <2>5. RoundUp(x, al) = (q + 1) * al
    BY <2>1, <2>4, Distributes
  <2> QED BY <1>1, <2>1, <2>5, Multiple, SMTT(60)
<1> QED BY <1>2, <1>3

(* The table t has n slots. *)
Table(t, n) == n \in Nat /\ t \in [1 .. n -> Entry]

Partition(t) == Separate(t) /\ Inside(t) /\ Covers(t)

LEMMA ArenaType == ArenaLo \in Nat /\ ArenaHi \in Nat /\ ArenaLo < ArenaHi
<1>1. FirstBlock \in Nat /\ FirstBlock < Base + MinAlign
  BY AllocAssumption DEF FirstBlock, RoundUp
<1> QED BY <1>1, AllocAssumption DEF ArenaLo, ArenaHi

(* _add_alloc takes an empty slot whenever there is one. *)
LEMMA AddAllocSlot ==
  ASSUME NEW t, NEW n, Table(t, n), EmptyIn(t) # {}, NEW e \in Entry
  PROVE  \E i \in EmptyIn(t) : AddAlloc(t, e) = [t EXCEPT ![i] = e]
<1>1. EmptyIn(t) \subseteq Nat
  BY DEF EmptyIn, Table
<1>2. \E i \in EmptyIn(t) : \A j \in EmptyIn(t) : i <= j
  BY <1>1, Least
<1> QED BY <1>2 DEF AddAlloc

------------------------------------------------------------------------------
(* The three things ever done to the table. *)
LEMMA Relabel ==
  ASSUME NEW t, NEW n, Table(t, n), Partition(t), NEW u, Table(u, n),
         NEW i \in Valid(t), u[i].flag # "empty",
         u[i].addr = t[i].addr, u[i].size = t[i].size,
         \A k \in 1 .. n : k # i => u[k] = t[k]
  PROVE  Partition(u) /\ Valid(u) = Valid(t)
<1>1. DOMAIN t = 1 .. n /\ DOMAIN u = 1 .. n /\ i \in 1 .. n
  BY DEF Table, Valid
<1>2. Valid(u) = Valid(t)
  BY <1>1 DEF Valid
<1>3. \A k \in Valid(t) : u[k].addr = t[k].addr /\ u[k].size = t[k].size
  BY <1>1 DEF Valid
<1>4. Partition(u)
  BY <1>2, <1>3 DEF Partition, Separate, Apart, Inside, Covers, End
<1> QED BY <1>2, <1>4

(* u is t with valid entry i cut in two, one part now in the empty slot j. *)
Cut(t, u, i, j) ==
  /\ i \in Valid(t) /\ j \in EmptyIn(t)
  /\ {i, j} \subseteq Valid(u)
  /\ u[i].size > 0 /\ u[j].size > 0
  /\ \/ u[i].addr = t[i].addr /\ u[j].addr = End(u[i]) /\ End(u[j]) = End(t[i])
     \/ u[j].addr = t[i].addr /\ u[i].addr = End(u[j]) /\ End(u[i]) = End(t[i])
  /\ \A k \in DOMAIN t : k # i /\ k # j => u[k] = t[k]

LEMMA Split ==
  ASSUME NEW t, NEW n, Table(t, n), Partition(t), NEW u, Table(u, n),
         NEW i, NEW j, Cut(t, u, i, j)
  PROVE  Partition(u) /\ Valid(u) = Valid(t) \cup {j}
<1> DEFINE x == u[i]
           y == u[j]
<1>1. DOMAIN t = 1 .. n /\ DOMAIN u = 1 .. n /\ i \in 1 .. n /\ j \in 1 .. n
      /\ i # j /\ n \in Nat /\ i \in Valid(t) /\ j \in EmptyIn(t)
  BY DEF Table, Valid, EmptyIn, Cut
<1>c. /\ x.size > 0 /\ y.size > 0
      /\ \/ x.addr = t[i].addr /\ y.addr = End(x) /\ End(y) = End(t[i])
         \/ y.addr = t[i].addr /\ x.addr = End(y) /\ End(x) = End(t[i])
  BY DEF Cut
<1>d. /\ x.flag # "empty" /\ y.flag # "empty" /\ u[i] = x /\ u[j] = y
      /\ \A k \in 1 .. n : k # i /\ k # j => u[k] = t[k]
  BY <1>1 DEF Cut, Valid
<1>2. Valid(u) = Valid(t) \cup {j}
  BY <1>1, <1>d DEF Valid, EmptyIn
<1>3. \A k \in Valid(t) : t[k].addr \in Nat /\ t[k].size \in Nat
  BY <1>1 DEF Table, Valid, Entry
<1>4. x.addr \in Nat /\ x.size \in Nat /\ y.addr \in Nat /\ y.size \in Nat
  BY <1>1 DEF Entry, Table
<1> HIDE DEF x, y
<1>5. \A k \in Valid(u) : k = i \/ k = j \/ (k \in Valid(t) /\ k # i /\ u[k] = t[k])
  BY <1>1, <1>2, <1>d DEF EmptyIn, Valid
<1>6. /\ Apart(x, y) /\ Apart(y, x)
      /\ \A k \in Valid(t) : k # i => /\ Apart(t[k], x) /\ Apart(x, t[k])
                                      /\ Apart(t[k], y) /\ Apart(y, t[k])
  <2>1. t[i].addr \in Nat /\ t[i].size \in Nat
    BY <1>1, <1>3
  <2>2. Apart(x, y) /\ Apart(y, x)
    BY <1>4, <1>c, <2>1 DEF Apart, End
  <2>3. ASSUME NEW k \in Valid(t), k # i
        PROVE  Apart(t[k], x) /\ Apart(x, t[k]) /\ Apart(t[k], y) /\ Apart(y, t[k])
    <3>1. t[k].addr \in Nat /\ t[k].size \in Nat
      BY <1>3
    <3>2. Apart(t[k], t[i])
      BY <1>1, <2>3 DEF Partition, Separate
    <3> QED BY <1>4, <1>c, <2>1, <3>1, <3>2 DEF Apart, End
  <2> QED BY <2>2, <2>3
<1>7. Separate(u)
  BY <1>5, <1>6, <1>d DEF Separate, Partition
<1>8. Inside(u)
  <2>1. t[i].size > 0 /\ ArenaLo <= t[i].addr /\ End(t[i]) <= ArenaHi
    BY <1>1 DEF Partition, Inside
  <2>2. /\ ArenaLo <= x.addr /\ End(x) <= ArenaHi
        /\ ArenaLo <= y.addr /\ End(y) <= ArenaHi
    <3>1. t[i].addr \in Nat /\ t[i].size \in Nat
      BY <1>1, <1>3
    <3> QED BY <1>4, <1>c, <2>1, <3>1, ArenaType DEF End
  <2> QED BY <1>5, <1>c, <1>d, <2>2 DEF Inside, Partition
<1>9. Covers(u)
  <2> SUFFICES ASSUME NEW b \in ArenaLo .. ArenaHi - 1
               PROVE  \E k \in Valid(u) : u[k].addr <= b /\ b < End(u[k])
    BY DEF Covers
  <2>1. PICK k \in Valid(t) : t[k].addr <= b /\ b < End(t[k])
    BY DEF Partition, Covers
  <2>2. CASE k # i
    BY <1>1, <1>2, <1>d, <2>1, <2>2 DEF EmptyIn, Valid
  <2>3. CASE k = i
    <3>1. (x.addr <= b /\ b < End(x)) \/ (y.addr <= b /\ b < End(y))
      <4>1. t[i].addr \in Nat /\ t[i].size \in Nat /\ b \in Nat
        BY <1>1, <1>3, ArenaType
      <4> QED BY <1>4, <1>c, <2>1, <2>3, <4>1 DEF End
    <3> QED BY <1>1, <1>2, <1>d, <3>1
  <2> QED BY <2>2, <2>3
<1> QED BY <1>2, <1>7, <1>8, <1>9 DEF Partition

(* u is t with the neighbours i and j made one entry, i; slot j is empty. *)
Fused(t, u, i, j) ==
  /\ {i, j} \subseteq Valid(t) /\ i # j
  /\ u[i].flag # "empty" /\ u[j].flag = "empty"
  /\ u[i].size = t[i].size + t[j].size
  /\ \/ End(t[j]) = t[i].addr /\ u[i].addr = t[j].addr
     \/ End(t[i]) = t[j].addr /\ u[i].addr = t[i].addr
  /\ \A k \in DOMAIN t : k # i /\ k # j => u[k] = t[k]

LEMMA Join ==
  ASSUME NEW t, NEW n, Table(t, n), Partition(t), NEW u, Table(u, n),
         NEW i, NEW j, Fused(t, u, i, j)
  PROVE  Partition(u) /\ Valid(u) = Valid(t) \ {j}
<1> DEFINE x == u[i]
<1>1. DOMAIN t = 1 .. n /\ DOMAIN u = 1 .. n /\ i \in 1 .. n /\ j \in 1 .. n
      /\ n \in Nat /\ i \in Valid(t) /\ j \in Valid(t) /\ i # j
  BY DEF Table, Valid, Fused
<1>c. /\ x.size = t[i].size + t[j].size
      /\ \/ End(t[j]) = t[i].addr /\ x.addr = t[j].addr
         \/ End(t[i]) = t[j].addr /\ x.addr = t[i].addr
  BY DEF Fused
<1>d. /\ x.flag # "empty" /\ u[i] = x /\ u[j].flag = "empty"
      /\ \A k \in 1 .. n : k # i /\ k # j => u[k] = t[k]
  BY <1>1 DEF Fused
<1>e. \A k \in {i, j} : t[k].addr \in Nat /\ t[k].size \in Nat /\ t[k].size > 0
  BY <1>1 DEF Table, Entry, Partition, Inside
<1>2. Valid(u) = Valid(t) \ {j}
  BY <1>1, <1>d DEF Valid
<1>3. \A k \in Valid(t) : t[k].addr \in Nat /\ t[k].size \in Nat
  BY <1>1 DEF Table, Valid, Entry
<1>4. x.addr \in Nat /\ x.size \in Nat
  BY <1>1 DEF Entry, Table
<1> HIDE DEF x
<1>5. \A k \in Valid(u) : k = i \/ (k \in Valid(t) /\ k # i /\ k # j /\ u[k] = t[k])
  BY <1>1, <1>2, <1>d DEF Valid
<1>6. \A k \in Valid(t) : k # i /\ k # j => Apart(t[k], x) /\ Apart(x, t[k])
  <2> TAKE k \in Valid(t)
  <2> HAVE k # i /\ k # j
  <2>1. Apart(t[k], t[i]) /\ Apart(t[k], t[j])
    BY <1>1 DEF Partition, Separate
  <2>2. t[k].addr \in Nat /\ t[k].size \in Nat /\ t[k].size > 0
    BY <1>3 DEF Partition, Inside
  <2>3. /\ t[i].addr \in Nat /\ t[i].size \in Nat /\ t[i].size > 0
        /\ t[j].addr \in Nat /\ t[j].size \in Nat /\ t[j].size > 0
    BY <1>e
  <2> QED BY <1>4, <1>c, <2>1, <2>2, <2>3 DEF Apart, End
<1>7. Separate(u)
  BY <1>5, <1>6, <1>d DEF Separate, Partition
<1>8. Inside(u)
  <2>1. /\ t[i].size > 0 /\ t[j].size > 0
        /\ ArenaLo <= t[i].addr /\ ArenaLo <= t[j].addr
        /\ End(t[i]) <= ArenaHi /\ End(t[j]) <= ArenaHi
    BY <1>1 DEF Partition, Inside
  <2>2. x.size > 0 /\ ArenaLo <= x.addr /\ End(x) <= ArenaHi
    BY <1>4, <1>c, <1>e, <2>1, ArenaType DEF End
  <2> QED BY <1>5, <1>d, <2>2 DEF Inside, Partition
<1>9. Covers(u)
  <2> SUFFICES ASSUME NEW b \in ArenaLo .. ArenaHi - 1
               PROVE  \E k \in Valid(u) : u[k].addr <= b /\ b < End(u[k])
    BY DEF Covers
  <2>1. PICK k \in Valid(t) : t[k].addr <= b /\ b < End(t[k])
    BY DEF Partition, Covers
  <2>2. CASE k # i /\ k # j
    BY <1>1, <1>2, <1>d, <2>1, <2>2 DEF Valid
  <2>3. CASE k = i \/ k = j
    <3>1. x.addr <= b /\ b < End(x)
      <4>1. b \in Nat
        BY ArenaType
      <4> QED BY <1>4, <1>c, <1>e, <2>1, <2>3, <4>1 DEF End
    <3>2. i \in Valid(u)
      BY <1>1, <1>2
    <3> QED BY <1>d, <3>1, <3>2
  <2> QED BY <2>2, <2>3
<1> QED BY <1>2, <1>7, <1>8, <1>9 DEF Partition

------------------------------------------------------------------------------
(* Carving an allocation out of a free entry. *)
LEMMA TrimGood ==
  ASSUME NEW t, NEW n, Table(t, n), Partition(t), NEW i \in FreeIn(t),
         NEW at \in Nat, t[i].addr <= at, at < End(t[i]),
         t[i].addr = at \/ EmptyIn(t) # {},
         NEW u, u = Trim(t, i, at)
  PROVE  /\ Table(u, n) /\ Partition(u) /\ i \in FreeIn(u)
         /\ u[i].addr = at /\ u[i].size = End(t[i]) - at
         /\ IF t[i].addr = at THEN EmptyIn(u) = EmptyIn(t)
            ELSE \E j \in EmptyIn(t) : EmptyIn(u) = EmptyIn(t) \ {j}
         /\ UsedIn(u) = UsedIn(t) /\ \A k \in UsedIn(t) : u[k] = t[k]
         /\ \A k \in FreeIn(u) :
              \/ k = i
              \/ k # i /\ k \in FreeIn(t) /\ u[k] = t[k]
              \/ t[i].addr < at /\ u[k].addr = t[i].addr /\ End(u[k]) = at
<1>1. DOMAIN t = 1 .. n /\ i \in 1 .. n /\ i \in Valid(t) /\ n \in Nat
      /\ t[i].addr \in Nat /\ t[i].size \in Nat /\ t[i].flag = "free"
  BY DEF Table, Valid, FreeIn, Entry
<1>2. CASE t[i].addr = at
  <2>1. u = t
    BY <1>2 DEF Trim
  <2>2. u[i].size = End(t[i]) - at
    BY <1>1, <1>2, <2>1 DEF End
  <2> QED BY <1>1, <1>2, <2>1, <2>2
<1>3. CASE t[i].addr # at
  <2> DEFINE rest == End(t[i]) - at
             gap == at - t[i].addr
             x == FreeEnt(at, rest)
             y == FreeEnt(t[i].addr, gap)
  <2>0. /\ rest \in Nat /\ rest > 0 /\ at + rest = End(t[i])
        /\ gap \in Nat /\ gap > 0 /\ t[i].addr + gap = at
    BY <1>1, <1>3 DEF End
  <2> HIDE DEF rest, gap
  <2>1. /\ x \in Entry /\ x.flag = "free" /\ x.addr = at
        /\ x.size = rest /\ x.size > 0 /\ End(x) = End(t[i])
    <3>1. /\ x \in Entry /\ x.flag = "free" /\ x.addr = at
          /\ x.size = rest /\ End(x) = at + rest
      BY <2>0 DEF FreeEnt, Entry, End
    <3> QED BY <2>0, <3>1
  <2>2. /\ y \in Entry /\ y.flag = "free" /\ y.addr = t[i].addr
        /\ y.size > 0 /\ End(y) = at
    <3>1. /\ y \in Entry /\ y.flag = "free" /\ y.addr = t[i].addr
          /\ y.size = gap /\ End(y) = t[i].addr + gap
      BY <1>1, <2>0 DEF FreeEnt, Entry, End
    <3> QED BY <2>0, <3>1
  <2>3. u = [AddAlloc(t, y) EXCEPT ![i] = x]
    BY <1>3 DEF Trim, rest, gap
  <2> HIDE DEF x, y
  <2>4. PICK j \in EmptyIn(t) : AddAlloc(t, y) = [t EXCEPT ![j] = y]
    BY <1>3, <2>2, AddAllocSlot
  <2>5. j \in 1 .. n /\ j # i
    BY <1>1, <2>4 DEF EmptyIn
  <2>6. /\ Table(u, n) /\ u[i] = x /\ u[j] = y
        /\ \A k \in 1 .. n : k # i /\ k # j => u[k] = t[k]
    BY <1>1, <2>1, <2>2, <2>3, <2>4, <2>5 DEF Table
  <2>7. Partition(u) /\ Valid(u) = Valid(t) \cup {j}
    <3>1. Cut(t, u, i, j)
      BY <1>1, <2>1, <2>2, <2>4, <2>5, <2>6 DEF Cut, Valid, Table
    <3> QED BY <2>6, <3>1, Split
  <2>8. DOMAIN u = 1 .. n
    BY <2>6 DEF Table
  <2>9. EmptyIn(u) = EmptyIn(t) \ {j}
    BY <1>1, <2>7, <2>8 DEF EmptyIn
  <2>10. i \in FreeIn(u)
    BY <1>1, <2>1, <2>6, <2>8 DEF FreeIn
  <2>11. u[i].addr = at /\ u[i].size = End(t[i]) - at
    BY <2>1, <2>6 DEF rest
  <2>12. UsedIn(u) = UsedIn(t) /\ \A k \in UsedIn(t) : u[k] = t[k]
    BY <1>1, <2>1, <2>2, <2>4, <2>5, <2>6, <2>8, SMTT(60) DEF UsedIn, EmptyIn, Valid
  <2>13. \A k \in FreeIn(u) : k # i /\ k # j => k \in FreeIn(t) /\ u[k] = t[k]
    BY <1>1, <2>6, <2>8 DEF FreeIn
  <2>14. t[i].addr < at
    BY <1>1, <1>3
  <2> QED BY <1>3, <2>2, <2>4, <2>6, <2>7, <2>9, <2>10, <2>11, <2>12, <2>13, <2>14
<1> QED BY <1>2, <1>3

LEMMA ClaimGood ==
  ASSUME NEW t, NEW n, Table(t, n), Partition(t), NEW i \in FreeIn(t),
         NEW sz \in Nat, 0 < sz, sz <= t[i].size,
         t[i].size = sz \/ EmptyIn(t) # {},
         NEW u, u = Claim(t, i, sz)
  PROVE  /\ Table(u, n) /\ Partition(u)
         /\ EmptyIn(u) = EmptyIn(t) \/ \E j \in EmptyIn(t) : EmptyIn(u) = EmptyIn(t) \ {j}
         /\ \E j \in UsedIn(u) :
              /\ u[j].addr = t[i].addr /\ u[j].size = sz
              /\ UsedIn(u) = UsedIn(t) \cup {j} /\ \A k \in UsedIn(t) : u[k] = t[k]
         /\ \A k \in FreeIn(u) :
              \/ k # i /\ k \in FreeIn(t) /\ u[k] = t[k]
              \/ k = i /\ u[i].addr = t[i].addr + sz /\ End(u[i]) = End(t[i])
<1>1. DOMAIN t = 1 .. n /\ i \in 1 .. n /\ i \in Valid(t) /\ n \in Nat
      /\ t[i].addr \in Nat /\ t[i].size \in Nat /\ t[i].flag = "free"
  BY DEF Table, Valid, FreeIn, Entry
<1>2. CASE t[i].size = sz
  <2> DEFINE e == UsedEnt(t[i].addr, sz)
  <2>1. u = [t EXCEPT ![i] = e]
    BY <1>2 DEF Claim
  <2>2. e \in Entry /\ e.flag = "used" /\ e.addr = t[i].addr /\ e.size = t[i].size
    BY <1>1, <1>2 DEF UsedEnt, Entry
  <2> HIDE DEF e
  <2>3. Table(u, n) /\ u[i] = e /\ \A k \in 1 .. n : k # i => u[k] = t[k]
    BY <1>1, <2>1, <2>2 DEF Table
  <2>4. u[i].flag # "empty" /\ u[i].addr = t[i].addr /\ u[i].size = t[i].size
    BY <2>2, <2>3
  <2>5. Partition(u) /\ Valid(u) = Valid(t) /\ DOMAIN u = 1 .. n
    BY <1>1, <2>3, <2>4, Relabel, ZenonT(60) DEF Table
  <2>6. EmptyIn(u) = EmptyIn(t)
    BY <1>1, <2>5 DEF EmptyIn
  <2>7. i \in UsedIn(u) /\ UsedIn(u) = UsedIn(t) \cup {i}
    BY <1>1, <2>2, <2>3, <2>5 DEF UsedIn
  <2>8. \A k \in UsedIn(t) : u[k] = t[k]
    BY <1>1, <2>3 DEF UsedIn
  <2>9. \A k \in FreeIn(u) : k # i /\ k \in FreeIn(t) /\ u[k] = t[k]
    BY <1>1, <2>2, <2>3, <2>5 DEF FreeIn
  <2> QED BY <1>2, <2>3, <2>4, <2>5, <2>6, <2>7, <2>8, <2>9
<1>3. CASE t[i].size # sz
  <2> DEFINE next == t[i].addr + sz
             rest == t[i].size - sz
             x == FreeEnt(next, rest)
             y == UsedEnt(t[i].addr, sz)
             v == [t EXCEPT ![i] = x]
  <2>0. /\ next \in Nat /\ rest \in Nat /\ rest > 0 /\ next + rest = End(t[i])
        /\ next = t[i].addr + sz
    BY <1>1, <1>3, SMTT(60) DEF End
  <2>c. Claim(t, i, sz) = AddAlloc(v, y)
    BY <1>3 DEF Claim
  <2> HIDE DEF next, rest
  <2>1. /\ x \in Entry /\ x.flag = "free" /\ x.addr = next
        /\ x.size > 0 /\ End(x) = End(t[i])
    <3>1. /\ x \in Entry /\ x.flag = "free" /\ x.addr = next
          /\ x.size = rest /\ End(x) = next + rest
      BY <2>0 DEF FreeEnt, Entry, End
    <3> QED BY <2>0, <3>1
  <2>2. /\ y \in Entry /\ y.flag = "used" /\ y.addr = t[i].addr
        /\ y.size > 0 /\ End(y) = next
    <3>1. /\ y \in Entry /\ y.flag = "used" /\ y.addr = t[i].addr
          /\ y.size = sz /\ End(y) = t[i].addr + sz
      BY <1>1 DEF UsedEnt, Entry, End
    <3> QED BY <2>0, <3>1
  <2>3. u = AddAlloc(v, y)
    BY <2>c
  <2> HIDE DEF x, y
  <2>4. Table(v, n) /\ DOMAIN v = 1 .. n /\ v[i] = x
        /\ \A k \in 1 .. n : k # i => v[k] = t[k]
    BY <1>1, <2>1 DEF Table
  <2>5. EmptyIn(v) = EmptyIn(t)
    BY <1>1, <2>1, <2>4 DEF EmptyIn, Valid
  <2> HIDE DEF v
  <2>6. PICK j \in EmptyIn(v) : AddAlloc(v, y) = [v EXCEPT ![j] = y]
    BY <1>3, <2>2, <2>4, <2>5, AddAllocSlot
  <2>7. j \in 1 .. n /\ j # i /\ j \in EmptyIn(t)
    BY <1>1, <2>5, <2>6 DEF EmptyIn
  <2>8. /\ Table(u, n) /\ u[i] = x /\ u[j] = y
        /\ \A k \in 1 .. n : k # i /\ k # j => u[k] = t[k]
    BY <1>1, <2>1, <2>2, <2>3, <2>4, <2>6, <2>7 DEF Table
  <2>9. Cut(t, u, i, j)
    BY <1>1, <2>1, <2>2, <2>7, <2>8 DEF Cut, Valid, Table
  <2>10. Partition(u) /\ Valid(u) = Valid(t) \cup {j} /\ DOMAIN u = 1 .. n
    BY <2>8, <2>9, Split DEF Table
  <2>11. EmptyIn(u) = EmptyIn(t) \ {j}
    BY <1>1, <2>10 DEF EmptyIn
  <2>12. j \in UsedIn(u) /\ UsedIn(u) = UsedIn(t) \cup {j}
    BY <1>1, <2>1, <2>2, <2>7, <2>8, <2>10 DEF UsedIn, EmptyIn, Valid
  <2>13. \A k \in UsedIn(t) : u[k] = t[k]
    BY <1>1, <2>7, <2>8 DEF UsedIn, EmptyIn, Valid
  <2>14. \A k \in FreeIn(u) : k # i => k \in FreeIn(t) /\ u[k] = t[k]
    BY <1>1, <2>2, <2>8, <2>10 DEF FreeIn
  <2>15. u[j].addr = t[i].addr /\ u[j].size = sz
    BY <2>8 DEF y, UsedEnt
  <2>16. u[i].addr = t[i].addr + sz /\ End(u[i]) = End(t[i])
    BY <2>0, <2>1, <2>8
  <2> QED BY <2>7, <2>8, <2>10, <2>11, <2>12, <2>13, <2>14, <2>15, <2>16
<1> QED BY <1>2, <1>3

LEMMA FiniteEmpty ==
  ASSUME NEW t, NEW n, Table(t, n)
  PROVE  IsFiniteSet(EmptyIn(t)) /\ Cardinality(EmptyIn(t)) \in Nat
<1>1. EmptyIn(t) \subseteq 1 .. n
  BY DEF EmptyIn, Table
<1>2. IsFiniteSet(1 .. n)
  BY FS_Interval DEF Table
<1> QED BY <1>1, <1>2, FS_Subset, FS_CardinalityType

LEMMA OneLess ==
  ASSUME NEW S, IsFiniteSet(S), NEW T, T = S \/ \E j \in S : T = S \ {j}
  PROVE  Cardinality(T) \in Nat /\ Cardinality(T) + 1 >= Cardinality(S)
<1>1. Cardinality(S) \in Nat
  BY FS_CardinalityType
<1>2. CASE T = S
  BY <1>1, <1>2
<1>3. ASSUME NEW j \in S, T = S \ {j}
      PROVE  Cardinality(T) \in Nat /\ Cardinality(T) = Cardinality(S) - 1
  BY <1>1, <1>3, FS_RemoveElement, FS_CardinalityType
<1> QED BY <1>1, <1>2, <1>3

LEMMA NonEmpty ==
  ASSUME NEW S, Cardinality(S) >= 1
  PROVE  S # {}
BY FS_EmptySet

(* The regions of the used entries. *)
Held(t) == {[addr |-> t[k].addr, size |-> t[k].size] : k \in UsedIn(t)}

LEMMA CarveGood ==
  ASSUME NEW t, NEW n, Table(t, n), Partition(t), NEW i \in FreeIn(t),
         NEW at \in Nat, NEW sz \in Nat, 0 < sz,
         t[i].addr <= at, at + sz <= End(t[i]),
         Cardinality(EmptyIn(t)) >= SlotsNeeded(t, i, at, sz),
         NEW u, u = Carve(t, i, at, sz)
  PROVE  /\ Table(u, n) /\ Partition(u)
         /\ Cardinality(EmptyIn(u)) + 2 >= Cardinality(EmptyIn(t))
         /\ Held(u) = Held(t) \cup {[addr |-> at, size |-> sz]}
         /\ Merged(t) => Merged(u)
<1>1. t[i].addr \in Nat /\ t[i].size \in Nat /\ End(t[i]) \in Nat
  BY DEF Table, FreeIn, Entry, End
<1>2. IsFiniteSet(EmptyIn(t)) /\ Cardinality(EmptyIn(t)) \in Nat
  BY FiniteEmpty
<1>3. t[i].addr = at \/ EmptyIn(t) # {}
  BY <1>2, NonEmpty DEF SlotsNeeded
<1> DEFINE v == Trim(t, i, at)
<1>4. u = Claim(v, i, sz)
  BY DEF Carve
<1> HIDE DEF v
<1>5. /\ Table(v, n) /\ Partition(v) /\ i \in FreeIn(v)
      /\ v[i].addr = at /\ v[i].size = End(t[i]) - at
      /\ IF t[i].addr = at THEN EmptyIn(v) = EmptyIn(t)
         ELSE \E j \in EmptyIn(t) : EmptyIn(v) = EmptyIn(t) \ {j}
      /\ UsedIn(v) = UsedIn(t) /\ \A k \in UsedIn(t) : v[k] = t[k]
      /\ \A k \in FreeIn(v) :
           \/ k = i
           \/ k # i /\ k \in FreeIn(t) /\ v[k] = t[k]
           \/ t[i].addr < at /\ v[k].addr = t[i].addr /\ End(v[k]) = at
  <2>1. at < End(t[i])
    BY <1>1
  <2> QED BY <1>3, <2>1, TrimGood DEF v
<1>6. v[i].size = sz \/ EmptyIn(v) # {}
  <2> SUFFICES ASSUME v[i].size # sz PROVE EmptyIn(v) # {}
    OBVIOUS
  <2>1. CASE t[i].addr = at
    BY <1>2, <1>5, <2>1, NonEmpty DEF SlotsNeeded
  <2>2. CASE t[i].addr # at
    <3>1. Cardinality(EmptyIn(t)) >= 2
      BY <1>2, <1>5, <2>2 DEF SlotsNeeded
    <3>2. PICK j \in EmptyIn(t) : EmptyIn(v) = EmptyIn(t) \ {j}
      BY <1>5, <2>2
    <3>3. Cardinality(EmptyIn(v)) = Cardinality(EmptyIn(t)) - 1
      BY <1>2, <3>2, FS_RemoveElement
    <3> QED BY <1>2, <3>1, <3>3, NonEmpty
  <2> QED BY <2>1, <2>2
<1>7. sz <= v[i].size
  BY <1>1, <1>5
<1>8. /\ Table(u, n) /\ Partition(u)
      /\ EmptyIn(u) = EmptyIn(v) \/ \E j \in EmptyIn(v) : EmptyIn(u) = EmptyIn(v) \ {j}
      /\ \E j \in UsedIn(u) :
           /\ u[j].addr = at /\ u[j].size = sz
           /\ UsedIn(u) = UsedIn(v) \cup {j} /\ \A k \in UsedIn(v) : u[k] = v[k]
      /\ \A k \in FreeIn(u) :
           \/ k # i /\ k \in FreeIn(v) /\ u[k] = v[k]
           \/ k = i /\ u[i].addr = at + sz /\ End(u[i]) = End(v[i])
  BY <1>4, <1>5, <1>6, <1>7, ClaimGood
<1>9. Cardinality(EmptyIn(u)) + 2 >= Cardinality(EmptyIn(t))
  <2>1. /\ Cardinality(EmptyIn(v)) \in Nat
        /\ Cardinality(EmptyIn(v)) + 1 >= Cardinality(EmptyIn(t))
    BY <1>2, <1>5, OneLess
  <2>2. /\ Cardinality(EmptyIn(u)) \in Nat
        /\ Cardinality(EmptyIn(u)) + 1 >= Cardinality(EmptyIn(v))
    <3>1. IsFiniteSet(EmptyIn(v))
      BY <1>5, FiniteEmpty
    <3> QED BY <1>8, <3>1, OneLess
  <2> QED BY <1>2, <2>1, <2>2
<1>10. Held(u) = Held(t) \cup {[addr |-> at, size |-> sz]}
  BY <1>5, <1>8 DEF Held
<1>11. ASSUME Merged(t) PROVE Merged(u)
  <2>1. \A k \in FreeIn(u) : u[k].addr \in Nat /\ End(u[k]) \in Nat /\ u[k].addr < End(u[k])
    <3>1. \A k \in FreeIn(u) : u[k] \in Entry /\ u[k].size > 0
      BY <1>8 DEF Table, FreeIn, Partition, Inside, Valid
    <3> QED BY <3>1 DEF Entry, End
  <2>2. End(v[i]) = End(t[i])
    BY <1>1, <1>5 DEF End
  <2>3. \A k \in FreeIn(u) :
          \/ k # i /\ k \in FreeIn(t) /\ u[k] = t[k]
          \/ u[k].addr = t[i].addr /\ End(u[k]) = at
          \/ u[k].addr = at + sz /\ End(u[k]) = End(t[i])
    BY <1>5, <1>8, <2>2
  <2>4. \A k \in FreeIn(t) : k # i =>
          /\ End(t[k]) # t[i].addr /\ End(t[i]) # t[k].addr
          /\ End(t[k]) <= t[i].addr \/ End(t[i]) <= t[k].addr
    BY <1>11 DEF Merged, Partition, Separate, Apart, FreeIn, Valid
  <2>5. \A k, l \in FreeIn(u) : End(u[k]) # u[l].addr
    <3> TAKE k, l \in FreeIn(u)
    <3>1. CASE k # i /\ k \in FreeIn(t) /\ u[k] = t[k]
      <4>1. CASE l # i /\ l \in FreeIn(t) /\ u[l] = t[l]
        BY <1>11, <3>1, <4>1 DEF Merged
      <4>2. CASE u[l].addr = t[i].addr \/ u[l].addr = at + sz
        BY <1>1, <2>1, <2>4, <3>1, <4>2
      <4> QED BY <2>3, <4>1, <4>2
    <3>2. CASE End(u[k]) = at \/ End(u[k]) = End(t[i])
      BY <1>1, <2>1, <2>3, <2>4, <3>2
    <3> QED BY <2>3, <3>1, <3>2
  <2> QED BY <2>5 DEF Merged
<1> QED BY <1>8, <1>9, <1>10, <1>11

------------------------------------------------------------------------------
(* A whole search, and the growth of the chain. *)
Request == [sz : Nat, al : Nat \ {0}, low : BOOLEAN]

LEMMA BestIsCandidate ==
  ASSUME NEW t, NEW n, Table(t, n), NEW r, Candidates(t, r) # {}
  PROVE  Best(t, r) \in Candidates(t, r)
<1> DEFINE C == Candidates(t, r)
           sizes == {t[j].size : j \in C}
<1>1. \A j \in C : j \in Nat /\ t[j].size \in Nat
  BY DEF Candidates, FreeIn, Table, Entry
<1>2. PICK m \in sizes : \A s \in sizes : m <= s
  <2>1. sizes \subseteq Nat /\ sizes # {}
    BY <1>1
  <2> QED BY <2>1, Least
<1> DEFINE I == {j \in C : t[j].size = m}
<1>3. PICK i \in I : \A j \in I : i <= j
  <2>1. I \subseteq Nat /\ I # {}
    BY <1>1, <1>2
  <2> HIDE DEF I
  <2> QED BY <2>1, Least
<1>4. \A j \in C : t[i].size < t[j].size \/ (t[i].size = t[j].size /\ i <= j)
  <2> TAKE j \in C
  <2>1. m <= t[j].size /\ t[i].size = m
    BY <1>2, <1>3
  <2>2. CASE t[j].size = m
    BY <1>3, <2>1, <2>2
  <2>3. CASE t[j].size # m
    BY <1>1, <1>2, <2>1, <2>3
  <2> QED BY <2>2, <2>3
<1>5. i \in C
  BY <1>3
<1> QED BY <1>4, <1>5 DEF Best

(* Nothing of [at, at + sz) belongs to a used entry or lies outside.       *)
Unused(t, at, sz) ==
  /\ ArenaLo <= at /\ at + sz <= ArenaHi
  /\ \A h \in Held(t) : h.addr + h.size <= at \/ at + sz <= h.addr

(* [at, at + r.sz) is what was asked for. *)
Within(at, r) ==
  /\ at % r.al = 0
  /\ IF r.low THEN at + r.sz <= Low ELSE at >= Low

LEMMA FitsBounds ==
  ASSUME NEW e \in Entry, NEW r \in Request, Fits(e, r)
  PROVE  /\ Start(e, r) \in Nat
         /\ e.addr <= Start(e, r) /\ Start(e, r) + r.sz <= End(e)
         /\ Within(Start(e, r), r)
<1> DEFINE lo == RangeOf(r).lo
           hi == RangeOf(r).hi
           from == Later(e.addr, lo)
<1>1. lo \in Nat /\ hi \in Int
  BY AllocAssumption DEF RangeOf, Range16, Range32
<1>2. e.addr \in Nat /\ e.size \in Nat /\ r.sz \in Nat /\ r.al \in Nat \ {0}
  BY DEF Entry, Request
<1> HIDE DEF lo, hi
<1>3. from \in Nat /\ e.addr <= from
  BY <1>1, <1>2 DEF Later
<1> HIDE DEF from
<1>4. Start(e, r) = RoundUp(from, r.al)
  BY DEF Start, from, lo
<1>5. Start(e, r) \in Nat /\ Start(e, r) >= from
  BY <1>2, <1>3, <1>4, RoundedUp
<1>6. r.sz <= Sooner(End(e), hi) - Start(e, r)
  BY DEF Fits, hi
<1>7. Start(e, r) % r.al = 0
  BY <1>2, <1>3, <1>4, RoundedUp
<1>8. IF r.low THEN Start(e, r) + r.sz <= Low ELSE Start(e, r) >= Low
  <2>1. CASE r.low
    <3>1. hi = Low - 1
      BY <2>1 DEF hi, RangeOf, Range16
    <3>2. Start(e, r) + r.sz <= hi
      BY <1>1, <1>2, <1>5, <1>6 DEF Sooner, End
    <3> QED BY <1>2, <1>5, <2>1, <3>1, <3>2, AllocAssumption
  <2>2. CASE ~r.low
    <3>1. from >= Low
      BY <1>2, <2>2, AllocAssumption DEF from, lo, RangeOf, Range32, Later
    <3> QED BY <1>3, <1>5, <2>2, <3>1, AllocAssumption
  <2> QED BY <2>1, <2>2
<1> QED BY <1>1, <1>2, <1>3, <1>5, <1>6, <1>7, <1>8 DEF Sooner, End, Within

LEMMA AttemptGood ==
  ASSUME NEW t, NEW n, Table(t, n), Partition(t),
         NEW r \in Request, r.sz > 0, Attempt(t, r).res = "ok"
  PROVE  /\ Table(Attempt(t, r).slots, n) /\ Partition(Attempt(t, r).slots)
         /\ Attempt(t, r).addr \in Nat
         /\ Cardinality(EmptyIn(Attempt(t, r).slots)) + 2 >= Cardinality(EmptyIn(t))
         /\ Held(Attempt(t, r).slots)
              = Held(t) \cup {[addr |-> Attempt(t, r).addr, size |-> r.sz]}
         /\ Merged(t) => Merged(Attempt(t, r).slots)
         /\ Unused(t, Attempt(t, r).addr, r.sz)
         /\ Within(Attempt(t, r).addr, r)
<1> DEFINE i == Best(t, r)
           at == Start(t[i], r)
<1>1. /\ Candidates(t, r) # {}
      /\ ~(Cardinality(EmptyIn(t)) < SlotsNeeded(t, i, at, r.sz))
      /\ Attempt(t, r).slots = Carve(t, i, at, r.sz)
      /\ Attempt(t, r).addr = at
  BY DEF Attempt
<1>2. i \in FreeIn(t) /\ Fits(t[i], r)
  BY <1>1, BestIsCandidate DEF Candidates
<1>3. t[i] \in Entry
  BY <1>2 DEF Table, FreeIn
<1> HIDE DEF i
<1>4. at \in Nat /\ t[i].addr <= at /\ at + r.sz <= End(t[i]) /\ Within(at, r)
  BY <1>2, <1>3, FitsBounds
<1>5. Cardinality(EmptyIn(t)) >= SlotsNeeded(t, i, at, r.sz)
  BY <1>1, FiniteEmpty DEF SlotsNeeded
<1>6. r.sz \in Nat
  BY DEF Request
<1> HIDE DEF at
<1>7. Unused(t, at, r.sz)
  <2>1. i \in Valid(t) /\ End(t[i]) <= ArenaHi /\ ArenaLo <= t[i].addr
    BY <1>2 DEF FreeIn, Valid, Partition, Inside
  <2>2. \A k \in UsedIn(t) : End(t[k]) <= t[i].addr \/ End(t[i]) <= t[k].addr
    BY <1>2 DEF FreeIn, UsedIn, Valid, Partition, Separate, Apart
  <2>3. t[i].addr \in Nat /\ End(t[i]) \in Nat
    BY <1>3 DEF Entry, End
  <2>4. \A k \in UsedIn(t) : t[k].addr \in Nat /\ t[k].size \in Nat
    BY DEF Table, UsedIn, Entry
  <2>5. ArenaLo <= at /\ at + r.sz <= ArenaHi
    BY <1>4, <1>6, <2>1, <2>3, ArenaType
  <2>6. \A k \in UsedIn(t) : t[k].addr + t[k].size <= at \/ at + r.sz <= t[k].addr
    BY <1>4, <1>6, <2>2, <2>3, <2>4 DEF End
  <2> QED BY <2>5, <2>6 DEF Unused, Held
<1> QED BY <1>1, <1>2, <1>4, <1>5, <1>6, <1>7, CarveGood

LEMMA ExtendGood ==
  ASSUME NEW t, NEW n, Table(t, n), Partition(t)
  PROVE  /\ Table(Extend(t), n + BlockSz) /\ Partition(Extend(t))
         /\ Cardinality(EmptyIn(Extend(t))) = Cardinality(EmptyIn(t)) + BlockSz
         /\ Held(Extend(t)) = Held(t)
         /\ Merged(t) => Merged(Extend(t))
<1>1. DOMAIN t = 1 .. n /\ Cardinality(1 .. n) = n /\ n \in Nat /\ BlockSz \in Nat
  BY FS_Interval, AllocAssumption, SMTT(60) DEF Table
<1>2. Extend(t) = [i \in 1 .. (n + BlockSz) |-> IF i \in 1 .. n THEN t[i] ELSE Empty]
  BY <1>1 DEF Extend
<1>3. Table(Extend(t), n + BlockSz)
  BY <1>1, <1>2 DEF Table, Empty, Entry
<1>4. /\ DOMAIN Extend(t) = 1 .. (n + BlockSz)
      /\ \A k \in 1 .. n : Extend(t)[k] = t[k]
      /\ \A k \in 1 .. (n + BlockSz) : k \notin 1 .. n => Extend(t)[k].flag = "empty"
  BY <1>1, <1>2 DEF Empty
<1>5. Valid(Extend(t)) = Valid(t)
  BY <1>1, <1>4 DEF Valid
<1>6. \A k \in Valid(t) : Extend(t)[k] = t[k]
  BY <1>1, <1>4 DEF Valid
<1>7. Partition(Extend(t))
  BY <1>5, <1>6 DEF Partition, Separate, Inside, Covers
<1>8. UsedIn(Extend(t)) = UsedIn(t) /\ FreeIn(Extend(t)) = FreeIn(t)
  BY <1>1, <1>4, <1>5 DEF UsedIn, FreeIn, Valid
<1>9. Held(Extend(t)) = Held(t)
  BY <1>1, <1>4, <1>8 DEF Held, UsedIn
<1>10. Merged(t) => Merged(Extend(t))
  BY <1>1, <1>4, <1>8 DEF Merged, FreeIn
<1>11. Cardinality(EmptyIn(Extend(t))) = Cardinality(EmptyIn(t)) + BlockSz
  <2> DEFINE new == n + 1 .. n + BlockSz
  <2>1. EmptyIn(Extend(t)) = EmptyIn(t) \cup new /\ EmptyIn(t) \cap new = {}
    BY <1>1, <1>4, <1>5 DEF EmptyIn, Valid
  <2>2. IsFiniteSet(new) /\ Cardinality(new) = BlockSz
    BY <1>1, FS_Interval
  <2>3. IsFiniteSet(EmptyIn(t)) /\ Cardinality(EmptyIn(t)) \in Nat
    BY FiniteEmpty
  <2> HIDE DEF new
  <2>4. Cardinality({}) = 0
    BY FS_EmptySet
  <2>5. Cardinality(EmptyIn(t) \cup new)
          = Cardinality(EmptyIn(t)) + Cardinality(new) - Cardinality(EmptyIn(t) \cap new)
    BY <2>2, <2>3, FS_Union
  <2>6. /\ Cardinality(EmptyIn(Extend(t))) = Cardinality(EmptyIn(t) \cup new)
        /\ Cardinality(EmptyIn(t) \cap new) = 0
    BY <2>1, <2>4, Zenon
  <2> QED BY <1>1, <2>2, <2>3, <2>5, <2>6
<1> QED BY <1>3, <1>7, <1>9, <1>10, <1>11

------------------------------------------------------------------------------
(* Freeing: the entry joins its free neighbours. *)
LEMMA FirstMember ==
  ASSUME NEW S, S \subseteq Nat, S # {}
  PROVE  First(S) \in S
<1>1. \E i \in S : \A j \in S : i <= j
  BY Least
<1> QED BY <1>1 DEF First

LEMMA NearestMember ==
  ASSUME NEW t, NEW n, Table(t, n), NEW S, S \subseteq DOMAIN t, S # {}
  PROVE  Nearest(t, S) \in S /\ \A j \in S : t[Nearest(t, S)].addr <= t[j].addr
<1> DEFINE A == {t[i].addr : i \in S}
<1>1. A \subseteq Nat /\ A # {}
  BY ZenonT(60) DEF Table, Entry
<1>2. PICK m \in A : \A x \in A : m <= x
  BY <1>1, Least
<1>3. \E i \in S : \A j \in S : t[i].addr <= t[j].addr
  BY <1>2
<1> QED BY <1>3 DEF Nearest

(* Joining entry i with a neighbour leaves the other used entries alone,   *)
(* makes no free ones and needs no slot.                                   *)
Others(t, u, i) ==
  /\ EmptyIn(t) \subseteq EmptyIn(u)
  /\ UsedIn(u) = UsedIn(t) /\ \A k \in UsedIn(t) : k # i => u[k] = t[k]
  /\ FreeIn(u) \subseteq FreeIn(t) /\ \A k \in FreeIn(u) : k # i /\ u[k] = t[k]

LEMMA FusedOthers ==
  ASSUME NEW t, NEW n, Table(t, n), NEW u, Table(u, n), NEW i, NEW q,
         Fused(t, u, i, q),
         t[i].flag = "used", t[q].flag = "free", u[i].flag = "used"
  PROVE  Others(t, u, i)
<1>1. /\ DOMAIN t = 1 .. n /\ DOMAIN u = 1 .. n /\ i # q
      /\ i \in Valid(t) /\ q \in Valid(t) /\ u[q].flag = "empty"
      /\ \A k \in 1 .. n : k # i /\ k # q => u[k] = t[k]
  BY DEF Table, Fused
<1>2. UsedIn(u) = UsedIn(t)
  BY <1>1 DEF UsedIn, Valid
<1>3. \A k \in UsedIn(t) : k # i => u[k] = t[k]
  BY <1>1 DEF UsedIn
<1>4. EmptyIn(t) \subseteq EmptyIn(u)
  BY <1>1 DEF EmptyIn, Valid
<1>5. FreeIn(u) \subseteq FreeIn(t) /\ \A k \in FreeIn(u) : k # i /\ u[k] = t[k]
  BY <1>1 DEF FreeIn
<1> QED BY <1>2, <1>3, <1>4, <1>5 DEF Others

(* The entry i of t has taken in slot p and is otherwise as before. *)
LEMMA JoinPreGood ==
  ASSUME NEW t, NEW n, Table(t, n), Partition(t), NEW i \in UsedIn(t),
         NEW u, u = JoinPre(t, i)
  PROVE  /\ Table(u, n) /\ Partition(u) /\ u[i].flag = "used" /\ i \in 1 .. n
         /\ \A q \in After(t, t[i].addr) : q # i /\ u[q] = t[q] /\ q \in 1 .. n
         /\ Others(t, u, i) /\ End(u[i]) = End(t[i])
         /\ Merged(t) => \A k \in FreeIn(u) : End(u[k]) # u[i].addr
<1>1. /\ DOMAIN t = 1 .. n /\ n \in Nat /\ i \in 1 .. n /\ i \in Valid(t)
      /\ t[i].addr \in Nat /\ t[i].size \in Nat /\ t[i].flag = "used"
  BY DEF Table, UsedIn, Valid, Entry
<1>2. \A q \in After(t, t[i].addr) : q # i /\ q \in 1 .. n /\ t[q].addr > t[i].addr
  BY <1>1 DEF After, FreeIn
<1>3. CASE Before(t, t[i].addr) = {}
  <2>1. u = t
    BY <1>3 DEF JoinPre
  <2>2. Others(t, u, i)
    BY <1>1, <2>1 DEF Others, FreeIn
  <2>3. \A k \in FreeIn(t) : End(t[k]) # t[i].addr
    BY <1>3 DEF Before
  <2> QED BY <1>1, <1>2, <2>1, <2>2, <2>3
<1>4. CASE Before(t, t[i].addr) # {}
  <2> DEFINE p == First(Before(t, t[i].addr))
             sum == t[p].size + t[i].size
             x == UsedEnt(t[p].addr, sum)
  <2>1. p \in Before(t, t[i].addr)
    <3>1. Before(t, t[i].addr) \subseteq Nat
      BY <1>1 DEF Before, FreeIn
    <3> QED BY <1>4, <3>1, FirstMember
  <2>2. u = [t EXCEPT ![i] = x, ![p] = Empty]
    BY <1>4 DEF JoinPre
  <2> HIDE DEF p
  <2>3. /\ p \in 1 .. n /\ t[p].flag = "free" /\ End(t[p]) = t[i].addr
        /\ t[p].addr \in Nat /\ t[p].size \in Nat
    BY <1>1, <2>1 DEF Before, FreeIn, Table, Entry
  <2>4. p # i /\ p \in Valid(t)
    BY <1>1, <2>3 DEF Valid
  <2>5. sum \in Nat
    BY <1>1, <2>3
  <2>6. /\ x \in Entry /\ x.flag = "used" /\ x.addr = t[p].addr
        /\ x.size = t[p].size + t[i].size
    <3> HIDE DEF sum
    <3>1. x \in Entry /\ x.flag = "used" /\ x.addr = t[p].addr /\ x.size = sum
      BY <2>3, <2>5 DEF UsedEnt, Entry
    <3> QED BY <3>1 DEF sum
  <2>7. Empty \in Entry /\ Empty.flag = "empty"
    BY DEF Empty, Entry
  <2> HIDE DEF x
  <2>8. /\ Table(u, n) /\ u[i] = x /\ u[p] = Empty
        /\ \A k \in 1 .. n : k # i /\ k # p => u[k] = t[k]
    BY <1>1, <2>2, <2>3, <2>4, <2>6, <2>7 DEF Table
  <2>9. Fused(t, u, i, p)
    <3>1. u[i].size = t[i].size + t[p].size
      BY <1>1, <2>3, <2>6, <2>8
    <3>2. u[i].flag # "empty" /\ u[p].flag = "empty" /\ u[i].addr = t[p].addr
      BY <2>6, <2>7, <2>8
    <3> QED BY <1>1, <2>3, <2>4, <2>8, <3>1, <3>2 DEF Fused
  <2>10. Partition(u)
    BY <2>8, <2>9, Join
  <2>11. \A q \in After(t, t[i].addr) : q # p
    BY <1>2, <1>1, <2>3 DEF End
  <2>12. Others(t, u, i)
    BY <1>1, <2>3, <2>6, <2>8, <2>9, FusedOthers
  <2>13. End(u[i]) = End(t[i])
    BY <1>1, <2>3, <2>6, <2>8 DEF End
  <2>14. Merged(t) => \A k \in FreeIn(u) : End(u[k]) # u[i].addr
    <3>1. p \in FreeIn(t) /\ u[i].addr = t[p].addr
      BY <1>1, <2>3, <2>6, <2>8 DEF FreeIn
    <3> QED BY <2>12, <3>1 DEF Merged, Others
  <2> QED BY <1>1, <1>2, <2>6, <2>8, <2>10, <2>11, <2>12, <2>13, <2>14
<1> QED BY <1>3, <1>4

LEMMA JoinPostGood ==
  ASSUME NEW t, NEW n, Table(t, n), Partition(t), NEW i \in 1 .. n,
         t[i].flag = "used",
         NEW above, \A q \in above : q # i /\ q \in 1 .. n /\ t[q].flag = "free",
         above = {} \/ /\ Nearest(t, above) \in above
                       /\ \A q \in above : t[Nearest(t, above)].addr <= t[q].addr,
         \A q \in above : End(t[i]) <= t[q].addr,
         \A k \in FreeIn(t) : t[k].addr = End(t[i]) => k \in above,
         NEW u, u = JoinPost(t, i, above)
  PROVE  /\ Table(u, n) /\ Partition(u) /\ u[i].flag = "used"
         /\ Others(t, u, i) /\ u[i].addr = t[i].addr
         /\ Merged(t) => \A k \in FreeIn(u) : End(u[i]) # u[k].addr
<1> DEFINE q == Nearest(t, above)
           sum == t[i].size + t[q].size
           x == UsedEnt(t[i].addr, sum)
<1>1. CASE above = {} \/ End(t[i]) # t[q].addr
  <2>1. u = t
    BY <1>1 DEF JoinPost
  <2>2. Others(t, u, i)
    BY <2>1 DEF Others, FreeIn
  <2>3. \A k \in FreeIn(t) : End(t[i]) # t[k].addr
    <3> SUFFICES ASSUME NEW k \in FreeIn(t), End(t[i]) = t[k].addr PROVE FALSE
      OBVIOUS
    <3>1. k \in above /\ q \in above /\ t[q].addr <= t[k].addr /\ End(t[i]) <= t[q].addr
      OBVIOUS
    <3>2. t[q].addr \in Nat /\ t[k].addr \in Nat
      BY <3>1 DEF Table, Entry
    <3> QED BY <1>1, <3>1, <3>2
  <2> QED BY <2>1, <2>2, <2>3
<1>2. CASE ~(above = {} \/ End(t[i]) # t[q].addr)
  <2>1. above # {} /\ End(t[i]) = t[q].addr
        /\ u = [t EXCEPT ![i] = x, ![q] = Empty]
    BY <1>2 DEF JoinPost
  <2> HIDE DEF q
  <2>2. q \in 1 .. n /\ q # i /\ t[q].flag = "free"
    BY <2>1 DEF q
  <2>3. /\ DOMAIN t = 1 .. n /\ i \in Valid(t) /\ q \in Valid(t)
        /\ t[i].addr \in Nat /\ t[i].size \in Nat
        /\ t[q].addr \in Nat /\ t[q].size \in Nat
    BY <2>2 DEF Table, Valid, Entry
  <2>4. sum \in Nat
    BY <2>3
  <2>5. /\ x \in Entry /\ x.flag = "used" /\ x.addr = t[i].addr
        /\ x.size = t[i].size + t[q].size
    <3> HIDE DEF sum
    <3>1. x \in Entry /\ x.flag = "used" /\ x.addr = t[i].addr /\ x.size = sum
      BY <2>3, <2>4 DEF UsedEnt, Entry
    <3> QED BY <3>1 DEF sum
  <2>6. Empty \in Entry /\ Empty.flag = "empty"
    BY DEF Empty, Entry
  <2> HIDE DEF x
  <2>7. /\ Table(u, n) /\ u[i] = x /\ u[q] = Empty
        /\ \A k \in 1 .. n : k # i /\ k # q => u[k] = t[k]
    BY <2>1, <2>2, <2>3, <2>5, <2>6 DEF Table
  <2>8. Fused(t, u, i, q)
    <3>1. u[i].flag # "empty" /\ u[q].flag = "empty" /\ u[i].addr = t[i].addr
          /\ u[i].size = t[i].size + t[q].size
      BY <2>5, <2>6, <2>7
    <3> QED BY <2>1, <2>2, <2>3, <2>7, <3>1 DEF Fused
  <2>9. Others(t, u, i)
    BY <2>2, <2>5, <2>7, <2>8, FusedOthers
  <2>10. Merged(t) => \A k \in FreeIn(u) : End(u[i]) # u[k].addr
    <3>1. q \in FreeIn(t) /\ End(u[i]) = End(t[q])
      BY <2>1, <2>2, <2>3, <2>5, <2>7 DEF FreeIn, End
    <3> QED BY <2>9, <3>1 DEF Merged, Others
  <2> QED BY <2>5, <2>7, <2>8, <2>9, <2>10, Join
<1> QED BY <1>1, <1>2

LEMMA Distinct ==
  ASSUME NEW t, NEW n, Table(t, n), Partition(t),
         NEW k \in Valid(t), NEW l \in Valid(t), k # l
  PROVE  t[k].addr # t[l].addr
<1>1. Apart(t[k], t[l]) /\ t[k].size > 0 /\ t[l].size > 0
  BY DEF Partition, Separate, Inside
<1>2. t[k] \in Entry /\ t[l] \in Entry
  BY DEF Table, Valid
<1> QED BY <1>1, <1>2 DEF Entry, Apart, End

LEMMA ReleasedGood ==
  ASSUME NEW t, NEW n, Table(t, n), Partition(t), NEW i \in UsedIn(t),
         NEW u, u = Released(t, i)
  PROVE  /\ Table(u, n) /\ Partition(u)
         /\ EmptyIn(t) \subseteq EmptyIn(u)
         /\ Held(u) = Held(t) \ {[addr |-> t[i].addr, size |-> t[i].size]}
         /\ Merged(t) => Merged(u)
<1> DEFINE above == After(t, t[i].addr)
           v == JoinPre(t, i)
           w == JoinPost(v, i, above)
           x == FreeEnt(w[i].addr, w[i].size)
<1>0. /\ i \in Valid(t) /\ t[i] \in Entry /\ t[i].size > 0
      /\ \A k \in FreeIn(t) : /\ k # i /\ t[k] \in Entry
                              /\ End(t[k]) <= t[i].addr \/ End(t[i]) <= t[k].addr
  <2>1. /\ i \in Valid(t) /\ t[i].flag = "used"
        /\ \A k \in FreeIn(t) : k \in Valid(t) /\ k # i
    BY DEF FreeIn, UsedIn, Valid
  <2> QED BY <2>1 DEF Table, Valid, Partition, Separate, Apart, Inside
<1>1. /\ Table(v, n) /\ Partition(v) /\ v[i].flag = "used" /\ i \in 1 .. n
      /\ \A q \in above : q # i /\ v[q] = t[q] /\ q \in 1 .. n
      /\ Others(t, v, i) /\ End(v[i]) = End(t[i])
      /\ Merged(t) => \A k \in FreeIn(v) : End(v[k]) # v[i].addr
  BY JoinPreGood
<1>2. u = [w EXCEPT ![i] = x]
  BY DEF Released
<1>3. /\ \A q \in above : /\ q # i /\ q \in 1 .. n /\ v[q].flag = "free"
                          /\ End(v[i]) <= v[q].addr
      /\ \A k \in FreeIn(v) : v[k].addr = End(v[i]) => k \in above
  <2>1. \A q \in above : q \in FreeIn(t) /\ t[q].addr > t[i].addr
    BY DEF After
  <2>2. \A q \in above : End(t[i]) <= t[q].addr
    <3> TAKE q \in above
    <3>1. t[q].size \in Nat /\ t[q].addr \in Nat /\ t[i].addr \in Nat /\ t[i].size \in Nat
      BY <1>0, <2>1 DEF Entry
    <3> QED BY <1>0, <2>1, <3>1 DEF End
  <2>3. \A k \in FreeIn(t) : t[k].addr = End(t[i]) => k \in above
    BY <1>0 DEF After, Entry, End
  <2> QED BY <1>1, <2>1, <2>2, <2>3 DEF FreeIn, Others
<1> HIDE DEF v, above
<1>4. above = {} \/ /\ Nearest(v, above) \in above
                    /\ \A q \in above : v[Nearest(v, above)].addr <= v[q].addr
  <2>1. above \subseteq DOMAIN v
    BY <1>1 DEF Table
  <2> QED BY <1>1, <2>1, NearestMember
<1>5. /\ Table(w, n) /\ Partition(w) /\ w[i].flag = "used"
      /\ Others(v, w, i) /\ w[i].addr = v[i].addr
      /\ Merged(v) => \A k \in FreeIn(w) : End(w[i]) # w[k].addr
  BY <1>1, <1>3, <1>4, JoinPostGood
<1> HIDE DEF w
<1>6. /\ DOMAIN w = 1 .. n /\ i \in Valid(w)
      /\ w[i].addr \in Nat /\ w[i].size \in Nat
  BY <1>1, <1>5 DEF Table, Valid, Entry
<1>7. /\ x \in Entry /\ x.flag = "free" /\ x.addr = w[i].addr
      /\ x.size = w[i].size
  BY <1>6 DEF FreeEnt, Entry
<1> HIDE DEF x
<1>8. Table(u, n) /\ u[i] = x /\ \A k \in 1 .. n : k # i => u[k] = w[k]
  BY <1>1, <1>2, <1>5, <1>6, <1>7 DEF Table
<1>9. Partition(u) /\ Valid(u) = Valid(w) /\ DOMAIN u = 1 .. n
  <2>1. u[i].flag # "empty" /\ u[i].addr = w[i].addr /\ u[i].size = w[i].size
    BY <1>7, <1>8
  <2> QED BY <1>5, <1>6, <1>8, <2>1, Relabel, SMTT(60) DEF Table
<1>10. EmptyIn(t) \subseteq EmptyIn(u)
  <2>1. EmptyIn(w) = EmptyIn(u)
    BY <1>6, <1>9 DEF EmptyIn
  <2> QED BY <1>1, <1>5, <2>1 DEF Others
<1>11. Held(u) = Held(t) \ {[addr |-> t[i].addr, size |-> t[i].size]}
  <2>1. UsedIn(u) = UsedIn(t) \ {i}
    <3>1. UsedIn(u) = UsedIn(w) \ {i}
      BY <1>6, <1>7, <1>8, <1>9 DEF UsedIn
    <3> QED BY <1>1, <1>5, <3>1 DEF Others
  <2>2. \A k \in UsedIn(u) : u[k] = t[k]
    <3>1. \A k \in UsedIn(u) : k \in UsedIn(t) /\ k # i /\ k \in 1 .. n
      BY <1>9, <2>1 DEF UsedIn
    <3>2. \A k \in UsedIn(t) : k # i => v[k] = t[k] /\ w[k] = v[k]
      BY <1>1, <1>5 DEF Others
    <3> QED BY <1>8, <3>1, <3>2
  <2>3. \A k \in UsedIn(t) : k # i => t[k].addr # t[i].addr
    BY <1>0, Distinct DEF UsedIn, Valid
  <2> QED BY <2>1, <2>2, <2>3 DEF Held
<1>12. ASSUME Merged(t) PROVE Merged(u)
  <2>1. \A k \in FreeIn(u) : k # i =>
          k \in FreeIn(w) /\ k \in FreeIn(v) /\ k \in FreeIn(t)
          /\ u[k] = w[k] /\ u[k] = v[k] /\ u[k] = t[k]
    <3>1. \A k \in FreeIn(u) : k # i => k \in FreeIn(w) /\ u[k] = w[k]
      BY <1>6, <1>8, <1>9 DEF FreeIn
    <3> QED BY <1>1, <1>5, <3>1 DEF Others
  <2>2. u[i].addr = w[i].addr /\ End(u[i]) = End(w[i]) /\ w[i].addr = v[i].addr
    BY <1>5, <1>7, <1>8 DEF End
  <2>3. Merged(v)
    BY <1>1, <1>12 DEF Merged, Others
  <2>4. End(u[i]) # u[i].addr
    BY <1>5, <1>6, <2>2 DEF Partition, Inside, End
  <2>5. \A k \in FreeIn(u) : k # i => End(u[k]) # u[i].addr /\ End(u[i]) # u[k].addr
    BY <1>1, <1>5, <1>12, <2>1, <2>2, <2>3
  <2>6. \A k, l \in FreeIn(u) : k # i /\ l # i => End(u[k]) # u[l].addr
    BY <1>12, <2>1 DEF Merged
  <2> QED BY <2>4, <2>5, <2>6 DEF Merged
<1> QED BY <1>8, <1>9, <1>10, <1>11, <1>12

------------------------------------------------------------------------------
(* The inductive invariant.  To the partition it adds what the other       *)
(* properties need: no two callers, and no caller and the table itself,    *)
(* own the entry of one address, and two slots are always empty, which is  *)
(* what one search may use before the chain is extended.                   *)
Count == BlockSz * Len(blocks)

Owners ==
  /\ \A r, s \in live : r.addr = s.addr => r = s
  /\ \A r \in live, k \in 2 .. Len(blocks) : r.addr # blocks[k]

Spare == Cardinality(EmptyIn(slots)) >= 2 /\ panicked # "no entries"

IInv ==
  /\ TypeOK /\ Partition(slots) /\ Merged(slots)
  /\ LedgerExact /\ Owners /\ Placed /\ Spare

LEMMA CountType ==
  ASSUME TypeOK
  PROVE  /\ Count \in Nat /\ Table(slots, Count) /\ Len(blocks) \in Nat
         /\ \A a \in Nat : /\ Append(blocks, a) \in Seq(Nat)
                           /\ Append(blocks, a) # <<>>
                           /\ BlockSz * Len(Append(blocks, a)) = Count + BlockSz
<1>0. blocks \in Seq(Nat)
  BY DEF TypeOK
<1>1. blocks \in Seq(Nat) /\ Len(blocks) \in Nat
  BY <1>0
<1>2. BlockSz * Len(blocks) \in Nat
  BY <1>1, AllocAssumption
<1>3. slots \in [1 .. BlockSz * Len(blocks) -> Entry]
  BY DEF TypeOK
<1>4. \A a \in Nat : /\ Append(blocks, a) \in Seq(Nat) /\ Append(blocks, a) # <<>>
                    /\ Len(Append(blocks, a)) = Len(blocks) + 1
  BY <1>1
<1>5. BlockSz * (Len(blocks) + 1) = BlockSz * Len(blocks) + BlockSz
  BY <1>1, AllocAssumption
<1> QED BY <1>1, <1>2, <1>3, <1>4, <1>5 DEF Count, Table

LEMMA EnoughSlots ==
  ASSUME NEW t, NEW n, Table(t, n), Cardinality(EmptyIn(t)) >= 2, NEW r
  PROVE  Attempt(t, r).res \in {"no memory", "ok"}
<1>1. \A i, at, sz : SlotsNeeded(t, i, at, sz) \in 0 .. 2
  BY DEF SlotsNeeded
<1>2. Cardinality(EmptyIn(t)) \in Nat
  BY FiniteEmpty
<1> QED BY <1>1, <1>2 DEF Attempt

(* A region that is unused has the address of none that is used. *)
LEMMA UnusedNew ==
  ASSUME NEW t, NEW n, Table(t, n), Partition(t),
         NEW at \in Nat, NEW sz \in Nat, sz > 0, Unused(t, at, sz),
         NEW h \in Held(t)
  PROVE  h.addr # at
<1>1. PICK k \in UsedIn(t) : h = [addr |-> t[k].addr, size |-> t[k].size]
  BY DEF Held
<1>2. t[k] \in Entry /\ t[k].size > 0
  BY DEF Table, Partition, Inside, UsedIn, Valid
<1>3. h.addr = t[k].addr /\ h.size = t[k].size
  BY <1>1
<1>4. h.addr \in Nat /\ h.size \in Nat /\ h.size > 0
  BY <1>2, <1>3 DEF Entry
<1>5. h.addr + h.size <= at \/ at + sz <= h.addr
  BY DEF Unused
<1> QED BY <1>4, <1>5

(* What the nested allocation adds to the blocks of the chain. *)
NewBlock ==
  IF Scarce(slots) THEN {[addr |-> Grown.addr, size |-> BlockBytes]} ELSE {}

LEMMA GrownGood ==
  ASSUME IInv, Grown.res = "ok"
  PROVE  /\ Grown.addr \in Nat /\ Partition(Searched) /\ Merged(Searched)
         /\ Table(Searched, IF Scarce(slots) THEN Count + BlockSz ELSE Count)
         /\ Cardinality(EmptyIn(Searched)) >= 4
         /\ Held(Searched) = Held(slots) \cup NewBlock
         /\ Scarce(slots) => Unused(slots, Grown.addr, BlockBytes)
<1>1. /\ Table(slots, Count) /\ Partition(slots) /\ Merged(slots)
      /\ Cardinality(EmptyIn(slots)) >= 2
  BY CountType DEF IInv, Spare
<1>2. Cardinality(EmptyIn(slots)) \in Nat /\ BlockSz \in Nat /\ BlockSz >= 5
  BY <1>1, FiniteEmpty, AllocAssumption
<1>3. CASE Scarce(slots)
  <2>1. /\ BlockRequest \in Request /\ BlockRequest.sz > 0
        /\ BlockRequest.sz = BlockBytes
    BY AllocAssumption DEF BlockRequest, Request
  <2>2. Grown = Attempt(slots, BlockRequest) /\ Searched = Extend(Grown.slots)
    BY <1>3 DEF Grown, Searched
  <2>3. /\ Table(Grown.slots, Count) /\ Partition(Grown.slots)
        /\ Grown.addr \in Nat
        /\ Cardinality(EmptyIn(Grown.slots)) + 2 >= Cardinality(EmptyIn(slots))
        /\ Held(Grown.slots) = Held(slots) \cup {[addr |-> Grown.addr, size |-> BlockBytes]}
        /\ Merged(Grown.slots)
        /\ Unused(slots, Grown.addr, BlockBytes)
    BY <1>1, <2>1, <2>2, AttemptGood
  <2>4. /\ Table(Searched, Count + BlockSz) /\ Partition(Searched) /\ Merged(Searched)
        /\ Cardinality(EmptyIn(Searched)) = Cardinality(EmptyIn(Grown.slots)) + BlockSz
        /\ Held(Searched) = Held(Grown.slots)
    BY <2>2, <2>3, ExtendGood
  <2>5. Cardinality(EmptyIn(Grown.slots)) \in Nat
    BY <2>3, FiniteEmpty
  <2>6. Cardinality(EmptyIn(Searched)) >= 4
    BY <1>2, <2>4, <2>5
  <2> QED BY <1>3, <2>3, <2>4, <2>6 DEF NewBlock
<1>4. CASE ~Scarce(slots)
  <2>1. Grown.addr = 0 /\ Searched = slots
    BY <1>4 DEF Grown, Searched
  <2>2. Cardinality(EmptyIn(slots)) >= 4
    BY <1>2, <1>4 DEF Scarce
  <2> QED BY <1>1, <1>4, <2>1, <2>2 DEF NewBlock
<1> QED BY <1>3, <1>4

LEMMA KeptGrows ==
  ASSUME blocks \in Seq(Nat), blocks # <<>>, Grown.addr \in Nat,
         blocks' = IF Scarce(slots) THEN Append(blocks, Grown.addr) ELSE blocks
  PROVE  KeptBlocks' = KeptBlocks \cup NewBlock
<1>1. Len(blocks) \in Nat /\ Len(blocks) >= 1
  OBVIOUS
<1>2. CASE Scarce(slots)
  <2>1. /\ Len(blocks') = Len(blocks) + 1
        /\ \A k \in 1 .. Len(blocks) : blocks'[k] = blocks[k]
        /\ blocks'[Len(blocks) + 1] = Grown.addr
    BY <1>2
  <2>2. 2 .. Len(blocks') = (2 .. Len(blocks)) \cup {Len(blocks) + 1}
    BY <1>1, <2>1
  <2>3. \A k \in 2 .. Len(blocks) : blocks'[k] = blocks[k]
    BY <1>1, <2>1
  <2> QED BY <1>2, <2>1, <2>2, <2>3 DEF KeptBlocks, NewBlock
<1>3. CASE ~Scarce(slots)
  BY <1>3 DEF KeptBlocks, NewBlock
<1> QED BY <1>2, <1>3

LEMMA RequestType ==
  ASSUME NEW r \in Requests
  PROVE  r \in Request /\ r.sz \in Nat
BY AllocAssumption DEF Request

(* A region and the callers' record of it. *)
Region(r) == [addr |-> r.addr, size |-> r.size]

LEMMA LedgerMeans ==
  LedgerExact <=> Held(slots) = {Region(r) : r \in live} \cup KeptBlocks
BY DEF LedgerExact, Held, Region, KeptBlocks

(* What a successful alloc(r) does: it takes [at, at + r.sz), perhaps a    *)
(* block for the table, and both were unused.                              *)
LEMMA AllocOkEffect ==
  ASSUME IInv, NEW r \in Requests, AllocOk(r)
  PROVE  LET at == Attempt(Searched, r).addr
         IN  /\ at \in Nat /\ r.sz \in Nat /\ r.sz > 0
             /\ live' = live \cup {[addr |-> at, size |-> r.sz, req |-> r]}
             /\ KeptBlocks' = KeptBlocks \cup NewBlock
             /\ Within(at, r) /\ Unused(Searched, at, r.sz)
             /\ Held(Searched) = {Region(q) : q \in live} \cup KeptBlocks \cup NewBlock
             /\ Held(slots') = Held(Searched) \cup {[addr |-> at, size |-> r.sz]}
             /\ Grown.addr \in Nat
             /\ Scarce(slots) => Unused(slots, Grown.addr, BlockBytes)
<1> DEFINE a == Attempt(Searched, r)
           n == IF Scarce(slots) THEN Count + BlockSz ELSE Count
<1>1. /\ r.sz > 0 /\ Grown.res = "ok" /\ a.res = "ok" /\ slots' = a.slots
      /\ live' = live \cup {[addr |-> a.addr, size |-> r.sz, req |-> r]}
      /\ blocks' = IF Scarce(slots) THEN Append(blocks, Grown.addr) ELSE blocks
  BY DEF AllocOk
<1>2. /\ Grown.addr \in Nat /\ Partition(Searched) /\ Table(Searched, n)
      /\ Held(Searched) = Held(slots) \cup NewBlock
      /\ Scarce(slots) => Unused(slots, Grown.addr, BlockBytes)
  BY <1>1, GrownGood
<1>3. r \in Request /\ r.sz \in Nat
  BY RequestType
<1>4. /\ a.addr \in Nat /\ Within(a.addr, r) /\ Unused(Searched, a.addr, r.sz)
      /\ Held(slots') = Held(Searched) \cup {[addr |-> a.addr, size |-> r.sz]}
  BY <1>1, <1>2, <1>3, AttemptGood
<1>5. KeptBlocks' = KeptBlocks \cup NewBlock
  BY <1>1, <1>2, KeptGrows DEF IInv, TypeOK
<1>6. Held(slots) = {Region(q) : q \in live} \cup KeptBlocks
  BY LedgerMeans DEF IInv
<1> HIDE DEF a
<1>7. Held(Searched) = {Region(q) : q \in live} \cup KeptBlocks \cup NewBlock
  BY <1>2, <1>6
<1> QED BY <1>1, <1>2, <1>3, <1>4, <1>5, <1>7 DEF a

LEMMA AllocOkStep ==
  ASSUME IInv, NEW r \in Requests, AllocOk(r)
  PROVE  IInv'
<1> DEFINE a == Attempt(Searched, r)
           n == IF Scarce(slots) THEN Count + BlockSz ELSE Count
           new == [addr |-> a.addr, size |-> r.sz, req |-> r]
<1>1. /\ r.sz > 0 /\ Grown.res = "ok" /\ a.res = "ok" /\ slots' = a.slots
      /\ blocks' = IF Scarce(slots) THEN Append(blocks, Grown.addr) ELSE blocks
      /\ panicked' = panicked
  BY DEF AllocOk
<1>2. /\ Grown.addr \in Nat /\ Partition(Searched) /\ Merged(Searched)
      /\ Table(Searched, n) /\ Cardinality(EmptyIn(Searched)) >= 4
  BY <1>1, GrownGood
<1>r. r \in Request /\ r.sz \in Nat
  BY RequestType
<1>3. /\ Table(slots', n) /\ Partition(slots') /\ Merged(slots')
      /\ Cardinality(EmptyIn(slots')) + 2 >= Cardinality(EmptyIn(Searched))
  BY <1>1, <1>2, <1>r, AttemptGood
<1>4. /\ blocks' \in Seq(Nat) /\ blocks' # <<>> /\ BlockSz * Len(blocks') = n
  BY <1>1, <1>2, CountType DEF IInv, TypeOK, Count
<1>5. /\ a.addr \in Nat /\ live' = live \cup {new}
      /\ KeptBlocks' = KeptBlocks \cup NewBlock
      /\ Within(a.addr, r) /\ Unused(Searched, a.addr, r.sz)
      /\ Held(Searched) = {Region(q) : q \in live} \cup KeptBlocks \cup NewBlock
      /\ Held(slots') = Held(Searched) \cup {[addr |-> a.addr, size |-> r.sz]}
      /\ Scarce(slots) => Unused(slots, Grown.addr, BlockBytes)
  BY AllocOkEffect
<1> HIDE DEF a
<1>6. new \in [addr : Nat, size : Nat, req : Requests]
  BY <1>5, <1>r
<1>7. new.addr = a.addr /\ new.size = r.sz /\ new.req = r
  OBVIOUS
<1> HIDE DEF new
<1>8. live' \subseteq [addr : Nat, size : Nat, req : Requests]
  <2>1. live \subseteq [addr : Nat, size : Nat, req : Requests]
    BY DEF IInv, TypeOK
  <2> QED BY <1>5, <1>6, <2>1, Zenon
<1>9. TypeOK'
  <2>1. panicked' \in {"no", "zero bytes", "no memory", "no entries", "bad free"}
    BY <1>1 DEF IInv, TypeOK
  <2>2. slots' \in [1 .. BlockSz * Len(blocks') -> Entry]
    BY <1>3, <1>4 DEF Table
  <2> QED BY <1>4, <1>8, <2>1, <2>2 DEF TypeOK
<1>10. LedgerExact'
  <2>1. Region(new) = [addr |-> a.addr, size |-> r.sz]
    BY <1>7 DEF Region
  <2>2. {Region(q) : q \in live'} = {Region(q) : q \in live} \cup {Region(new)}
    BY <1>5
  <2>3. Held(slots') = {Region(q) : q \in live'} \cup KeptBlocks'
    BY <1>5, <2>1, <2>2
  <2> QED BY <2>3 DEF LedgerExact, Held, Region, KeptBlocks
<1>11. Owners'
  <2>1. \A h \in Held(Searched) : h.addr # a.addr
    BY <1>1, <1>2, <1>r, <1>5, UnusedNew
  <2>2. \A q \in live : q.addr # a.addr
    <3> TAKE q \in live
    <3>1. Region(q) \in Held(Searched) /\ Region(q).addr = q.addr
      BY <1>5 DEF Region
    <3> QED BY <2>1, <3>1
  <2>3. \A b \in KeptBlocks' : b.addr # a.addr
    BY <1>5, <2>1
  <2>4. \A q \in live, b \in KeptBlocks' : q.addr # b.addr
    <3> TAKE q \in live, b \in KeptBlocks'
    <3>1. CASE b \in KeptBlocks
      BY <3>1 DEF IInv, Owners, KeptBlocks
    <3>2. CASE b \in NewBlock
      <4>1. Scarce(slots) /\ b.addr = Grown.addr
        BY <3>2 DEF NewBlock
      <4>2. Region(q) \in Held(slots)
        BY LedgerMeans DEF IInv
      <4>3. /\ Table(slots, Count) /\ Partition(slots)
            /\ BlockBytes \in Nat /\ BlockBytes > 0
        BY CountType, AllocAssumption DEF IInv
      <4>4. Region(q).addr # Grown.addr
        BY <1>2, <1>5, <4>1, <4>2, <4>3, UnusedNew
      <4> QED BY <4>1, <4>4 DEF Region
    <3> QED BY <1>5, <3>1, <3>2
  <2>5. \A q \in live', b \in KeptBlocks' : q.addr # b.addr
    BY <1>5, <1>7, <2>3, <2>4
  <2>6. \A q \in live', k \in 2 .. Len(blocks') : q.addr # blocks'[k]
    <3> TAKE q \in live', k \in 2 .. Len(blocks')
    <3> DEFINE b == [addr |-> blocks'[k], size |-> BlockBytes]
    <3>1. b \in KeptBlocks' /\ b.addr = blocks'[k]
      BY DEF KeptBlocks
    <3> HIDE DEF b
    <3> QED BY <2>5, <3>1
  <2>7. \A p, q \in live' : p.addr = q.addr => p = q
    BY <1>5, <1>7, <2>2 DEF IInv, Owners
  <2> QED BY <2>6, <2>7 DEF Owners
<1>12. Placed'
  <2>1. /\ new.addr % new.req.al = 0 /\ new.size = new.req.sz
        /\ IF new.req.low THEN End(new) <= Low ELSE new.addr >= Low
    BY <1>5, <1>7 DEF Within, End
  <2> QED BY <1>5, <2>1 DEF IInv, Placed
<1>13. Spare'
  <2>1. Cardinality(EmptyIn(slots')) \in Nat /\ Cardinality(EmptyIn(Searched)) \in Nat
    BY <1>2, <1>3, FiniteEmpty
  <2>2. Cardinality(EmptyIn(slots')) >= 2
    BY <1>2, <1>3, <2>1
  <2> QED BY <1>1, <2>2 DEF IInv, Spare, EmptyIn, Valid
<1>14. Partition(slots)' /\ Merged(slots)'
  BY <1>3 DEF Partition, Separate, Inside, Covers, Valid, Merged, FreeIn
<1> QED BY <1>9, <1>10, <1>11, <1>12, <1>13, <1>14 DEF IInv

(* What free(q.addr) does: the entry of q, and nothing else, is no longer  *)
(* used.                                                                   *)
LEMMA FreeEffect ==
  ASSUME IInv, NEW q \in live, Free(q.addr)
  PROVE  /\ Table(slots', Count) /\ Partition(slots') /\ Merged(slots')
         /\ EmptyIn(slots) \subseteq EmptyIn(slots')
         /\ Held(slots') = Held(slots) \ {Region(q)}
         /\ live' = live \ {q} /\ blocks' = blocks /\ panicked' = panicked
<1> DEFINE i == First(Matches(slots, q.addr))
<1>0. Table(slots, Count) /\ Partition(slots) /\ Merged(slots)
  BY CountType DEF IInv
<1>1. i \in UsedIn(slots) /\ slots[i].addr = q.addr
  <2>1. Matches(slots, q.addr) \subseteq Nat /\ Matches(slots, q.addr) # {}
    BY DEF Free, Matches, UsedIn, IInv, TypeOK
  <2> QED BY <2>1, FirstMember DEF Matches
<1>2. slots' = Released(slots, i)
  BY DEF Free
<1> HIDE DEF i
<1>3. /\ Table(slots', Count) /\ Partition(slots')
      /\ EmptyIn(slots) \subseteq EmptyIn(slots')
      /\ Held(slots') = Held(slots) \ {[addr |-> slots[i].addr, size |-> slots[i].size]}
      /\ Merged(slots')
  BY <1>0, <1>1, <1>2, ReleasedGood
<1>4. Region(q) = [addr |-> slots[i].addr, size |-> slots[i].size]
  <2>1. Region(q) \in Held(slots)
    BY LedgerMeans DEF IInv
  <2>2. PICK k \in UsedIn(slots) : Region(q) = [addr |-> slots[k].addr, size |-> slots[k].size]
    BY <2>1 DEF Held
  <2>3. slots[k].addr = q.addr
    BY <2>2 DEF Region
  <2>4. k = i
    BY <1>0, <1>1, <2>2, <2>3, Distinct DEF UsedIn, Valid
  <2> QED BY <2>2, <2>4
<1>5. live' = live \ {q}
  BY DEF Free, IInv, Owners
<1> QED BY <1>3, <1>4, <1>5 DEF Free

LEMMA FreeStep ==
  ASSUME IInv, NEW q \in live, Free(q.addr)
  PROVE  IInv'
<1>1. /\ Table(slots', Count) /\ Partition(slots') /\ Merged(slots')
      /\ EmptyIn(slots) \subseteq EmptyIn(slots')
      /\ Held(slots') = Held(slots) \ {Region(q)}
      /\ live' = live \ {q} /\ blocks' = blocks /\ panicked' = panicked
  BY FreeEffect
<1>2. TypeOK'
  BY <1>1 DEF IInv, TypeOK, Table, Count
<1>3. LedgerExact'
  <2>1. Held(slots) = {Region(r) : r \in live} \cup KeptBlocks
    BY LedgerMeans DEF IInv
  <2>2. \A r \in live : r # q => Region(r) # Region(q)
    BY DEF IInv, Owners, Region
  <2>3. \A b \in KeptBlocks : b # Region(q)
    BY DEF IInv, Owners, KeptBlocks, Region
  <2>4. Held(slots') = {Region(r) : r \in live'} \cup KeptBlocks
    BY <1>1, <2>1, <2>2, <2>3
  <2>5. KeptBlocks' = KeptBlocks
    BY <1>1 DEF KeptBlocks
  <2> QED BY <2>4, <2>5 DEF LedgerExact, Held, Region, KeptBlocks
<1>4. Owners' /\ Placed'
  BY <1>1 DEF IInv, Owners, Placed
<1>5. Spare'
  <2>1. IsFiniteSet(EmptyIn(slots')) /\ Cardinality(EmptyIn(slots')) \in Nat
    BY <1>1, FiniteEmpty
  <2>2. Cardinality(EmptyIn(slots)) <= Cardinality(EmptyIn(slots'))
    BY <1>1, <2>1, FS_Subset
  <2>3. Cardinality(EmptyIn(slots)) \in Nat
    <3>1. Table(slots, Count)
      BY CountType DEF IInv
    <3> QED BY <3>1, FiniteEmpty
  <2>4. Cardinality(EmptyIn(slots)) >= 2 /\ panicked # "no entries"
    BY DEF IInv, Spare
  <2>5. Cardinality(EmptyIn(slots')) >= 2
    <3> DEFINE c == Cardinality(EmptyIn(slots))
               d == Cardinality(EmptyIn(slots'))
    <3>1. c \in Nat /\ d \in Nat /\ c <= d /\ c >= 2
      BY <2>1, <2>2, <2>3, <2>4
    <3> HIDE DEF c, d
    <3>2. d >= 2
      BY <3>1
    <3> QED BY <3>2 DEF d
  <2> QED BY <1>1, <2>4, <2>5 DEF Spare, EmptyIn, Valid
<1>6. Partition(slots)' /\ Merged(slots)'
  BY <1>1 DEF Partition, Separate, Inside, Covers, Valid, Merged, FreeIn
<1> QED BY <1>2, <1>3, <1>4, <1>5, <1>6 DEF IInv

LEMMA InitStep == Init => IInv
<1> SUFFICES ASSUME Init PROVE IInv
  OBVIOUS
<1> DEFINE e == FreeEnt(ArenaLo, ArenaHi - ArenaLo)
<1>1. /\ BlockSz \in Nat /\ BlockSz >= 5 /\ ArenaHi - ArenaLo \in Nat
      /\ ArenaHi - ArenaLo > 0 /\ ArenaLo \in Nat /\ ArenaHi \in Nat
      /\ ArenaLo + (ArenaHi - ArenaLo) = ArenaHi
  BY ArenaType, AllocAssumption
<1>2. /\ e \in Entry /\ e.flag = "free" /\ e.addr = ArenaLo
      /\ e.size = ArenaHi - ArenaLo
  BY <1>1 DEF FreeEnt, Entry
<1>3. End(e) = ArenaHi
  BY <1>1, <1>2 DEF End
<1>4. Empty \in Entry /\ Empty.flag = "empty"
  BY DEF Empty, Entry
<1>5. slots = [i \in 1 .. BlockSz |-> IF i = 1 THEN e ELSE Empty]
  BY DEF Init
<1> HIDE DEF e
<1>6. blocks = <<FirstBlock>> /\ FirstBlock \in Nat /\ Len(blocks) = 1
  BY AllocAssumption DEF Init, FirstBlock, RoundUp
<1>7. slots \in [1 .. BlockSz * Len(blocks) -> Entry]
  <2>1. BlockSz * Len(blocks) = BlockSz
    BY <1>1, <1>6
  <2> QED BY <1>2, <1>4, <1>5, <2>1
<1>8. /\ blocks \in Seq(Nat) /\ blocks # <<>>
      /\ live = {} /\ panicked = "no"
  BY <1>6 DEF Init
<1>9. /\ Valid(slots) = {1} /\ FreeIn(slots) = {1} /\ UsedIn(slots) = {}
      /\ slots[1] = e
  BY <1>1, <1>2, <1>4, <1>5 DEF Valid, FreeIn, UsedIn
<1>10. Partition(slots)
  BY <1>1, <1>2, <1>3, <1>9 DEF Partition, Separate, Inside, Covers
<1>11. Merged(slots)
  BY <1>1, <1>2, <1>3, <1>9 DEF Merged
<1>12. KeptBlocks = {} /\ 2 .. Len(blocks) = {}
  BY <1>6 DEF KeptBlocks
<1>13. LedgerExact
  BY <1>8, <1>9, <1>12 DEF LedgerExact, KeptBlocks
<1>14. Owners /\ Placed
  BY <1>8 DEF Owners, Placed
<1>15. Spare
  <2>1. EmptyIn(slots) = 2 .. BlockSz
    BY <1>1, <1>5, <1>9 DEF EmptyIn
  <2>2. Cardinality(2 .. BlockSz) = BlockSz - 1
    BY <1>1, FS_Interval
  <2>3. Cardinality(EmptyIn(slots)) = BlockSz - 1
    BY <2>1, <2>2, Zenon
  <2> QED BY <1>1, <1>8, <2>3 DEF Spare
<1> QED BY <1>7, <1>8, <1>10, <1>11, <1>13, <1>14, <1>15 DEF IInv, TypeOK

(* A failed alloc panics for want of memory, never for want of a slot.     *)
LEMMA FailsForMemory ==
  ASSUME IInv, NEW r \in Requests, AllocFails(r)
  PROVE  panicked' = "no memory"
<1>1. CASE Grown.res = "ok"
  <2>1. panicked' = Attempt(Searched, r).res /\ panicked' # "ok"
    BY <1>1 DEF AllocFails
  <2>2. Attempt(Searched, r).res \in {"no memory", "ok"}
    <3> DEFINE n == IF Scarce(slots) THEN Count + BlockSz ELSE Count
    <3>1. Table(Searched, n) /\ Cardinality(EmptyIn(Searched)) >= 4
      BY <1>1, GrownGood
    <3>2. Cardinality(EmptyIn(Searched)) \in Nat
      BY <3>1, FiniteEmpty
    <3>3. Cardinality(EmptyIn(Searched)) >= 2
      BY <3>1, <3>2
    <3> HIDE DEF n
    <3> QED BY <3>1, <3>3, EnoughSlots
  <2> QED BY <2>1, <2>2
<1>2. CASE Grown.res # "ok"
  <2>1. panicked' = Grown.res
    BY <1>2 DEF AllocFails
  <2>2. Grown = Attempt(slots, BlockRequest)
    BY <1>2 DEF Grown
  <2>3. Attempt(slots, BlockRequest).res \in {"no memory", "ok"}
    <3>1. Table(slots, Count) /\ Cardinality(EmptyIn(slots)) >= 2
      BY CountType DEF IInv, Spare
    <3> QED BY <3>1, EnoughSlots
  <2> QED BY <1>2, <2>1, <2>2, <2>3
<1> QED BY <1>1, <1>2

(* A step that only panics keeps the invariant. *)
LEMMA HaltStep ==
  ASSUME IInv, UNCHANGED <<slots, blocks, live>>,
         panicked' \in {"no", "zero bytes", "no memory", "bad free"}
  PROVE  IInv'
<1>1. TypeOK'
  BY DEF IInv, TypeOK
<1>2. Partition(slots)' /\ Merged(slots)'
  <2>1. slots' = slots /\ Partition(slots) /\ Merged(slots)
    BY DEF IInv
  <2> QED BY <2>1
<1>3. LedgerExact'
  <2>1. slots' = slots /\ blocks' = blocks /\ live' = live /\ LedgerExact
    BY DEF IInv
  <2>2. UsedIn(slots') = UsedIn(slots)
    BY <2>1
  <2> QED BY <2>1, <2>2 DEF LedgerExact
<1>4. Owners' /\ Placed'
  BY DEF IInv, Owners, Placed
<1>5. Spare'
  BY DEF IInv, Spare, EmptyIn, Valid
<1> QED BY <1>1, <1>2, <1>3, <1>4, <1>5 DEF IInv

LEMMA NextStep == IInv /\ [Next]_vars => IInv'
<1> SUFFICES ASSUME IInv, [Next]_vars PROVE IInv'
  OBVIOUS
<1>1. ASSUME NEW r \in Requests, AllocOk(r) PROVE IInv'
  BY <1>1, AllocOkStep
<1>2. ASSUME NEW r \in Requests, AllocZero(r) PROVE IInv'
  <2>1. UNCHANGED <<slots, blocks, live>> /\ panicked' = "zero bytes"
    BY <1>2 DEF AllocZero
  <2> QED BY <2>1, HaltStep
<1>3. ASSUME NEW r \in Requests, AllocFails(r) PROVE IInv'
  <2>1. UNCHANGED <<slots, blocks, live>>
    BY <1>3 DEF AllocFails
  <2>2. panicked' = "no memory"
    BY <1>3, FailsForMemory
  <2> QED BY <2>1, <2>2, HaltStep
<1>4. ASSUME NEW q \in live, Free(q.addr) PROVE IInv'
  BY <1>4, FreeStep
<1>5. ASSUME NEW a \in Strays, FreeStray(a) PROVE IInv'
  <2>1. UNCHANGED <<slots, blocks, live>> /\ panicked' = "bad free"
    BY <1>5 DEF FreeStray
  <2> QED BY <2>1, HaltStep
<1>6. ASSUME UNCHANGED vars PROVE IInv'
  <2>1. UNCHANGED <<slots, blocks, live>> /\ panicked' = panicked
    BY <1>6 DEF vars
  <2>2. panicked' \in {"no", "zero bytes", "no memory", "bad free"}
    BY <2>1 DEF IInv, TypeOK, Spare
  <2> QED BY <2>1, <2>2, HaltStep
<1> QED BY <1>1, <1>2, <1>3, <1>4, <1>5, <1>6 DEF Next

(* alloc and free keep the entries a partition of the arena: the           *)
(* inductive invariant the theorems below are read off from.               *)
THEOREM Invariance == Spec => []IInv
BY InitStep, NextStep, PTL DEF Spec

------------------------------------------------------------------------------
(* The table has BlockSz well-formed slots per block of the chain, however *)
(* often _find_free extends the chain in the middle of an allocation.      *)
THEOREM TypeCorrect == Spec => []TypeOK
<1>1. IInv => TypeOK
  BY DEF IInv
<1> QED BY <1>1, Invariance, PTL

(* No byte is in two entries: nothing that alloc() hands out, or that the  *)
(* table itself occupies, overlaps anything else in the table.             *)
THEOREM NeverOverlap == Spec => []NoOverlap
<1>1. IInv => NoOverlap
  BY DEF IInv, Partition, NoOverlap
<1> QED BY <1>1, Invariance, PTL

(* No entry is void or leaves the memory alloc_init was given.             *)
THEOREM StaysInArena == Spec => []InArena
<1>1. IInv => InArena
  BY DEF IInv, Partition, InArena
<1> QED BY <1>1, Invariance, PTL

(* No byte of the arena is ever lost by splitting, joining or growing.     *)
THEOREM NothingLost == Spec => []Covered
<1>1. IInv => Covered
  BY DEF IInv, Partition, Covered
<1> QED BY <1>1, Invariance, PTL

(* Memory handed back is joined with both free neighbours, so that no two  *)
(* free entries ever touch, whatever the order of alloc() and free().      *)
THEOREM AlwaysCoalesced == Spec => []Coalesced
<1>1. IInv => Coalesced
  BY DEF IInv, Coalesced
<1> QED BY <1>1, Invariance, PTL

(* The used entries are exactly what the callers hold and the blocks of    *)
(* the table: nothing leaks, and nothing that is held is ever free.        *)
THEOREM LedgerKept == Spec => []LedgerExact
<1>1. IInv => LedgerExact
  BY DEF IInv
<1> QED BY <1>1, Invariance, PTL

(* _add_alloc always finds an empty slot: the 0.7 threshold is enough for  *)
(* any block of five slots or more.                                        *)
THEOREM ReserveSuffices == Spec => []SlotsSuffice
<1>1. IInv => SlotsSuffice
  BY DEF IInv, Spare, SlotsSuffice
<1> QED BY <1>1, Invariance, PTL

(* A region a caller holds has the size, the alignment and the memory      *)
(* range it asked for.                                                     *)
THEOREM PlacedAsAsked == Spec => []Placed
<1>1. IInv => Placed
  BY DEF IInv
<1> QED BY <1>1, Invariance, PTL

------------------------------------------------------------------------------
(* The refinement: which step of the heap of module Heap each step of      *)
(* mm/alloc.c is.                                                          *)
LEMMA InitRefines == Init => H!HeapInit
<1> SUFFICES ASSUME Init PROVE H!HeapInit
  OBVIOUS
<1>1. live = {} /\ panicked = "no" /\ 2 .. Len(blocks) = {}
  BY DEF Init
<1> QED BY <1>1 DEF KeptBlocks, H!HeapInit

(* A region that no used entry meets is disjoint from every region held. *)
LEMMA FreshRegion ==
  ASSUME NEW t, NEW at, NEW sz, Unused(t, at, sz),
         NEW r, r.addr = at, r.size = sz,
         NEW L, NEW K, {Region(q) : q \in L} \cup K \subseteq Held(t)
  PROVE  H!Fresh(r, L \cup K)
<1>1. H!InArena(r)
  BY DEF Unused, H!InArena
<1>2. ASSUME NEW s \in L \cup K PROVE H!Disjoint(r, s)
  <2>1. \E h \in Held(t) : h.addr = s.addr /\ h.size = s.size
    <3>1. CASE s \in L
      <4>1. Region(s) \in Held(t)
        BY <3>1
      <4> QED BY <4>1 DEF Region
    <3>2. CASE s \in K
      BY <3>2
    <3> QED BY <1>2, <3>1, <3>2
  <2> QED BY <2>1 DEF Unused, H!Disjoint
<1> QED BY <1>1, <1>2 DEF H!Fresh

LEMMA AllocOkRefines ==
  ASSUME IInv, NEW q \in Requests, AllocOk(q)
  PROVE  H!Grant
<1> DEFINE at == Attempt(Searched, q).addr
           r == [addr |-> at, size |-> q.sz, req |-> q]
<1>1. /\ at \in Nat /\ q.sz \in Nat /\ q.sz > 0 /\ live' = live \cup {r}
      /\ KeptBlocks' = KeptBlocks \cup NewBlock
      /\ Within(at, q) /\ Unused(Searched, at, q.sz)
      /\ Held(Searched) = {Region(s) : s \in live} \cup KeptBlocks \cup NewBlock
      /\ Grown.addr \in Nat
      /\ Scarce(slots) => Unused(slots, Grown.addr, BlockBytes)
  BY AllocOkEffect
<1>2. panicked = "no" /\ panicked' = panicked
  BY DEF AllocOk
<1>3. ArenaLo \in Nat /\ ArenaHi \in Nat /\ BlockBytes \in Nat
  BY ArenaType, AllocAssumption
<1> HIDE DEF at
<1>4. /\ NewBlock \in {{}} \cup {{[addr |-> a, size |-> BlockBytes]} : a \in ArenaLo .. ArenaHi}
      /\ \A b \in NewBlock : H!Fresh(b, live \cup KeptBlocks)
  <2>1. CASE Scarce(slots)
    <3>1. Unused(slots, Grown.addr, BlockBytes)
      BY <1>1, <2>1
    <3>2. Grown.addr \in ArenaLo .. ArenaHi
      BY <1>1, <1>3, <3>1 DEF Unused
    <3>3. {Region(s) : s \in live} \cup KeptBlocks \subseteq Held(slots)
      BY LedgerMeans DEF IInv
    <3>4. \A b \in NewBlock : b.addr = Grown.addr /\ b.size = BlockBytes
      BY DEF NewBlock
    <3>5. \A b \in NewBlock : H!Fresh(b, live \cup KeptBlocks)
      BY <3>1, <3>3, <3>4, FreshRegion
    <3> QED BY <2>1, <3>2, <3>5 DEF NewBlock
  <2>2. CASE ~Scarce(slots)
    BY <2>2 DEF NewBlock
  <2> QED BY <2>1, <2>2
<1>5. r \in H!Places(q)
  <2>1. at \in ArenaLo .. ArenaHi
    BY <1>1, <1>3 DEF Unused
  <2> QED BY <2>1 DEF H!Places
<1>6. r.addr = at /\ r.size = q.sz /\ r.req = q
  OBVIOUS
<1> HIDE DEF r
<1>7. H!Fresh(r, live \cup KeptBlocks')
  <2>1. {Region(s) : s \in live} \cup KeptBlocks' \subseteq Held(Searched)
    BY <1>1
  <2> QED BY <1>1, <1>6, <2>1, FreshRegion
<1>8. H!Suits(r)
  BY <1>1, <1>6 DEF Within, H!Suits
<1> QED BY <1>1, <1>2, <1>4, <1>5, <1>7, <1>8 DEF H!Grant

LEMMA FreeRefines ==
  ASSUME IInv, NEW q \in live, Free(q.addr)
  PROVE  H!Release
<1>1. live' = live \ {q} /\ blocks' = blocks /\ panicked' = panicked
  BY FreeEffect
<1>2. KeptBlocks' = KeptBlocks /\ panicked = "no"
  BY <1>1 DEF KeptBlocks, Free
<1> QED BY <1>1, <1>2 DEF H!Release

LEMMA HaltRefines ==
  ASSUME UNCHANGED <<slots, blocks, live>>, panicked = "no", panicked' # "no"
  PROVE  H!Halt
BY DEF H!Halt, KeptBlocks

LEMMA NextRefines == IInv /\ [Next]_vars => [H!HeapNext]_(H!heapVars)
<1> SUFFICES ASSUME IInv, [Next]_vars PROVE [H!HeapNext]_(H!heapVars)
  OBVIOUS
<1>1. ASSUME NEW r \in Requests, AllocOk(r) PROVE H!HeapNext
  BY <1>1, AllocOkRefines DEF H!HeapNext
<1>2. ASSUME NEW r \in Requests, AllocZero(r) PROVE H!HeapNext
  <2>1. UNCHANGED <<slots, blocks, live>> /\ panicked = "no" /\ panicked' # "no"
    BY <1>2 DEF AllocZero
  <2> QED BY <2>1, HaltRefines DEF H!HeapNext
<1>3. ASSUME NEW r \in Requests, AllocFails(r) PROVE H!HeapNext
  <2>1. UNCHANGED <<slots, blocks, live>> /\ panicked = "no"
    BY <1>3 DEF AllocFails
  <2>2. panicked' # "no"
    BY <1>3, FailsForMemory
  <2> QED BY <2>1, <2>2, HaltRefines DEF H!HeapNext
<1>4. ASSUME NEW q \in live, Free(q.addr) PROVE H!HeapNext
  BY <1>4, FreeRefines DEF H!HeapNext
<1>5. ASSUME NEW a \in Strays, FreeStray(a) PROVE H!HeapNext
  <2>1. UNCHANGED <<slots, blocks, live>> /\ panicked = "no" /\ panicked' # "no"
    BY <1>5 DEF FreeStray
  <2> QED BY <2>1, HaltRefines DEF H!HeapNext
<1>6. ASSUME UNCHANGED vars PROVE UNCHANGED H!heapVars
  BY <1>6 DEF vars, H!heapVars, KeptBlocks
<1> QED BY <1>1, <1>2, <1>3, <1>4, <1>5, <1>6 DEF Next

(* alloc() and free() keep the promise of module Heap: with no table of    *)
(* entries in sight, a caller gets a region that nobody holds, in the      *)
(* range and at the alignment asked for, or panic() is called; and only    *)
(* the caller's own free() gives it back.                                  *)
THEOREM AllocImplementsHeap == Spec => ImplementsHeap
BY InitRefines, NextRefines, Invariance, PTL DEF Spec, ImplementsHeap, H!HeapSpec
=============================================================================
