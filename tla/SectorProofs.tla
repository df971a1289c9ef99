---------------------------- MODULE SectorProofs ----------------------------
(***************************************************************************)
(* Proofs about the data sectors.                                          *)
(*                                                                         *)
(* Which are taken (Smap), for bytes of any width, maps of any length and   *)
(* files of any size: however files begin and end in the bytes, the map     *)
(* says which sectors are taken, and behaves as the numbered places of      *)
(* Extents.                                                                 *)
(*                                                                         *)
(* What is in them (FsRw), for sectors, chunks, files and requests of any   *)
(* size: however the chunks fall, the bytes that are copied are one run,    *)
(* so files keep to themselves and behave as those of FileBytes.            *)
(***************************************************************************)
EXTENDS Smap, FsRw, FiniteSetTheorems, SequenceTheorems, WellFoundedInduction, TLAPS

----------------------------------------------------------------------------
\* Numbers.

\* A nonempty set of naturals has a least element, which Min finds.
LEMMA SmallestOf ==
  ASSUME NEW T \in SUBSET Nat, T # {}
  PROVE  Min(T) \in T /\ \A y \in T : Min(T) <= y
<1>1. OpToRel(<, Nat) = {r \in Nat \X Nat : r[1] < r[2]}
  BY DEF OpToRel
<1>2. IsWellFoundedOn({r \in Nat \X Nat : r[1] < r[2]}, Nat)
  BY <1>1, NatLessThanWellFounded
<1>3. PICK x \in T : \A y \in T : ~ (<<y, x>> \in {r \in Nat \X Nat : r[1] < r[2]})
  BY <1>2, WFMin
<1>4. ASSUME NEW y \in T PROVE x <= y
  <2>1. <<y, x>> \in Nat \X Nat
    OBVIOUS
  <2>2. ~(y < x)
    BY <1>3, <2>1
  <2>. QED
    BY <2>2
<1>. QED
  BY <1>4 DEF Min

\* A number is its row of k and its place in it, in one way.
LEMMA PlaceInRow ==
  ASSUME NEW k \in Nat \ {0}, NEW q \in Nat, NEW r \in 0 .. k - 1
  PROVE  /\ (q * k + r) \div k = q
         /\ (q * k + r) % k = r
         /\ q * k \in Nat /\ (q + 1) * k = q * k + k
  BY SMTT(30)

\* The row of a number and its place in it.
LEMMA RowOf ==
  ASSUME NEW k \in Nat \ {0}, NEW n \in Nat
  PROVE  /\ n \div k \in Nat /\ n % k \in 0 .. k - 1
         /\ n = (n \div k) * k + (n % k)
  BY SMTT(30)

\* Rows are in order.
LEMMA RowsInOrder ==
  ASSUME NEW k \in Nat \ {0}, NEW q \in Nat, NEW p \in Nat, q < p
  PROVE  /\ q * k \in Nat /\ p * k \in Nat /\ q * k + k <= p * k
<1>1. PICK d \in Nat : p = (q + 1) + d
  <2>1. p - (q + 1) \in Nat /\ p = (q + 1) + (p - (q + 1))
    OBVIOUS
  <2>. QED BY <2>1
<1>2. d * k \in Nat /\ q * k \in Nat
  BY SMTT(30)
<1>3. p * k = (q * k + k) + d * k
  BY <1>1, SMTT(30)
<1>. QED BY <1>2, <1>3

\* How many bits a stretch of a byte has.
LEMMA StretchSize ==
  ASSUME NEW a \in Int, NEW b \in Int
  PROVE  Cardinality(a .. b - 1) = IF a < b THEN b - a ELSE 0
<1>1. Cardinality(a .. b - 1) = IF a <= b - 1 THEN (b - 1) - a + 1 ELSE 0
  BY FS_Interval
<1>. QED BY <1>1

\* The lesser of two.
LEMMA LesserOf ==
  ASSUME NEW x \in Nat, NEW y \in Nat
  PROVE  Min({x, y}) = IF x < y THEN x ELSE y
<1>1. {x, y} \in SUBSET Nat /\ {x, y} # {}
  OBVIOUS
<1>2. Min({x, y}) \in {x, y} /\ \A z \in {x, y} : Min({x, y}) <= z
  BY <1>1, SmallestOf
<1>. QED BY <1>2

----------------------------------------------------------------------------
\* The loop over the bytes.

\* A loop over M bytes from any start is a function of the bytes done: the shortest
\* loop that is not would be one turn longer than one that is.
LEMMA LoopExists ==
  ASSUME NEW M \in Nat
  PROVE  \A start : \E f :
           f = [n \in 0 .. M |-> IF n = 0 THEN start ELSE AllocByte(f[n - 1], n - 1)]
<1>. TAKE start
<1>. DEFINE IsLoop(f, m) ==
       f = [n \in 0 .. m |-> IF n = 0 THEN start ELSE AllocByte(f[n - 1], n - 1)]
            Bad == {m \in Nat : ~ \E f : IsLoop(f, m)}
<1>1. SUFFICES ASSUME Bad # {} PROVE FALSE
  <2>1. M \notin Bad => \E f : IsLoop(f, M)
    OBVIOUS
  <2>. QED BY <2>1
<1>2. Bad \in SUBSET Nat
  OBVIOUS
<1>3. PICK m \in Bad : \A y \in Bad : m <= y
  <2>. HIDE DEF Bad
  <2>. QED BY <1>1, <1>2, SmallestOf
<1>4. m \in Nat /\ ~ \E f : IsLoop(f, m)
  OBVIOUS
<1>5. m # 0
  <2>1. IsLoop([n \in 0 .. 0 |-> start], 0)
    OBVIOUS
  <2>. QED BY <2>1, <1>4
<1>6. m - 1 \in Nat /\ m - 1 \notin Bad
  <2>. HIDE DEF Bad
  <2>. QED BY <1>3, <1>4, <1>5
<1>7. PICK f : IsLoop(f, m - 1)
  BY <1>6
<1>. DEFINE g == [n \in 0 .. m |-> IF n < m THEN f[n] ELSE AllocByte(f[m - 1], m - 1)]
<1>8. ASSUME NEW n \in 0 .. m
      PROVE  g[n] = IF n = 0 THEN start ELSE AllocByte(g[n - 1], n - 1)
  <2>1. CASE n = m
    <3>1. g[n] = AllocByte(f[m - 1], m - 1) /\ g[m - 1] = f[m - 1]
      BY <2>1, <1>4, <1>5
    <3>. QED BY <2>1, <3>1, <1>5
  <2>2. CASE n < m
    <3>1. n \in 0 .. m - 1 /\ g[n] = f[n]
      BY <2>2, <1>4
    <3>2. f[n] = IF n = 0 THEN start ELSE AllocByte(f[n - 1], n - 1)
      BY <3>1, <1>7
    <3>3. n # 0 => g[n - 1] = f[n - 1]
      BY <2>2, <1>4
    <3>. QED BY <3>1, <3>2, <3>3
  <2>. QED BY <2>1, <2>2, <1>4
<1>9. IsLoop(g, m)
  <2>1. g = [n \in 0 .. m |-> g[n]]
    OBVIOUS
  <2>. HIDE DEF g
  <2>2. [n \in 0 .. m |-> g[n]]
        = [n \in 0 .. m |-> IF n = 0 THEN start ELSE AllocByte(g[n - 1], n - 1)]
    BY <1>8
  <2>. QED BY <2>1, <2>2
<1>. QED BY <1>9, <1>4

\* So AllocLoop is what its definition says.
LEMMA LoopUnfolds ==
  /\ AllocLoop[0] = [map |-> map, at |-> 0, left |-> file_sects, ok |-> TRUE]
  /\ \A n \in 1 .. NrBytes : AllocLoop[n] = AllocByte(AllocLoop[n - 1], n - 1)
<1>. DEFINE first == [map |-> map, at |-> 0, left |-> file_sects, ok |-> TRUE]
<1>1. PICK s : s = first
  OBVIOUS
<1>2. NrBytes \in Nat
  BY SmapAssumption
<1>3. \A any : \E f :
        f = [n \in 0 .. NrBytes |-> IF n = 0 THEN any ELSE AllocByte(f[n - 1], n - 1)]
  BY <1>2, LoopExists
<1>4. \E f : f = [n \in 0 .. NrBytes |->
                    IF n = 0 THEN s ELSE AllocByte(f[n - 1], n - 1)]
  BY <1>3, Zenon
<1>5. AllocLoop = [n \in 0 .. NrBytes |->
                     IF n = 0 THEN first ELSE AllocByte(AllocLoop[n - 1], n - 1)]
  BY <1>1, <1>4, Zenon DEF AllocLoop
<1>6. AllocLoop[0] = first
  BY <1>2, <1>5
<1>7. ASSUME NEW n \in 1 .. NrBytes
      PROVE  AllocLoop[n] = AllocByte(AllocLoop[n - 1], n - 1)
  <2>1. n \in 0 .. NrBytes /\ n # 0
    BY <1>2
  <2>. HIDE DEF first
  <2>. QED BY <1>5, <2>1
<1>. QED BY <1>6, <1>7

\* Of the byte whose first bit is f, the bits from b on, size of them.
Wanted(f, b, size) == {k \in Ones : b <= f + k /\ f + k < b + size}

\* One byte in which the bits before b are 1 and the wanted ones are 0: what the loop
\* looks for and takes, as b and the end of the wanted ones lie before it, in it or
\* behind it.
LEMMA OneByte ==
  ASSUME NEW byte \in SUBSET Ones, NEW f \in Nat, NEW b \in Nat, NEW size \in Nat \ {0},
         \A k \in Ones : f + k < b => k \in byte,
         \A k \in Wanted(f, b, size) : k \notin byte
  PROVE  /\ f + BITS <= b => byte = Ones /\ Wanted(f, b, size) = {}
         /\ b + size <= f => Wanted(f, b, size) = {}
         /\ f <= b /\ b < f + BITS =>
              /\ byte # Ones /\ Min(Ones \ byte) = b - f
              /\ (b - f) .. Min({BITS, (b - f) + size}) - 1 = Wanted(f, b, size)
              /\ Cardinality(Wanted(f, b, size))
                 = IF f + BITS < b + size THEN f + BITS - b ELSE size
         /\ b < f /\ f < b + size =>
              /\ 0 .. Min({BITS, 0 + (b + size - f)}) - 1 = Wanted(f, b, size)
              /\ Cardinality(Wanted(f, b, size))
                 = IF f + BITS < b + size THEN BITS ELSE b + size - f
<1>1. BITS \in Nat \ {0} /\ Ones = 0 .. BITS - 1
  BY SmapAssumption DEF Ones
<1>2. ASSUME f + BITS <= b PROVE byte = Ones /\ Wanted(f, b, size) = {}
  <2>1. ASSUME NEW k \in Ones PROVE k \in byte
    BY <1>1, <1>2
  <2>2. ASSUME NEW k \in Ones PROVE ~(b <= f + k)
    BY <1>1, <1>2
  <2>. QED BY <2>1, <2>2 DEF Wanted
<1>3. ASSUME b + size <= f PROVE Wanted(f, b, size) = {}
  <2>1. ASSUME NEW k \in Ones PROVE ~(f + k < b + size)
    BY <1>1, <1>3
  <2>. QED BY <2>1 DEF Wanted
<1>4. ASSUME f <= b, b < f + BITS, NEW k \in Nat, k = b - f
      PROVE  /\ byte # Ones /\ Min(Ones \ byte) = k /\ k \in Ones
             /\ k .. Min({BITS, k + size}) - 1 = Wanted(f, b, size)
             /\ Cardinality(k .. Min({BITS, k + size}) - 1)
                = IF f + BITS < b + size THEN f + BITS - b ELSE size
  <2>1. k \in Ones /\ k \in Wanted(f, b, size)
    BY <1>1, <1>4 DEF Wanted
  <2>2. k \in Ones \ byte /\ byte # Ones
    BY <2>1
  <2>3. ASSUME NEW j \in Ones \ byte PROVE k <= j
    BY <1>1, <1>4
  <2>4. Min(Ones \ byte) = k
    <3>1. Ones \ byte \in SUBSET Nat /\ Ones \ byte # {}
      BY <1>1, <2>2
    <3>2. PICK least \in Ones \ byte :
            least = Min(Ones \ byte) /\ \A j \in Ones \ byte : least <= j
      BY <3>1, SmallestOf
    <3>3. least <= k /\ k <= least
      BY <3>2, <2>2, <2>3
    <3>4. least \in Nat
      BY <3>1
    <3>. QED BY <3>2, <3>3, <3>4
  <2>5. PICK hi \in Nat : /\ hi = Min({BITS, k + size})
                          /\ hi = IF BITS < k + size THEN BITS ELSE k + size
    <3>1. k + size \in Nat
      OBVIOUS
    <3>. QED BY <3>1, <1>1, LesserOf
  <2>6. ASSUME NEW j PROVE j \in k .. hi - 1 <=> j \in Wanted(f, b, size)
    BY <1>1, <1>4, <2>5 DEF Wanted
  <2>7. Cardinality(k .. hi - 1) = IF k < hi THEN hi - k ELSE 0
    BY StretchSize
  <2>8. hi - k = (IF f + BITS < b + size THEN f + BITS - b ELSE size) /\ k < hi
    BY <1>1, <1>4, <2>5
  <2>. QED BY <2>1, <2>2, <2>4, <2>5, <2>6, <2>7, <2>8
<1>5. ASSUME b < f, f < b + size, NEW left \in Nat, left = b + size - f
      PROVE  /\ 0 .. Min({BITS, 0 + left}) - 1 = Wanted(f, b, size)
             /\ Cardinality(0 .. Min({BITS, 0 + left}) - 1)
                = IF f + BITS < b + size THEN BITS ELSE left
  <2>1. PICK hi \in Nat : /\ hi = Min({BITS, 0 + left})
                          /\ hi = IF BITS < left THEN BITS ELSE left
    <3>1. 0 + left = left
      OBVIOUS
    <3>. QED BY <3>1, <1>1, LesserOf
  <2>2. ASSUME NEW j PROVE j \in 0 .. hi - 1 <=> j \in Wanted(f, b, size)
    BY <1>1, <1>5, <2>1 DEF Wanted
  <2>3. Cardinality(0 .. hi - 1) = IF 0 < hi THEN hi - 0 ELSE 0
    BY StretchSize
  <2>4. hi - 0 = (IF f + BITS < b + size THEN BITS ELSE left) /\ 0 < hi
    BY <1>1, <1>5, <2>1
  <2>. QED BY <2>1, <2>2, <2>3, <2>4
<1>6. f <= b /\ b < f + BITS => b - f \in Nat
  OBVIOUS
<1>7. b < f /\ f < b + size => b + size - f \in Nat
  OBVIOUS
<1>. QED BY <1>2, <1>3, <1>4, <1>5, <1>6, <1>7

\* The state of the loop when n bytes are done, if b is the first bit that is 0 and
\* size bits are wanted.
LoopMap(m, b, size, n) ==
  [i \in Below(NrBytes) |->
     IF i < n THEN m[i] \union Wanted(i * BITS, b, size) ELSE m[i]]

LoopAt(b, done) == IF done <= b THEN 0 ELSE b - 1 + n_1st_sect

LoopLeft(b, size, done) ==
  IF done <= b THEN size ELSE IF done < b + size THEN b + size - done ELSE 0

LoopState(m, b, size, n) ==
  [map |-> LoopMap(m, b, size, n), at |-> LoopAt(b, n * BITS),
   left |-> LoopLeft(b, size, n * BITS), ok |-> TRUE]

\* The bits before b are 1, the wanted ones are 0.
FirstFree(m, b, size) ==
  \A i \in Below(NrBytes) :
    /\ \A k \in Ones : i * BITS + k < b => k \in m[i]
    /\ \A k \in Wanted(i * BITS, b, size) : k \notin m[i]

\* The map gets the byte's wanted bits.
LEMMA LoopMapGrows ==
  ASSUME NEW m \in [Below(NrBytes) -> SUBSET Ones], NEW b \in Nat, NEW size \in Nat,
         NEW i \in Below(NrBytes)
  PROVE  /\ LoopMap(m, b, size, i)[i] = m[i]
         /\ LoopMap(m, b, size, i + 1)[i] = m[i] \union Wanted(i * BITS, b, size)
         /\ \A j \in Below(NrBytes) :
              j # i => LoopMap(m, b, size, i + 1)[j] = LoopMap(m, b, size, i)[j]
         /\ Wanted(i * BITS, b, size) = {} =>
              LoopMap(m, b, size, i) = LoopMap(m, b, size, i + 1)
<1>1. Below(NrBytes) \subseteq Nat
  BY SmapAssumption DEF Below
<1>2. LoopMap(m, b, size, i)[i] = m[i]
  BY <1>1 DEF LoopMap
<1>3. ASSUME NEW j \in Below(NrBytes)
      PROVE  /\ j # i => LoopMap(m, b, size, i)[j] = LoopMap(m, b, size, i + 1)[j]
             /\ j = i => LoopMap(m, b, size, i + 1)[j]
                         = m[i] \union Wanted(i * BITS, b, size)
  <2>1. j \in Nat /\ i \in Nat
    BY <1>1
  <2>2. j # i => (j < i <=> j < i + 1)
    BY <2>1
  <2>3. j = i => j < i + 1
    BY <2>1
  <2>. QED BY <2>2, <2>3 DEF LoopMap
<1>4. /\ LoopMap(m, b, size, i)
         = [j \in Below(NrBytes) |-> LoopMap(m, b, size, i)[j]]
      /\ LoopMap(m, b, size, i + 1)
         = [j \in Below(NrBytes) |-> LoopMap(m, b, size, i + 1)[j]]
  BY DEF LoopMap
<1>. QED BY <1>2, <1>3, <1>4

\* One byte of the loop: whichever of b and the end of the wanted bits lie in it.
LEMMA AllocByteStep ==
  ASSUME NEW m \in [Below(NrBytes) -> SUBSET Ones], NEW b \in Nat \ {0},
         NEW size \in Nat \ {0}, NEW i \in Below(NrBytes), FirstFree(m, b, size)
  PROVE  AllocByte(LoopState(m, b, size, i), i) = LoopState(m, b, size, i + 1)
<1>1. BITS \in Nat \ {0} /\ n_1st_sect \in Nat \ {0} /\ i \in Nat
  BY SmapAssumption DEF Below
<1>2. PICK f \in Nat : f = i * BITS /\ (i + 1) * BITS = f + BITS
  <2>1. 0 \in 0 .. BITS - 1
    BY <1>1
  <2>. QED BY <2>1, <1>1, PlaceInRow
<1>3. PICK byte \in SUBSET Ones : byte = m[i]
  OBVIOUS
<1>4. /\ \A k \in Ones : f + k < b => k \in byte
      /\ \A k \in Wanted(f, b, size) : k \notin byte
  BY <1>2, <1>3 DEF FirstFree
\* OneByte, of this byte.
<1>5. /\ f + BITS <= b => byte = Ones /\ Wanted(f, b, size) = {}
      /\ b + size <= f => Wanted(f, b, size) = {}
      /\ f <= b /\ b < f + BITS =>
           /\ byte # Ones /\ Min(Ones \ byte) = b - f
           /\ (b - f) .. Min({BITS, (b - f) + size}) - 1 = Wanted(f, b, size)
           /\ Cardinality(Wanted(f, b, size))
              = IF f + BITS < b + size THEN f + BITS - b ELSE size
      /\ b < f /\ f < b + size =>
           /\ 0 .. Min({BITS, 0 + (b + size - f)}) - 1 = Wanted(f, b, size)
           /\ Cardinality(Wanted(f, b, size))
              = IF f + BITS < b + size THEN BITS ELSE b + size - f
  <2>1. b \in Nat
    OBVIOUS
  <2>. QED BY <1>4, <2>1, OneByte, Zenon
<1>6. PICK wanted : wanted = Wanted(f, b, size)
  OBVIOUS
<1>7. PICK om, nm :
        /\ om = LoopMap(m, b, size, i) /\ nm = LoopMap(m, b, size, i + 1)
        /\ om[i] = byte /\ [om EXCEPT ![i] = byte \union wanted] = nm
        /\ wanted = {} => om = nm
  <2>1. size \in Nat /\ b \in Nat
    OBVIOUS
  <2>2. PICK om, nm : om = LoopMap(m, b, size, i) /\ nm = LoopMap(m, b, size, i + 1)
    OBVIOUS
  <2>3. /\ om[i] = byte /\ nm[i] = byte \union wanted
        /\ \A j \in Below(NrBytes) : j # i => nm[j] = om[j]
        /\ wanted = {} => om = nm
    BY <1>2, <1>3, <1>6, <2>1, <2>2, LoopMapGrows
  <2>4. /\ om = [j \in Below(NrBytes) |-> om[j]]
        /\ nm = [j \in Below(NrBytes) |-> nm[j]]
    BY <2>2 DEF LoopMap
  <2>5. [om EXCEPT ![i] = byte \union wanted] = nm
    BY <2>3, <2>4
  <2>. QED BY <2>2, <2>3, <2>5
<1>. DEFINE State(mp, done) == [map |-> mp, at |-> LoopAt(b, done),
                                left |-> LoopLeft(b, size, done), ok |-> TRUE]
            old == State(om, f)
            new == State(nm, f + BITS)
<1>8. LoopState(m, b, size, i) = old /\ LoopState(m, b, size, i + 1) = new
  BY <1>2, <1>7 DEF LoopState
<1>9. /\ old.map = om /\ old.at = LoopAt(b, f) /\ old.left = LoopLeft(b, size, f)
      /\ old.ok = TRUE
  OBVIOUS
\* What the loop does in this byte when it takes the wanted bits.
<1>10. ASSUME NEW k, k = IF old.at = 0 THEN Min(Ones \ byte) ELSE 0,
              old.left # 0, ~(old.at = 0 /\ byte = Ones),
              k .. Min({BITS, k + old.left}) - 1 = wanted
       PROVE  AllocByte(old, i)
              = [map  |-> nm,
                 at   |-> IF old.at = 0 THEN f + k - 1 + n_1st_sect ELSE old.at,
                 left |-> old.left - Cardinality(wanted),
                 ok   |-> TRUE]
  <2>1. byte \intersect wanted = {}
    BY <1>4, <1>6
  <2>2. (old.ok /\ byte \intersect wanted = {}) = TRUE
    BY <2>1, <1>9
  <2>3. old.map[i] = byte /\ [old.map EXCEPT ![i] = byte \union wanted] = nm
    BY <1>7, <1>9
  <2>. HIDE DEF old
  <2>4. AllocByte(old, i)
        = [map  |-> [old.map EXCEPT ![i] = byte \union wanted],
           at   |-> IF old.at = 0 THEN f + k - 1 + n_1st_sect ELSE old.at,
           left |-> old.left - Cardinality(wanted),
           ok   |-> old.ok /\ byte \intersect wanted = {}]
    BY <2>3, <1>2, <1>10, Zenon DEF AllocByte
  <2>. QED BY <2>2, <2>3, <2>4, Zenon
<1>. SUFFICES AllocByte(old, i) = new
  BY <1>8
<1>11. CASE f + BITS <= b
  <2>1. byte = Ones /\ wanted = {}
    BY <1>11, <1>5, <1>6
  <2>2. f <= b
    BY <1>11, <1>1
  <2>3. /\ LoopAt(b, f) = 0 /\ LoopAt(b, f + BITS) = 0
        /\ LoopLeft(b, size, f) = size /\ LoopLeft(b, size, f + BITS) = size
    BY <1>11, <2>2 DEF LoopAt, LoopLeft
  <2>4. old.left = size /\ old.at = 0 /\ old.map[i] = Ones
    BY <2>1, <2>3, <1>7
  <2>5. old = new
    BY <2>1, <2>3, <1>7
  <2>. HIDE DEF old, new
  <2>6. AllocByte(old, i) = old
    BY <2>4, Zenon DEF AllocByte
  <2>. QED BY <2>5, <2>6
<1>12. CASE f <= b /\ b < f + BITS
  <2>1. PICK k : k = b - f
    OBVIOUS
  <2>2. /\ byte # Ones /\ k = Min(Ones \ byte)
        /\ k .. Min({BITS, k + size}) - 1 = wanted
        /\ Cardinality(wanted) = IF f + BITS < b + size THEN f + BITS - b ELSE size
    BY <1>12, <1>5, <1>6, <2>1
  <2>3. LoopAt(b, f) = 0 /\ LoopLeft(b, size, f) = size /\ size # 0
    BY <1>12 DEF LoopAt, LoopLeft
  <2>4. f + k - 1 + n_1st_sect = LoopAt(b, f + BITS)
    BY <1>12, <1>1, <2>1 DEF LoopAt
  <2>5. size - Cardinality(wanted) = LoopLeft(b, size, f + BITS)
    BY <1>12, <1>1, <2>2 DEF LoopLeft
  <2>6. old.at = 0 /\ old.left = size
    BY <2>3, <1>9
  <2>. HIDE DEF old
  <2>7. AllocByte(old, i)
        = [map |-> nm, at |-> f + k - 1 + n_1st_sect,
           left |-> size - Cardinality(wanted), ok |-> TRUE]
    BY <2>2, <2>3, <2>6, <1>10
  <2>. QED BY <2>4, <2>5, <2>7
<1>13. CASE b < f /\ f < b + size
  <2>1. /\ LoopAt(b, f) = b - 1 + n_1st_sect /\ LoopAt(b, f) # 0
        /\ LoopAt(b, f) = LoopAt(b, f + BITS)
    BY <1>13, <1>1 DEF LoopAt
  <2>2. PICK left : left = b + size - f
    OBVIOUS
  <2>3. LoopLeft(b, size, f) = left /\ left # 0
    BY <1>13, <1>1, <2>2 DEF LoopLeft
  <2>4. /\ 0 .. Min({BITS, 0 + left}) - 1 = wanted
        /\ Cardinality(wanted) = IF f + BITS < b + size THEN BITS ELSE left
    BY <1>13, <1>5, <1>6, <2>2
  <2>5. left - Cardinality(wanted) = LoopLeft(b, size, f + BITS)
    BY <1>13, <1>1, <2>2, <2>4 DEF LoopLeft
  <2>6. old.at = LoopAt(b, f) /\ old.left = left
    BY <2>3, <1>9
  <2>. HIDE DEF old
  <2>7. AllocByte(old, i)
        = [map |-> nm, at |-> LoopAt(b, f), left |-> left - Cardinality(wanted),
           ok |-> TRUE]
    BY <2>1, <2>3, <2>4, <2>6, <1>10
  <2>. QED BY <2>1, <2>5, <2>7
<1>14. CASE b + size <= f
  <2>1. wanted = {}
    BY <1>14, <1>5, <1>6
  <2>2. /\ ~(f <= b) /\ ~(f < b + size) /\ ~(f + BITS <= b) /\ ~(f + BITS < b + size)
    BY <1>14, <1>1
  <2>3. /\ LoopLeft(b, size, f) = 0 /\ LoopLeft(b, size, f + BITS) = 0
        /\ LoopAt(b, f) = LoopAt(b, f + BITS)
    BY <2>2 DEF LoopAt, LoopLeft
  <2>4. old.left = 0
    BY <2>3
  <2>5. old = new
    BY <2>1, <2>3, <1>7
  <2>. HIDE DEF old, new
  <2>6. AllocByte(old, i) = old
    BY <2>4, Zenon DEF AllocByte
  <2>. QED BY <2>5, <2>6
<1>. QED BY <1>11, <1>12, <1>13, <1>14, <1>1

\* The whole loop.
LEMMA LoopResult ==
  ASSUME map \in [Below(NrBytes) -> SUBSET Ones], file_sects \in Nat \ {0},
         NEW b \in Nat \ {0}, FirstFree(map, b, file_sects)
  PROVE  Allocated = LoopState(map, b, file_sects, NrBytes)
<1>1. NrBytes \in Nat \ {0} /\ BITS \in Nat \ {0}
  BY SmapAssumption
<1>. DEFINE Bad == {n \in 0 .. NrBytes :
                      AllocLoop[n] # LoopState(map, b, file_sects, n)}
<1>2. SUFFICES ASSUME Bad # {} PROVE FALSE
  <2>1. NrBytes \in 0 .. NrBytes
    BY <1>1
  <2>. QED BY <2>1 DEF Allocated
<1>3. Bad \in SUBSET Nat
  BY <1>1
<1>4. PICK n \in Bad : \A y \in Bad : n <= y
  <2>. HIDE DEF Bad
  <2>. QED BY <1>2, <1>3, SmallestOf
<1>5. n # 0
  <2>1. LoopState(map, b, file_sects, 0)
        = [map |-> map, at |-> 0, left |-> file_sects, ok |-> TRUE]
    <3>1. 0 * BITS = 0 /\ 0 <= b
      BY <1>1
    <3>2. LoopMap(map, b, file_sects, 0) = map
      <4>1. ASSUME NEW i \in Below(NrBytes) PROVE ~(i < 0)
        BY <1>1 DEF Below
      <4>. QED BY <4>1 DEF LoopMap
    <3>. QED BY <3>1, <3>2 DEF LoopState, LoopAt, LoopLeft
  <2>. QED BY <2>1, LoopUnfolds
<1>6. n \in 1 .. NrBytes /\ n - 1 \in 0 .. NrBytes /\ ~(n <= n - 1)
  BY <1>5, <1>1
<1>7. AllocLoop[n - 1] = LoopState(map, b, file_sects, n - 1)
  <2>1. n - 1 \notin Bad
    <3>. HIDE DEF Bad
    <3>. QED BY <1>4, <1>6
  <2>. QED BY <1>6, <2>1
<1>8. AllocLoop[n] = AllocByte(LoopState(map, b, file_sects, n - 1), n - 1)
  BY <1>6, <1>7, LoopUnfolds
<1>9. AllocByte(LoopState(map, b, file_sects, n - 1), n - 1)
      = LoopState(map, b, file_sects, n)
  <2>1. PICK i \in Below(NrBytes) : i = n - 1 /\ i + 1 = n
    BY <1>6, <1>1 DEF Below
  <2>2. AllocByte(LoopState(map, b, file_sects, i), i)
        = LoopState(map, b, file_sects, i + 1)
    BY AllocByteStep
  <2>. QED BY <2>1, <2>2
<1>. QED BY <1>8, <1>9, <1>4

----------------------------------------------------------------------------
\* The places of the files.

\* Places are in order, one behind the other.
LEMMA PlacesInOrder ==
  ASSUME file_sects \in Nat \ {0}, NEW e \in Nat
  PROVE  /\ FirstBit(e) \in Nat \ {0} /\ e < FirstBit(e)
         /\ \A p \in Nat : e < p => FirstBit(e) + file_sects <= FirstBit(p)
<1>1. e * file_sects \in Nat /\ e <= e * file_sects
  <2>1. 0 \in 0 .. file_sects - 1
    OBVIOUS
  <2>2. e * file_sects \in Nat
    BY <2>1, PlaceInRow
  <2>3. CASE e = 0
    BY <2>2, <2>3
  <2>4. CASE e > 0
    BY <2>2, <2>4, SMTT(30)
  <2>. QED BY <2>2, <2>3, <2>4
<1>2. ASSUME NEW p \in Nat, e < p
      PROVE  FirstBit(e) + file_sects <= FirstBit(p)
  <2>1. p * file_sects \in Nat /\ e * file_sects + file_sects <= p * file_sects
    BY <1>2, RowsInOrder
  <2>. QED BY <1>1, <2>1 DEF FirstBit
<1>. QED BY <1>1, <1>2 DEF FirstBit

\* A bit but the first belongs to a place.
LEMMA PlaceOfBit ==
  ASSUME file_sects \in Nat \ {0}, NEW x \in Nat \ {0}
  PROVE  \E e \in Nat : x \in FirstBit(e) .. FirstBit(e) + file_sects - 1
<1>1. PICK y \in Nat : y = x - 1
  OBVIOUS
<1>2. PICK e \in Nat, r \in 0 .. file_sects - 1 : y = e * file_sects + r
  BY RowOf
<1>3. FirstBit(e) \in Nat
  BY PlacesInOrder
<1>4. x = FirstBit(e) + r
  BY <1>1, <1>2, <1>3 DEF FirstBit
<1>. QED BY <1>3, <1>4

\* And to one only.
LEMMA OnePlace ==
  ASSUME file_sects \in Nat \ {0}, NEW e \in Nat, NEW p \in Nat, NEW x \in Int,
         x \in FirstBit(e) .. FirstBit(e) + file_sects - 1,
         x \in FirstBit(p) .. FirstBit(p) + file_sects - 1
  PROVE  e = p
<1>1. FirstBit(e) \in Nat /\ FirstBit(p) \in Nat
  BY PlacesInOrder
<1>2. ~(e < p)
  <2>1. e < p => FirstBit(e) + file_sects <= FirstBit(p)
    BY PlacesInOrder
  <2>. QED BY <1>1, <2>1
<1>3. ~(p < e)
  <2>1. p < e => FirstBit(p) + file_sects <= FirstBit(e)
    BY PlacesInOrder
  <2>. QED BY <1>1, <2>1
<1>. QED BY <1>2, <1>3

\* The places the map has room for are numbered from 1 without a gap.
LEMMA PlacesNumbered ==
  ASSUME file_sects \in Nat \ {0}
  PROVE  Cardinality(Places) \in Nat /\ Places = 1 .. Cardinality(Places)
<1>. DEFINE Size == NrBytes * BITS
            Rest == {e \in Nat \ {0} : e \notin Places}
<1>1. Size \in Nat
  BY SmapAssumption, SMTT(30)
<1>. HIDE DEF Size
<1>2. Places = {e \in 1 .. Size : FirstBit(e) + file_sects <= Size}
  BY DEF Places, Size
<1>3. Size + 1 \in Rest
  BY <1>1, <1>2
<1>4. PICK first \in Rest : \A y \in Rest : first <= y
  <2>1. Rest \in SUBSET Nat /\ Rest # {}
    BY <1>3
  <2>. HIDE DEF Rest
  <2>. QED BY <2>1, SmallestOf
<1>5. ASSUME NEW e \in Places PROVE e \in 1 .. first - 1
  <2>1. e \in Nat \ {0} /\ e <= Size /\ FirstBit(e) \in Nat /\ FirstBit(first) \in Nat
        /\ FirstBit(e) + file_sects <= Size /\ first < FirstBit(first)
    BY <1>1, <1>2, PlacesInOrder
  <2>2. first # e
    OBVIOUS
  <2>3. ASSUME first < e PROVE FALSE
    <3>1. FirstBit(first) + file_sects <= FirstBit(e)
      BY <2>1, <2>3, PlacesInOrder
    <3>2. first \in 1 .. Size /\ FirstBit(first) + file_sects <= Size
      BY <1>1, <2>1, <3>1
    <3>. QED BY <1>2, <3>2
  <2>. QED BY <2>1, <2>2, <2>3
<1>6. ASSUME NEW e \in 1 .. first - 1 PROVE e \in Places
  <2>1. e \in Nat \ {0} /\ ~(first <= e)
    OBVIOUS
  <2>2. e \notin Rest
    <3>. HIDE DEF Rest
    <3>. QED BY <1>4, <2>1
  <2>. QED BY <2>1, <2>2
<1>7. Places = 1 .. first - 1
  BY <1>5, <1>6
<1>8. Cardinality(1 .. first - 1) = first - 1
  <2>1. first \in Nat \ {0}
    OBVIOUS
  <2>2. Cardinality(1 .. first - 1) = IF 1 < first THEN first - 1 ELSE 0
    BY <2>1, StretchSize
  <2>. QED BY <2>1, <2>2
<1>. QED BY <1>7, <1>8

----------------------------------------------------------------------------
\* What do_unlink() frees.

\* The bits of a file, whichever bytes they lie in.
LEMMA FreedExact ==
  ASSUME file_sects \in Nat \ {0}, NEW b \in Nat, NEW i \in Below(NrBytes)
  PROVE  FreedIn(b - 1 + n_1st_sect)[i] = Wanted(i * BITS, b, file_sects)
<1>1. /\ BITS \in Nat \ {0} /\ n_1st_sect \in Nat /\ i \in Nat
      /\ Ones = 0 .. BITS - 1
  BY SmapAssumption DEF Below, Ones
<1>2. PICK q \in Nat, r \in 0 .. BITS - 1 :
        q = b \div BITS /\ r = b % BITS /\ b = q * BITS + r
  BY <1>1, RowOf
<1>3. PICK f \in Nat : f = q * BITS /\ b = f + r
  BY <1>1, <1>2, PlaceInRow
<1>4. PICK size \in Nat \ {0} : size = file_sects
  OBVIOUS
<1>5. PICK cnt \in Nat, c \in Nat :
        /\ cnt = byte_cnt(b) /\ c = BITS * cnt
        /\ size < BITS - r => cnt = 0 /\ c = 0
        /\ size >= BITS - r =>
             c <= size - (BITS - r) /\ size - (BITS - r) < c + BITS
  <2>1. byte_cnt(b) = IF size - (BITS - r) < 0 THEN 0
                      ELSE (size - (BITS - r)) \div BITS
    BY <1>2, <1>4 DEF byte_cnt
  <2>2. CASE size < BITS - r
    <3>1. byte_cnt(b) = 0 /\ BITS * 0 = 0
      BY <2>1, <2>2, <1>1
    <3>. QED BY <3>1, <2>2, <1>1
  <2>3. CASE size >= BITS - r
    <3>1. PICK n \in Nat : n = size - (BITS - r)
      BY <2>3, <1>1
    <3>2. PICK d \in Nat, t \in 0 .. BITS - 1 : d = n \div BITS /\ n = d * BITS + t
      <4>1. /\ n \div BITS \in Nat /\ n % BITS \in 0 .. BITS - 1
            /\ n = (n \div BITS) * BITS + (n % BITS)
        BY <1>1, RowOf
      <4>. QED BY <4>1, Zenon
    <3>3. byte_cnt(b) = d
      BY <2>1, <3>1, <3>2
    <3>4. BITS * d = d * BITS /\ d * BITS \in Nat
      BY <1>1, SMTT(30)
    <3>5. PICK e \in Nat : e = d * BITS /\ e = BITS * d
      BY <3>4
    <3>6. e <= n /\ n < e + BITS
      BY <3>2, <3>5, <1>1
    <3>. QED BY <3>1, <3>3, <3>5, <3>6, <2>3, <1>1
  <2>. QED BY <2>2, <2>3, <1>1
<1>6. PICK head : head = r .. Min({BITS, r + size}) - 1
  OBVIOUS
<1>7. /\ head = Wanted(f, b, size)
      /\ Cardinality(head) = IF BITS < r + size THEN BITS - r ELSE size
  <2>1. PICK hi \in Nat : /\ hi = Min({BITS, r + size})
                          /\ hi = IF BITS < r + size THEN BITS ELSE r + size
    <3>1. r + size \in Nat
      OBVIOUS
    <3>. QED BY <3>1, <1>1, LesserOf
  <2>2. ASSUME NEW j PROVE j \in r .. hi - 1 <=> j \in Wanted(f, b, size)
    BY <1>1, <1>3, <2>1 DEF Wanted
  <2>3. Cardinality(r .. hi - 1) = IF r < hi THEN hi - r ELSE 0
    BY StretchSize
  <2>4. hi - r = (IF BITS < r + size THEN BITS - r ELSE size) /\ r < hi
    BY <1>1, <2>1
  <2>. QED BY <1>6, <2>1, <2>2, <2>3, <2>4
<1>8. PICK tail \in Nat, rest \in Nat :
        /\ tail = q + cnt + 1 /\ rest = size - Cardinality(head) - c
        /\ size < BITS - r => rest = 0
        /\ size >= BITS - r => rest = size - (BITS - r) - c
  <2>1. size < BITS - r => Cardinality(head) = size
    BY <1>1, <1>7
  <2>2. size >= BITS - r => Cardinality(head) = BITS - r
    BY <1>1, <1>7
  <2>3. q + cnt + 1 \in Nat
    OBVIOUS
  <2>4. /\ size < BITS - r => size - Cardinality(head) - c = 0
        /\ size >= BITS - r =>
             /\ size - Cardinality(head) - c = size - (BITS - r) - c
             /\ size - (BITS - r) - c \in Nat
    <3>1. /\ size < BITS - r => c = 0
          /\ size >= BITS - r => c <= size - (BITS - r)
      BY <1>5
    <3>. QED BY <3>1, <1>1, <2>1, <2>2
  <2>5. size - Cardinality(head) - c \in Nat
    BY <2>4, <1>1
  <2>. QED BY <2>3, <2>4, <2>5
<1>9. FreedIn(b - 1 + n_1st_sect)[i]
      = CASE i = q -> head
          [] q < i /\ i < tail -> Ones
          [] i = tail -> Below(rest)
          [] OTHER -> {}
  <2>1. (b - 1 + n_1st_sect) - n_1st_sect + 1 = b
    BY <1>1
  <2>. QED BY <2>1, <1>2, <1>4, <1>5, <1>6, <1>8, Zenon DEF FreedIn
<1>10. PICK g \in Nat : /\ g = i * BITS
                        /\ i < q => g + BITS <= f
                        /\ i = q => g = f
                        /\ q < i => f + BITS <= g
                        /\ i < tail => g + BITS <= f + c + BITS
                        /\ i = tail => g = f + c + BITS
                        /\ tail < i => f + c + BITS + BITS <= g
  <2>1. tail * BITS = f + c + BITS
    <3>1. (q + (cnt + 1)) * BITS = q * BITS + (cnt + 1) * BITS
      BY <1>1, SMTT(30)
    <3>2. (cnt + 1) * BITS = BITS * cnt + BITS
      BY <1>1, SMTT(30)
    <3>3. tail = q + (cnt + 1)
      BY <1>8
    <3>4. c \in Nat
      OBVIOUS
    <3>. QED BY <3>1, <3>2, <3>3, <1>1, <1>3, <1>5
  <2>2. i * BITS \in Nat
    BY <1>1, SMTT(30)
  <2>3. i < q => i * BITS + BITS <= q * BITS
    BY <1>1, RowsInOrder
  <2>4. q < i => q * BITS + BITS <= i * BITS
    BY <1>1, RowsInOrder
  <2>5. i < tail => i * BITS + BITS <= tail * BITS
    BY <1>1, RowsInOrder
  <2>6. tail < i => tail * BITS + BITS <= i * BITS
    BY <1>1, RowsInOrder
  <2>. QED BY <2>1, <2>2, <2>3, <2>4, <2>5, <2>6, <1>3
\* The same without the products.
<1>11. /\ b = f + r
       /\ size < BITS - r => c = 0 /\ rest = 0
       /\ size >= BITS - r => /\ rest = size - (BITS - r) - c
                              /\ size - (BITS - r) < c + BITS
                              /\ c <= size - (BITS - r)
  BY <1>3, <1>5, <1>8
<1>12. /\ i < q => g + BITS <= f
       /\ q < i => f + BITS <= g
       /\ i < tail => g + BITS <= f + c + BITS
       /\ i = tail => g = f + c + BITS
       /\ tail < i => f + c + BITS + BITS <= g
  BY <1>10
<1>. SUFFICES ASSUME NEW j
              PROVE  j \in FreedIn(b - 1 + n_1st_sect)[i] <=> j \in Wanted(g, b, size)
  BY <1>4, <1>10
<1>13. CASE i < q
  <2>1. FreedIn(b - 1 + n_1st_sect)[i] = {}
    <3>1. i # q /\ ~(q < i) /\ i # tail
      BY <1>13, <1>8, <1>1
    <3>. QED BY <3>1, <1>9, Zenon
  <2>. QED BY <2>1, <1>1, <1>11, <1>12, <1>13 DEF Wanted
<1>14. CASE i = q
  <2>1. FreedIn(b - 1 + n_1st_sect)[i] = head
    <3>1. ~(q < i) /\ i # tail
      BY <1>14, <1>8, <1>1
    <3>. QED BY <3>1, <1>9, <1>14, Zenon
  <2>. QED BY <2>1, <1>7, <1>10, <1>14
<1>15. CASE q < i /\ i < tail
  <2>1. FreedIn(b - 1 + n_1st_sect)[i] = Ones
    <3>1. i # q /\ i # tail
      BY <1>15, <1>8, <1>1
    <3>. QED BY <3>1, <1>9, <1>15, Zenon
  <2>2. ~(size < BITS - r)
    <3>1. cnt # 0
      BY <1>15, <1>8, <1>1
    <3>. QED BY <3>1, <1>5
  <2>3. g + BITS <= b + size /\ b < g
    BY <2>2, <1>1, <1>11, <1>12, <1>15
  <2>4. \A k \in Ones : b <= g + k /\ g + k < b + size
    BY <2>3, <1>1
  <2>. QED BY <2>1, <2>4, Zenon DEF Wanted
<1>16. CASE i = tail
  <2>1. FreedIn(b - 1 + n_1st_sect)[i] = Below(rest)
    <3>1. i # q /\ ~(i < tail)
      BY <1>16, <1>8, <1>1
    <3>. QED BY <3>1, <1>9, <1>16, Zenon
  <2>2. CASE size < BITS - r
    <3>1. b + size <= g /\ Below(rest) = {}
      BY <2>2, <1>1, <1>8, <1>11, <1>12, <1>16 DEF Below
    <3>. QED BY <2>1, <3>1, <1>1 DEF Wanted
  <2>3. CASE size >= BITS - r
    <3>1. g + rest = b + size /\ b < g /\ rest < BITS
      BY <2>3, <1>1, <1>11, <1>12, <1>16
    <3>2. Below(rest) \subseteq Ones
      BY <3>1, <1>1 DEF Below
    <3>3. \A k \in Ones : k \in Below(rest) <=> b <= g + k /\ g + k < b + size
      BY <3>1, <1>1 DEF Below
    <3>. QED BY <2>1, <3>2, <3>3, Zenon DEF Wanted
  <2>. QED BY <2>2, <2>3, <1>1
<1>17. CASE tail < i
  <2>1. FreedIn(b - 1 + n_1st_sect)[i] = {}
    <3>1. i # q /\ ~(i < tail) /\ i # tail
      BY <1>17, <1>8, <1>1
    <3>. QED BY <3>1, <1>9, Zenon
  <2>2. b + size <= g
    BY <1>1, <1>11, <1>12, <1>17
  <2>. QED BY <2>1, <2>2, <1>1 DEF Wanted
<1>. QED BY <1>13, <1>14, <1>15, <1>16, <1>17, <1>1

----------------------------------------------------------------------------
\* The inductive invariant.

\* The places that are taken, and their bits; place 0 is the root directory's.
Taken == {e \in Places : FirstBit(e) - 1 + n_1st_sect \in files}
BitsAt(e) == FirstBit(e) .. FirstBit(e) + file_sects - 1
Held(x) == x = 0 \/ \E e \in Taken \union {0} : x \in BitsAt(e)

SmapInv ==
  /\ file_sects \in Sizes
  /\ map \in [Below(NrBytes) -> SUBSET Ones]
  /\ files \subseteq {FirstBit(e) - 1 + n_1st_sect : e \in Places}
  /\ failed \in {"no", "open.c:175"}
  /\ failed = "no" =>
       \A i \in Below(NrBytes), k \in Ones : k \in map[i] <=> Held(i * BITS + k)

\* What the constants and the invariant say of the numbers in them.
LEMMA Numbers ==
  ASSUME file_sects \in Sizes
  PROVE  /\ BITS \in Nat \ {0} /\ NrBytes \in Nat \ {0} /\ n_1st_sect \in Nat \ {0}
         /\ file_sects \in Nat \ {0}
         /\ NrBytes * BITS \in Nat /\ file_sects + 1 <= NrBytes * BITS
         /\ Ones = 0 .. BITS - 1 /\ Below(NrBytes) = 0 .. NrBytes - 1
<1>1. NrBytes * BITS \in Nat
  BY SmapAssumption, SMTT(30)
<1>. QED BY <1>1, SmapAssumption DEF Ones, Below

\* A place with room lies in the map, the root directory's too.
LEMMA PlaceInMap ==
  ASSUME file_sects \in Sizes, NEW e \in Places \union {0}
  PROVE  /\ e \in Nat /\ FirstBit(e) \in Nat \ {0}
         /\ FirstBit(e) + file_sects <= NrBytes * BITS
<1>1. CASE e = 0
  <2>1. FirstBit(e) = 1
    BY <1>1, Numbers DEF FirstBit
  <2>. QED BY <2>1, <1>1, Numbers
<1>2. CASE e \in Places
  <2>1. e \in Nat
    BY <1>2, Numbers DEF Places
  <2>. QED BY <2>1, <1>2, Numbers, PlacesInOrder DEF Places
<1>. QED BY <1>1, <1>2

\* The bits of the map are the numbers below its length.
LEMMA BitsAreNumbers ==
  ASSUME file_sects \in Sizes
  PROVE  /\ Bits = 0 .. NrBytes * BITS - 1
         /\ \A x \in Bits : /\ x \div BITS \in Below(NrBytes) /\ x % BITS \in Ones
                            /\ (x \div BITS) * BITS + (x % BITS) = x
<1>1. ASSUME NEW i \in Below(NrBytes), NEW k \in Ones
      PROVE  i * BITS + k \in 0 .. NrBytes * BITS - 1
  <2>1. i \in Nat /\ i < NrBytes /\ NrBytes \in Nat
    BY Numbers
  <2>2. i * BITS \in Nat /\ i * BITS + BITS <= NrBytes * BITS
    BY <2>1, Numbers, RowsInOrder
  <2>3. PICK f \in Nat, z \in Nat : f = i * BITS /\ z = NrBytes * BITS /\ f + BITS <= z
    BY <2>2, Numbers
  <2>4. k \in Nat /\ k < BITS /\ BITS \in Nat
    BY Numbers
  <2>5. f + k \in 0 .. z - 1
    BY <2>3, <2>4
  <2>. QED BY <2>3, <2>5
<1>2. ASSUME NEW x \in 0 .. NrBytes * BITS - 1
      PROVE  /\ x \div BITS \in Below(NrBytes) /\ x % BITS \in Ones
             /\ (x \div BITS) * BITS + (x % BITS) = x
  <2>1. x \in Nat /\ x < NrBytes * BITS
    BY Numbers
  <2>2. PICK q \in Nat, r \in Ones :
          q = x \div BITS /\ r = x % BITS /\ x = q * BITS + r
    <3>1. /\ x \div BITS \in Nat /\ x % BITS \in Ones
          /\ x = (x \div BITS) * BITS + (x % BITS)
      BY <2>1, Numbers, RowOf
    <3>. QED BY <3>1, Zenon
  <2>3. ~(NrBytes <= q)
    <3>1. ASSUME NrBytes <= q PROVE NrBytes * BITS <= q * BITS
      <4>1. NrBytes = q \/ NrBytes < q
        BY <3>1, Numbers
      <4>2. NrBytes < q => NrBytes * BITS + BITS <= q * BITS /\ q * BITS \in Nat
        BY Numbers, RowsInOrder
      <4>. QED BY <4>1, <4>2, Numbers
    <3>2. q * BITS \in Nat
      BY Numbers, SMTT(30)
    <3>3. PICK f \in Nat, z \in Nat : f = q * BITS /\ z = NrBytes * BITS
      BY <3>2, Numbers
    <3>4. x < z /\ x = f + r /\ r \in Nat
      BY <3>3, <2>1, <2>2, Numbers
    <3>5. ~(z <= f)
      BY <3>4
    <3>. QED BY <3>1, <3>3, <3>5
  <2>4. q \in Below(NrBytes)
    BY <2>3, Numbers
  <2>. QED BY <2>2, <2>4
<1>3. ASSUME NEW x PROVE x \in Bits <=> x \in 0 .. NrBytes * BITS - 1
  <2>1. x \in Bits => x \in 0 .. NrBytes * BITS - 1
    BY <1>1 DEF Bits
  <2>2. x \in 0 .. NrBytes * BITS - 1 => x \in Bits
    BY <1>2 DEF Bits
  <2>. QED BY <2>1, <2>2
<1>. QED BY <1>2, <1>3

\* The bits of a file's sectors are those of its place.
LEMMA FileAtPlace ==
  ASSUME SmapInv
  PROVE  /\ \A e \in Taken : /\ FirstBit(e) - 1 + n_1st_sect \in files
                             /\ BitsOf(FirstBit(e) - 1 + n_1st_sect) = BitsAt(e)
         /\ \A s \in files : \E e \in Taken : s = FirstBit(e) - 1 + n_1st_sect
<1>1. file_sects \in Sizes
  BY DEF SmapInv
<1>2. ASSUME NEW e \in Taken
      PROVE  /\ FirstBit(e) - 1 + n_1st_sect \in files
             /\ BitsOf(FirstBit(e) - 1 + n_1st_sect) = BitsAt(e)
  <2>1. FirstBit(e) \in Nat
    BY <1>1, PlaceInMap DEF Taken
  <2>2. (FirstBit(e) - 1 + n_1st_sect) - n_1st_sect + 1 = FirstBit(e)
    BY <2>1, <1>1, Numbers
  <2>. QED BY <2>2 DEF Taken, BitsOf, BitsAt
<1>3. ASSUME NEW s \in files
      PROVE  \E e \in Taken : s = FirstBit(e) - 1 + n_1st_sect
  BY DEF SmapInv, Taken
<1>. QED BY <1>2, <1>3

\* The invariant is what is to be shown.
LEMMA SmapInvExact == SmapInv => MapExact
<1>. SUFFICES ASSUME SmapInv PROVE MapExact
  OBVIOUS
<1>1. file_sects \in Sizes
  BY DEF SmapInv
<1>2. ASSUME NEW x
      PROVE  Held(x) <=> x \in (0 .. file_sects) \union UNION {BitsOf(s) : s \in files}
  <2>1. x = 0 \/ x \in BitsAt(0) <=> x \in 0 .. file_sects
    <3>1. FirstBit(0) = 1
      BY <1>1, Numbers DEF FirstBit
    <3>. QED BY <3>1, <1>1, Numbers DEF BitsAt
  <2>2. (\E e \in Taken : x \in BitsAt(e)) <=> x \in UNION {BitsOf(s) : s \in files}
    BY FileAtPlace
  <2>. QED BY <2>1, <2>2 DEF Held
<1>3. ASSUME NEW x, Held(x) PROVE x \in Bits
  <2>1. CASE x = 0
    BY <2>1, <1>1, Numbers, BitsAreNumbers
  <2>2. ASSUME NEW e \in Taken \union {0}, x \in BitsAt(e) PROVE x \in Bits
    <3>1. FirstBit(e) \in Nat /\ FirstBit(e) + file_sects <= NrBytes * BITS
      BY <1>1, PlaceInMap DEF Taken
    <3>. QED BY <3>1, <2>2, <1>1, Numbers, BitsAreNumbers DEF BitsAt
  <2>. QED BY <2>1, <2>2, <1>3 DEF Held
<1>4. ASSUME failed = "no"
      PROVE  SetBits = (0 .. file_sects) \union UNION {BitsOf(s) : s \in files}
  <2>1. ASSUME NEW x \in Bits PROVE x % BITS \in map[x \div BITS] <=> Held(x)
    <3>1. /\ x \div BITS \in Below(NrBytes) /\ x % BITS \in Ones
          /\ (x \div BITS) * BITS + (x % BITS) = x
      BY <1>1, BitsAreNumbers
    <3>2. \A i \in Below(NrBytes), k \in Ones : k \in map[i] <=> Held(i * BITS + k)
      BY <1>4 DEF SmapInv
    <3>. QED BY <3>1, <3>2, Zenon
  <2>2. ASSUME NEW x PROVE x \in SetBits <=> Held(x)
    BY <2>1, <1>3 DEF SetBits
  <2>. QED BY <1>2, <2>2
<1>5. ASSUME NEW s \in files, NEW t \in files, s # t
      PROVE  BitsOf(s) \intersect BitsOf(t) = {}
  <2>1. PICK e \in Taken : s = FirstBit(e) - 1 + n_1st_sect /\ BitsOf(s) = BitsAt(e)
    BY FileAtPlace
  <2>2. PICK p \in Taken : t = FirstBit(p) - 1 + n_1st_sect /\ BitsOf(t) = BitsAt(p)
    BY FileAtPlace
  <2>3. e \in Nat /\ p \in Nat /\ FirstBit(e) \in Nat /\ FirstBit(p) \in Nat
    BY <1>1, PlaceInMap DEF Taken
  <2>4. ASSUME NEW x \in BitsAt(e) \intersect BitsAt(p) PROVE e = p
    <3>1. x \in Int /\ file_sects \in Nat \ {0}
      BY <2>3, <1>1, Numbers DEF BitsAt
    <3>. QED BY <3>1, <2>3, OnePlace DEF BitsAt
  <2>. QED BY <2>1, <2>2, <2>4, <1>5
<1>6. failed \in {"no", "open.c:175"}
  BY Zenon DEF SmapInv
<1>. QED BY <1>4, <1>5, <1>6, Zenon DEF MapExact

\* A bit of a place is taken when the place is.
LEMMA HeldPlace ==
  ASSUME file_sects \in Sizes, NEW p \in Nat, NEW x \in BitsAt(p)
  PROVE  Held(x) <=> p \in Taken \union {0}
<1>1. FirstBit(p) \in Nat \ {0} /\ file_sects \in Nat \ {0}
  BY Numbers, PlacesInOrder
<1>2. x \in Nat \ {0}
  BY <1>1 DEF BitsAt
<1>3. ASSUME NEW e \in Taken \union {0}, x \in BitsAt(e) PROVE e = p
  <2>1. e \in Nat
    BY PlaceInMap DEF Taken
  <2>2. x \in Int
    BY <1>2
  <2>. QED BY <1>1, <1>3, <2>1, <2>2, OnePlace DEF BitsAt
<1>. QED BY <1>2, <1>3 DEF Held

\* mkfs() fills the map with the bit that is not used and the root directory's.
LEMMA SmapInitInv == SmapInit => SmapInv
<1>. SUFFICES ASSUME SmapInit PROVE SmapInv
  OBVIOUS
<1>1. file_sects \in Sizes /\ files = {}
  BY DEF SmapInit
<1>2. failed = "no"
  BY Zenon DEF SmapInit
<1>3. PICK n \in Nat \ {0} : n = file_sects + 1
  BY <1>1, Numbers
<1>4. PICK q \in Nat, r \in Ones : q = n \div BITS /\ r = n % BITS /\ n = q * BITS + r
  <2>1. /\ n \div BITS \in Nat /\ n % BITS \in Ones
        /\ n = (n \div BITS) * BITS + (n % BITS)
    BY <1>1, Numbers, RowOf
  <2>. QED BY <2>1, Zenon
<1>5. /\ map = [i \in Below(NrBytes) |-> map[i]]
      /\ \A i \in Below(NrBytes) :
           map[i] = CASE i < q -> Ones [] i = q -> Below(r) [] OTHER -> {}
  <2>1. map = [i \in Below(NrBytes) |->
                 CASE i < (file_sects + 1) \div BITS -> Ones
                   [] i = (file_sects + 1) \div BITS -> Below((file_sects + 1) % BITS)
                   [] OTHER -> {}]
    BY Zenon DEF SmapInit
  <2>2. (file_sects + 1) \div BITS = q /\ (file_sects + 1) % BITS = r
    BY <1>3, <1>4
  <2>3. ASSUME NEW i \in Below(NrBytes)
        PROVE  map[i] = CASE i < q -> Ones [] i = q -> Below(r) [] OTHER -> {}
    <3>1. map[i] = CASE i < (file_sects + 1) \div BITS -> Ones
                     [] i = (file_sects + 1) \div BITS -> Below((file_sects + 1) % BITS)
                     [] OTHER -> {}
      BY <2>1, Zenon
    <3>. QED BY <3>1, <2>2, Zenon
  <2>4. map = [i \in Below(NrBytes) |-> map[i]]
    BY <2>1
  <2>. QED BY <2>3, <2>4
<1>6. r \in 0 .. BITS - 1 /\ Below(r) = 0 .. r - 1 /\ BITS \in Nat \ {0}
  BY <1>1, Numbers DEF Below
<1>7. Below(r) \subseteq Ones
  BY <1>6, <1>1, Numbers
<1>8. ASSUME NEW i \in Below(NrBytes)
      PROVE  /\ map[i] \subseteq Ones
             /\ \A k \in Ones : k \in map[i] <=> i * BITS + k < n
  <2>1. i \in Nat
    BY <1>1, Numbers
  <2>2. PICK f \in Nat, g \in Nat : f = q * BITS /\ g = i * BITS /\ n = f + r
    <3>1. q * BITS \in Nat /\ i * BITS \in Nat
      BY <2>1, <1>6, PlaceInRow
    <3>. QED BY <3>1, <1>4, Zenon
  <2>3. /\ i < q => g + BITS <= f
        /\ i = q => g = f
        /\ q < i => f + BITS <= g
    BY <2>1, <2>2, <1>6, RowsInOrder
  <2>4. map[i] = CASE i < q -> Ones [] i = q -> Below(r) [] OTHER -> {}
    BY <1>5, Zenon
  <2>5. \A k \in Ones : k \in Nat /\ k < BITS
    BY <1>1, Numbers
  <2>6. CASE i < q
    <3>1. map[i] = Ones
      <4>1. i # q
        BY <2>6, <2>1
      <4>. QED BY <4>1, <2>4, <2>6, Zenon
    <3>2. \A k \in Ones : g + k < n
      <4>1. g + BITS <= f /\ n = f + r
        BY <2>2, <2>3, <2>6
      <4>. QED BY <4>1, <2>5, <1>6
    <3>. QED BY <3>1, <3>2, <2>2
  <2>7. CASE i = q
    <3>1. map[i] = Below(r)
      <4>1. ~(i < q)
        BY <2>7
      <4>. QED BY <4>1, <2>4, <2>7, Zenon
    <3>2. ASSUME NEW k \in Ones PROVE k \in Below(r) <=> g + k < n
      BY <2>2, <2>3, <2>7, <1>1, <1>6, Numbers
    <3>. QED BY <3>1, <3>2, <2>2, <1>7
  <2>8. CASE q < i
    <3>1. map[i] = {}
      <4>1. ~(i < q) /\ i # q
        BY <2>8, <2>1
      <4>. QED BY <4>1, <2>4, <2>8, Zenon
    <3>2. \A k \in Ones : ~(g + k < n)
      BY <2>2, <2>3, <2>8, <1>1, <1>6, Numbers
    <3>. QED BY <3>1, <3>2, <2>2
  <2>. QED BY <2>6, <2>7, <2>8, <2>1
<1>9. map \in [Below(NrBytes) -> SUBSET Ones]
  <2>. QED BY <1>5, <1>8
<1>10. ASSUME NEW x \in Nat PROVE Held(x) <=> x < n
  <2>1. Taken = {}
    BY <1>1 DEF Taken
  <2>2. BitsAt(0) = 1 .. file_sects
    <3>1. FirstBit(0) = 1 /\ file_sects \in Nat
      BY <1>1, Numbers DEF FirstBit
    <3>. QED BY <3>1 DEF BitsAt
  <2>. QED BY <2>1, <2>2, <1>1, <1>3, Numbers DEF Held
<1>11. ASSUME NEW i \in Below(NrBytes), NEW k \in Ones
       PROVE  k \in map[i] <=> Held(i * BITS + k)
  <2>1. i \in Nat /\ k \in Nat
    BY <1>1, Numbers
  <2>2. i * BITS \in Nat
    BY <2>1, <1>6, PlaceInRow
  <2>3. i * BITS + k \in Nat
    BY <2>1, <2>2
  <2>. QED BY <2>3, <1>8, <1>10
<1>12. failed \in {"no", "open.c:175"}
  BY <1>2, Zenon
<1>. QED BY <1>1, <1>9, <1>11, <1>12, Zenon DEF SmapInv

\* What the loop finds and does: it takes the first place that is free, and says so if
\* the map ends before it.
LEMMA AllocEffect ==
  ASSUME SmapInv, failed = "no"
  PROVE  \E e \in Nat \ {0} :
           /\ e \notin Taken /\ \A p \in 1 .. e - 1 : p \in Taken
           /\ Allocated.ok = TRUE
           /\ Allocated.left = 0 <=> e \in Places
           /\ e \in Places => Allocated.at = FirstBit(e) - 1 + n_1st_sect
           /\ Allocated.map = [i \in Below(NrBytes) |->
                                 map[i] \union Wanted(i * BITS, FirstBit(e), file_sects)]
<1>1. /\ file_sects \in Sizes
      /\ map \in [Below(NrBytes) -> SUBSET Ones]
      /\ \A i \in Below(NrBytes), k \in Ones : k \in map[i] <=> Held(i * BITS + k)
  BY DEF SmapInv
<1>2. file_sects \in Nat \ {0}
  BY <1>1, Numbers
<1>. DEFINE Opened == {e \in Nat \ {0} : e \notin Taken}
<1>3. PICK e \in Opened : \A y \in Opened : e <= y
  <2>1. PICK z \in Nat : z = NrBytes * BITS
    BY <1>1, Numbers
  <2>2. z + 1 \in Opened
    BY <2>1 DEF Taken, Places
  <2>3. Opened \in SUBSET Nat /\ Opened # {}
    BY <2>2
  <2>. HIDE DEF Opened
  <2>. QED BY <2>3, SmallestOf
<1>4. e \in Nat \ {0} /\ e \notin Taken
  OBVIOUS
<1>5. ASSUME NEW p \in 1 .. e - 1 PROVE p \in Taken
  <2>1. p \in Nat \ {0} /\ ~(e <= p)
    BY <1>4
  <2>2. p \notin Opened
    <3>. HIDE DEF Opened
    <3>. QED BY <1>3, <2>1
  <2>. QED BY <2>1, <2>2
<1>6. PICK b \in Nat \ {0} : b = FirstBit(e)
  BY <1>2, <1>4, PlacesInOrder
\* The bits before the place are 1, its own are 0.
<1>7. ASSUME NEW x \in Nat, x < b PROVE Held(x)
  <2>1. CASE x = 0
    BY <2>1 DEF Held
  <2>2. CASE x # 0
    <3>1. PICK p \in Nat : x \in BitsAt(p)
      BY <2>2, <1>2, PlaceOfBit DEF BitsAt
    <3>2. FirstBit(p) \in Nat /\ FirstBit(p) <= x
      BY <3>1, <1>2, PlacesInOrder DEF BitsAt
    <3>3. ~(e <= p)
      <4>1. e < p => FirstBit(e) + file_sects <= FirstBit(p)
        BY <1>2, <1>4, PlacesInOrder
      <4>. QED BY <4>1, <3>2, <1>2, <1>4, <1>6, <1>7
    <3>4. p = 0 \/ p \in 1 .. e - 1
      BY <3>3, <1>4
    <3>. QED BY <3>1, <3>4, <1>5 DEF Held
  <2>. QED BY <2>1, <2>2
<1>8. ASSUME NEW x \in Nat, b <= x, x < b + file_sects PROVE ~Held(x)
  <2>1. x \in BitsAt(e)
    BY <1>2, <1>6, <1>8 DEF BitsAt
  <2>. QED BY <2>1, <1>1, <1>4, HeldPlace
<1>9. FirstFree(map, b, file_sects)
  <2>1. ASSUME NEW i \in Below(NrBytes), NEW k \in Ones
        PROVE  i * BITS + k \in Nat /\ (k \in map[i] <=> Held(i * BITS + k))
    <3>1. i \in Nat /\ k \in Nat /\ BITS \in Nat
      BY <1>1, Numbers
    <3>2. i * BITS \in Nat
      BY <3>1, SMTT(30)
    <3>. QED BY <3>1, <3>2, <1>1
  <2>. QED BY <2>1, <1>7, <1>8, Zenon DEF FirstFree, Wanted
<1>10. Allocated = LoopState(map, b, file_sects, NrBytes)
  BY <1>1, <1>2, <1>9, LoopResult
<1>11. PICK z \in Nat : z = NrBytes * BITS
  BY <1>1, Numbers
<1>12. e \in Places <=> b + file_sects <= z
  <2>1. e < b
    BY <1>2, <1>4, <1>6, PlacesInOrder
  <2>. QED BY <2>1, <1>2, <1>4, <1>6, <1>11 DEF Places
<1>13. /\ Allocated.ok = TRUE
       /\ Allocated.left = LoopLeft(b, file_sects, z)
       /\ Allocated.at = LoopAt(b, z)
       /\ Allocated.map = LoopMap(map, b, file_sects, NrBytes)
  BY <1>10, <1>11 DEF LoopState
<1>14. LoopLeft(b, file_sects, z) = 0 <=> e \in Places
  BY <1>2, <1>12 DEF LoopLeft
<1>15. e \in Places => LoopAt(b, z) = b - 1 + n_1st_sect
  BY <1>2, <1>12 DEF LoopAt
<1>16. LoopMap(map, b, file_sects, NrBytes)
       = [i \in Below(NrBytes) |-> map[i] \union Wanted(i * BITS, b, file_sects)]
  <2>1. ASSUME NEW i \in Below(NrBytes) PROVE i < NrBytes
    BY <1>1, Numbers
  <2>. QED BY <2>1 DEF LoopMap
<1>. QED BY <1>4, <1>5, <1>6, <1>13, <1>14, <1>15, <1>16

----------------------------------------------------------------------------
\* The steps.

\* What alloc_smap_bit() comes to.
LEMMA AllocOutcome ==
  ASSUME SmapInv, Alloc
  PROVE  /\ failed = "no" /\ file_sects' = file_sects
         /\ \E e \in Nat \ {0} :
              /\ e \notin Taken /\ \A p \in 1 .. e - 1 : p \in Taken
              /\ map' = [i \in Below(NrBytes) |->
                           map[i] \union Wanted(i * BITS, FirstBit(e), file_sects)]
              /\ e \in Places =>
                   /\ failed' = "no"
                   /\ files' = files \union {FirstBit(e) - 1 + n_1st_sect}
              /\ e \notin Places => failed' = "open.c:175" /\ files' = files
<1>1. failed = "no" /\ file_sects' = file_sects
  BY Zenon DEF Alloc
<1>2. (CASE ~Allocated.ok -> failed' = "open.c:163" /\ UNCHANGED <<map, files>>
        [] Allocated.ok /\ Allocated.left # 0 ->
             failed' = "open.c:175" /\ map' = Allocated.map /\ UNCHANGED files
        [] OTHER -> /\ map' = Allocated.map
                    /\ files' = files \union {Allocated.at}
                    /\ UNCHANGED failed)
  BY Zenon DEF Alloc
<1>3. PICK e \in Nat \ {0} :
        /\ e \notin Taken /\ \A p \in 1 .. e - 1 : p \in Taken
        /\ Allocated.ok = TRUE
        /\ Allocated.left = 0 <=> e \in Places
        /\ e \in Places => Allocated.at = FirstBit(e) - 1 + n_1st_sect
        /\ Allocated.map = [i \in Below(NrBytes) |->
                              map[i] \union Wanted(i * BITS, FirstBit(e), file_sects)]
  BY <1>1, AllocEffect
<1>4. CASE e \in Places
  <2>1. ~(~Allocated.ok) /\ ~(Allocated.ok /\ Allocated.left # 0)
    BY <1>3, <1>4, Zenon
  <2>2. map' = Allocated.map /\ files' = files \union {Allocated.at} /\ failed' = failed
    BY <1>2, <2>1, Zenon
  <2>. QED BY <1>1, <1>3, <1>4, <2>2, Zenon
<1>5. CASE e \notin Places
  <2>1. ~(~Allocated.ok) /\ (Allocated.ok /\ Allocated.left # 0)
    BY <1>3, <1>5, Zenon
  <2>2. failed' = "open.c:175" /\ map' = Allocated.map /\ files' = files
    BY <1>2, <2>1, Zenon
  <2>. QED BY <1>1, <1>3, <1>5, <2>2, Zenon
<1>. QED BY <1>4, <1>5

\* What do_unlink() comes to: its assertions hold.
LEMMA FreeOutcome ==
  ASSUME SmapInv, NEW start \in files, Free(start)
  PROVE  /\ failed = "no" /\ failed' = "no" /\ file_sects' = file_sects
         /\ files' = files \ {start}
         /\ \E e \in Taken :
              /\ start = FirstBit(e) - 1 + n_1st_sect
              /\ map' = [i \in Below(NrBytes) |->
                           map[i] \ Wanted(i * BITS, FirstBit(e), file_sects)]
<1>1. failed = "no" /\ file_sects' = file_sects
  BY Zenon DEF Free
<1>2. IF \A i \in Below(NrBytes) : FreedIn(start)[i] \subseteq map[i]
        THEN /\ map' = [i \in Below(NrBytes) |-> map[i] \ FreedIn(start)[i]]
             /\ files' = files \ {start}
             /\ UNCHANGED failed
        ELSE failed' = "link.c:79" /\ UNCHANGED <<map, files>>
  BY Zenon DEF Free
<1>3. PICK e \in Taken : start = FirstBit(e) - 1 + n_1st_sect
  BY FileAtPlace
<1>4. /\ file_sects \in Sizes /\ file_sects \in Nat \ {0}
      /\ \A i \in Below(NrBytes), k \in Ones : k \in map[i] <=> Held(i * BITS + k)
  BY <1>1, Numbers DEF SmapInv
<1>5. PICK b \in Nat : b = FirstBit(e)
  BY <1>4, PlaceInMap DEF Taken
<1>6. ASSUME NEW i \in Below(NrBytes)
      PROVE  FreedIn(start)[i] = Wanted(i * BITS, b, file_sects)
  BY <1>3, <1>4, <1>5, FreedExact
<1>7. ASSUME NEW i \in Below(NrBytes)
      PROVE  Wanted(i * BITS, b, file_sects) \subseteq map[i]
  <2>1. PICK f \in Nat : f = i * BITS
    <3>1. i \in Nat /\ BITS \in Nat
      BY <1>4, Numbers
    <3>. QED BY <3>1, SMTT(30)
  <2>2. ASSUME NEW k \in Ones, b <= f + k, f + k < b + file_sects PROVE Held(f + k)
    <3>1. f + k \in Nat
      BY <1>4, Numbers
    <3>2. f + k \in BitsAt(e)
      BY <3>1, <2>2, <1>4, <1>5 DEF BitsAt
    <3>. QED BY <3>2, <1>4 DEF Held
  <2>3. ASSUME NEW k \in Ones, Held(f + k) PROVE k \in map[i]
    BY <1>4, <2>1, <2>3, Zenon
  <2>. QED BY <2>1, <2>2, <2>3 DEF Wanted
<1>8. \A i \in Below(NrBytes) : FreedIn(start)[i] \subseteq map[i]
  BY <1>6, <1>7
<1>9. /\ map' = [i \in Below(NrBytes) |-> map[i] \ FreedIn(start)[i]]
      /\ files' = files \ {start} /\ failed' = failed
  BY <1>2, <1>8, Zenon
<1>10. map' = [i \in Below(NrBytes) |-> map[i] \ Wanted(i * BITS, b, file_sects)]
  <2>1. PICK freed : freed = FreedIn(start)
    OBVIOUS
  <2>2. \A i \in Below(NrBytes) : freed[i] = Wanted(i * BITS, b, file_sects)
    BY <1>6, <2>1
  <2>3. map' = [i \in Below(NrBytes) |-> map[i] \ freed[i]]
    BY <1>9, <2>1
  <2>. QED BY <2>2, <2>3
<1>. QED BY <1>1, <1>3, <1>5, <1>9, <1>10

\* The files' places do not move.
LEMMA SamePlaces ==
  ASSUME file_sects' = file_sects
  PROVE  /\ Places' = Places
         /\ \A e : FirstBit(e)' = FirstBit(e) /\ BitsAt(e)' = BitsAt(e)
  BY DEF Places, FirstBit, BitsAt

\* The places taken, as a file comes or goes.
LEMMA TakenChanges ==
  ASSUME SmapInv, file_sects' = file_sects, NEW e \in Places
  PROVE  /\ files' = files \union {FirstBit(e) - 1 + n_1st_sect} =>
              Taken' = Taken \union {e}
         /\ files' = files \ {FirstBit(e) - 1 + n_1st_sect} => Taken' = Taken \ {e}
<1>1. file_sects \in Sizes /\ e \in Nat
  BY PlaceInMap DEF SmapInv
<1>2. Taken' = {p \in Places : FirstBit(p) - 1 + n_1st_sect \in files'}
  BY SamePlaces DEF Taken
<1>3. ASSUME NEW p \in Places
      PROVE  FirstBit(p) - 1 + n_1st_sect = FirstBit(e) - 1 + n_1st_sect <=> p = e
  <2>1. p \in Nat /\ FirstBit(p) \in Nat /\ FirstBit(e) \in Nat
    BY <1>1, PlaceInMap
  <2>2. /\ p < e => FirstBit(p) + file_sects <= FirstBit(e)
        /\ e < p => FirstBit(e) + file_sects <= FirstBit(p)
    BY <1>1, <2>1, Numbers, PlacesInOrder
  <2>3. FirstBit(p) = FirstBit(e) => p = e
    BY <1>1, <2>1, <2>2, Numbers
  <2>4. FirstBit(p) - 1 + n_1st_sect = FirstBit(e) - 1 + n_1st_sect
        => FirstBit(p) = FirstBit(e)
    BY <1>1, <2>1, Numbers
  <2>. QED BY <2>3, <2>4
<1>4. ASSUME NEW p \in Places PROVE p \in Taken <=> FirstBit(p) - 1 + n_1st_sect \in files
  BY DEF Taken
<1>5. Taken \subseteq Places
  BY DEF Taken
<1>. QED BY <1>2, <1>3, <1>4, <1>5, Zenon

\* The bits of a place, in a byte.
LEMMA WantedAt ==
  ASSUME file_sects \in Sizes, NEW b \in Nat, NEW f \in Nat, NEW k \in Ones
  PROVE  f + k \in b .. b + file_sects - 1 <=> k \in Wanted(f, b, file_sects)
<1>1. k \in Nat /\ file_sects \in Nat
  BY Numbers
<1>2. f + k \in b .. b + file_sects - 1 <=> b <= f + k /\ f + k < b + file_sects
  BY <1>1
<1>. QED BY <1>2 DEF Wanted

\* alloc_smap_bit() keeps the invariant.
LEMMA AllocKeeps == SmapInv /\ Alloc => SmapInv'
<1>. SUFFICES ASSUME SmapInv, Alloc PROVE SmapInv'
  OBVIOUS
<1>1. failed = "no" /\ file_sects' = file_sects
  BY AllocOutcome
<1>2. PICK e \in Nat \ {0} :
        /\ e \notin Taken
        /\ map' = [i \in Below(NrBytes) |->
                     map[i] \union Wanted(i * BITS, FirstBit(e), file_sects)]
        /\ e \in Places =>
             /\ failed' = "no"
             /\ files' = files \union {FirstBit(e) - 1 + n_1st_sect}
        /\ e \notin Places => failed' = "open.c:175" /\ files' = files
  BY AllocOutcome
<1>3. /\ file_sects \in Sizes /\ file_sects' \in Sizes
      /\ map \in [Below(NrBytes) -> SUBSET Ones]
      /\ \A i \in Below(NrBytes), k \in Ones : k \in map[i] <=> Held(i * BITS + k)
  BY <1>1 DEF SmapInv
<1>4. map' \in [Below(NrBytes) -> SUBSET Ones]
  BY <1>2, <1>3 DEF Wanted
<1>5. files' \subseteq {FirstBit(p)' - 1 + n_1st_sect : p \in Places'}
  <2>1. files' \subseteq {FirstBit(p) - 1 + n_1st_sect : p \in Places}
    <3>1. files \subseteq {FirstBit(p) - 1 + n_1st_sect : p \in Places}
      BY DEF SmapInv
    <3>2. CASE e \in Places
      BY <3>1, <3>2, <1>2
    <3>3. CASE e \notin Places
      BY <3>1, <3>3, <1>2
    <3>. QED BY <3>2, <3>3
  <2>2. Places' = Places /\ \A p : FirstBit(p)' = FirstBit(p)
    BY <1>1, SamePlaces
  <2>. QED BY <2>1, <2>2
<1>6. failed' \in {"no", "open.c:175"}
  BY <1>2, Zenon
<1>7. ASSUME failed' = "no", NEW i \in Below(NrBytes), NEW k \in Ones
      PROVE  k \in map'[i] <=> Held(i * BITS + k)'
  <2>1. e \in Places
    <3>1. "open.c:175" # "no"
      BY Zenon
    <3>. QED BY <3>1, <1>2, <1>7, Zenon
  <2>2. Taken' = Taken \union {e}
    BY <2>1, <1>1, <1>2, TakenChanges
  <2>3. \A p : BitsAt(p)' = BitsAt(p)
    BY <1>1, SamePlaces
  <2>4. PICK f \in Nat : f = i * BITS
    <3>1. i \in Nat /\ BITS \in Nat
      BY <1>3, Numbers
    <3>. QED BY <3>1, SMTT(30)
  <2>5. f + k \in BitsAt(e) <=> k \in Wanted(f, FirstBit(e), file_sects)
    <3>1. FirstBit(e) \in Nat
      BY <1>3, <2>1, PlaceInMap
    <3>. QED BY <3>1, <1>3, WantedAt DEF BitsAt
  <2>6. Held(f + k)' <=> Held(f + k) \/ f + k \in BitsAt(e)
    <3>1. Held(f + k)' <=> f + k = 0 \/ \E p \in Taken' \union {0} : f + k \in BitsAt(p)'
      BY DEF Held
    <3>. QED BY <3>1, <2>2, <2>3 DEF Held
  <2>7. k \in map'[i] <=> k \in map[i] \/ k \in Wanted(f, FirstBit(e), file_sects)
    BY <1>2, <2>4
  <2>8. k \in map[i] <=> Held(f + k)
    BY <1>3, <2>4, Zenon
  <2>9. Held(i * BITS + k)' <=> Held(f + k)'
    BY <2>4, Zenon DEF Held
  <2>. QED BY <2>5, <2>6, <2>7, <2>8, <2>9, Zenon
<1>. QED BY <1>3, <1>4, <1>5, <1>6, <1>7, Zenon DEF SmapInv

\* So does do_unlink().
LEMMA FreeKeeps ==
  ASSUME NEW start \in files, SmapInv, Free(start)
  PROVE  SmapInv'
<1>1. /\ failed = "no" /\ failed' = "no" /\ file_sects' = file_sects
      /\ files' = files \ {start}
  BY FreeOutcome
<1>2. PICK e \in Taken :
        /\ start = FirstBit(e) - 1 + n_1st_sect
        /\ map' = [i \in Below(NrBytes) |->
                     map[i] \ Wanted(i * BITS, FirstBit(e), file_sects)]
  BY FreeOutcome
<1>3. /\ file_sects \in Sizes /\ file_sects' \in Sizes
      /\ map \in [Below(NrBytes) -> SUBSET Ones]
      /\ \A i \in Below(NrBytes), k \in Ones : k \in map[i] <=> Held(i * BITS + k)
  BY <1>1 DEF SmapInv
<1>4. map' \in [Below(NrBytes) -> SUBSET Ones]
  BY <1>2, <1>3
<1>5. files' \subseteq {FirstBit(p)' - 1 + n_1st_sect : p \in Places'}
  <2>1. files \subseteq {FirstBit(p) - 1 + n_1st_sect : p \in Places}
    BY DEF SmapInv
  <2>2. Places' = Places /\ \A p : FirstBit(p)' = FirstBit(p)
    BY <1>1, SamePlaces
  <2>. QED BY <2>1, <2>2, <1>1
<1>6. failed' \in {"no", "open.c:175"}
  BY <1>1, Zenon
<1>7. e \in Places /\ e \in Nat \ {0}
  BY <1>3, Numbers DEF Taken, Places
<1>8. Taken' = Taken \ {e}
  BY <1>1, <1>2, <1>7, TakenChanges
<1>9. ASSUME NEW i \in Below(NrBytes), NEW k \in Ones
      PROVE  k \in map'[i] <=> Held(i * BITS + k)'
  <2>1. \A p : BitsAt(p)' = BitsAt(p)
    BY <1>1, SamePlaces
  <2>2. PICK f \in Nat : f = i * BITS
    <3>1. i \in Nat /\ BITS \in Nat
      BY <1>3, Numbers
    <3>. QED BY <3>1, SMTT(30)
  <2>3. f + k \in BitsAt(e) <=> k \in Wanted(f, FirstBit(e), file_sects)
    <3>1. FirstBit(e) \in Nat
      BY <1>3, <1>7, PlaceInMap
    <3>. QED BY <3>1, <1>3, WantedAt DEF BitsAt
  <2>4. Held(f + k)' <=> Held(f + k) /\ f + k \notin BitsAt(e)
    <3>1. Held(f + k)' <=> f + k = 0 \/ \E p \in Taken' \union {0} : f + k \in BitsAt(p)'
      BY DEF Held
    <3>2. f + k \in BitsAt(e) => f + k # 0
      BY <1>3, <1>7, PlaceInMap DEF BitsAt
    <3>3. ASSUME NEW p \in Taken \union {0}, f + k \in BitsAt(p), f + k \in BitsAt(e)
          PROVE  p = e
      <4>1. p \in Nat /\ FirstBit(p) \in Nat
        BY <1>3, PlaceInMap DEF Taken
      <4>2. f + k \in Int
        BY <1>3, Numbers
      <4>. QED BY <3>3, <4>1, <4>2, <1>3, <1>7, Numbers, OnePlace DEF BitsAt
    <3>. QED BY <3>1, <3>2, <3>3, <1>7, <1>8, <2>1 DEF Held
  <2>5. k \in map'[i] <=> k \in map[i] /\ k \notin Wanted(f, FirstBit(e), file_sects)
    BY <1>2, <2>2
  <2>6. k \in map[i] <=> Held(f + k)
    BY <1>3, <2>2, Zenon
  <2>7. Held(i * BITS + k)' <=> Held(f + k)'
    BY <2>2, Zenon DEF Held
  <2>. QED BY <2>3, <2>4, <2>5, <2>6, <2>7, Zenon
<1>. QED BY <1>3, <1>4, <1>5, <1>6, <1>9, Zenon DEF SmapInv

\* The invariant holds in every state.
LEMMA SmapInductive == SmapSpec => []SmapInv
<1>1. SmapInv /\ [SmapNext]_smapVars => SmapInv'
  <2>. SUFFICES ASSUME SmapInv, [SmapNext]_smapVars PROVE SmapInv'
    OBVIOUS
  <2>1. CASE Alloc
    BY <2>1, AllocKeeps
  <2>2. ASSUME NEW start \in files, Free(start) PROVE SmapInv'
    BY <2>2, FreeKeeps
  <2>3. CASE UNCHANGED smapVars
    BY <2>3, Zenon DEF smapVars, SmapInv, Held, Taken, Places, FirstBit, BitsAt
  <2>. QED BY <2>1, <2>2, <2>3 DEF SmapNext
<1>. QED BY <1>1, SmapInitInv, PTL DEF SmapSpec

\* However the files' sectors lie in the bytes, the map says exactly which are a
\* file's, no two files share one, and no assertion of alloc_smap_bit() (open.c:163)
\* or do_unlink() (link.c:79) can fail, whatever is created and removed in whichever
\* order: only the map may end (open.c:175).
THEOREM MapIsExact == SmapSpec => []MapExact
BY SmapInductive, SmapInvExact, PTL

----------------------------------------------------------------------------
\* The refinement.

\* alloc_smap_bit() takes the lowest-numbered place.
LEMMA AllocRefines ==
  ASSUME SmapInv, Alloc
  PROVE  Store!Alloc
<1>1. failed = "no" /\ file_sects' = file_sects
  BY AllocOutcome
<1>2. PICK e \in Nat \ {0} :
        /\ e \notin Taken /\ \A p \in 1 .. e - 1 : p \in Taken
        /\ e \in Places =>
             /\ failed' = "no"
             /\ files' = files \union {FirstBit(e) - 1 + n_1st_sect}
        /\ e \notin Places => failed' = "open.c:175" /\ files' = files
  BY AllocOutcome
<1>3. file_sects \in Sizes /\ file_sects \in Nat \ {0}
  BY Numbers DEF SmapInv
<1>4. Places' = Places /\ \A p : FirstBit(p)' = FirstBit(p)
  BY <1>1, SamePlaces
<1>5. PICK n \in Nat : n = Cardinality(Places) /\ Places = 1 .. n
  BY <1>3, PlacesNumbered
<1>6. Cardinality(Places)' = Cardinality(Places)
  BY <1>4, Zenon
<1>7. Taken \subseteq Places
  BY DEF Taken
<1>8. ~(failed = "open.c:175")
  BY <1>1, Zenon
<1>9. CASE e \in Places
  <2>1. (1 .. n) \ Taken # {} /\ Store!Min((1 .. n) \ Taken) = e
    <3>1. e \in (1 .. n) \ Taken /\ \A y \in (1 .. n) \ Taken : e <= y
      <4>1. e \notin Taken /\ \A p \in 1 .. e - 1 : p \in Taken
        BY <1>2, Zenon
      <4>2. e \in 1 .. n
        BY <1>5, <1>9
      <4>3. ASSUME NEW y \in (1 .. n) \ Taken PROVE e <= y
        BY <4>1
      <4>. QED BY <4>1, <4>2, <4>3
    <3>2. \A x \in (1 .. n) \ Taken : (\A y \in (1 .. n) \ Taken : x <= y) => x = e
      BY <3>1
    <3>. QED BY <3>1, <3>2 DEF Store!Min
  <2>2. Taken' = Taken \union {e}
    BY <1>1, <1>2, <1>9, TakenChanges
  <2>3. (failed' = "open.c:175") = (failed = "open.c:175")
    BY <1>1, <1>2, <1>9, Zenon
  <2>. QED BY <2>1, <2>2, <2>3, <1>5, <1>6, <1>8, Zenon DEF Store!Alloc, Taken
<1>10. CASE e \notin Places
  <2>1. (1 .. n) \ Taken = {}
    <3>1. ASSUME NEW p \in 1 .. n PROVE p \in Taken
      <4>1. e \notin 1 .. n
        BY <1>5, <1>10
      <4>2. p \in 1 .. e - 1
        BY <4>1
      <4>. QED BY <4>2, <1>2, Zenon
    <3>. QED BY <3>1
  <2>2. Taken' = Taken
    BY <1>2, <1>4, <1>10 DEF Taken
  <2>3. (failed' = "open.c:175") = TRUE
    BY <1>2, <1>10, Zenon
  <2>. QED BY <2>1, <2>2, <2>3, <1>5, <1>6, <1>8, Zenon DEF Store!Alloc, Taken
<1>. QED BY <1>9, <1>10

\* do_unlink() gives one back.
LEMMA FreeRefines ==
  ASSUME SmapInv, NEW start \in files, Free(start)
  PROVE  \E e \in Taken : Store!Free(e)
<1>1. /\ failed = "no" /\ failed' = "no" /\ file_sects' = file_sects
      /\ files' = files \ {start}
  BY FreeOutcome
<1>2. PICK e \in Taken : start = FirstBit(e) - 1 + n_1st_sect
  BY FreeOutcome
<1>3. Places' = Places /\ e \in Places
  BY <1>1, SamePlaces DEF Taken
<1>4. Taken' = Taken \ {e}
  BY <1>1, <1>2, <1>3, TakenChanges
<1>5. Cardinality(Places)' = Cardinality(Places)
  BY <1>3, Zenon
<1>6. ~(failed = "open.c:175") /\ (failed' = "open.c:175") = (failed = "open.c:175")
  BY <1>1, Zenon
<1>7. Store!Free(e)
  BY <1>2, <1>4, <1>5, <1>6, Zenon DEF Store!Free, Taken
<1>. QED BY <1>7

\* The bytes of the map implement the numbered places module Fs is built on: each
\* creation takes the lowest place that is free or finds there is none, each removal
\* gives back one that is taken.
THEOREM MapImplementsExtents == SmapSpec => RefinesExtents
<1>1. SmapInit => Store!Init
  <2>. SUFFICES ASSUME SmapInit PROVE Store!Init
    OBVIOUS
  <2>1. file_sects \in Sizes /\ files = {} /\ failed = "no"
    BY Zenon DEF SmapInit
  <2>2. Cardinality(Places) \in Nat
    BY <2>1, Numbers, PlacesNumbered
  <2>3. Taken = {}
    BY <2>1 DEF Taken
  <2>4. (failed = "open.c:175") = FALSE
    BY <2>1, Zenon
  <2>. QED BY <2>2, <2>3, <2>4, Zenon DEF Store!Init, Taken
<1>2. SmapInv /\ [SmapNext]_smapVars => [Store!Next]_(Store!vars)
  <2>. SUFFICES ASSUME SmapInv, [SmapNext]_smapVars
                PROVE  [Store!Next]_(Store!vars)
    OBVIOUS
  <2>1. CASE Alloc
    BY <2>1, AllocRefines DEF Store!Next
  <2>2. ASSUME NEW start \in files, Free(start) PROVE [Store!Next]_(Store!vars)
    <3>1. \E e \in Taken : Store!Free(e)
      BY <2>2, FreeRefines
    <3>. QED BY <3>1, Zenon DEF Store!Next, Taken
  <2>3. CASE UNCHANGED smapVars
    BY <2>3, Zenon DEF smapVars, Store!vars, Places, FirstBit
  <2>. QED BY <2>1, <2>2, <2>3 DEF SmapNext
<1>. QED BY <1>1, <1>2, SmapInductive, PTL DEF SmapSpec, RefinesExtents, Store!Spec

----------------------------------------------------------------------------
\* The loop of do_rdwt().

\* n bytes of the disk from a on.
Run(a, n) == [j \in 1 .. n |-> a + j - 1]

\* The run of n bytes from b on goes on where that of m from a on ends.
Joins(a, m, b, n) == Run(a, m) \o Run(b, n) = Run(a, m + n)

\* It does, if it begins there or is empty.
LEMMA RunsJoin ==
  ASSUME NEW a \in Nat, NEW m \in Nat, NEW n \in Nat, NEW b \in Nat, n = 0 \/ b = a + m
  PROVE  Joins(a, m, b, n)
<1>1. Run(a, m) \in Seq(Nat) /\ Len(Run(a, m)) = m
  BY DEF Run
<1>2. Run(b, n) \in Seq(Nat) /\ Len(Run(b, n)) = n
  BY DEF Run
<1>3. PICK all \in Nat : all = m + n
  OBVIOUS
<1>4. Run(a, all) \in Seq(Nat) /\ Len(Run(a, all)) = all
  BY <1>3 DEF Run
<1>5. ASSUME NEW j \in 1 .. all
      PROVE  (Run(a, m) \o Run(b, n))[j] = Run(a, all)[j]
  <2>1. CASE j <= m
    BY <2>1, <1>1, <1>2, <1>3 DEF Run
  <2>2. CASE j > m
    <3>1. (Run(a, m) \o Run(b, n))[j] = Run(b, n)[j - m]
      <4>1. j \in 1 .. Len(Run(a, m)) + Len(Run(b, n)) /\ ~(j <= Len(Run(a, m)))
        BY <2>2, <1>1, <1>2, <1>3
      <4>2. (Run(a, m) \o Run(b, n))[j] = Run(b, n)[j - Len(Run(a, m))]
        BY <4>1, <1>1, <1>2, ConcatProperties
      <4>. QED BY <4>2, <1>1
    <3>2. j - m \in 1 .. n
      BY <2>2, <1>3
    <3>3. Run(b, n)[j - m] = (a + m) + (j - m) - 1
      BY <3>2 DEF Run
    <3>. QED BY <3>1, <3>3, <1>3, SMTT(30) DEF Run
  <2>3. j <= m \/ j > m
    BY <1>3
  <2>. QED BY <2>1, <2>2, <2>3, Zenon
<1>6. Len(Run(a, m) \o Run(b, n)) = all
  BY <1>1, <1>2, <1>3
<1>7. Run(a, m) \o Run(b, n) \in Seq(Nat)
  BY <1>1, <1>2
<1>8. Run(a, m) \o Run(b, n) = Run(a, all)
  BY <1>4, <1>5, <1>6, <1>7, SeqEqual
<1>. QED BY <1>3, <1>8 DEF Joins

\* The state of the loop after m of len bytes from a on: they come from or go to the
\* first m bytes of the buffer.
Sofar(a, len, m) ==
  [left |-> len - m, bytes_rw |-> m, buf |-> Run(0, m), at |-> Run(a, m)]

\* A round that begins with m of them copied ends with n.
Copies(a, len, m, i, off, chunk, n) ==
  CopyRound(Sofar(a, len, m), i, off, chunk) = Sofar(a, len, n)

\* A round goes on where the one before has stopped, to the end of the chunk.
LEMMA RoundCopies ==
  ASSUME NEW a \in Nat, NEW len \in Nat, NEW m \in 0 .. len,
         NEW i \in Nat, NEW off \in Nat, NEW chunk \in Nat,
         NEW size \in Nat, size = chunk * SECTOR_SIZE, off <= size,
         NEW begin \in Nat, begin = i * SECTOR_SIZE, m < len => begin + off = a + m,
         NEW n \in Nat, n = IF len <= m + (size - off) THEN len ELSE m + (size - off)
  PROVE  Copies(a, len, m, i, off, chunk, n)
<1>1. PICK room \in Nat : room = size - off
  OBVIOUS
<1>2. PICK bytes \in Nat : /\ bytes = Min({len - m, room})
                           /\ bytes = IF len - m < room THEN len - m ELSE room
  <2>1. len - m \in Nat
    OBVIOUS
  <2>. QED BY <2>1, LesserOf
<1>3. m + bytes = n
  BY <1>1, <1>2
<1>4. PICK at \in Nat : at = begin + off
  OBVIOUS
<1>5. CopyRound(Sofar(a, len, m), i, off, chunk)
      = [left |-> (len - m) - bytes, bytes_rw |-> m + bytes,
         buf |-> Run(0, m) \o Run(m, bytes), at |-> Run(a, m) \o Run(at, bytes)]
  BY <1>1, <1>2, <1>4, Zenon DEF CopyRound, Sofar, Run
<1>6. Run(a, m) \o Run(at, bytes) = Run(a, m + bytes)
  <2>1. m \in Nat /\ (bytes = 0 \/ at = a + m)
    BY <1>2, <1>4
  <2>2. Joins(a, m, at, bytes)
    BY <2>1, RunsJoin, Zenon
  <2>. QED BY <2>2, Zenon DEF Joins
<1>7. Run(0, m) \o Run(m, bytes) = Run(0, m + bytes)
  <2>1. m \in Nat /\ 0 \in Nat /\ m = 0 + m
    OBVIOUS
  <2>2. Joins(0, m, m, bytes)
    BY <2>1, RunsJoin, Zenon
  <2>. QED BY <2>2, Zenon DEF Joins
<1>8. (len - m) - bytes = len - (m + bytes)
  BY <1>2
<1>9. Sofar(a, len, m + bytes)
      = [left |-> len - (m + bytes), bytes_rw |-> m + bytes,
         buf |-> Run(0, m + bytes), at |-> Run(a, m + bytes)]
  BY Zenon DEF Sofar
<1>. QED BY <1>3, <1>5, <1>6, <1>7, <1>8, <1>9, Zenon DEF Copies

\* The bytes copied of len after k rounds, with chunks of room bytes of which the first
\* is used from off on.
DoneAfter(k, room, off, len) ==
  IF k = 0 THEN 0 ELSE IF len <= k * room - off THEN len ELSE k * room - off

\* The sector at which a round begins, in bytes.
LEMMA ChunkBegins ==
  ASSUME NEW s \in Nat, NEW first \in Nat, NEW n \in Nat, NEW chunk \in Nat
  PROVE  /\ (first + n * chunk) * s = first * s + n * (chunk * s)
         /\ first + n * chunk \in Nat /\ n * (chunk * s) \in Nat /\ chunk * s \in Nat
         /\ (n + 1) * (chunk * s) = n * (chunk * s) + chunk * s
<1>1. n * chunk \in Nat /\ chunk * s \in Nat /\ first * s \in Nat
  BY SMTT(20)
<1>2. (first + n * chunk) * s = first * s + (n * chunk) * s
  BY <1>1, SMTT(20)
<1>3. (n * chunk) * s = n * (chunk * s)
  BY SMTT(20)
<1>4. n * (chunk * s) \in Nat
  BY <1>1, SMTT(20)
<1>5. (n + 1) * (chunk * s) = n * (chunk * s) + chunk * s
  BY <1>1, SMTT(20)
<1>. QED BY <1>1, <1>2, <1>3, <1>4, <1>5

\* The k-th round goes on where the one before has stopped.
RoundGoesOn(a, len, first, chunk, off, k) ==
  CopyRound(Sofar(a, len, DoneAfter(k - 1, chunk * SECTOR_SIZE, off, len)),
            first + (k - 1) * chunk, IF k = 1 THEN off ELSE 0, chunk)
  = Sofar(a, len, DoneAfter(k, chunk * SECTOR_SIZE, off, len))

\* Every round does.
LEMMA RoundsGoOn ==
  ASSUME NEW a \in Nat, NEW len \in Nat, NEW first \in Nat, NEW chunk \in Nat \ {0},
         NEW off \in Nat, off < SECTOR_SIZE, a = first * SECTOR_SIZE + off,
         NEW k \in Nat \ {0}
  PROVE  RoundGoesOn(a, len, first, chunk, off, k)
<1>1. PICK n \in Nat : n = k - 1
  OBVIOUS
<1>2. PICK s \in Nat \ {0} : s = SECTOR_SIZE
  BY FsRwAssumption
<1>3. PICK room \in Nat : room = chunk * s /\ off < room
  <2>1. chunk * s \in Nat /\ s <= chunk * s
    BY SMTT(20)
  <2>. QED BY <2>1, <1>2
<1>4. PICK i \in Nat : i = first + n * chunk
  BY ChunkBegins, <1>2
<1>5. PICK before \in Nat, after \in Nat, begin \in Nat :
        /\ before = n * room /\ after = k * room /\ after = before + room
        /\ begin = i * s /\ begin = first * s + before
  <2>1. /\ i * s = first * s + n * room
        /\ n * room \in Nat /\ (n + 1) * room = n * room + room /\ first * s \in Nat
    BY ChunkBegins, <1>2, <1>3, <1>4
  <2>2. n + 1 = k
    BY <1>1
  <2>. QED BY <2>1, <2>2
<1>6. n # 0 => before >= room
  <2>1. n # 0 => n * room >= room
    BY SMTT(20)
  <2>. QED BY <2>1, <1>5
<1>7. PICK m \in 0 .. len : m = IF n = 0 THEN 0 ELSE IF len <= before - off THEN len
                                                    ELSE before - off
  <2>1. (IF n = 0 THEN 0 ELSE IF len <= before - off THEN len ELSE before - off) \in 0 .. len
    BY <1>3, <1>6
  <2>. QED BY <2>1
<1>8. m = DoneAfter(n, room, off, len)
  BY <1>5, <1>7, Zenon DEF DoneAfter
<1>9. PICK o \in Nat : o = IF k = 1 THEN off ELSE 0
  OBVIOUS
<1>10. o <= room /\ (m < len => begin + o = a + m)
  BY <1>1, <1>2, <1>3, <1>5, <1>6, <1>7, <1>9
<1>11. PICK done \in Nat : /\ done = IF len <= m + (room - o) THEN len ELSE m + (room - o)
                           /\ done = IF len <= after - off THEN len ELSE after - off
  <2>1. PICK left \in Nat : left = room - o
    BY <1>10
  <2>2. PICK sum \in Nat : sum = m + left
    BY <2>1
  <2>3. PICK end \in Nat : end = after - off
    BY <1>3, <1>5
  <2>4. n = 0 => m = 0 /\ left = end
    BY <1>1, <1>5, <1>7, <1>9, <1>3, <2>1, <2>3
  <2>5. n # 0 => left = room /\ ((m = len /\ len <= before - off) \/ m = before - off)
    BY <1>1, <1>7, <1>9, <2>1
  <2>6. (IF len <= sum THEN len ELSE sum) = IF len <= end THEN len ELSE end
    BY <1>5, <2>2, <2>3, <2>4, <2>5
  <2>. QED BY <2>1, <2>2, <2>3, <2>6
<1>12. Copies(a, len, m, i, o, chunk, done)
  <2>1. chunk \in Nat /\ room = chunk * SECTOR_SIZE /\ begin = i * SECTOR_SIZE
    BY <1>2, <1>3, <1>5
  <2>. QED BY <2>1, <1>10, <1>11, RoundCopies, Zenon
<1>13. done = DoneAfter(k, room, off, len)
  BY <1>5, <1>11, Zenon DEF DoneAfter
<1>. QED BY <1>1, <1>2, <1>3, <1>4, <1>8, <1>9, <1>12, <1>13, Zenon DEF Copies, RoundGoesOn

\* g is the loop over the chunks as a function of the rounds done.
IsCopyLoop(g, len, first, chunk, off, rounds) ==
  g = [k \in 0 .. rounds |->
         IF k = 0 THEN [left |-> len, bytes_rw |-> 0, buf |-> <<>>, at |-> <<>>]
         ELSE CopyRound(g[k - 1], first + (k - 1) * chunk,
                        IF k = 1 THEN off ELSE 0, chunk)]

\* What is copied when all rounds are done.
LoopEnds(a, len, first, chunk, off, rounds) ==
  /\ \E g : IsCopyLoop(g, len, first, chunk, off, rounds)
  /\ \A g : IsCopyLoop(g, len, first, chunk, off, rounds) =>
       g[rounds] = Sofar(a, len, DoneAfter(rounds, chunk * SECTOR_SIZE, off, len))

\* There is such a function, and it says what the rounds do: with g, the lowest round
\* that does something else would follow one that does not.
LEMMA LoopCopies ==
  ASSUME NEW a \in Nat, NEW len \in Nat, NEW first \in Nat, NEW chunk,
         NEW off \in Nat, NEW rounds \in Nat, rounds # 0 => chunk \in Nat \ {0},
         off < SECTOR_SIZE, a = first * SECTOR_SIZE + off
  PROVE  LoopEnds(a, len, first, chunk, off, rounds)
<1>. DEFINE State(k) == Sofar(a, len, DoneAfter(k, chunk * SECTOR_SIZE, off, len))
            Turn(x, k) == CopyRound(x, first + (k - 1) * chunk,
                                    IF k = 1 THEN off ELSE 0, chunk)
            start == [left |-> len, bytes_rw |-> 0, buf |-> <<>>, at |-> <<>>]
            IsLoop(g) == g = [k \in 0 .. rounds |->
                                IF k = 0 THEN start ELSE Turn(g[k - 1], k)]
<1>1. start = State(0)
  BY DEF Sofar, DoneAfter, Run
<1>2. \A k \in 1 .. rounds : Turn(State(k - 1), k) = State(k)
  <2>. TAKE k \in 1 .. rounds
  <2>1. chunk \in Nat \ {0} /\ k \in Nat \ {0}
    OBVIOUS
  <2>2. RoundGoesOn(a, len, first, chunk, off, k)
    <3>. HIDE DEF State, Turn
    <3>. QED BY <2>1, RoundsGoOn, Zenon
  <2>. QED BY <2>2, Zenon DEF RoundGoesOn
<1>. HIDE DEF State, Turn, start
<1>3. \E g : IsLoop(g)
  <2>. DEFINE g == [k \in 0 .. rounds |-> State(k)]
  <2>1. ASSUME NEW k \in 0 .. rounds
        PROVE  g[k] = IF k = 0 THEN start ELSE Turn(g[k - 1], k)
    <3>1. CASE k = 0
      BY <3>1, <1>1
    <3>2. CASE k # 0
      <4>1. k \in 1 .. rounds /\ k - 1 \in 0 .. rounds
        BY <3>2
      <4>2. g[k - 1] = State(k - 1) /\ g[k] = State(k)
        BY <4>1
      <4>. QED BY <4>1, <4>2, <3>2, <1>2
    <3>. QED BY <3>1, <3>2
  <2>2. g = [k \in 0 .. rounds |-> g[k]]
    OBVIOUS
  <2>. HIDE DEF g
  <2>3. [k \in 0 .. rounds |-> g[k]]
        = [k \in 0 .. rounds |-> IF k = 0 THEN start ELSE Turn(g[k - 1], k)]
    BY <2>1
  <2>4. IsLoop(g)
    BY <2>2, <2>3
  <2>. QED BY <2>4
<1>4. ASSUME NEW g, IsLoop(g) PROVE g[rounds] = State(rounds)
  <2>. DEFINE Bad == {k \in 0 .. rounds : g[k] # State(k)}
  <2>1. SUFFICES ASSUME Bad # {} PROVE FALSE
    <3>1. rounds \in 0 .. rounds /\ (Bad = {} => rounds \notin Bad)
      OBVIOUS
    <3>. QED BY <3>1
  <2>2. Bad \in SUBSET Nat
    OBVIOUS
  <2>3. PICK k \in Bad : \A y \in Bad : k <= y
    <3>. HIDE DEF Bad
    <3>. QED BY <2>1, <2>2, SmallestOf
  <2>4. k \in 0 .. rounds /\ g[k] # State(k)
    OBVIOUS
  <2>5. g[k] = IF k = 0 THEN start ELSE Turn(g[k - 1], k)
    BY <2>4, <1>4
  <2>6. k # 0
    BY <2>4, <2>5, <1>1
  <2>7. k - 1 \in 0 .. rounds /\ k \in 1 .. rounds /\ k - 1 \notin Bad
    <3>1. k - 1 \in 0 .. rounds /\ k \in 1 .. rounds /\ ~(k <= k - 1)
      BY <2>4, <2>6
    <3>. HIDE DEF Bad
    <3>. QED BY <3>1, <2>3
  <2>8. g[k - 1] = State(k - 1)
    BY <2>7
  <2>. QED BY <2>4, <2>5, <2>6, <2>7, <2>8, <1>2
<1>5. \A g : IsLoop(g) => g[rounds] = State(rounds)
  BY <1>4
<1>. QED BY <1>3, <1>5, Zenon DEF LoopEnds, IsCopyLoop, State, Turn, start

\* How many bytes do_rdwt() copies: all it is asked for, or fewer and then beyond
\* pos_end; but no further beyond it than a chunk.
CopiesEnough(f, pos, pos_end, len) ==
  \E m \in 0 .. len :
    /\ Copied(f, pos, pos_end, len).at = Run(f * Capacity + pos, m)
    /\ Copied(f, pos, pos_end, len).buf = Run(0, m)
    /\ m = len \/ pos + m > pos_end
    /\ m = 0 \/ pos + m <= pos_end + FSBUF_SECTS * SECTOR_SIZE

\* Whatever way the chunks fall: the bytes copied are one run from the position on, and
\* one from the beginning of the buffer.
LEMMA CopiedIsRun ==
  ASSUME NEW f \in Nat, NEW pos \in Nat, NEW pos_end \in Nat, NEW len \in Nat
  PROVE  CopiesEnough(f, pos, pos_end, len)
<1>. DEFINE rw_sect_min == f * NR_SECTS + pos \div SECTOR_SIZE
            rw_sect_max == f * NR_SECTS + pos_end \div SECTOR_SIZE
            chunk  == Min({rw_sect_max - rw_sect_min + 1, FSBUF_SECTS})
            rounds == IF rw_sect_max < rw_sect_min THEN 0
                      ELSE (rw_sect_max - rw_sect_min) \div chunk + 1
            off    == pos % SECTOR_SIZE
            a      == f * Capacity + pos
            After == CHOOSE g : IsCopyLoop(g, len, rw_sect_min, chunk, off, rounds)
            m == DoneAfter(rounds, chunk * SECTOR_SIZE, off, len)
<1>1. Copied(f, pos, pos_end, len) = After[rounds]
  BY Zenon DEF Copied, IsCopyLoop
<1>2. PICK s \in Nat \ {0} : s = SECTOR_SIZE
  BY FsRwAssumption
<1>3. PICK base \in Nat : /\ base = f * Capacity
                          /\ \A n \in Nat : (f * NR_SECTS + n) * s = base + n * s
  <2>1. NR_SECTS \in Nat
    BY FsRwAssumption
  <2>2. f * NR_SECTS \in Nat /\ f * (NR_SECTS * s) \in Nat
    BY <2>1, SMTT(20)
  <2>3. ASSUME NEW n \in Nat
        PROVE  (f * NR_SECTS + n) * s = f * (NR_SECTS * s) + n * s
    BY <2>1, <2>2, SMTT(20)
  <2>. QED BY <1>2, <2>2, <2>3 DEF Capacity
<1>4. PICK first \in Nat, last \in Nat, o \in 0 .. s - 1, e \in 0 .. s - 1,
           from \in Nat, to \in Nat :
        /\ first = rw_sect_min /\ last = rw_sect_max /\ o = off
        /\ from = first * s /\ to = last * s
        /\ base + pos = from + o /\ base + pos_end = to + e
  <2>1. PICK q \in Nat, r \in 0 .. s - 1, p \in Nat, t \in 0 .. s - 1 :
          /\ q = pos \div s /\ r = pos % s /\ p = pos_end \div s /\ t = pos_end % s
          /\ pos = q * s + r /\ pos_end = p * s + t
    <3>1. /\ pos \div s \in Nat /\ pos % s \in 0 .. s - 1 /\ pos = (pos \div s) * s + (pos % s)
          /\ pos_end \div s \in Nat /\ pos_end % s \in 0 .. s - 1
          /\ pos_end = (pos_end \div s) * s + (pos_end % s)
      BY RowOf
    <3>. QED BY <3>1, Zenon
  <2>2. f * NR_SECTS \in Nat /\ q * s \in Nat /\ p * s \in Nat
    <3>1. NR_SECTS \in Nat
      BY FsRwAssumption
    <3>. QED BY <3>1, SMTT(20)
  <2>3. (f * NR_SECTS + q) * s = base + q * s /\ (f * NR_SECTS + p) * s = base + p * s
    BY <1>3
  <2>4. rw_sect_min = f * NR_SECTS + q /\ rw_sect_max = f * NR_SECTS + p /\ off = r
    BY <1>2, <2>1, Zenon
  <2>5. PICK first \in Nat, last \in Nat, from \in Nat, to \in Nat :
          /\ first = f * NR_SECTS + q /\ last = f * NR_SECTS + p
          /\ from = first * s /\ to = last * s
          /\ from = base + q * s /\ to = base + p * s
    <3>1. base + q * s \in Nat /\ base + p * s \in Nat
      BY <2>2
    <3>2. f * NR_SECTS + q \in Nat /\ f * NR_SECTS + p \in Nat
      BY <2>2
    <3>. QED BY <3>1, <3>2, <2>3, Zenon
  <2>6. base + pos = from + r /\ base + pos_end = to + t
    BY <2>1, <2>2, <2>5
  <2>7. first = rw_sect_min /\ last = rw_sect_max /\ r = off
    BY <2>4, <2>5, Zenon
  <2>8. r \in 0 .. s - 1 /\ t \in 0 .. s - 1
    BY <2>1
  <2>. HIDE DEF rw_sect_min, rw_sect_max, off
  <2>. QED BY <2>5, <2>6, <2>7, <2>8, Zenon
<1>5. (rw_sect_max < rw_sect_min) = (last < first) /\ rw_sect_max - rw_sect_min = last - first
  BY <1>4, Zenon
<1>6. rounds = IF last < first THEN 0 ELSE (last - first) \div chunk + 1
  BY <1>5, Zenon
<1>7. last < first => rounds = 0
  BY <1>6, Zenon
<1>8. first <= last =>
        \E q, c, fs, before \in Nat :
          /\ chunk \in Nat \ {0} /\ rounds = q + 1
          /\ c = chunk * s /\ fs = FSBUF_SECTS * s /\ s <= c /\ c <= fs
          /\ (q + 1) * c = before + c
          /\ from + before <= to /\ to + s <= from + before + c
  <2>. HAVE first <= last
  <2>1. PICK d \in Nat : d = last - first
    OBVIOUS
  <2>2. PICK h \in Nat \ {0} : h = chunk /\ h <= d + 1 /\ h <= FSBUF_SECTS
    <3>1. FSBUF_SECTS \in Nat \ {0} /\ d + 1 \in Nat
      BY FsRwAssumption
    <3>2. PICK h \in Nat : /\ h = Min({d + 1, FSBUF_SECTS})
                           /\ h = IF d + 1 < FSBUF_SECTS THEN d + 1 ELSE FSBUF_SECTS
      BY <3>1, LesserOf
    <3>3. h = chunk
      BY <1>5, <2>1, <3>2, Zenon
    <3>4. h \in Nat \ {0} /\ h <= d + 1 /\ h <= FSBUF_SECTS
      BY <3>1, <3>2
    <3>. QED BY <3>3, <3>4, Zenon
  <2>3. PICK q \in Nat, r \in 0 .. h - 1, whole \in Nat :
          q = d \div h /\ whole = q * h /\ d = whole + r
    <3>1. d \div h \in Nat /\ d % h \in 0 .. h - 1 /\ d = (d \div h) * h + (d % h)
      BY RowOf
    <3>2. (d \div h) * h \in Nat
      BY <3>1, SMTT(20)
    <3>. QED BY <3>1, <3>2, Zenon
  <2>4. rounds = q + 1
    <3>1. rounds = (last - first) \div chunk + 1
      <4>1. ~(last < first)
        OBVIOUS
      <4>. QED BY <4>1, <1>6, Zenon
    <3>. QED BY <3>1, <2>1, <2>2, <2>3, Zenon
  <2>. HIDE DEF chunk, rounds, rw_sect_min, rw_sect_max
  <2>5. PICK c \in Nat, fs \in Nat : c = h * s /\ fs = FSBUF_SECTS * s /\ s <= c /\ c <= fs
    <3>1. FSBUF_SECTS \in Nat
      BY FsRwAssumption
    <3>2. h * s \in Nat /\ FSBUF_SECTS * s \in Nat
      BY <3>1, SMTT(20)
    <3>3. 0 * s + s <= h * s
      BY RowsInOrder
    <3>4. h < FSBUF_SECTS => h * s + s <= FSBUF_SECTS * s
      BY <3>1, RowsInOrder
    <3>5. h * s <= FSBUF_SECTS * s
      <4>1. CASE h < FSBUF_SECTS
        BY <4>1, <3>2, <3>4
      <4>2. CASE h = FSBUF_SECTS
        BY <4>2, <3>2
      <4>. QED BY <4>1, <4>2, <2>2, <3>1
    <3>6. s <= h * s
      BY <3>2, <3>3
    <3>. QED BY <3>2, <3>5, <3>6, Zenon
  <2>6. PICK before \in Nat : /\ before = q * c /\ (q + 1) * c = before + c
                             /\ whole * s = before
    <3>1. /\ (0 + q * h) * s = 0 * s + q * (h * s)
          /\ q * (h * s) \in Nat /\ (q + 1) * (h * s) = q * (h * s) + h * s
      BY ChunkBegins
    <3>2. 0 + q * h = q * h /\ 0 * s + q * (h * s) = q * (h * s)
      BY <2>3, <3>1
    <3>. QED BY <2>3, <2>5, <3>1, <3>2, Zenon
  <2>7. PICK rest \in Nat : rest = r * s /\ rest + s <= c
    <3>1. r * s \in Nat /\ r * s + s <= h * s
      BY RowsInOrder
    <3>. QED BY <2>5, <3>1, Zenon
  <2>8. to = from + before + rest
    <3>1. last = (first + whole) + r
      BY <2>1, <2>3
    <3>2. ((first + whole) + r) * s = first * s + whole * s + r * s
      BY SMTT(20)
    <3>3. to = first * s + whole * s + r * s
      BY <1>4, <3>1, <3>2, Zenon
    <3>. QED BY <1>4, <2>6, <2>7, <3>3
  <2>9. from + before <= to /\ to + s <= from + before + c
    BY <2>5, <2>7, <2>8, <1>4
  <2>10. chunk \in Nat \ {0} /\ c = chunk * s
    BY <2>2, <2>5, Zenon
  <2>. QED BY <2>4, <2>5, <2>6, <2>9, <2>10, Zenon
<1>. HIDE DEF chunk, rounds, rw_sect_min, rw_sect_max, off
<1>9. /\ rounds \in Nat /\ (rounds # 0 => chunk \in Nat \ {0})
      /\ rw_sect_min \in Nat /\ off \in Nat /\ off < SECTOR_SIZE
      /\ a \in Nat /\ a = rw_sect_min * SECTOR_SIZE + off
  <2>1. first <= last => rounds \in Nat /\ chunk \in Nat \ {0}
    BY <1>8
  <2>2. first <= last \/ last < first
    BY <1>4
  <2>3. off < SECTOR_SIZE /\ off \in Nat /\ rw_sect_min \in Nat
    BY <1>2, <1>4
  <2>4. a = from + o /\ from = rw_sect_min * SECTOR_SIZE
    BY <1>2, <1>3, <1>4, Zenon
  <2>5. a \in Nat
    BY <1>3
  <2>6. rounds \in Nat /\ (rounds # 0 => chunk \in Nat \ {0})
    BY <1>7, <2>1, <2>2
  <2>. HIDE DEF a
  <2>7. a = rw_sect_min * SECTOR_SIZE + off
    BY <1>4, <2>4, Zenon
  <2>. QED BY <2>3, <2>5, <2>6, <2>7, Zenon
<1>10. After[rounds] = Sofar(a, len, m)
  <2>. HIDE DEF a
  <2>1. LoopEnds(a, len, rw_sect_min, chunk, off, rounds)
    <3>. HIDE DEF After, m
    <3>. QED BY <1>9, LoopCopies, Zenon
  <2>. QED BY <2>1, Zenon DEF LoopEnds
<1>11. /\ Copied(f, pos, pos_end, len).at = Run(a, m)
       /\ Copied(f, pos, pos_end, len).buf = Run(0, m)
  <2>. HIDE DEF a, m, After
  <2>1. Copied(f, pos, pos_end, len)
        = [left |-> len - m, bytes_rw |-> m, buf |-> Run(0, m), at |-> Run(a, m)]
    BY <1>1, <1>10, Zenon DEF Sofar
  <2>. QED BY <2>1
<1>12. /\ m \in 0 .. len
       /\ m = len \/ pos + m > pos_end
       /\ m = 0 \/ pos + m <= pos_end + FSBUF_SECTS * SECTOR_SIZE
  <2>1. PICK fs \in Nat : fs = FSBUF_SECTS * SECTOR_SIZE
    <3>1. FSBUF_SECTS * s \in Nat
      <4>1. FSBUF_SECTS \in Nat
        BY FsRwAssumption
      <4>. QED BY <4>1, SMTT(20)
    <3>. QED BY <1>2, <3>1
  <2>2. CASE last < first
    <3>1. m = 0
      BY <2>2, <1>7, Zenon DEF DoneAfter
    <3>2. pos > pos_end
      <4>1. last * s + s <= first * s
        BY <2>2, RowsInOrder
      <4>. QED BY <1>4, <4>1
    <3>. HIDE DEF m
    <3>. QED BY <3>1, <3>2, <2>1
  <2>3. CASE first <= last
    <3>1. PICK q \in Nat, c \in Nat, fs2 \in Nat, before \in Nat :
          /\ rounds = q + 1 /\ c = chunk * s /\ fs2 = FSBUF_SECTS * s /\ s <= c /\ c <= fs2
          /\ (q + 1) * c = before + c
          /\ from + before <= to /\ to + s <= from + before + c
      BY <1>8, <2>3, Zenon
    <3>2. q + 1 # 0
      OBVIOUS
    <3>3. PICK sum \in Nat : sum = before + c /\ sum = (q + 1) * c
      BY <3>1
    <3>4. m = IF len <= sum - o THEN len ELSE sum - o
      <4>1. m = DoneAfter(q + 1, c, o, len)
        BY <1>2, <1>4, <3>1, Zenon
      <4>2. DoneAfter(q + 1, c, o, len) = IF len <= sum - o THEN len ELSE sum - o
        BY <3>2, <3>3, Zenon DEF DoneAfter
      <4>. QED BY <4>1, <4>2, Zenon
    <3>5. fs = fs2
      BY <1>2, <2>1, <3>1, Zenon
    <3>6. from + sum <= to + fs /\ to + s <= from + sum /\ o <= sum
      BY <1>4, <3>1, <3>3, <3>5
    <3>. HIDE DEF m
    <3>7. base + pos = from + o /\ base + pos_end = to + e
      BY <1>4
    <3>8. m = len \/ pos + m > pos_end
      BY <3>4, <3>6, <3>7
    <3>9. m = 0 \/ pos + m <= pos_end + fs
      BY <3>4, <3>6, <3>7
    <3>10. m \in 0 .. len
      BY <3>4, <3>6
    <3>. QED BY <2>1, <3>8, <3>9, <3>10, Zenon
  <2>. QED BY <2>2, <2>3
<1>. HIDE DEF m
<1>. QED BY <1>11, <1>12, Zenon DEF CopiesEnough

----------------------------------------------------------------------------
\* What a step does.

\* The greater of two.
LEMMA GreaterOf ==
  ASSUME NEW x \in Nat, NEW y \in Nat
  PROVE  Max({x, y}) = IF x < y THEN y ELSE x
<1>1. \E z \in {x, y} : \A w \in {x, y} : z >= w
  OBVIOUS
<1>2. Max({x, y}) \in {x, y} /\ \A w \in {x, y} : Max({x, y}) >= w
  BY <1>1 DEF Max
<1>. QED BY <1>2

\* Numbers and sizes, and where descriptors are: never beyond the end of their file,
\* nor do files outgrow their room while processes are careful.
RwInv ==
  /\ i_size \in [Files -> Nat] /\ fd_pos \in [Descs -> Nat] /\ careful \in BOOLEAN
  /\ \A d \in Descs : fd_pos[d] <= i_size[FileOf[d]]
  /\ careful => \A f \in Files : i_size[f] <= Capacity

\* Where a file lies on the disk.
LEMMA PlaceOfFile ==
  /\ Capacity \in Nat \ {0}
  /\ \A f \in Files : /\ f \in Nat /\ f * Capacity \in Nat
                      /\ (f + 1) * Capacity = f * Capacity + Capacity
                      /\ f * Capacity .. f * Capacity + Capacity - 1 \subseteq Disk
  /\ \A f \in Files, g \in Files : f < g => f * Capacity + Capacity <= g * Capacity
<1>1. Capacity \in Nat \ {0}
  BY FsRwAssumption, SMTT(20) DEF Capacity
<1>2. PICK cap \in Nat \ {0} : cap = Capacity
  BY <1>1
<1>3. NrFiles \in Nat \ {0} /\ Files = 0 .. NrFiles - 1
  BY FsRwAssumption DEF Files
<1>4. ASSUME NEW f \in Files
      PROVE  /\ f \in Nat /\ f * cap \in Nat /\ (f + 1) * cap = f * cap + cap
             /\ f * cap .. f * cap + cap - 1 \subseteq Disk
  <2>1. f \in Nat /\ f < NrFiles + 1
    BY <1>3
  <2>2. f * cap \in Nat /\ (f + 1) * cap = f * cap + cap
    BY <2>1, SMTT(20)
  <2>3. PICK all \in Nat, at \in Nat :
          all = (NrFiles + 1) * cap /\ at = f * cap /\ at + cap <= all
    <3>1. (NrFiles + 1) * cap \in Nat /\ f * cap + cap <= (NrFiles + 1) * cap
      <4>1. NrFiles + 1 \in Nat
        BY <1>3
      <4>. QED BY <2>1, <4>1, RowsInOrder
    <3>. QED BY <2>2, <3>1
  <2>4. Disk = 0 .. all - 1
    BY <1>2, <2>3, Zenon DEF Disk
  <2>5. at .. at + cap - 1 \subseteq 0 .. all - 1
    BY <2>3
  <2>. QED BY <2>1, <2>2, <2>3, <2>4, <2>5, Zenon
<1>5. ASSUME NEW f \in Files, NEW g \in Files, f < g PROVE f * cap + cap <= g * cap
  <2>1. f \in Nat /\ g \in Nat
    BY <1>3
  <2>. QED BY <2>1, <1>5, RowsInOrder
<1>. QED BY <1>1, <1>2, <1>4, <1>5

\* Descriptors and what they lead to.
LEMMA PlaceOfDesc ==
  ASSUME RwInv, NEW d \in Descs
  PROVE  /\ FileOf[d] \in Files /\ fd_pos[d] \in Nat /\ i_size[FileOf[d]] \in Nat
         /\ FileOf[d] \in Nat /\ FileOf[d] * Capacity \in Nat
<1>1. FileOf[d] \in Files
  BY FsRwAssumption
<1>. QED BY <1>1, PlaceOfFile DEF RwInv

\* Which copy has a place in a run.
LEMMA CopyInRun ==
  ASSUME NEW a \in Nat, NEW m \in Nat, NEW k \in 0 .. m - 1
  PROVE  /\ a + k \in ToSet(Run(a, m)) /\ Copy(Run(a, m), a + k) = k + 1
         /\ Run(a, m)[k + 1] = a + k
<1>1. /\ DOMAIN Run(a, m) = 1 .. m /\ \A j \in 1 .. m : Run(a, m)[j] = a + j - 1
  BY DEF Run
<1>2. k + 1 \in 1 .. m /\ Run(a, m)[k + 1] = a + k
  BY <1>1
<1>3. \A j \in DOMAIN Run(a, m) : Run(a, m)[j] = a + k <=> j = k + 1
  BY <1>1
<1>4. a + k \in ToSet(Run(a, m))
  BY <1>1, <1>2 DEF ToSet
<1>5. (CHOOSE j \in DOMAIN Run(a, m) : Run(a, m)[j] = a + k) = k + 1
  BY <1>1, <1>2, <1>3
<1>. QED BY <1>2, <1>4, <1>5, Zenon DEF Copy

\* A run holds nothing else.
LEMMA RunHolds ==
  ASSUME NEW a \in Nat, NEW m \in Nat, NEW x \in ToSet(Run(a, m))
  PROVE  x - a \in 0 .. m - 1 /\ x = a + (x - a)
<1>1. \E j \in 1 .. m : x = a + j - 1
  BY DEF ToSet, Run
<1>. QED BY <1>1

\* The first m bytes of a file, by offset.
FirstBytes(f, m) == [o \in 0 .. m - 1 |-> disk[f * Capacity + o]]

\* A READ gives the first bytes of the file.
ReadOf(d, len) ==
  \E m \in 0 .. len :
    /\ got' = FirstBytes(FileOf[d], m)
    /\ m = len \/ m > i_size[FileOf[d]]
    /\ careful => fd_pos[d] + m <= Capacity
    /\ Advance(d, m)
    /\ disk' = disk /\ given' = <<>> /\ careful' = careful

\* Every READ is such a step.
LEMMA ReadStep ==
  ASSUME RwInv, NEW d \in Descs, NEW len \in Nat, Read(d, len)
  PROVE  ReadOf(d, len)
<1>. DEFINE f == FileOf[d]
            c == Copied(f, 0, i_size[f], len)
<1>1. f \in Nat /\ i_size[f] \in Nat /\ fd_pos[d] \in Nat /\ f * Capacity \in Nat
  BY PlaceOfDesc
<1>2. PICK m \in 0 .. len :
        /\ c.at = Run(f * Capacity + 0, m) /\ c.buf = Run(0, m)
        /\ m = len \/ 0 + m > i_size[f]
  <2>1. CopiesEnough(f, 0, i_size[f], len)
    BY <1>1, CopiedIsRun
  <2>. QED BY <2>1 DEF CopiesEnough
<1>3. PICK base \in Nat : base = f * Capacity
  BY <1>1
<1>4. c.at = Run(base, m)
  <2>1. base + 0 = base
    OBVIOUS
  <2>. QED BY <1>2, <1>3, <2>1, Zenon
<1>5. m \in Nat /\ Len(c.at) = m
  <2>. HIDE DEF c
  <2>. QED BY <1>4 DEF Run
<1>6. /\ fd_pos[d] + Len(c.at) <= IF careful THEN Capacity ELSE MaxPos
      /\ got' = [o \in ToSet(c.buf) |-> disk[c.at[Copy(c.buf, o)]]]
      /\ Advance(d, Len(c.at))
      /\ disk' = disk /\ given' = <<>> /\ careful' = careful
  BY Zenon DEF Read
<1>. HIDE DEF c
<1>7. got' = FirstBytes(f, m)
  <2>1. ASSUME NEW o \in 0 .. m - 1
        PROVE  o \in ToSet(c.buf) /\ c.at[Copy(c.buf, o)] = base + o
    <3>1. 0 \in Nat /\ 0 + o = o
      OBVIOUS
    <3>2. 0 + o \in ToSet(Run(0, m)) /\ Copy(Run(0, m), 0 + o) = o + 1
      BY <1>5, <3>1, CopyInRun, Zenon
    <3>3. Run(base, m)[o + 1] = base + o
      BY <1>5, CopyInRun
    <3>. QED BY <1>2, <1>4, <3>1, <3>2, <3>3, Zenon
  <2>2. ToSet(c.buf) = 0 .. m - 1
    <3>1. ASSUME NEW x \in ToSet(c.buf) PROVE x \in 0 .. m - 1
      <4>1. x - 0 \in 0 .. m - 1 /\ x = 0 + (x - 0)
        <5>1. 0 \in Nat /\ x \in ToSet(Run(0, m))
          BY <1>2
        <5>. QED BY <1>5, <5>1, RunHolds, Zenon
      <4>. QED BY <4>1
    <3>. QED BY <2>1, <3>1
  <2>3. [o \in ToSet(c.buf) |-> disk[c.at[Copy(c.buf, o)]]] = [o \in 0 .. m - 1 |-> disk[base + o]]
    BY <2>1, <2>2
  <2>. QED BY <2>3, <1>3, <1>6, Zenon DEF FirstBytes
<1>8. m = len \/ m > i_size[f]
  BY <1>1, <1>2
<1>9. careful => fd_pos[d] + m <= Capacity
  BY <1>5, <1>6, Zenon
<1>10. Advance(d, m)
  BY <1>5, <1>6, Zenon
<1>. QED BY <1>6, <1>7, <1>8, <1>9, <1>10, Zenon DEF ReadOf

\* A WRITE puts the first bytes of its buffer at the position, one after the other;
\* beyond the room of the file that reaches no further than a chunk.  While processes
\* are careful, they are all the bytes.
WriteOf(d, data) ==
  \E m \in 0 .. Len(data) :
    /\ \A x \in Disk :
         LET k == x - (FileOf[d] * Capacity + fd_pos[d]) IN
         disk'[x] = IF k \in 0 .. m - 1 THEN data[k + 1] ELSE disk[x]
    /\ careful => m = Len(data) /\ fd_pos[d] + m <= Capacity
    /\ m = 0 \/ fd_pos[d] + m <= Capacity + FSBUF_SECTS * SECTOR_SIZE
    /\ Advance(d, m)
    /\ got' = <<>> /\ given' = data /\ careful' = careful

\* Every WRITE is such a step.
LEMMA WriteStep ==
  ASSUME RwInv, NEW d \in Descs, NEW data \in Seq(Nat), Write(d, data)
  PROVE  WriteOf(d, data)
<1>. DEFINE f == FileOf[d]
            pos == fd_pos[d]
            len == Len(data)
            c == Copied(f, pos, Min({pos + len, Capacity}), len)
<1>1. f \in Nat /\ pos \in Nat /\ f * Capacity \in Nat /\ Capacity \in Nat /\ len \in Nat
  BY PlaceOfDesc, PlaceOfFile
<1>2. PICK pos_end \in Nat : /\ pos_end = Min({pos + len, Capacity}) /\ pos_end <= Capacity
                             /\ pos + len <= Capacity => pos_end = pos + len
  <2>1. PICK sum \in Nat : sum = pos + len
    BY <1>1
  <2>2. PICK e \in Nat : /\ e = Min({sum, Capacity}) /\ e <= Capacity
                         /\ sum <= Capacity => e = sum
    <3>1. Min({sum, Capacity}) = IF sum < Capacity THEN sum ELSE Capacity
      BY <1>1, LesserOf
    <3>. QED BY <1>1, <3>1
  <2>. QED BY <2>1, <2>2, Zenon
<1>3. PICK m \in 0 .. len :
        /\ c.at = Run(f * Capacity + pos, m) /\ c.buf = Run(0, m)
        /\ m = len \/ pos + m > pos_end
        /\ m = 0 \/ pos + m <= pos_end + FSBUF_SECTS * SECTOR_SIZE
  <2>1. CopiesEnough(f, pos, pos_end, len)
    BY <1>1, CopiedIsRun
  <2>2. c = Copied(f, pos, pos_end, len)
    BY <1>2
  <2>. QED BY <2>1, <2>2, Zenon DEF CopiesEnough
<1>4. PICK base \in Nat : base = f * Capacity + pos
  BY <1>1
<1>5. m \in Nat /\ Len(c.at) = m /\ c.at = Run(base, m)
  <2>1. c.at = Run(base, m)
    BY <1>3, <1>4, Zenon
  <2>2. m \in Nat
    BY <1>1
  <2>. HIDE DEF c
  <2>. QED BY <2>1, <2>2 DEF Run
<1>6. /\ careful => pos + len <= Capacity
      /\ disk' = [x \in Disk |-> IF x \in ToSet(c.at)
                                 THEN data[c.buf[Copy(c.at, x)] + 1] ELSE disk[x]]
      /\ Advance(d, Len(c.at))
      /\ got' = <<>> /\ given' = data /\ careful' = careful
  BY Zenon DEF Write
<1>. HIDE DEF c
<1>7. ASSUME NEW x \in Disk
      PROVE  disk'[x] = IF x - base \in 0 .. m - 1 THEN data[(x - base) + 1] ELSE disk[x]
  <2>1. x \in Int
    <3>1. (NrFiles + 1) * Capacity \in Int
      <4>1. NrFiles \in Nat
        BY FsRwAssumption
      <4>. QED BY <4>1, <1>1, SMTT(20)
    <3>. QED BY <3>1 DEF Disk
  <2>2. disk'[x] = IF x \in ToSet(c.at) THEN data[c.buf[Copy(c.at, x)] + 1] ELSE disk[x]
    BY <1>6, Zenon
  <2>3. CASE x - base \in 0 .. m - 1
    <3>1. PICK k \in 0 .. m - 1 : k = x - base /\ x = base + k
      BY <2>1, <2>3
    <3>2. base + k \in ToSet(Run(base, m)) /\ Copy(Run(base, m), base + k) = k + 1
      BY <1>5, CopyInRun
    <3>3. Run(0, m)[k + 1] = 0 + k
      BY <1>5, CopyInRun
    <3>4. 0 + k = k
      OBVIOUS
    <3>. QED BY <1>3, <1>5, <2>2, <2>3, <3>1, <3>2, <3>3, <3>4, Zenon
  <2>4. CASE ~(x - base \in 0 .. m - 1)
    <3>1. x \notin ToSet(c.at)
      BY <1>5, <2>4, RunHolds, Zenon
    <3>. QED BY <2>2, <2>4, <3>1, Zenon
  <2>. QED BY <2>3, <2>4, Zenon
<1>8. careful => m = len /\ pos + m <= Capacity
  BY <1>1, <1>2, <1>3, <1>6
<1>9. m = 0 \/ pos + m <= Capacity + FSBUF_SECTS * SECTOR_SIZE
  <2>1. PICK fs \in Nat : fs = FSBUF_SECTS * SECTOR_SIZE
    <3>1. FSBUF_SECTS * SECTOR_SIZE \in Nat
      BY FsRwAssumption, SMTT(20)
    <3>. QED BY <3>1
  <2>2. m = 0 \/ pos + m <= pos_end + fs
    BY <1>3, <2>1, Zenon
  <2>3. m = 0 \/ pos + m <= Capacity + fs
    BY <1>1, <1>2, <2>2
  <2>. QED BY <2>1, <2>3, Zenon
<1>10. Advance(d, m)
  BY <1>5, <1>6, Zenon
<1>11. \A x \in Disk :
         LET k == x - (f * Capacity + pos) IN
         disk'[x] = IF k \in 0 .. m - 1 THEN data[k + 1] ELSE disk[x]
  BY <1>4, <1>7, Zenon
<1>. QED BY <1>6, <1>8, <1>9, <1>10, <1>11, Zenon DEF WriteOf

\* Where the position and the end of the file go.
LEMMA AdvanceEffect ==
  ASSUME RwInv, NEW d \in Descs, NEW m \in Nat, Advance(d, m)
  PROVE  /\ fd_pos' \in [Descs -> Nat] /\ i_size' \in [Files -> Nat]
         /\ \A e \in Descs : fd_pos'[e] = IF e = d THEN fd_pos[d] + m ELSE fd_pos[e]
         /\ \A g \in Files :
              i_size'[g] = IF g = FileOf[d] /\ i_size[g] < fd_pos[d] + m
                           THEN fd_pos[d] + m ELSE i_size[g]
<1>. DEFINE f == FileOf[d]
<1>1. fd_pos \in [Descs -> Nat] /\ i_size \in [Files -> Nat] /\ f \in Files
  BY PlaceOfDesc DEF RwInv
<1>2. PICK pos \in Nat, old \in Nat, sum \in Nat :
        pos = fd_pos[d] /\ old = i_size[f] /\ sum = pos + m
  BY <1>1
<1>3. fd_pos' = [fd_pos EXCEPT ![d] = sum]
  <2>1. fd_pos' = [fd_pos EXCEPT ![d] = @ + m]
    BY DEF Advance
  <2>. QED BY <2>1, <1>2
<1>4. fd_pos'[d] = sum
  BY <1>1, <1>3
<1>5. Max({old, sum}) = IF old < sum THEN sum ELSE old
  BY GreaterOf
<1>6. i_size' = [i_size EXCEPT ![f] = IF old < sum THEN sum ELSE old]
  <2>1. i_size' = [i_size EXCEPT ![f] = Max({@, fd_pos'[d]})]
    BY DEF Advance
  <2>2. Max({i_size[f], fd_pos'[d]}) = IF old < sum THEN sum ELSE old
    BY <1>2, <1>4, <1>5
  <2>. QED BY <2>1, <2>2
<1>. QED BY <1>1, <1>2, <1>3, <1>6

\* The invariant is kept by moving a position and by opening.
LEMMA AdvanceRwInv ==
  ASSUME RwInv, NEW d \in Descs, NEW m \in Nat, Advance(d, m), careful' = careful,
         careful => fd_pos[d] + m <= Capacity
  PROVE  RwInv'
<1>. DEFINE f == FileOf[d]
<1>1. /\ fd_pos' \in [Descs -> Nat] /\ i_size' \in [Files -> Nat]
      /\ \A e \in Descs : fd_pos'[e] = IF e = d THEN fd_pos[d] + m ELSE fd_pos[e]
      /\ \A g \in Files : i_size'[g] = IF g = f /\ i_size[g] < fd_pos[d] + m
                                       THEN fd_pos[d] + m ELSE i_size[g]
  BY AdvanceEffect
<1>2. /\ fd_pos \in [Descs -> Nat] /\ i_size \in [Files -> Nat]
      /\ \A e \in Descs : FileOf[e] \in Files
  BY PlaceOfDesc DEF RwInv
<1>3. ASSUME NEW e \in Descs PROVE fd_pos'[e] <= i_size'[FileOf[e]]
  <2>1. fd_pos[e] <= i_size[FileOf[e]]
    BY DEF RwInv
  <2>. QED BY <1>1, <1>2, <2>1
<1>4. ASSUME careful', NEW g \in Files PROVE i_size'[g] <= Capacity
  <2>1. i_size[g] <= Capacity
    BY <1>4 DEF RwInv
  <2>. QED BY <1>1, <1>2, <1>4, <2>1
<1>. QED BY <1>1, <1>3, <1>4 DEF RwInv

\* So it is of every step.
LEMMA NextRwInv ==
  ASSUME RwInv, [RwNext]_rwVars
  PROVE  RwInv'
<1>1. CASE UNCHANGED rwVars
  BY <1>1 DEF RwInv, rwVars
<1>2. ASSUME NEW d \in Descs, Open(d) PROVE RwInv'
  <2>1. FileOf[d] \in Files /\ i_size[FileOf[d]] \in Nat
    BY PlaceOfDesc
  <2>2. /\ fd_pos' = [fd_pos EXCEPT ![d] = i_size[FileOf[d]]]
        /\ i_size' = i_size /\ careful' = careful
    BY <1>2 DEF Open
  <2>. QED BY <2>1, <2>2 DEF RwInv
<1>3. ASSUME NEW d \in Descs, NEW len \in ReadLens, Read(d, len) PROVE RwInv'
  <2>1. len \in Nat
    BY FsRwAssumption
  <2>2. ReadOf(d, len)
    BY <1>3, <2>1, ReadStep
  <2>3. PICK m \in Nat : Advance(d, m) /\ careful' = careful
                         /\ (careful => fd_pos[d] + m <= Capacity)
    BY <2>1, <2>2 DEF ReadOf
  <2>. QED BY <2>3, AdvanceRwInv
<1>4. ASSUME NEW d \in Descs, NEW data \in Seq(Nat), Write(d, data) PROVE RwInv'
  <2>1. WriteOf(d, data)
    BY <1>4, WriteStep
  <2>2. PICK m \in 0 .. Len(data) : /\ Advance(d, m) /\ careful' = careful
                                    /\ careful => fd_pos[d] + m <= Capacity
    BY <2>1, Zenon DEF WriteOf
  <2>3. m \in Nat
    OBVIOUS
  <2>. QED BY <2>2, <2>3, AdvanceRwInv, Zenon
<1>5. (IF careful THEN WriteData ELSE LongData) \subseteq Seq(Nat)
  BY FsRwAssumption, Zenon
<1>. QED BY <1>1, <1>2, <1>3, <1>4, <1>5, Zenon DEF RwNext

\* No descriptor is beyond the end of its file; and as long as processes take none
\* beyond the room of its file, no file outgrows it.
THEOREM PositionsWithin == RwSpec => []RwInv
<1>1. RwInit => RwInv
  <2>1. Capacity \in Nat
    BY PlaceOfFile
  <2>2. \A d \in Descs : FileOf[d] \in Files
    BY FsRwAssumption
  <2>. QED BY <2>1, <2>2 DEF RwInit, RwInv
<1>2. RwInv /\ [RwNext]_rwVars => RwInv'
  BY NextRwInv
<1>. QED BY <1>1, <1>2, PTL DEF RwSpec

----------------------------------------------------------------------------
\* The properties.

\* A READ gives its caller the first bytes of the file: ReadsFromStart for every
\* size of sectors, chunks, files and requests.
THEOREM ReadsGiveStart == RwSpec => ReadsFromStart
<1>. DEFINE Bytes(d, n) == /\ got' = [o \in 0 .. n - 1 |-> disk[FileOf[d] * Capacity + o]]
                           /\ n \in ReadLens \/ n > i_size[FileOf[d]]
            Given(d) == LET n == fd_pos'[d] - fd_pos[d] IN
                        /\ got' = [o \in 0 .. n - 1 |-> disk[FileOf[d] * Capacity + o]]
                        /\ n \in ReadLens \/ n > i_size[FileOf[d]]
<1>1. ASSUME RwInv, RwNext, Reading PROVE \E d \in Descs : Given(d)
  <2>1. PICK d \in Descs, len \in ReadLens : Read(d, len)
    <3>1. \A d \in Descs : ~Open(d)
      BY <1>1 DEF Open, Reading
    <3>2. \A d \in Descs, data \in IF careful THEN WriteData ELSE LongData : ~Write(d, data)
      <4>1. \A d \in Descs, data \in IF careful THEN WriteData ELSE LongData :
              Write(d, data) => got' = <<>>
        BY Zenon DEF Write
      <4>. QED BY <1>1, <4>1, Zenon DEF Reading
    <3>. QED BY <1>1, <3>1, <3>2, Zenon DEF RwNext
  <2>2. len \in Nat
    BY FsRwAssumption
  <2>3. PICK m \in 0 .. len : /\ got' = FirstBytes(FileOf[d], m)
                              /\ m = len \/ m > i_size[FileOf[d]]
                              /\ Advance(d, m)
    <3>1. ReadOf(d, len)
      BY <1>1, <2>1, <2>2, ReadStep, Zenon
    <3>. QED BY <3>1, Zenon DEF ReadOf
  <2>4. m \in Nat /\ fd_pos[d] \in Nat
    BY <1>1, <2>2, PlaceOfDesc
  <2>5. fd_pos'[d] = fd_pos[d] + m
    BY <1>1, <2>3, <2>4, AdvanceEffect, Zenon
  <2>6. fd_pos'[d] - fd_pos[d] = m
    BY <2>4, <2>5
  <2>7. Bytes(d, m)
    BY <2>1, <2>3, Zenon DEF FirstBytes
  <2>8. Given(d)
    BY <2>6, <2>7, Zenon
  <2>. QED BY <2>8, Zenon
<1>2. RwInv /\ [RwNext]_rwVars => [Reading => \E d \in Descs : Given(d)]_rwVars
  BY <1>1
<1>. QED BY <1>2, PositionsWithin, PTL DEF RwSpec, ReadsFromStart

\* NeighboursUntouched for every size of sectors, chunks, files and requests: a WRITE
\* changes no byte of the disk but in its own file, or in the chunk behind it.
THEOREM WritesStayInFile == RwSpec => NeighboursUntouched
<1>. DEFINE Allowed(x) ==
       disk'[x] # disk[x] =>
         \E d \in Descs :
           LET f == FileOf[d] IN
           /\ fd_pos'[d] # fd_pos[d]
           /\ \/ x \in Sectors(f)
              \/ /\ ~careful /\ fd_pos'[d] > Capacity
                 /\ x - (f + 1) * Capacity \in 0 .. FSBUF_SECTS * SECTOR_SIZE - 1
<1>1. ASSUME RwInv, RwNext, NEW x \in Disk, disk'[x] # disk[x] PROVE Allowed(x)
  <2>1. PICK d \in Descs, data \in Seq(Nat) : Write(d, data)
    <3>1. \A d \in Descs : ~Open(d)
      BY <1>1 DEF Open
    <3>2. \A d \in Descs, len \in ReadLens : ~Read(d, len)
      <4>1. \A d \in Descs, len \in ReadLens : Read(d, len) => disk' = disk
        BY Zenon DEF Read
      <4>. QED BY <1>1, <4>1
    <3>3. (IF careful THEN WriteData ELSE LongData) \subseteq Seq(Nat)
      BY FsRwAssumption, Zenon
    <3>. QED BY <1>1, <3>1, <3>2, <3>3, Zenon DEF RwNext
  <2>. DEFINE f == FileOf[d]
  <2>2. PICK m \in 0 .. Len(data) :
          /\ x - (f * Capacity + fd_pos[d]) \in 0 .. m - 1
          /\ careful => fd_pos[d] + m <= Capacity
          /\ m = 0 \/ fd_pos[d] + m <= Capacity + FSBUF_SECTS * SECTOR_SIZE
          /\ Advance(d, m)
    <3>1. WriteOf(d, data)
      BY <1>1, <2>1, WriteStep, Zenon
    <3>. QED BY <1>1, <3>1, Zenon DEF WriteOf
  <2>3. PICK base \in Nat, pos \in Nat, cap \in Nat, fs \in Nat :
          /\ base = f * Capacity /\ pos = fd_pos[d] /\ cap = Capacity
          /\ fs = FSBUF_SECTS * SECTOR_SIZE /\ (f + 1) * Capacity = base + cap
    <3>1. FSBUF_SECTS * SECTOR_SIZE \in Nat
      BY FsRwAssumption, SMTT(20)
    <3>2. f \in Files /\ fd_pos[d] \in Nat
      BY <1>1, PlaceOfDesc
    <3>3. /\ f * Capacity \in Nat /\ Capacity \in Nat
          /\ (f + 1) * Capacity = f * Capacity + Capacity
      BY <3>2, PlaceOfFile
    <3>. QED BY <3>1, <3>2, <3>3, Zenon
  <2>4. fd_pos'[d] = pos + m
    BY <1>1, <2>2, <2>3, AdvanceEffect
  <2>5. x \in Int /\ x - (base + pos) \in 0 .. m - 1
    <3>1. x - (base + pos) \in 0 .. m - 1
      BY <2>2, <2>3, Zenon
    <3>2. (NrFiles + 1) * Capacity \in Int
      <4>1. Capacity \in Nat
        BY PlaceOfFile
      <4>2. NrFiles \in Nat
        BY FsRwAssumption
      <4>. QED BY <4>1, <4>2, SMTT(20)
    <3>. QED BY <3>1, <3>2 DEF Disk
  <2>6. m \in Nat /\ m # 0 /\ fd_pos'[d] # fd_pos[d]
    <3>1. Len(data) \in Nat
      BY LenProperties
    <3>2. m \in Nat
      BY <3>1
    <3>3. m # 0
      BY <3>2, <2>5
    <3>4. pos + m # pos
      BY <3>2, <3>3
    <3>5. fd_pos'[d] # fd_pos[d]
      BY <2>3, <2>4, <3>4, Zenon
    <3>. QED BY <3>2, <3>3, <3>5
  <2>7. pos + m <= cap + fs
    BY <2>2, <2>3, <2>6, Zenon
  <2>8. careful => pos + m <= cap
    BY <2>2, <2>3, Zenon
  <2>9. CASE x <= base + cap - 1
    <3>1. x \in base .. base + cap - 1
      BY <2>5, <2>9
    <3>2. f * Capacity .. (f + 1) * Capacity - 1 = base .. base + cap - 1
      BY <2>3
    <3>3. x \in Sectors(f)
      BY <3>1, <3>2, Zenon DEF Sectors
    <3>. QED BY <2>6, <3>3
  <2>10. CASE x >= base + cap
    <3>1. pos + m > cap /\ x - (base + cap) \in 0 .. fs - 1
      BY <2>5, <2>7, <2>10
    <3>2. ~careful
      BY <2>8, <3>1
    <3>3. x - (f + 1) * Capacity \in 0 .. FSBUF_SECTS * SECTOR_SIZE - 1
      BY <2>3, <3>1, Zenon
    <3>4. fd_pos'[d] > Capacity
      BY <2>3, <2>4, <3>1
    <3>. QED BY <2>6, <3>2, <3>3, <3>4, Zenon
  <2>. QED BY <2>5, <2>9, <2>10
<1>2. RwInv /\ [RwNext]_rwVars => [\A x \in Disk : Allowed(x)]_rwVars
  BY <1>1
<1>. QED BY <1>2, PositionsWithin, PTL DEF RwSpec, NeighboursUntouched

\* u is the n elements of s behind the k-th.
IsStretch(u, S, s, k, n) ==
  u \in Seq(S) /\ Len(u) = n /\ \A i \in 1 .. n : u[i] = s[k + i]

\* SubSeq is a stretch.
LEMMA StretchOf ==
  ASSUME NEW S, NEW s \in Seq(S), NEW k \in Nat, NEW n \in Nat, NEW e \in Nat,
         e = k + n, e <= Len(s)
  PROVE  IsStretch(SubSeq(s, k + 1, e), S, s, k, n)
<1>1. \A i \in k + 1 .. e : s[i] \in S
  BY ElementOfSeq
<1>2. /\ SubSeq(s, k + 1, e) \in Seq(S)
      /\ Len(SubSeq(s, k + 1, e)) = IF k + 1 <= e THEN e - (k + 1) + 1 ELSE 0
      /\ \A i \in 1 .. e - (k + 1) + 1 : SubSeq(s, k + 1, e)[i] = s[(k + 1) + i - 1]
  BY <1>1, SubSeqProperties
<1>. QED BY <1>2 DEF IsStretch

\* u is the k elements of s and then the n elements of t.
IsJoin(u, S, s, t, k, n) ==
  /\ u \in Seq(S) /\ Len(u) = k + n
  /\ \A i \in 1 .. k : u[i] = s[i]
  /\ \A i \in 1 .. n : u[k + i] = t[i]

\* \o is a join.
LEMMA JoinOf ==
  ASSUME NEW S, NEW s \in Seq(S), NEW t \in Seq(S), NEW k \in Nat, k = Len(s),
         NEW n \in Nat, n = Len(t)
  PROVE  IsJoin(s \o t, S, s, t, k, n)
<1>1. /\ s \o t \in Seq(S) /\ Len(s \o t) = k + n
      /\ \A i \in 1 .. k + n : (s \o t)[i] = IF i <= k THEN s[i] ELSE t[i - k]
  BY ConcatProperties
<1>2. ASSUME NEW i \in 1 .. n PROVE (s \o t)[k + i] = t[i]
  <2>1. k + i \in 1 .. k + n /\ ~(k + i <= k) /\ (k + i) - k = i
    OBVIOUS
  <2>2. (s \o t)[k + i] = t[(k + i) - k]
    BY <1>1, <2>1
  <2>. QED BY <2>1, <2>2
<1>. QED BY <1>1, <1>2 DEF IsJoin

\* new is old but between pos and end, and no longer than that needs.
DiffersWithin(old, new, pos, end) ==
  /\ pos <= end /\ pos <= Len(old)
  /\ Len(new) = IF Len(old) < end THEN end ELSE Len(old)
  /\ \A j \in 1 .. Len(old) : ~(pos < j /\ j <= end) => new[j] = old[j]

\* Then new is old with the bytes that are there now written over it.
LEMMA OverwriteIs ==
  ASSUME NEW S, NEW old \in Seq(S), NEW new \in Seq(S),
         NEW pos \in Nat, NEW end \in Nat, DiffersWithin(old, new, pos, end)
  PROVE  new = B!Overwrite(old, pos, SubSeq(new, pos + 1, end))
<1>1. PICK m \in Nat, lo \in Nat, ln \in Nat, rest \in Nat :
        /\ end = pos + m /\ lo = Len(old) /\ ln = Len(new) /\ pos <= lo
        /\ ln = IF lo < end THEN end ELSE lo
        /\ ln = end + rest
  <2>1. PICK m \in Nat, lo \in Nat, ln \in Nat :
          /\ end = pos + m /\ lo = Len(old) /\ ln = Len(new) /\ pos <= lo
          /\ ln = IF lo < end THEN end ELSE lo
    <3>1. end - pos \in Nat /\ end = pos + (end - pos)
      BY DEF DiffersWithin
    <3>2. Len(old) \in Nat /\ Len(new) \in Nat
      BY LenProperties
    <3>. QED BY <3>1, <3>2 DEF DiffersWithin
  <2>2. ln = end \/ (ln = lo /\ ~(lo < end))
    BY <2>1
  <2>3. end <= ln
    BY <2>2
  <2>4. PICK rest \in Nat : ln = end + rest
    BY <2>3
  <2>. QED BY <2>1, <2>4, Zenon
<1>. DEFINE data == SubSeq(new, pos + 1, end)
            head == SubSeq(old, 1, pos)
            tail == SubSeq(old, end + 1, lo)
            first == head \o data
<1>2. IsStretch(data, S, new, pos, m)
  <2>1. end <= Len(new)
    BY <1>1
  <2>. QED BY <1>1, <2>1, StretchOf, Zenon
<1>3. IsStretch(head, S, old, 0, pos)
  <2>1. 0 + 1 = 1 /\ 0 + pos = pos /\ 0 \in Nat /\ pos <= Len(old)
    BY <1>1
  <2>2. IsStretch(SubSeq(old, 0 + 1, pos), S, old, 0, pos)
    BY <2>1, StretchOf, Zenon
  <2>. QED BY <2>1, <2>2, Zenon
<1>4. IsStretch(tail, S, old, end, rest)
  <2>1. CASE lo < end
    <3>1. lo \in Int /\ end + 1 \in Int /\ lo < end + 1 /\ rest = 0
      BY <2>1, <1>1
    <3>2. tail = << >>
      BY <3>1, SubSeqEmpty, Zenon
    <3>. HIDE DEF tail
    <3>. QED BY <3>1, <3>2 DEF IsStretch
  <2>2. CASE end <= lo
    <3>1. lo = end + rest /\ lo <= Len(old)
      BY <2>2, <1>1
    <3>. QED BY <1>1, <3>1, StretchOf, Zenon
  <2>. QED BY <2>1, <2>2, <1>1
<1>5. B!Overwrite(old, pos, SubSeq(new, pos + 1, end)) = first \o tail
  <2>1. B!Overwrite(old, pos, data)
        = SubSeq(old, 1, pos) \o data \o SubSeq(old, (pos + Len(data)) + 1, Len(old))
    BY Zenon DEF B!Overwrite
  <2>2. pos + Len(data) = end /\ Len(old) = lo
    <3>. HIDE DEF data
    <3>. QED BY <1>1, <1>2 DEF IsStretch
  <2>. QED BY <2>1, <2>2, Zenon
<1>. HIDE DEF data, head, tail
<1>6. IsJoin(first, S, head, data, pos, m)
  <2>1. head \in Seq(S) /\ data \in Seq(S) /\ pos = Len(head) /\ m = Len(data)
    BY <1>2, <1>3 DEF IsStretch
  <2>. QED BY <2>1, <1>1, JoinOf, Zenon
<1>. HIDE DEF first
<1>7. IsJoin(first \o tail, S, first, tail, end, rest)
  <2>1. first \in Seq(S) /\ tail \in Seq(S) /\ end = Len(first) /\ rest = Len(tail)
    BY <1>1, <1>4, <1>6 DEF IsStretch, IsJoin
  <2>. QED BY <2>1, <1>1, JoinOf, Zenon
<1>8. ASSUME NEW i \in 1 .. ln PROVE (first \o tail)[i] = new[i]
  <2>1. CASE i <= pos
    <3>1. i \in 1 .. pos /\ i \in 1 .. end /\ i \in 1 .. Len(old) /\ ~(pos < i)
      BY <2>1, <1>1
    <3>2. new[i] = old[i]
      BY <3>1 DEF DiffersWithin
    <3>. QED BY <3>1, <3>2, <1>3, <1>6, <1>7 DEF IsStretch, IsJoin
  <2>2. CASE pos < i /\ i <= end
    <3>1. PICK k \in 1 .. m : i = pos + k
      <4>1. i - pos \in 1 .. m /\ i = pos + (i - pos)
        BY <2>2, <1>1
      <4>. QED BY <4>1
    <3>2. i \in 1 .. end
      BY <2>2
    <3>. QED BY <3>1, <3>2, <1>2, <1>6, <1>7 DEF IsStretch, IsJoin
  <2>3. CASE end < i
    <3>1. PICK k \in 1 .. rest : i = end + k
      <4>1. i - end \in 1 .. rest /\ i = end + (i - end)
        BY <2>3, <1>1
      <4>. QED BY <4>1
    <3>2. i \in 1 .. Len(old) /\ ~(i <= end)
      BY <2>3, <1>1
    <3>3. new[i] = old[i]
      BY <3>2 DEF DiffersWithin
    <3>. QED BY <3>1, <3>3, <1>4, <1>7 DEF IsStretch, IsJoin
  <2>4. i <= pos \/ (pos < i /\ i <= end) \/ end < i
    OBVIOUS
  <2>. QED BY <2>1, <2>2, <2>3, <2>4, Zenon
<1>9. first \o tail = new
  <2>1. Len(first \o tail) = Len(new)
    BY <1>1, <1>7 DEF IsJoin
  <2>2. first \o tail \in Seq(S)
    BY <1>7 DEF IsJoin
  <2>3. \A i \in 1 .. Len(first \o tail) : (first \o tail)[i] = new[i]
    BY <2>1, <1>1, <1>8
  <2>. QED BY <2>1, <2>2, <2>3, SeqEqual, Zenon
<1>. QED BY <1>5, <1>9, Zenon

\* What is in file g after the step.
NewContents(g) == [j \in 1 .. i_size'[g] |-> disk'[g * Capacity + j - 1]]

\* The position of d moves by m bytes; the other files keep theirs, and its file those
\* not between the two positions, or all if the disk is not touched.
Moves(d, m) ==
  LET f   == FileOf[d]
      old == Contents(f, i_size[f])
  IN /\ \A g \in Files \ {f} : NewContents(g) = Contents(g, i_size[g])
     /\ DiffersWithin(old, NewContents(f), fd_pos[d], fd_pos[d] + m)
     /\ disk' = disk => \A j \in 1 .. Len(old) : NewContents(f)[j] = old[j]
     /\ \E S : old \in Seq(S) /\ NewContents(f) \in Seq(S)
     /\ fd_pos' = [fd_pos EXCEPT ![d] = fd_pos[d] + m]

\* So it is if no other byte of the disk changes.
LEMMA MoveKeeps ==
  ASSUME RwInv, careful, NEW d \in Descs, NEW m \in Nat, Advance(d, m),
         fd_pos[d] + m <= Capacity,
         \A x \in Disk : disk'[x] # disk[x] =>
           x - (FileOf[d] * Capacity + fd_pos[d]) \in 0 .. m - 1
  PROVE  Moves(d, m)
<1>. DEFINE f == FileOf[d]
            S == {disk[x] : x \in Nat} \union {disk'[x] : x \in Nat}
<1>1. /\ fd_pos' \in [Descs -> Nat] /\ i_size' \in [Files -> Nat]
      /\ \A e \in Descs : fd_pos'[e] = IF e = d THEN fd_pos[d] + m ELSE fd_pos[e]
      /\ \A g \in Files : i_size'[g] = IF g = f /\ i_size[g] < fd_pos[d] + m
                                       THEN fd_pos[d] + m ELSE i_size[g]
  BY AdvanceEffect
<1>2. /\ f \in Files /\ fd_pos \in [Descs -> Nat] /\ i_size \in [Files -> Nat]
      /\ fd_pos[d] <= i_size[f] /\ \A g \in Files : i_size[g] <= Capacity
  BY PlaceOfDesc DEF RwInv
<1>3. PICK pos \in Nat, end \in Nat, cap \in Nat, base \in Nat :
        /\ pos = fd_pos[d] /\ end = pos + m /\ cap = Capacity /\ base = f * Capacity
        /\ end <= cap
  <2>1. fd_pos[d] \in Nat /\ Capacity \in Nat /\ f * Capacity \in Nat
    BY PlaceOfDesc, PlaceOfFile
  <2>2. PICK pos \in Nat, cap \in Nat, base \in Nat :
          pos = fd_pos[d] /\ cap = Capacity /\ base = f * Capacity
    BY <2>1
  <2>3. PICK end \in Nat : end = pos + m
    OBVIOUS
  <2>4. end <= cap
    BY <2>2, <2>3
  <2>. QED BY <2>2, <2>3, <2>4, Zenon
<1>4. \A x \in Disk : disk'[x] # disk[x] => x - (base + pos) \in 0 .. m - 1
  BY <1>3, Zenon
<1>5. ASSUME NEW g \in Files
      PROVE  /\ Contents(g, i_size[g]) \in Seq(S) /\ Len(Contents(g, i_size[g])) = i_size[g]
             /\ NewContents(g) \in Seq(S) /\ Len(NewContents(g)) = i_size'[g]
  <2>1. PICK at \in Nat, n \in Nat, k \in Nat :
          at = g * Capacity /\ n = i_size[g] /\ k = i_size'[g]
    <3>1. g * Capacity \in Nat
      BY PlaceOfFile
    <3>. QED BY <3>1, <1>1, <1>2
  <2>2. Contents(g, i_size[g]) = [j \in 1 .. n |-> disk[at + j - 1]]
    BY <2>1, Zenon DEF Contents
  <2>3. NewContents(g) = [j \in 1 .. k |-> disk'[at + j - 1]]
    BY <2>1, Zenon DEF NewContents
  <2>4. \A j \in 1 .. n : disk[at + j - 1] \in S
    OBVIOUS
  <2>5. \A j \in 1 .. k : disk'[at + j - 1] \in S
    OBVIOUS
  <2>. HIDE DEF S
  <2>6. [j \in 1 .. n |-> disk[at + j - 1]] \in Seq(S)
    BY <2>4
  <2>7. [j \in 1 .. k |-> disk'[at + j - 1]] \in Seq(S)
    BY <2>5
  <2>8. Len([j \in 1 .. n |-> disk[at + j - 1]]) = n /\ Len([j \in 1 .. k |-> disk'[at + j - 1]]) = k
    OBVIOUS
  <2>. QED BY <2>1, <2>2, <2>3, <2>6, <2>7, <2>8, Zenon
<1>6. ASSUME NEW g \in Files, g # f PROVE NewContents(g) = Contents(g, i_size[g])
  <2>1. i_size'[g] = i_size[g]
    BY <1>1, <1>6
  <2>2. PICK at \in Nat, n \in Nat : at = g * Capacity /\ n = i_size[g] /\ n <= cap
    <3>1. g * Capacity \in Nat
      BY PlaceOfFile
    <3>. QED BY <3>1, <1>2, <1>3
  <2>3. at + cap <= base \/ base + cap <= at
    <3>1. f \in Nat /\ g \in Nat
      BY <1>2, PlaceOfFile
    <3>2. (g < f => g * Capacity + Capacity <= f * Capacity)
          /\ (f < g => f * Capacity + Capacity <= g * Capacity)
      BY <1>2, PlaceOfFile
    <3>3. g < f \/ f < g
      BY <3>1, <1>6
    <3>4. (g < f => at + cap <= base) /\ (f < g => base + cap <= at)
      BY <3>2, <2>2, <1>3, Zenon
    <3>. QED BY <3>3, <3>4
  <2>4. at .. at + cap - 1 \subseteq Disk
    <3>1. g * Capacity .. g * Capacity + Capacity - 1 \subseteq Disk
      BY PlaceOfFile
    <3>. QED BY <3>1, <2>2, <1>3, Zenon
  <2>5. ASSUME NEW j \in 1 .. n PROVE disk'[at + j - 1] = disk[at + j - 1]
    <3>1. PICK x \in at .. at + cap - 1 : x = at + j - 1
      BY <2>2
    <3>2. ~(x - (base + pos) \in 0 .. m - 1)
      BY <2>3, <1>3
    <3>. QED BY <3>1, <3>2, <2>4, <1>4
  <2>6. [j \in 1 .. n |-> disk'[at + j - 1]] = [j \in 1 .. n |-> disk[at + j - 1]]
    BY <2>5
  <2>. QED BY <2>1, <2>2, <2>6, Zenon DEF Contents, NewContents
<1>7. DiffersWithin(Contents(f, i_size[f]), NewContents(f), pos, end)
  <2>1. PICK n \in Nat, k \in Nat :
          /\ n = i_size[f] /\ k = i_size'[f] /\ pos <= n /\ n <= cap
          /\ k = IF n < end THEN end ELSE n
    BY <1>1, <1>2, <1>3
  <2>2. base .. base + cap - 1 \subseteq Disk
    <3>1. f * Capacity .. f * Capacity + Capacity - 1 \subseteq Disk
      BY <1>2, PlaceOfFile
    <3>. QED BY <3>1, <1>3, Zenon
  <2>3. Contents(f, i_size[f]) = [j \in 1 .. n |-> disk[base + j - 1]]
    BY <2>1, <1>3, Zenon DEF Contents
  <2>4. NewContents(f) = [j \in 1 .. k |-> disk'[base + j - 1]]
    BY <2>1, <1>3, Zenon DEF NewContents
  <2>5. ASSUME NEW j \in 1 .. n, ~(pos < j /\ j <= end)
        PROVE  disk'[base + j - 1] = disk[base + j - 1]
    <3>1. PICK x \in base .. base + cap - 1 : x = base + j - 1
      BY <2>1
    <3>2. ~(x - (base + pos) \in 0 .. m - 1)
      BY <2>5, <3>1, <1>3
    <3>. QED BY <3>1, <3>2, <2>2, <1>4
  <2>6. \A j \in 1 .. n : ~(pos < j /\ j <= end) => NewContents(f)[j] = Contents(f, i_size[f])[j]
    <3>. TAKE j \in 1 .. n
    <3>. HAVE ~(pos < j /\ j <= end)
    <3>1. j \in 1 .. k
      BY <2>1
    <3>2. NewContents(f)[j] = disk'[base + j - 1] /\ Contents(f, i_size[f])[j] = disk[base + j - 1]
      BY <2>3, <2>4, <3>1
    <3>. QED BY <3>2, <2>5
  <2>7. Len(Contents(f, i_size[f])) = n /\ Len(NewContents(f)) = k
    BY <1>2, <1>5, <2>1
  <2>8. pos <= end
    BY <1>3
  <2>. QED BY <2>1, <2>6, <2>7, <2>8, Zenon DEF DiffersWithin
<1>8. disk' = disk => \A j \in 1 .. Len(Contents(f, i_size[f])) :
                        NewContents(f)[j] = Contents(f, i_size[f])[j]
  <2>. HAVE disk' = disk
  <2>1. PICK n \in Nat, k \in Nat : n = i_size[f] /\ k = i_size'[f] /\ n <= k
    BY <1>1, <1>2, <1>3
  <2>2. Contents(f, i_size[f]) = [j \in 1 .. n |-> disk[base + j - 1]]
    BY <2>1, <1>3, Zenon DEF Contents
  <2>3. NewContents(f) = [j \in 1 .. k |-> disk[base + j - 1]]
    BY <2>1, <1>3, Zenon DEF NewContents
  <2>4. Len(Contents(f, i_size[f])) = n
    BY <1>2, <1>5, <2>1
  <2>. QED BY <2>1, <2>2, <2>3, <2>4
<1>9. Contents(f, i_size[f]) \in Seq(S) /\ NewContents(f) \in Seq(S)
  BY <1>2, <1>5
<1>10. fd_pos' = [fd_pos EXCEPT ![d] = pos + m]
  BY <1>1, <1>2, <1>3
<1>11. \A g \in Files \ {f} : NewContents(g) = Contents(g, i_size[g])
  BY <1>6
<1>12. DiffersWithin(Contents(f, i_size[f]), NewContents(f), fd_pos[d], fd_pos[d] + m)
  BY <1>3, <1>7, Zenon
<1>. HIDE DEF S, f
<1>. QED BY <1>3, <1>8, <1>9, <1>10, <1>11, <1>12, Zenon DEF Moves, f

\* What the refinement maps the files to, before and after.
LEMMA FilesMapped ==
  /\ \A f \in Files : [g \in Files |-> Contents(g, i_size[g])][f] = Contents(f, i_size[f])
  /\ [g \in Files |-> Contents(g, i_size[g])]' = [g \in Files |-> NewContents(g)]
BY DEF Contents, NewContents

\* A move that puts data at the position is a write of FileBytes.
LEMMA WriteImplements ==
  ASSUME RwInv, NEW d \in Descs, NEW data \in Seq(Nat), NEW m \in Nat, m = Len(data),
         Moves(d, m), given' = data,
         \A k \in 1 .. m : NewContents(FileOf[d])[fd_pos[d] + k] = data[k]
  PROVE  B!Write(d, data)
<1>. DEFINE f == FileOf[d]
            old == Contents(f, i_size[f])
            new == NewContents(f)
            content == [g \in Files |-> Contents(g, i_size[g])]
<1>1. f \in Files /\ fd_pos \in [Descs -> Nat]
  BY PlaceOfDesc DEF RwInv
<1>2. PICK pos \in Nat, end \in Nat : pos = fd_pos[d] /\ end = pos + m
  BY <1>1
<1>3. PICK S : old \in Seq(S) /\ new \in Seq(S)
  BY DEF Moves
<1>4. DiffersWithin(old, new, pos, end)
  BY <1>2, Zenon DEF Moves
<1>5. new = B!Overwrite(old, pos, SubSeq(new, pos + 1, end))
  <2>. HIDE DEF old, new
  <2>. QED BY <1>3, <1>4, OverwriteIs, Zenon
<1>6. SubSeq(new, pos + 1, end) = data
  <2>. HIDE DEF old, new
  <2>1. end <= Len(new)
    <3>1. Len(old) \in Nat
      BY <1>3, LenProperties
    <3>. QED BY <1>4, <3>1 DEF DiffersWithin
  <2>2. IsStretch(SubSeq(new, pos + 1, end), S, new, pos, m)
    BY <1>2, <1>3, <2>1, StretchOf, Zenon
  <2>3. \A k \in 1 .. m : new[pos + k] = data[k]
    BY <1>2, Zenon DEF new
  <2>. DEFINE part == SubSeq(new, pos + 1, end)
  <2>. HIDE DEF part
  <2>4. part \in Seq(S) /\ Len(part) = m /\ \A k \in 1 .. m : part[k] = new[pos + k]
    BY <2>2, Zenon DEF IsStretch, part
  <2>5. part \in [1 .. m -> S] /\ data \in [1 .. m -> Nat]
    BY <2>4, LenProperties
  <2>6. \A k \in 1 .. m : part[k] = data[k]
    BY <2>3, <2>4
  <2>7. part = data
    BY <2>5, <2>6
  <2>. QED BY <2>7, Zenon DEF part
<1>7. [g \in Files |-> NewContents(g)] = [content EXCEPT ![f] = B!Overwrite(@, pos, data)]
  <2>1. content[f] = old
    BY <1>1, FilesMapped, Zenon
  <2>2. \A g \in Files : NewContents(g) = IF g = f THEN B!Overwrite(content[f], pos, data)
                                          ELSE content[g]
    <3>1. NewContents(f) = B!Overwrite(content[f], pos, data)
      BY <1>5, <1>6, <2>1, Zenon
    <3>2. \A g \in Files \ {f} : NewContents(g) = content[g]
      BY FilesMapped, Zenon DEF Moves
    <3>. HIDE DEF content, f
    <3>. QED BY <3>1, <3>2
  <2>3. DOMAIN content = Files /\ content = [g \in Files |-> content[g]]
    OBVIOUS
  <2>. HIDE DEF content, f, old, new
  <2>. QED BY <2>2, <2>3
<1>8. fd_pos' = [fd_pos EXCEPT ![d] = @ + Len(data)]
  BY <1>1 DEF Moves
<1>. QED BY <1>2, <1>7, <1>8, FilesMapped, Zenon DEF B!Write

\* A move that changes nothing on the disk is a read of FileBytes.
LEMMA ReadImplements ==
  ASSUME RwInv, NEW d \in Descs, NEW m \in Nat, Moves(d, m), disk' = disk, given' = <<>>
  PROVE  B!Read(d)
<1>. DEFINE f == FileOf[d]
            old == Contents(f, i_size[f])
            new == NewContents(f)
            content == [g \in Files |-> Contents(g, i_size[g])]
            content2 == [g \in Files |-> NewContents(g)]
<1>1. f \in Files /\ fd_pos \in [Descs -> Nat]
  BY PlaceOfDesc DEF RwInv
<1>2. PICK pos \in Nat, end \in Nat : pos = fd_pos[d] /\ end = pos + m /\ end >= pos
  BY <1>1
<1>3. fd_pos'[d] = end /\ fd_pos' = [fd_pos EXCEPT ![d] = fd_pos'[d]]
  BY <1>1, <1>2 DEF Moves
<1>4. PICK S : old \in Seq(S) /\ new \in Seq(S)
  BY DEF Moves
<1>5. DiffersWithin(old, new, pos, end) /\ \A j \in 1 .. Len(old) : new[j] = old[j]
  BY <1>2, Zenon DEF Moves
<1>6. B!Reaches(old, new, end)
  <2>. HIDE DEF old, new
  <2>1. PICK n \in Nat : n = Len(old) /\ n <= Len(new)
    <3>1. Len(old) \in Nat
      BY <1>4, LenProperties
    <3>. QED BY <1>5, <3>1 DEF DiffersWithin
  <2>2. IsStretch(SubSeq(new, 1, n), S, new, 0, n)
    <3>1. 0 + 1 = 1 /\ n = 0 + n /\ 0 \in Nat
      OBVIOUS
    <3>2. IsStretch(SubSeq(new, 0 + 1, n), S, new, 0, n)
      BY <1>4, <2>1, <3>1, StretchOf, Zenon
    <3>. QED BY <3>1, <3>2, Zenon
  <2>. DEFINE part == SubSeq(new, 1, n)
  <2>. HIDE DEF part
  <2>3. part \in Seq(S) /\ Len(part) = n /\ \A k \in 1 .. n : part[k] = new[0 + k]
    BY <2>2, Zenon DEF IsStretch, part
  <2>4. Len(part) = Len(old) /\ \A k \in 1 .. Len(part) : part[k] = old[k]
    BY <1>5, <2>1, <2>3
  <2>5. part = old
    BY <1>4, <2>3, <2>4, SeqEqual, Zenon
  <2>6. Len(new) = IF Len(old) < end THEN end ELSE Len(old)
    BY <1>5, Zenon DEF DiffersWithin
  <2>. QED BY <2>1, <2>5, <2>6, Zenon DEF B!Reaches, part
<1>7. content[f] = old /\ content2[f] = new
  BY <1>1, FilesMapped, Zenon
<1>8. content2 = [content EXCEPT ![f] = content2[f]]
  <2>1. \A g \in Files : content2[g] = IF g = f THEN content2[f] ELSE content[g]
    <3>1. \A g \in Files \ {f} : content2[g] = content[g]
      BY FilesMapped, Zenon DEF Moves
    <3>. HIDE DEF content, content2, f
    <3>. QED BY <3>1
  <2>2. content = [g \in Files |-> content[g]] /\ content2 = [g \in Files |-> content2[g]]
    OBVIOUS
  <2>. HIDE DEF content, content2, f
  <2>. QED BY <2>1, <2>2
<1>. HIDE DEF content2
<1>9. content' = content2
  BY FilesMapped, Zenon DEF content2
<1>. QED BY <1>2, <1>3, <1>6, <1>7, <1>8, <1>9, Zenon DEF B!Read

\* Opening is opening in FileBytes.
LEMMA OpenImplements ==
  ASSUME RwInv, NEW d \in Descs, Open(d)
  PROVE  B!Next
<1>. DEFINE f == FileOf[d]
<1>1. f \in Files /\ i_size[f] \in Nat
  BY PlaceOfDesc
<1>2. /\ fd_pos' = [fd_pos EXCEPT ![d] = i_size[f]] /\ disk' = disk /\ i_size' = i_size
      /\ given' = <<>>
  BY DEF Open
<1>3. [g \in Files |-> Contents(g, i_size[g])]' = [g \in Files |-> Contents(g, i_size[g])]
  BY <1>2 DEF Contents
<1>4. Len([g \in Files |-> Contents(g, i_size[g])][f]) = i_size[f]
  <2>1. [g \in Files |-> Contents(g, i_size[g])][f] = Contents(f, i_size[f])
    BY <1>1
  <2>2. Len(Contents(f, i_size[f])) = i_size[f]
    BY <1>1 DEF Contents
  <2>. QED BY <2>1, <2>2
<1>5. B!Open(d)
  <2>1. fd_pos' = [fd_pos EXCEPT ![d] = Len([g \in Files |-> Contents(g, i_size[g])][f])]
    BY <1>2, <1>4, Zenon
  <2>. QED BY <2>1, <1>2, <1>3, Zenon DEF B!Open
<1>. QED BY <1>5, Zenon DEF B!Next

\* As long as processes take no descriptor beyond its file's room, a step is one of
\* FileBytes.
LEMMA StepImplements ==
  ASSUME RwInv, careful, [RwNext]_rwVars
  PROVE  B!Next \/ UNCHANGED B!vars
<1>1. CASE UNCHANGED rwVars
  BY <1>1 DEF rwVars, B!vars, Contents
<1>2. ASSUME NEW d \in Descs, Open(d) PROVE B!Next
  BY <1>2, OpenImplements
<1>3. ASSUME NEW d \in Descs, NEW len \in ReadLens, Read(d, len) PROVE B!Next
  <2>1. len \in Nat
    BY FsRwAssumption
  <2>2. ReadOf(d, len)
    BY <1>3, <2>1, ReadStep
  <2>3. PICK m \in 0 .. len : /\ Advance(d, m) /\ fd_pos[d] + m <= Capacity /\ disk' = disk
                              /\ given' = <<>>
    BY <2>2, Zenon DEF ReadOf
  <2>4. \A x \in Disk : disk'[x] # disk[x] =>
          x - (FileOf[d] * Capacity + fd_pos[d]) \in 0 .. m - 1
    BY <2>3, Zenon
  <2>5. m \in Nat
    BY <2>1
  <2>6. Moves(d, m)
    BY <2>3, <2>4, <2>5, MoveKeeps, Zenon
  <2>. QED BY <2>3, <2>5, <2>6, ReadImplements, Zenon DEF B!Next
<1>4. ASSUME NEW d \in Descs, NEW data \in Seq(Nat), Write(d, data) PROVE B!Next
  <2>. DEFINE f == FileOf[d]
  <2>1. WriteOf(d, data)
    BY <1>4, WriteStep
  <2>2. PICK m \in Nat :
          /\ \A x \in Disk :
               LET k == x - (f * Capacity + fd_pos[d]) IN
               disk'[x] = IF k \in 0 .. m - 1 THEN data[k + 1] ELSE disk[x]
          /\ m = Len(data) /\ fd_pos[d] + m <= Capacity
          /\ Advance(d, m) /\ given' = data
    <3>1. Len(data) \in Nat
      OBVIOUS
    <3>. QED BY <2>1, <3>1, Zenon DEF WriteOf
  <2>3. \A x \in Disk : disk'[x] # disk[x] => x - (f * Capacity + fd_pos[d]) \in 0 .. m - 1
    BY <2>2, Zenon
  <2>4. Moves(d, m)
    BY <2>2, <2>3, MoveKeeps, Zenon
  <2>5. PICK base \in Nat, pos \in Nat, cap \in Nat :
          /\ base = f * Capacity /\ pos = fd_pos[d] /\ cap = Capacity /\ pos + m <= cap
          /\ base .. base + cap - 1 \subseteq Disk
    <3>1. f \in Files /\ fd_pos[d] \in Nat
      BY PlaceOfDesc
    <3>2. /\ f * Capacity \in Nat /\ Capacity \in Nat
          /\ f * Capacity .. f * Capacity + Capacity - 1 \subseteq Disk
      BY <3>1, PlaceOfFile
    <3>. QED BY <2>2, <3>1, <3>2, Zenon
  <2>6. ASSUME NEW k \in 1 .. m PROVE NewContents(f)[pos + k] = data[k]
    <3>1. PICK n \in Nat : n = i_size'[f] /\ pos + m <= n
      <4>1. f \in Files /\ i_size[f] \in Nat
        BY PlaceOfDesc
      <4>2. i_size'[f] = IF i_size[f] < fd_pos[d] + m THEN fd_pos[d] + m ELSE i_size[f]
        BY <2>2, <4>1, AdvanceEffect
      <4>. QED BY <2>5, <4>1, <4>2
    <3>2. NewContents(f) = [j \in 1 .. n |-> disk'[base + j - 1]]
      BY <2>5, <3>1, Zenon DEF NewContents
    <3>3. PICK x \in base .. base + cap - 1 : x = base + (pos + k) - 1
      <4>1. pos + m <= cap
        BY <2>5, Zenon
      <4>. QED BY <4>1
    <3>4. pos + k \in 1 .. n
      BY <3>1
    <3>5. NewContents(f)[pos + k] = disk'[x]
      BY <3>2, <3>3, <3>4, Zenon
    <3>6. disk'[x] = IF x - (base + pos) \in 0 .. m - 1 THEN data[(x - (base + pos)) + 1]
                     ELSE disk[x]
      <4>1. x \in Disk
        BY <2>5, <3>3, Zenon
      <4>. QED BY <2>2, <2>5, <4>1, Zenon
    <3>7. x - (base + pos) \in 0 .. m - 1 /\ (x - (base + pos)) + 1 = k
      BY <3>3
    <3>. QED BY <3>5, <3>6, <3>7, Zenon
  <2>7. \A k \in 1 .. m : NewContents(f)[fd_pos[d] + k] = data[k]
    BY <2>5, <2>6, Zenon
  <2>8. B!Write(d, data)
    <3>. HIDE DEF f
    <3>1. \A k \in 1 .. m : NewContents(FileOf[d])[fd_pos[d] + k] = data[k]
      BY <2>7, Zenon DEF f
    <3>. QED BY <2>2, <2>4, <3>1, WriteImplements, Zenon
  <2>. QED BY <2>2, <2>8, Zenon DEF B!Next
<1>5. WriteData \subseteq Seq(Nat)
  BY FsRwAssumption, Zenon
<1>6. ASSUME NEW d \in Descs, NEW data \in IF careful THEN WriteData ELSE LongData,
             Write(d, data)
      PROVE  B!Next
  <2>1. data \in WriteData
    BY Zenon
  <2>. QED BY <2>1, <1>4, <1>5, <1>6, Zenon
<1>7. CASE RwNext
  BY <1>7, <1>2, <1>3, <1>6, Zenon DEF RwNext
<1>. QED BY <1>1, <1>7, Zenon

\* KeepsBytes for every size of sectors, chunks, files and requests: as long as no
\* descriptor goes beyond the room of its file, do_rdwt() implements FileBytes.
THEOREM FilesKeepBytes == RwSpec => KeepsBytes
<1>1. RwInit => (careful => B!Init)
  <2>1. RwInit => [f \in Files |-> Contents(f, i_size[f])] = [f \in Files |-> << >>]
    <3>1. RwInit => \A f \in Files : Contents(f, i_size[f]) = << >>
      BY DEF RwInit, Contents
    <3>. QED BY <3>1
  <2>. QED BY <2>1 DEF RwInit, B!Init
<1>2. RwInv /\ [RwNext]_rwVars => [careful => B!Next]_(B!vars)
  BY StepImplements
<1>. QED BY <1>1, <1>2, PositionsWithin, PTL DEF RwSpec, KeepsBytes
=============================================================================
