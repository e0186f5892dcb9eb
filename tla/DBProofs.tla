------------------------------ MODULE DBProofs -------------------------------
(* The record library, for any tables that lie apart: what an interrupted   *)
(* call leaves, and that every step is a step of the abstract tables.       *)
EXTENDS DB, SequenceTheorems, WellFoundedInduction, TLAPS

-----------------------------------------------------------------------------
(* Where records are                                                       *)

Slot(p, s, i) == p + DB_HEAD_SIZE + (i - 1) * s
End(p, s)     == p + DB_HEAD_SIZE + MaxRecs * s

LEMMA Monotone ==
  ASSUME NEW i \in Int, NEW j \in Int, i <= j, NEW s \in Nat
  PROVE  i * s \in Int /\ j * s \in Int /\ i * s <= j * s
  OBVIOUS

LEMMA SlotOrder ==
  ASSUME NEW p \in HeadPtrs, NEW s \in RecSizes, NEW i \in Int, NEW j \in Int, i < j
  PROVE  Slot(p, s, i) \in Int /\ Slot(p, s, j) \in Int /\ Slot(p, s, i) + s <= Slot(p, s, j)
<1>1. p \in Nat /\ s \in Nat
  BY ByteAssumption, TablesFit
<1>2. i * s <= (j - 1) * s /\ i * s = (i - 1) * s + s
  BY <1>1, Monotone
<1>3. i * s \in Int /\ (j - 1) * s \in Int /\ (i - 1) * s \in Int
  BY <1>1
<1> QED BY <1>1, <1>2, <1>3 DEF Slot, DB_HEAD_SIZE

LEMMA Naturals ==
  /\ HeadPtrs \subseteq Nat /\ RecSizes \subseteq Nat \ {0} /\ MaxRecs \in Nat
  /\ EEPROMSize \in Nat /\ ByteMod \in Nat /\ Addrs \subseteq Nat /\ Bytes \subseteq Nat
  BY ByteAssumption, TablesFit DEF Addrs, Bytes

LEMMA AddrMod == \A a \in Addrs : a % EEPROMSize = a
<1>1. EEPROMSize \in Nat /\ Addrs = 0..(EEPROMSize - 1)
  BY ByteAssumption DEF Addrs
<1>2. \A a \in 0..(EEPROMSize - 1) : a % EEPROMSize = a
  BY <1>1
<1> QED BY <1>1, <1>2

LEMMA SlotInt ==
  ASSUME NEW p \in HeadPtrs, NEW s \in RecSizes, NEW i \in Int
  PROVE  Slot(p, s, i) \in Int
<1>1. p \in Int /\ s \in Int /\ (i - 1) * s \in Int
  BY Naturals
<1> QED BY <1>1 DEF Slot, DB_HEAD_SIZE

LEMMA SlotEnds ==
  ASSUME NEW p \in HeadPtrs, NEW s \in RecSizes
  PROVE  /\ Slot(p, s, 1) = p + DB_HEAD_SIZE /\ Slot(p, s, MaxRecs + 1) = End(p, s)
         /\ End(p, s) \in Int /\ End(p, s) <= EEPROMSize
<1>1. p \in Nat /\ s \in Nat /\ MaxRecs \in Nat /\ MaxRecs * s \in Nat /\ 0 * s = 0
  BY ByteAssumption, TablesFit
<1>2. p + 4 + MaxRecs * s <= EEPROMSize
  BY TablesFit
<1> QED BY <1>1, <1>2 DEF Slot, End, DB_HEAD_SIZE

\* A byte of a record is behind the head and in the space of its table.
LEMMA Within ==
  ASSUME NEW p \in HeadPtrs, NEW s \in RecSizes, NEW i \in 1..MaxRecs, NEW b \in 1..s
  PROVE  /\ Slot(p, s, i) + b - 1 \in Int
         /\ p + DB_HEAD_SIZE <= Slot(p, s, i) + b - 1
         /\ Slot(p, s, i) <= Slot(p, s, i) + b - 1
         /\ Slot(p, s, i) + b - 1 < Slot(p, s, i + 1)
         /\ Slot(p, s, i) + b - 1 < End(p, s)
         /\ Slot(p, s, i) + b - 1 \in Addrs
         /\ (Slot(p, s, i) + b - 1) % EEPROMSize = Slot(p, s, i) + b - 1
<1>1. p \in Nat /\ s \in Nat /\ i \in Int /\ MaxRecs \in Nat /\ EEPROMSize \in Nat /\ b \in 1..s
  BY ByteAssumption, TablesFit
<1>2. Slot(p, s, i) \in Int /\ Slot(p, s, i + 1) \in Int /\ Slot(p, s, MaxRecs + 1) \in Int
      /\ Slot(p, s, i) + s <= Slot(p, s, i + 1)
      /\ Slot(p, s, i) + s <= Slot(p, s, MaxRecs + 1)
  BY <1>1, SlotOrder
<1>3. Slot(p, s, 1) <= Slot(p, s, i)
  <2>1. CASE i = 1
    BY <1>2, <2>1
  <2>2. CASE i # 1
    <3>1. 1 < i /\ 1 \in Int
      BY <1>1, <2>2
    <3>2. Slot(p, s, 1) \in Int /\ Slot(p, s, 1) + s <= Slot(p, s, i)
      BY <1>1, <3>1, SlotOrder
    <3> QED BY <1>1, <1>2, <3>2
  <2> QED BY <2>1, <2>2
<1>4. Slot(p, s, 1) = p + 4 /\ Slot(p, s, MaxRecs + 1) = End(p, s)
      /\ End(p, s) \in Int /\ End(p, s) <= EEPROMSize
  BY SlotEnds DEF DB_HEAD_SIZE
<1>5. Slot(p, s, i) + b - 1 \in 0..(EEPROMSize - 1)
  BY <1>1, <1>2, <1>3, <1>4
<1>6. (Slot(p, s, i) + b - 1) % EEPROMSize = Slot(p, s, i) + b - 1
  BY <1>1, <1>5
<1> QED BY <1>1, <1>2, <1>3, <1>4, <1>5, <1>6 DEF Addrs, DB_HEAD_SIZE

LEMMA HeadIsThere ==
  ASSUME NEW p \in HeadPtrs
  PROVE  p \in Addrs /\ p + 1 \in Addrs
<1>1. PICK s \in RecSizes : p + 4 + MaxRecs * s <= EEPROMSize
  BY ByteAssumption, TablesFit
<1>2. p \in Nat /\ MaxRecs * s \in Nat /\ EEPROMSize \in Nat
  BY ByteAssumption, TablesFit
<1> QED BY <1>1, <1>2 DEF Addrs

-----------------------------------------------------------------------------
(* What a write changes                                                    *)

Memory == [Addrs -> Bytes]

\* The head at p tells of no table, or of one that keeps to its space.
Sound(mem, p) == mem[p + 1] = Erased \/ (mem[p + 1] \in RecSizes /\ mem[p] <= MaxRecs)

\* The heads of all tables, and a memory outside of A.
AllSound(mem) == \A q \in HeadPtrs : Sound(mem, q)

SameBut(mem, new, A) == \A x \in Addrs \ A : new[x] = mem[x]

LEMMA TableLen ==
  ASSUME NEW mem \in Memory, NEW p \in HeadPtrs
  PROVE  /\ mem[p + 1] = Erased => Table(mem, p) = <<>> /\ Len(Table(mem, p)) = 0
         /\ mem[p + 1] # Erased =>
              /\ Len(Table(mem, p)) = mem[p]
              /\ \A i \in 1..mem[p] : Table(mem, p)[i] =
                   [b \in 1..mem[p + 1] |->
                      mem[(Slot(p, mem[p + 1], i) + b - 1) % EEPROMSize]]
<1>1. CASE mem[p + 1] = Erased
  BY <1>1 DEF Table
<1>2. CASE mem[p + 1] # Erased
  <2>1. mem[p] \in Nat
    BY HeadIsThere, ByteAssumption DEF Memory, Bytes
  <2>2. Table(mem, p) =
          [i \in 1..mem[p] |->
             [b \in 1..mem[p + 1] |-> mem[(Slot(p, mem[p + 1], i) + b - 1) % EEPROMSize]]]
    BY <1>2 DEF Table, Slot
  <2> QED BY <1>2, <2>1, <2>2
<1> QED BY <1>1, <1>2

\* The table at p is the same in front of record n: byte by byte, and as it is read.
SameBytes(mem, new, p, n) ==
  /\ new[p] = mem[p] /\ new[p + 1] = mem[p + 1]
  /\ mem[p + 1] # Erased =>
       \A a \in Addrs : p + DB_HEAD_SIZE <= a /\ a < Slot(p, mem[p + 1], n) => new[a] = mem[a]

SameRecords(mem, new, p, n) ==
  /\ Len(Table(new, p)) = Len(Table(mem, p))
  /\ \A i \in 1..Len(Table(new, p)) : i < n => Table(new, p)[i] = Table(mem, p)[i]

LEMMA Unwritten ==
  ASSUME NEW mem \in Memory, NEW new \in Memory, NEW p \in HeadPtrs, NEW n \in Int,
         Sound(mem, p), SameBytes(mem, new, p, n)
  PROVE  SameRecords(mem, new, p, n)
<1>0. /\ new[p] = mem[p] /\ new[p + 1] = mem[p + 1]
      /\ mem[p + 1] # Erased =>
           \A a \in Addrs :
             p + DB_HEAD_SIZE <= a /\ a < Slot(p, mem[p + 1], n) => new[a] = mem[a]
  BY DEF SameBytes
<1>1. CASE mem[p + 1] = Erased
  BY <1>0, <1>1, TableLen DEF SameRecords
<1>2. CASE mem[p + 1] # Erased
  <2> DEFINE s == mem[p + 1]
  <2>1. s \in RecSizes /\ mem[p] <= MaxRecs /\ mem[p] \in Nat /\ MaxRecs \in Nat
    BY <1>2, HeadIsThere, ByteAssumption DEF Sound, Memory, Bytes
  <2>2. Len(Table(mem, p)) = mem[p] /\ Len(Table(new, p)) = mem[p]
    BY <1>0, <1>2, TableLen
  <2>3. ASSUME NEW i \in 1..mem[p], i < n
        PROVE  Table(new, p)[i] = Table(mem, p)[i]
    <3>1. i \in 1..MaxRecs /\ i \in Int
      BY <2>1
    <3>2. Slot(p, s, i) \in Int /\ Slot(p, s, n) \in Int /\ Slot(p, s, i) + s <= Slot(p, s, n)
      BY <2>1, <2>3, <3>1, SlotOrder
    <3>3. ASSUME NEW b \in 1..s
          PROVE  new[(Slot(p, s, i) + b - 1) % EEPROMSize]
                   = mem[(Slot(p, s, i) + b - 1) % EEPROMSize]
      <4>1. s \in Nat /\ p \in Nat
        BY <2>1, Naturals
      <4>2. p + DB_HEAD_SIZE <= Slot(p, s, i) + b - 1 /\ Slot(p, s, i) + b - 1 \in Addrs
            /\ (Slot(p, s, i) + b - 1) % EEPROMSize = Slot(p, s, i) + b - 1
        BY <2>1, <3>1, Within
      <4>3. Slot(p, s, i) + b - 1 < Slot(p, s, n)
        BY <3>2, <4>1
      <4>4. new[Slot(p, s, i) + b - 1] = mem[Slot(p, s, i) + b - 1]
        BY <1>0, <1>2, <4>2, <4>3
      <4> QED BY <4>2, <4>4
    <3>4. Table(mem, p)[i] = [b \in 1..s |-> mem[(Slot(p, s, i) + b - 1) % EEPROMSize]]
          /\ Table(new, p)[i] = [b \in 1..s |-> new[(Slot(p, s, i) + b - 1) % EEPROMSize]]
      BY <1>0, <1>2, TableLen
    <3> QED BY <3>3, <3>4
  <2> QED BY <2>2, <2>3 DEF SameRecords
<1> QED BY <1>1, <1>2

\* What a call about record r of the table at h writes into records.
Cells(h, s, r) == {c \in Addrs \X Bytes : Slot(h, s, r) <= c[1] /\ c[1] < End(h, s)}

\* What such a write leaves alone.
RecordsKept(mem, new, h, r) ==
  /\ \A q \in HeadPtrs : new[q] = mem[q] /\ new[q + 1] = mem[q + 1]
  /\ \A q \in HeadPtrs :
       /\ Len(Table(new, q)) = Len(Table(mem, q))
       /\ \A i \in 1..Len(Table(new, q)) :
            q # h \/ i < r => Table(new, q)[i] = Table(mem, q)[i]

LEMMA RecordByte ==
  ASSUME NEW mem \in Memory, AllSound(mem),
         NEW h \in HeadPtrs, NEW s \in RecSizes, mem[h + 1] = s, NEW r \in Nat \ {0},
         NEW c \in Cells(h, s, r), NEW new, new = [mem EXCEPT ![c[1]] = c[2]]
  PROVE  RecordsKept(mem, new, h, r)
<1>0. \A q \in HeadPtrs : Sound(mem, q)
  BY DEF AllSound
<1> DEFINE a == c[1]
<1>1. a \in Addrs /\ c[2] \in Bytes /\ Slot(h, s, r) <= a /\ a < End(h, s)
  BY DEF Cells
<1>2. new \in Memory /\ \A x \in Addrs : x # a => new[x] = mem[x]
  BY <1>1 DEF Memory
<1>3. a \in Int /\ h \in Nat /\ s \in Nat /\ MaxRecs * s \in Nat /\ End(h,
        s) = h + 4 + MaxRecs * s
  BY <1>1, ByteAssumption, TablesFit DEF Addrs, End, DB_HEAD_SIZE
<1>4. h + 4 <= a
  <2>1. Slot(h, s, 1) = h + 4
    BY SlotEnds DEF DB_HEAD_SIZE
  <2>2. CASE r = 1
    BY <1>1, <2>1, <2>2
  <2>3. CASE r # 1
    <3>1. 1 < r /\ 1 \in Int /\ r \in Int
      BY <2>3
    <3>2. Slot(h, s, r) \in Int /\ Slot(h, s, 1) + s <= Slot(h, s, r)
      BY <3>1, SlotOrder
    <3> QED BY <1>1, <1>3, <2>1, <3>2
  <2> QED BY <2>2, <2>3
<1> HIDE DEF a
<1>5. ASSUME NEW q \in HeadPtrs
      PROVE  /\ new[q] = mem[q] /\ new[q + 1] = mem[q + 1]
             /\ Len(Table(new, q)) = Len(Table(mem, q))
             /\ \A i \in 1..Len(Table(new, q)) :
                  q # h \/ i < r => Table(new, q)[i] = Table(mem, q)[i]
  <2>1. q \in Addrs /\ q + 1 \in Addrs /\ q \in Nat
    BY HeadIsThere, TablesFit
  <2>2. q # h => End(q, s) <= h \/ End(h, s) <= q
    BY <1>3, <2>1, TablesApart DEF End, DB_HEAD_SIZE
  <2>3. End(q, s) = q + 4 + MaxRecs * s
    BY DEF End, DB_HEAD_SIZE
  <2>4. a # q /\ a # q + 1
    BY <1>1, <1>3, <1>4, <2>1, <2>2, <2>3
  <2>5. new[q] = mem[q] /\ new[q + 1] = mem[q + 1]
    BY <1>2, <2>1, <2>4
  <2>6. CASE q = h
    <3>1. \A x \in Addrs : q + DB_HEAD_SIZE <= x /\ x < Slot(q, mem[q + 1], r) => new[x] = mem[x]
      <4>1. ASSUME NEW x \in Addrs, x < Slot(h, s, r)
            PROVE  x # a
        <5>1. Slot(h, s, r) \in Int /\ x \in Int
          BY SlotInt, Naturals
        <5> QED BY <1>1, <1>3, <4>1, <5>1
      <4> QED BY <1>2, <2>6, <4>1
    <3>2. SameBytes(mem, new, q, r)
      BY <2>5, <3>1 DEF SameBytes
    <3>3. r \in Int
      OBVIOUS
    <3>4. SameRecords(mem, new, q, r)
      BY <1>0, <1>2, <3>2, <3>3, Unwritten, Zenon
    <3> QED BY <2>5, <2>6, <3>4 DEF SameRecords
  <2>7. CASE q # h
    <3> DEFINE n == MaxRecs + 1
               z == mem[q + 1]
    <3>1. n \in Int /\ MaxRecs \in Nat
      BY ByteAssumption
    <3>2. ASSUME z # Erased, NEW x \in Addrs, q + DB_HEAD_SIZE <= x, x < Slot(q, z, n)
          PROVE  new[x] = mem[x]
      <4>1. z \in RecSizes /\ MaxRecs * z \in Nat /\ x \in Int
        <5>1. z \in RecSizes /\ Sound(mem, q)
          BY <1>0, <3>2 DEF Sound
        <5>2. z \in Nat
          BY <5>1, Naturals
        <5> QED BY <3>1, <5>1, <5>2, Naturals
      <4>2. Slot(q, z, n) = q + 4 + MaxRecs * z
        BY <4>1, SlotEnds DEF End, DB_HEAD_SIZE
      <4>3. q < h => q + 4 + MaxRecs * z <= h
        BY <4>1, TablesApart
      <4>4. x # a
        BY <1>1, <1>3, <1>4, <2>1, <2>2, <2>3, <2>7, <3>2, <4>1, <4>2, <4>3 DEF DB_HEAD_SIZE
      <4> QED BY <1>2, <4>4
    <3>3. \A i \in 1..Len(Table(new, q)) : i < n
      <4>1. z # Erased => z \in RecSizes /\ mem[q] <= MaxRecs /\ mem[q] \in Nat
        BY <1>0, <2>1, ByteAssumption DEF Sound, Memory, Bytes
      <4>2. CASE z = Erased
        <5>1. new[q + 1] = Erased
          BY <2>5, <4>2
        <5>2. Len(Table(new, q)) = 0
          BY <1>2, <5>1, TableLen
        <5> QED BY <5>2
      <4>3. CASE z # Erased
        <5>1. Len(Table(new, q)) = mem[q]
          BY <1>2, <2>5, <4>3, TableLen
        <5> QED BY <3>1, <4>1, <4>3, <5>1
      <4> QED BY <4>2, <4>3
    <3>4. SameBytes(mem, new, q, n)
      BY <2>5, <3>2 DEF SameBytes
    <3>5. SameRecords(mem, new, q, n)
      BY <1>0, <1>2, <3>1, <3>4, Unwritten, Zenon
    <3> QED BY <2>5, <3>3, <3>5 DEF SameRecords
  <2> QED BY <2>6, <2>7
<1> QED BY <1>5 DEF RecordsKept

-----------------------------------------------------------------------------
(* What a call has to write                                                *)

LEMMA ListIs ==
  ASSUME NEW S, NEW m \in Nat, NEW f \in [1..m -> S]
  PROVE  f \in Seq(S) /\ Len(f) = m /\ \A k \in 1..m : f[k] \in S
<1>1. f \in Seq(S)
  BY SeqDef
<1> QED BY <1>1, LenProperties

LEMMA CellIs ==
  ASSUME NEW h \in HeadPtrs, NEW s \in RecSizes, NEW r \in 1..MaxRecs, NEW i \in r..MaxRecs,
         NEW b \in 1..s, NEW x \in Bytes
  PROVE  <<Slot(h, s, i) + b - 1, x>> \in Cells(h, s, r)
<1>1. i \in 1..MaxRecs /\ r \in Int /\ i \in Int /\ s \in Nat
  BY Naturals
<1>2. Slot(h, s, i) + b - 1 \in Addrs /\ Slot(h, s, i) <= Slot(h, s, i) + b - 1
      /\ Slot(h, s, i) + b - 1 < End(h, s)
  BY <1>1, Within
<1>3. Slot(h, s, r) <= Slot(h, s, i)
  <2>1. Slot(h, s, r) \in Int /\ Slot(h, s, i) \in Int
    BY <1>1, SlotInt
  <2>2. CASE r < i
    <3>1. Slot(h, s, r) + s <= Slot(h, s, i)
      BY <1>1, <2>2, SlotOrder
    <3> QED BY <1>1, <2>1, <3>1
  <2>3. CASE ~(r < i)
    BY <1>1, <2>1, <2>3
  <2> QED BY <2>2, <2>3
<1>4. Slot(h, s, r) \in Int /\ Slot(h, s, i) \in Int
  BY <1>1, SlotInt
<1>5. Slot(h, s, r) <= Slot(h, s, i) + b - 1
  BY <1>1, <1>2, <1>3, <1>4
<1> QED BY <1>2, <1>5 DEF Cells

\* An open table between two calls.
Ready ==
  /\ eeprom \in Memory /\ head_ptr \in HeadPtrs /\ rec_size \in RecSizes
  /\ tbl_ptr = head_ptr + DB_HEAD_SIZE /\ n_recs \in 0..MaxRecs

LEMMA SlotOfTable ==
  ASSUME Ready, NEW i \in Int
  PROVE  RecAddr(i) = Slot(head_ptr, rec_size, i)
  BY DEF Ready, RecAddr, Slot

LEMMA AnyByte ==
  ASSUME Ready, NEW i \in Int
  PROVE  eeprom[i % EEPROMSize] \in Bytes
<1>1. i % EEPROMSize \in Addrs
  BY ByteAssumption DEF Addrs
<1> QED BY <1>1 DEF Ready, Memory

LEMMA RecBytesIn ==
  ASSUME Ready, NEW recno \in 1..MaxRecs, NEW v \in Bytes
  PROVE  RecBytes(recno, v) \in Seq(Cells(head_ptr, rec_size, recno))
<1>1. \A b \in 1..rec_size :
        <<RecAddr(recno) + b - 1, v>> \in Cells(head_ptr, rec_size, recno)
  BY CellIs, SlotOfTable DEF Ready
<1>2. rec_size \in Nat
  BY Naturals DEF Ready
<1>3. RecBytes(recno, v) \in [1..rec_size -> Cells(head_ptr, rec_size, recno)]
  BY <1>1 DEF RecBytes
<1> QED BY <1>2, <1>3, ListIs

LEMMA DivMod ==
  ASSUME NEW x \in Nat, NEW s \in Nat \ {0}
  PROVE  /\ x \div s \in Nat /\ x % s \in 0..(s - 1)
         /\ x = (x \div s) * s + (x % s)
<1>1. x % s \in 0..(s - 1)
  OBVIOUS
<1>2. x \div s \in Nat
  OBVIOUS
<1>3. x = (x \div s) * s + (x % s)
  OBVIOUS
<1> QED BY <1>1, <1>2, <1>3

\* The k-th byte of records lies in one of them.
LEMMA BytePlace ==
  ASSUME NEW s \in Nat \ {0}, NEW m \in Nat, NEW k \in 1..(m * s)
  PROVE  /\ (k - 1) \div s \in 0..(m - 1) /\ (k - 1) % s \in 0..(s - 1)
         /\ k - 1 = ((k - 1) \div s) * s + ((k - 1) % s)
<1>1. m * s \in Nat
  OBVIOUS
<1>2. k - 1 \in Nat
  BY <1>1
<1>3. (k - 1) \div s \in Nat /\ (k - 1) % s \in 0..(s - 1)
      /\ k - 1 = ((k - 1) \div s) * s + ((k - 1) % s)
  BY <1>2, DivMod
<1>4. (k - 1) \div s < m
  <2>1. CASE m <= (k - 1) \div s
    <3>1. m * s <= ((k - 1) \div s) * s
      BY <1>3, <2>1, Monotone
    <3> QED BY <1>1, <1>2, <1>3, <3>1
  <2> QED BY <1>3, <2>1
<1> QED BY <1>3, <1>4

LEMMA ShiftDownIn ==
  ASSUME Ready, NEW recno \in 1..n_recs
  PROVE  ShiftDown(recno) \in Seq(Cells(head_ptr, rec_size, recno))
<1> DEFINE first == recno + 1
           m == IF n_recs < first THEN 0 ELSE n_recs - first + 1
           C == Cells(head_ptr, rec_size, recno)
<1>1. n_recs \in Nat /\ recno \in Nat /\ recno # 0 /\ rec_size \in Nat \ {0} /\ head_ptr \in Nat
      /\ MaxRecs \in Nat /\ n_recs <= MaxRecs
  BY Naturals DEF Ready
<1>2. m \in Nat /\ m <= n_recs - recno /\ m * rec_size \in Nat
  BY <1>1
<1>3. ASSUME NEW k \in 1..(m * rec_size)
      PROVE  <<RecAddr(first - 1) + k - 1, eeprom[(RecAddr(first) + k - 1) % EEPROMSize]>> \in C
  <2> DEFINE j == (k - 1) \div rec_size
             b == (k - 1) % rec_size
  <2>1. j \in 0..(m - 1) /\ b \in 0..(rec_size - 1) /\ k - 1 = j * rec_size + b
    BY <1>1, <1>2, BytePlace
  <2>2. recno + j \in recno..MaxRecs /\ b + 1 \in 1..rec_size /\ recno \in 1..MaxRecs
    BY <1>1, <1>2, <2>1
  <2>3. RecAddr(first - 1) + k - 1 = Slot(head_ptr, rec_size, recno + j) + (b + 1) - 1
    <3>1. RecAddr(first - 1) = Slot(head_ptr, rec_size, recno)
      BY <1>1, SlotOfTable
    <3>2. (recno + j - 1) * rec_size = (recno - 1) * rec_size + j * rec_size
      BY <1>1, <2>1
    <3>3. (recno - 1) * rec_size \in Int /\ j * rec_size \in Int
      BY <1>1, <2>1
    <3> HIDE DEF j, b
    <3> QED BY <1>1, <2>1, <3>1, <3>2, <3>3 DEF Slot, DB_HEAD_SIZE
  <2>4. eeprom[(RecAddr(first) + k - 1) % EEPROMSize] \in Bytes
    <3>1. RecAddr(first) + k - 1 \in Int
      <4>1. RecAddr(first) = Slot(head_ptr, rec_size, first) /\ first \in Int
        BY <1>1, SlotOfTable
      <4>2. Slot(head_ptr, rec_size, first) \in Int
        BY <4>1, SlotInt DEF Ready
      <4>3. k \in Int
        BY <1>2
      <4> QED BY <4>1, <4>2, <4>3
    <3> QED BY <3>1, AnyByte
  <2> HIDE DEF j, b
  <2>5. <<Slot(head_ptr, rec_size, recno + j) + (b + 1) - 1,
          eeprom[(RecAddr(first) + k - 1) % EEPROMSize]>> \in C
    BY <2>2, <2>4, CellIs DEF Ready
  <2> QED BY <2>3, <2>5
<1>4. ShiftDown(recno) = [k \in 1..(m * rec_size) |->
        <<RecAddr(first - 1) + k - 1, eeprom[(RecAddr(first) + k - 1) % EEPROMSize]>>]
  BY <1>1 DEF ShiftDown
<1> HIDE DEF first, m, C
<1>5. ShiftDown(recno) \in [1..(m * rec_size) -> C]
  BY <1>3, <1>4
<1> QED BY <1>2, <1>5, ListIs DEF C

LEMMA ShiftUpIn ==
  ASSUME Ready, n_recs < MaxRecs, NEW recno \in 1..n_recs
  PROVE  ShiftUp(recno) \in Seq(Cells(head_ptr, rec_size, recno))
<1> DEFINE m == IF n_recs < recno THEN 0 ELSE n_recs - recno + 1
           C == Cells(head_ptr, rec_size, recno)
           i(k) == n_recs - ((k - 1) \div rec_size)
           b(k) == (k - 1) % rec_size
<1>1. n_recs \in Nat /\ recno \in Nat /\ recno # 0 /\ rec_size \in Nat \ {0} /\ head_ptr \in Nat
      /\ MaxRecs \in Nat /\ n_recs < MaxRecs
  BY Naturals DEF Ready
<1>2. m \in Nat /\ m = n_recs - recno + 1 /\ m * rec_size \in Nat
  BY <1>1
<1>3. ASSUME NEW k \in 1..(m * rec_size)
      PROVE  <<RecAddr(i(k) + 1) + b(k), eeprom[(RecAddr(i(k)) + b(k)) % EEPROMSize]>> \in C
  <2>1. (k - 1) \div rec_size \in 0..(m - 1) /\ b(k) \in 0..(rec_size - 1)
    BY <1>1, <1>2, BytePlace
  <2>2. i(k) + 1 \in recno..MaxRecs /\ b(k) + 1 \in 1..rec_size /\ recno \in 1..MaxRecs
        /\ i(k) \in Int /\ b(k) \in Int /\ i(k) + 1 \in Int
    BY <1>1, <1>2, <2>1
  <2> HIDE DEF i, b
  <2>3. RecAddr(i(k) + 1) = Slot(head_ptr, rec_size, i(k) + 1)
        /\ RecAddr(i(k)) = Slot(head_ptr, rec_size, i(k))
    BY <2>2, SlotOfTable
  <2>4. Slot(head_ptr, rec_size, i(k)) \in Int /\ Slot(head_ptr, rec_size, i(k) + 1) \in Int
    BY <2>2, SlotInt DEF Ready
  <2>5. eeprom[(RecAddr(i(k)) + b(k)) % EEPROMSize] \in Bytes
    BY <2>2, <2>3, <2>4, AnyByte
  <2>6. RecAddr(i(k) + 1) + b(k) = Slot(head_ptr, rec_size, i(k) + 1) + (b(k) + 1) - 1
    BY <2>2, <2>3, <2>4
  <2>7. <<Slot(head_ptr, rec_size, i(k) + 1) + (b(k) + 1) - 1,
          eeprom[(RecAddr(i(k)) + b(k)) % EEPROMSize]>> \in C
    BY <2>2, <2>5, CellIs DEF Ready
  <2> QED BY <2>6, <2>7
<1>4. ShiftUp(recno) = [k \in 1..(m * rec_size) |->
        <<RecAddr(i(k) + 1) + b(k), eeprom[(RecAddr(i(k)) + b(k)) % EEPROMSize]>>]
  BY <1>1 DEF ShiftUp
<1> HIDE DEF m, C, i, b
<1>5. ShiftUp(recno) \in [1..(m * rec_size) -> C]
  BY <1>3, <1>4
<1> QED BY <1>2, <1>5, ListIs DEF C

-----------------------------------------------------------------------------
(* The invariant                                                           *)

Ops == {"write", "delete", "insert", "append"}

\* A call first writes bytes of records, none in front of the one it names, and the
\* count behind them, if at all.
Ordered ==
  \/ /\ eeprom[head_ptr] = n_recs
     /\ \A k \in 1..Len(todo) : todo[k] \in Cells(head_ptr, rec_size, call.recno)
  \/ /\ todo[Len(todo)] = <<head_ptr, n_recs>>
     /\ \A k \in 1..(Len(todo) - 1) : todo[k] \in Cells(head_ptr, rec_size, call.recno)

\* What InterruptedKeeps says of the memory.
Keeps(mem) ==
  \A p \in HeadPtrs :
    /\ Len(Table(mem, p)) = Len(before[p])
    /\ \A i \in 1..Len(Table(mem, p)) :
         p # head_ptr \/ i < call.recno => Table(mem, p)[i] = before[p][i]

RunInv ==
  /\ call.op \in Ops /\ call.recno \in Nat \ {0}
  /\ head_ptr \in HeadPtrs /\ rec_size \in RecSizes /\ n_recs \in 0..MaxRecs
  /\ eeprom[head_ptr + 1] = rec_size
  /\ Ordered /\ Keeps(eeprom)

CreateInv ==
  /\ call.op = "create" /\ head_ptr \in HeadPtrs /\ n_recs = 0 /\ rec_size \in RecSizes
  /\ \/ todo = <<<<head_ptr, 0>>, <<head_ptr + 1, rec_size>>>>
     \/ todo = <<<<head_ptr + 1, rec_size>>>> /\ eeprom[head_ptr] = 0

\* Between calls RAM tells what is in the head.
RestInv ==
  rec_size # 0 => /\ head_ptr \in HeadPtrs /\ rec_size \in RecSizes
                  /\ eeprom[head_ptr] = n_recs /\ eeprom[head_ptr + 1] = rec_size

DBInv ==
  /\ eeprom \in Memory /\ AllSound(eeprom)
  /\ todo \in Seq(Addrs \X Bytes)
  /\ Idle => RestInv
  /\ ~Idle => CreateInv \/ RunInv

LEMMA InvInit == Init => DBInv
<1> SUFFICES ASSUME Init PROVE DBInv
  OBVIOUS
<1>1. Erased \in Bytes
  BY ByteAssumption DEF Erased, Bytes
<1>2. eeprom \in Memory
  BY <1>1 DEF Init, Memory
<1>3. \A p \in HeadPtrs : eeprom[p + 1] = Erased
  BY HeadIsThere DEF Init
<1>4. todo = <<>> /\ rec_size = 0
  BY DEF Init
<1>5. todo \in Seq(Addrs \X Bytes)
  BY <1>4
<1> QED BY <1>2, <1>3, <1>4, <1>5 DEF DBInv, AllSound, Sound, RestInv, Idle

LEMMA InvKeeps == DBInv => InterruptedKeeps
<1> SUFFICES ASSUME DBInv, ~Idle, call.op \in Ops PROVE Keeps(eeprom)
  BY DEF InterruptedKeeps, Keeps, Ops
<1>1. ~CreateInv
  BY DEF CreateInv, Ops
<1> QED BY <1>1 DEF DBInv, RunInv

LEMMA OpenReady ==
  ASSUME DBInv, Idle, Opened
  PROVE  Ready /\ RestInv /\ rec_size # 0
<1>1. rec_size # 0 /\ RestInv /\ eeprom \in Memory
  BY DEF DBInv, Opened
<1>2. head_ptr \in HeadPtrs /\ rec_size \in RecSizes /\ eeprom[head_ptr] = n_recs
      /\ eeprom[head_ptr + 1] = rec_size /\ tbl_ptr = head_ptr + DB_HEAD_SIZE
  BY <1>1 DEF RestInv, Opened
<1>3. rec_size # Erased
  BY <1>2, ByteAssumption DEF Erased
<1>4. n_recs <= MaxRecs /\ n_recs \in Nat
  <2>1. Sound(eeprom, head_ptr)
    BY <1>2 DEF DBInv, AllSound
  <2>2. n_recs \in Bytes
    BY <1>1, <1>2, HeadIsThere DEF Memory
  <2> QED BY <1>2, <1>3, <2>1, <2>2, Naturals DEF Sound
<1> QED BY <1>1, <1>2, <1>4, Naturals DEF Ready

LEMMA CellsAreBytes ==
  ASSUME NEW h, NEW s, NEW r
  PROVE  Cells(h, s, r) \subseteq Addrs \X Bytes
  BY DEF Cells

\* A call that is not refused begins.
LEMMA StartRun ==
  ASSUME DBInv, Idle, Ready, RestInv, rec_size # 0,
         NEW r \in Nat \ {0}, NEW op \in Ops, call' = [op |-> op, recno |-> r],
         before' = Tables(eeprom), eeprom' = eeprom, head_ptr' = head_ptr, rec_size' = rec_size,
         n_recs' \in 0..MaxRecs,
         NEW list \in Seq(Cells(head_ptr, rec_size, r)),
         \/ todo' = list /\ n_recs' = n_recs
         \/ todo' = list \o <<<<head_ptr, n_recs'>>>>
  PROVE  DBInv'
<1> DEFINE W == Addrs \X Bytes
           C == Cells(head_ptr, rec_size, r)
<1>1. call'.op = op /\ call'.recno = r
  OBVIOUS
<1>2. /\ list \in Seq(W) /\ Len(list) \in Nat /\ \A k \in 1..Len(list) : list[k] \in C
  <2>1. Len(list) \in Nat /\ list \in [1..Len(list) -> C]
    BY LenProperties
  <2>2. list \in [1..Len(list) -> W]
    BY <2>1, CellsAreBytes
  <2>3. list \in Seq(W)
    BY <2>1, <2>2, ListIs
  <2> QED BY <2>1, <2>3
<1>3. <<head_ptr, n_recs'>> \in W
  <2>1. head_ptr \in Addrs
    BY HeadIsThere DEF Ready
  <2>2. n_recs' \in Bytes
    BY TablesApart, Naturals DEF Bytes
  <2> QED BY <2>1, <2>2
<1>4. <<<<head_ptr, n_recs'>>>> \in Seq(W) /\ Len(<<<<head_ptr, n_recs'>>>>) = 1
      /\ <<<<head_ptr, n_recs'>>>>[1] = <<head_ptr, n_recs'>>
  BY <1>3
<1>5. todo' \in Seq(W) /\ Ordered'
  <2>1. CASE todo' = list /\ n_recs' = n_recs
    <3>1. eeprom'[head_ptr'] = n_recs'
      BY <2>1 DEF RestInv
    <3> HIDE DEF W, C
    <3>2. \A k \in 1..Len(todo') : todo'[k] \in C
      BY <1>2, <2>1
    <3> QED BY <1>1, <1>2, <2>1, <3>1, <3>2 DEF Ordered, C
  <2>2. CASE todo' = list \o <<<<head_ptr, n_recs'>>>>
    <3> HIDE DEF W, C
    <3>1. /\ todo' \in Seq(W) /\ Len(todo') = Len(list) + 1
          /\ \A k \in 1..(Len(list) + 1) :
               todo'[k] = IF k <= Len(list) THEN list[k]
                                            ELSE <<<<head_ptr, n_recs'>>>>[k - Len(list)]
      BY <1>2, <1>4, <2>2, ConcatProperties
    <3>2. todo'[Len(todo')] = <<head_ptr, n_recs'>>
      BY <1>2, <1>4, <3>1
    <3>3. \A k \in 1..(Len(todo') - 1) : todo'[k] \in C
      BY <1>2, <3>1
    <3> QED BY <1>1, <3>1, <3>2, <3>3 DEF Ordered, C
  <2> QED BY <2>1, <2>2
<1>6. Keeps(eeprom)'
  <2>1. \A p \in HeadPtrs : before'[p] = Table(eeprom, p)
    BY DEF Tables
  <2>2. \A p \in HeadPtrs : Table(eeprom, p)' = Table(eeprom, p)
    BY DEF Table
  <2> QED BY <2>1, <2>2 DEF Keeps
<1>7. RunInv'
  BY <1>1, <1>5, <1>6 DEF RunInv, Ready, RestInv
<1>8. Idle' => RestInv'
  <2>1. todo' = <<>> => n_recs' = n_recs
    BY <1>2, <1>4, ConcatProperties
  <2> QED BY <2>1 DEF Idle, RestInv
<1> QED BY <1>5, <1>7, <1>8 DEF DBInv

\* A call that is refused, and open() and a power failure, write nothing.
LEMMA NothingToWrite ==
  ASSUME DBInv, eeprom' = eeprom, todo' = <<>>, RestInv'
  PROVE  DBInv'
<1>1. todo' \in Seq(Addrs \X Bytes)
  OBVIOUS
<1> QED BY <1>1 DEF DBInv, Idle

LEMMA WriteCall ==
  ASSUME DBInv, Opened, NEW recno \in Recnos, NEW v \in Values,
         recno = n_recs + 1 => Room, write(recno, v)
  PROVE  DBInv'
<1>1. Idle /\ Ready /\ RestInv /\ rec_size # 0 /\ n_recs \in 0..MaxRecs
  BY OpenReady DEF write, Begin, Ready
<1>2. eeprom' = eeprom /\ head_ptr' = head_ptr /\ rec_size' = rec_size /\ n_recs' = n_recs
      /\ call' = [op |-> "write", recno |-> recno] /\ before' = Tables(eeprom)
      /\ todo' = (IF MayWrite(recno, n_recs) THEN RecBytes(recno, v) ELSE <<>>)
  BY DEF write, Begin, ram
<1>3. CASE MayWrite(recno, n_recs)
  <2>1. recno \in 1..MaxRecs /\ v \in Bytes
    BY <1>1, <1>3, ByteAssumption DEF MayWrite, Recnos, Room, Bytes
  <2>2. RecBytes(recno, v) \in Seq(Cells(head_ptr, rec_size, recno))
    BY <1>1, <2>1, RecBytesIn
  <2>3. recno \in Nat \ {0} /\ "write" \in Ops
    BY <2>1 DEF Ops
  <2> QED BY <1>1, <1>2, <1>3, <2>2, <2>3, StartRun
<1>4. CASE ~MayWrite(recno, n_recs)
  BY <1>1, <1>2, <1>4, NothingToWrite DEF RestInv
<1> QED BY <1>3, <1>4

LEMMA DeleteCall ==
  ASSUME DBInv, Opened, NEW recno \in Shifted, deleteRec(recno)
  PROVE  DBInv'
<1>1. Idle /\ Ready /\ RestInv /\ rec_size # 0 /\ n_recs \in 0..MaxRecs
  BY OpenReady DEF deleteRec, Begin, Ready
<1>2. eeprom' = eeprom /\ call' = [op |-> "delete", recno |-> recno] /\ before' = Tables(eeprom)
  BY DEF deleteRec, Begin
<1>3. CASE RecnoRefused(recno)
  BY <1>1, <1>2, <1>3, NothingToWrite DEF deleteRec, ram, RestInv, Idle
<1>4. CASE ~RecnoRefused(recno)
  <2>1. n_recs' = Dec(n_recs) /\ head_ptr' = head_ptr /\ rec_size' = rec_size
        /\ todo' = ShiftDown(recno) \o <<<<head_ptr, Dec(n_recs)>>>>
    BY <1>4 DEF deleteRec, HeadCount
  <2>2. recno \in 1..n_recs /\ recno \in Nat \ {0} /\ "delete" \in Ops
    BY <1>1, <1>4, Naturals DEF RecnoRefused, Shifted, Recnos, Ops
  <2>3. Dec(n_recs) \in 0..MaxRecs
    <3>1. n_recs - 1 \in 0..(ByteMod - 1) /\ n_recs - 1 \in 0..MaxRecs
      BY <1>1, <2>2, TablesApart, Naturals
    <3>2. (n_recs - 1) % ByteMod = n_recs - 1
      BY <3>1, Naturals
    <3> QED BY <3>1, <3>2 DEF Dec
  <2>4. ShiftDown(recno) \in Seq(Cells(head_ptr, rec_size, recno))
    BY <1>1, <2>2, ShiftDownIn
  <2> QED BY <1>1, <1>2, <2>1, <2>2, <2>3, <2>4, StartRun
<1> QED BY <1>3, <1>4

LEMMA NextCount ==
  ASSUME Ready, n_recs < MaxRecs
  PROVE  Inc(n_recs) = n_recs + 1 /\ Inc(n_recs) \in 1..MaxRecs
<1>1. n_recs \in Nat /\ n_recs + 1 \in 1..MaxRecs /\ n_recs + 1 \in 0..(ByteMod - 1)
  BY TablesApart, Naturals DEF Ready
<1>2. (n_recs + 1) % ByteMod = n_recs + 1
  BY <1>1, Naturals
<1> QED BY <1>1, <1>2 DEF Inc

LEMMA InsertCall ==
  ASSUME DBInv, Room, NEW recno \in Shifted, NEW v \in Values, insert(recno, v)
  PROVE  DBInv'
<1>1. Idle /\ Ready /\ RestInv /\ rec_size # 0 /\ n_recs \in 0..MaxRecs /\ n_recs < MaxRecs
  BY OpenReady DEF insert, Begin, Ready, Room
<1>2. eeprom' = eeprom /\ call' = [op |-> "insert", recno |-> recno] /\ before' = Tables(eeprom)
  BY DEF insert, Begin
<1>3. CASE RecnoRefused(recno)
  BY <1>1, <1>2, <1>3, NothingToWrite DEF insert, ram, RestInv, Idle
<1>4. CASE ~RecnoRefused(recno)
  <2>1. recno \in 1..n_recs /\ recno \in Nat \ {0} /\ "insert" \in Ops /\ recno \in 1..MaxRecs
        /\ v \in Bytes
    BY <1>1, <1>4, Naturals, ByteAssumption DEF RecnoRefused, Shifted, Recnos, Ops, Bytes
  <2>2. n_recs' = Inc(n_recs) /\ head_ptr' = head_ptr /\ rec_size' = rec_size
        /\ todo' = ShiftUp(recno) \o RecBytes(recno, v) \o <<<<head_ptr, Inc(n_recs)>>>>
    BY <1>4, <2>1 DEF insert, HeadCount
  <2>3. Inc(n_recs) \in 0..MaxRecs
    BY <1>1, NextCount
  <2>4. ShiftUp(recno) \in Seq(Cells(head_ptr, rec_size, recno))
        /\ RecBytes(recno, v) \in Seq(Cells(head_ptr, rec_size, recno))
    BY <1>1, <2>1, ShiftUpIn, RecBytesIn
  <2>5. ShiftUp(recno) \o RecBytes(recno, v) \in Seq(Cells(head_ptr, rec_size, recno))
    BY <2>4, ConcatProperties
  <2> QED BY <1>1, <1>2, <2>1, <2>2, <2>3, <2>5, StartRun
<1> QED BY <1>3, <1>4

LEMMA AppendCall ==
  ASSUME DBInv, Room, NEW v \in Values, append(v)
  PROVE  DBInv'
<1>1. Idle /\ Ready /\ RestInv /\ rec_size # 0 /\ n_recs \in 0..MaxRecs /\ n_recs < MaxRecs
  BY OpenReady DEF append, Begin, Ready, Room
<1> DEFINE n == Inc(n_recs)
<1>2. n = n_recs + 1 /\ n \in 1..MaxRecs /\ n \in Nat \ {0} /\ n \in 0..MaxRecs
  BY <1>1, NextCount
<1>3. eeprom' = eeprom /\ call' = [op |-> "append", recno |-> n] /\ before' = Tables(eeprom)
      /\ n_recs' = n /\ head_ptr' = head_ptr /\ rec_size' = rec_size
      /\ todo' = (IF MayWrite(n_recs', n_recs') THEN RecBytes(n_recs', v) ELSE <<>>)
                   \o <<<<head_ptr, n_recs'>>>>
  BY DEF append, Begin, HeadCount
<1> HIDE DEF n
<1>4. MayWrite(n, n)
  BY <1>2 DEF MayWrite
<1>5. todo' = RecBytes(n, v) \o <<<<head_ptr, n>>>>
  BY <1>3, <1>4
<1>6. RecBytes(n, v) \in Seq(Cells(head_ptr, rec_size, n)) /\ "append" \in Ops
  BY <1>1, <1>2, RecBytesIn, ByteAssumption DEF Ops, Bytes
<1> QED BY <1>1, <1>2, <1>3, <1>5, <1>6, StartRun

LEMMA HeadsApart ==
  ASSUME NEW p \in HeadPtrs, NEW q \in HeadPtrs, p # q
  PROVE  p # q + 1 /\ q # p + 1
<1>1. PICK s \in RecSizes : TRUE
  BY ByteAssumption
<1>2. MaxRecs * s \in Nat /\ p \in Nat /\ q \in Nat
  BY Naturals
<1>3. (p < q => p + 4 + MaxRecs * s <= q) /\ (q < p => q + 4 + MaxRecs * s <= p)
  BY TablesApart
<1> QED BY <1>2, <1>3

LEMMA FirstWrite ==
  ASSUME DBInv, EEPROMWrite
  PROVE  /\ Len(todo) \in Nat \ {0} /\ todo[1] \in Addrs \X Bytes
         /\ todo' \in Seq(Addrs \X Bytes) /\ Len(todo') = Len(todo) - 1
         /\ \A k \in 1..Len(todo') : todo'[k] = todo[k + 1]
         /\ eeprom' = [eeprom EXCEPT ![todo[1][1]] = todo[1][2]] /\ eeprom' \in Memory
         /\ \A x \in Addrs : x # todo[1][1] => eeprom'[x] = eeprom[x]
         /\ eeprom'[todo[1][1]] = todo[1][2]
<1>1. todo \in Seq(Addrs \X Bytes) /\ todo # <<>> /\ todo' = Tail(todo) /\ eeprom \in Memory
      /\ eeprom' = [eeprom EXCEPT ![todo[1][1] % EEPROMSize] = todo[1][2]]
  BY DEF EEPROMWrite, Idle, DBInv
<1>2. Len(todo) \in Nat \ {0} /\ todo' \in Seq(Addrs \X Bytes) /\ Len(todo') = Len(todo) - 1
      /\ \A k \in 1..Len(todo') : todo'[k] = todo[k + 1]
  BY <1>1, HeadTailProperties, LenProperties, EmptySeq
<1>3. todo[1] \in Addrs \X Bytes
  BY <1>1, <1>2, ElementOfSeq
<1>4. todo[1][1] \in Addrs /\ todo[1][2] \in Bytes
  BY <1>3
<1>5. todo[1][1] % EEPROMSize = todo[1][1]
  BY <1>4, AddrMod
<1> QED BY <1>1, <1>2, <1>3, <1>4, <1>5 DEF Memory

\* A byte of the head at h, written so that the head stays sound.
LEMMA HeadByte ==
  ASSUME NEW mem, NEW new, NEW h \in HeadPtrs, AllSound(mem), SameBut(mem, new, {h, h + 1}),
         Sound(new, h)
  PROVE  AllSound(new)
<1>1. ASSUME NEW p \in HeadPtrs, p # h
      PROVE  Sound(new, p)
  <2>1. p \notin {h, h + 1} /\ p + 1 \notin {h, h + 1} /\ p \in Addrs /\ p + 1 \in Addrs
    BY <1>1, HeadsApart, HeadIsThere, Naturals
  <2> QED BY <2>1 DEF AllSound, SameBut, Sound
<1> QED BY <1>1 DEF AllSound

LEMMA CreateByte ==
  ASSUME DBInv, EEPROMWrite, CreateInv
  PROVE  DBInv'
<1>1. head_ptr' = head_ptr /\ n_recs' = n_recs /\ rec_size' = rec_size /\ call' = call
  BY DEF EEPROMWrite, ram
<1>2. head_ptr \in HeadPtrs /\ n_recs = 0 /\ rec_size \in RecSizes /\ call.op = "create"
      /\ head_ptr \in Nat /\ head_ptr \in Addrs /\ head_ptr + 1 \in Addrs
  BY HeadIsThere, Naturals DEF CreateInv
<1>3. eeprom' \in Memory /\ todo' \in Seq(Addrs \X Bytes) /\ todo' = Tail(todo)
  BY FirstWrite DEF EEPROMWrite
<1>4. CASE todo = <<<<head_ptr, 0>>, <<head_ptr + 1, rec_size>>>>
  <2>1. todo[1] = <<head_ptr, 0>> /\ todo' = <<<<head_ptr + 1, rec_size>>>>
    BY <1>3, <1>4
  <2>2. eeprom'[head_ptr] = 0 /\ \A x \in Addrs : x # head_ptr => eeprom'[x] = eeprom[x]
    BY <2>1, FirstWrite
  <2>3. Sound(eeprom', head_ptr)
    <3>1. Sound(eeprom, head_ptr) /\ eeprom'[head_ptr + 1] = eeprom[head_ptr + 1]
      BY <1>2, <2>2 DEF DBInv, AllSound
    <3> QED BY <1>1, <2>2, <3>1, Naturals DEF Sound
  <2>4. AllSound(eeprom')
    <3>1. SameBut(eeprom, eeprom', {head_ptr, head_ptr + 1})
      BY <2>2 DEF SameBut
    <3>2. head_ptr \in HeadPtrs /\ AllSound(eeprom)
      BY <1>2 DEF DBInv
    <3> QED BY <2>3, <3>1, <3>2, HeadByte, Zenon
  <2>5. CreateInv' /\ todo' # <<>>
    BY <1>1, <1>2, <2>1, <2>2 DEF CreateInv
  <2> QED BY <1>3, <2>4, <2>5 DEF DBInv, Idle
<1>5. CASE todo = <<<<head_ptr + 1, rec_size>>>> /\ eeprom[head_ptr] = 0
  <2>1. todo[1] = <<head_ptr + 1, rec_size>> /\ todo' = <<>>
    BY <1>3, <1>5
  <2>2. eeprom'[head_ptr + 1] = rec_size
        /\ \A x \in Addrs : x # head_ptr + 1 => eeprom'[x] = eeprom[x]
    BY <2>1, FirstWrite
  <2>3. eeprom'[head_ptr] = 0
    BY <1>2, <1>5, <2>2
  <2>4. Sound(eeprom', head_ptr)
    BY <1>1, <1>2, <2>2, <2>3, Naturals DEF Sound
  <2>5. AllSound(eeprom')
    <3>1. SameBut(eeprom, eeprom', {head_ptr, head_ptr + 1})
      BY <2>2 DEF SameBut
    <3>2. head_ptr \in HeadPtrs /\ AllSound(eeprom)
      BY <1>2 DEF DBInv
    <3> QED BY <2>4, <3>1, <3>2, HeadByte, Zenon
  <2>6. RestInv'
    BY <1>1, <1>2, <2>2, <2>3 DEF RestInv
  <2> QED BY <1>3, <2>1, <2>5, <2>6 DEF DBInv, Idle
<1> QED BY <1>4, <1>5 DEF CreateInv

LEMMA RecordStep ==
  ASSUME DBInv, EEPROMWrite, RunInv, todo[1] \in Cells(head_ptr, rec_size, call.recno)
  PROVE  /\ AllSound(eeprom')
         /\ eeprom'[head_ptr] = eeprom[head_ptr] /\ eeprom'[head_ptr + 1] = rec_size
         /\ Keeps(eeprom)'
<1> DEFINE r == call.recno
           c == todo[1]
<1>1. head_ptr' = head_ptr /\ call' = call /\ before' = before
  BY DEF EEPROMWrite, ram
<1>2. eeprom' = [eeprom EXCEPT ![c[1]] = c[2]] /\ eeprom \in Memory
      /\ AllSound(eeprom)
  BY FirstWrite DEF DBInv
<1>3. head_ptr \in HeadPtrs /\ rec_size \in RecSizes /\ eeprom[head_ptr + 1] = rec_size
      /\ r \in Nat \ {0} /\ c \in Cells(head_ptr, rec_size, r)
  BY DEF RunInv
<1> HIDE DEF r, c
<1>4. RecordsKept(eeprom, eeprom', head_ptr, r)
  BY <1>2, <1>3, RecordByte, Zenon
<1>5. AllSound(eeprom')
  BY <1>2, <1>4 DEF RecordsKept, AllSound, Sound
<1>6. Keeps(eeprom)'
  <2>1. Keeps(eeprom)
    BY DEF RunInv
  <2>2. Keeps(eeprom')
    BY <1>4, <2>1 DEF Keeps, RecordsKept, r
  <2> QED BY <1>1, <2>2 DEF Keeps
<1> QED BY <1>3, <1>4, <1>5, <1>6 DEF RecordsKept

LEMMA RunByte ==
  ASSUME DBInv, EEPROMWrite, RunInv
  PROVE  DBInv'
<1> DEFINE C == Cells(head_ptr, rec_size, call.recno)
<1>1. head_ptr' = head_ptr /\ n_recs' = n_recs /\ rec_size' = rec_size /\ call' = call
  BY DEF EEPROMWrite, ram
<1>2. /\ Len(todo) \in Nat \ {0} /\ todo' \in Seq(Addrs \X Bytes) /\ Len(todo') = Len(todo) - 1
      /\ \A k \in 1..Len(todo') : todo'[k] = todo[k + 1]
      /\ eeprom' \in Memory
  BY FirstWrite
<1>3. head_ptr \in HeadPtrs /\ rec_size \in RecSizes /\ n_recs \in 0..MaxRecs
      /\ call.op \in Ops /\ call.recno \in Nat \ {0} /\ eeprom[head_ptr + 1] = rec_size
  BY DEF RunInv
<1>4. Idle' <=> Len(todo) = 1
  BY <1>2, EmptySeq DEF Idle
<1>5. CASE eeprom[head_ptr] = n_recs /\ \A k \in 1..Len(todo) : todo[k] \in C
  <2>1. todo[1] \in C
    BY <1>2, <1>5
  <2>2. /\ AllSound(eeprom')
        /\ eeprom'[head_ptr] = n_recs /\ eeprom'[head_ptr + 1] = rec_size /\ Keeps(eeprom)'
    BY <1>5, <2>1, RecordStep
  <2> HIDE DEF C
  <2>3. \A k \in 1..Len(todo') : todo'[k] \in C
    BY <1>2, <1>5
  <2>4. Ordered'
    BY <1>1, <2>2, <2>3 DEF Ordered, C
  <2>5. RunInv' /\ RestInv'
    BY <1>1, <1>3, <2>2, <2>4 DEF RunInv, RestInv
  <2> QED BY <1>2, <2>2, <2>5 DEF DBInv
<1>6. CASE todo[Len(todo)] = <<head_ptr, n_recs>> /\ Len(todo) # 1
           /\ \A k \in 1..(Len(todo) - 1) : todo[k] \in C
  <2>1. todo[1] \in C
    BY <1>2, <1>6
  <2>2. /\ AllSound(eeprom')
        /\ eeprom'[head_ptr + 1] = rec_size /\ Keeps(eeprom)'
    BY <2>1, RecordStep
  <2> HIDE DEF C
  <2>3. \A k \in 1..(Len(todo') - 1) : todo'[k] \in C
    <3>1. \A k \in 1..(Len(todo) - 1) : todo[k] \in C
      BY <1>6
    <3>2. \A k \in 1..(Len(todo') - 1) :
            k + 1 \in 1..(Len(todo) - 1) /\ todo'[k] = todo[k + 1]
      BY <1>2
    <3> QED BY <3>1, <3>2
  <2>4. todo'[Len(todo')] = <<head_ptr, n_recs>>
    BY <1>2, <1>6
  <2>5. Ordered'
    BY <1>1, <2>3, <2>4 DEF Ordered, C
  <2>6. RunInv'
    BY <1>1, <1>3, <2>2, <2>5 DEF RunInv
  <2> QED BY <1>2, <1>4, <1>6, <2>2, <2>6 DEF DBInv
<1>7. CASE todo[Len(todo)] = <<head_ptr, n_recs>> /\ Len(todo) = 1
  <2>1. todo[1] = <<head_ptr, n_recs>>
    BY <1>7
  <2>2. eeprom'[head_ptr] = n_recs /\ \A x \in Addrs : x # head_ptr => eeprom'[x] = eeprom[x]
    BY <2>1, FirstWrite
  <2>3. head_ptr + 1 \in Addrs /\ head_ptr + 1 # head_ptr
    BY <1>3, HeadIsThere, Naturals
  <2>4. eeprom'[head_ptr + 1] = rec_size
    BY <1>3, <2>2, <2>3
  <2>5. Sound(eeprom', head_ptr)
    BY <1>1, <1>3, <2>2, <2>4, Naturals DEF Sound
  <2>6. AllSound(eeprom')
    <3>1. SameBut(eeprom, eeprom', {head_ptr, head_ptr + 1})
      BY <2>2 DEF SameBut
    <3>2. head_ptr \in HeadPtrs /\ AllSound(eeprom)
      BY <1>3 DEF DBInv
    <3> QED BY <2>5, <3>1, <3>2, HeadByte, Zenon
  <2>7. RestInv'
    BY <1>1, <1>3, <2>2, <2>4 DEF RestInv
  <2> QED BY <1>2, <1>4, <1>7, <2>6, <2>7 DEF DBInv
<1> QED BY <1>5, <1>6, <1>7 DEF RunInv, Ordered

LEMMA CreateCall ==
  ASSUME DBInv, NEW p \in HeadPtrs, NEW size \in RecSizes, create(p, size)
  PROVE  DBInv'
<1>1. head_ptr' = p /\ n_recs' = 0 /\ rec_size' = size /\ eeprom' = eeprom
      /\ call' = [op |-> "create", recno |-> 0] /\ todo' = <<<<p, 0>>, <<p + 1, size>>>>
  BY DEF create, Begin, HeadBytes
<1>2. p \in Addrs /\ p + 1 \in Addrs /\ 0 \in Bytes /\ size \in Bytes
  BY HeadIsThere, ByteAssumption DEF Bytes
<1>3. todo' \in Seq(Addrs \X Bytes) /\ todo' # <<>>
  BY <1>1, <1>2
<1>4. CreateInv'
  BY <1>1 DEF CreateInv
<1> QED BY <1>1, <1>3, <1>4 DEF DBInv, Idle

LEMMA OpenCall ==
  ASSUME DBInv, NEW p \in HeadPtrs, open(p)
  PROVE  DBInv'
<1>1. head_ptr' = p /\ n_recs' = eeprom[p] /\ rec_size' = eeprom[p + 1] /\ eeprom' = eeprom
      /\ eeprom[p + 1] # Erased /\ todo' = <<>>
  BY DEF open, Begin, Idle
<1>2. Sound(eeprom, p)
  BY DEF DBInv, AllSound
<1>3. RestInv'
  BY <1>1, <1>2 DEF RestInv, Sound
<1> QED BY <1>1, <1>3, NothingToWrite

LEMMA InvNext ==
  ASSUME DBInv, [Next]_vars
  PROVE  DBInv'
<1>1. CASE EEPROMWrite
  <2>1. ~Idle
    BY <1>1 DEF EEPROMWrite
  <2> QED BY <1>1, <2>1, CreateByte, RunByte DEF DBInv
<1>2. CASE PowerFail
  <2>1. RestInv' /\ eeprom' = eeprom /\ todo' = <<>>
    BY <1>2 DEF PowerFail, RestInv
  <2> QED BY <2>1, NothingToWrite
<1>3. CASE \E p \in HeadPtrs : open(p) \/ (\E size \in RecSizes : create(p, size))
  BY <1>3, OpenCall, CreateCall
<1>4. CASE \E recno \in Recnos, v \in Values :
             Opened /\ (recno = n_recs + 1 => Room) /\ write(recno, v)
  BY <1>4, WriteCall
<1>5. CASE \E recno \in Shifted, v \in Values : Room /\ insert(recno, v)
  BY <1>5, InsertCall
<1>6. CASE \E recno \in Shifted : Opened /\ deleteRec(recno)
  BY <1>6, DeleteCall
<1>7. CASE \E v \in Values : Room /\ append(v)
  BY <1>7, AppendCall
<1>8. CASE UNCHANGED vars
  <2>1. eeprom' = eeprom /\ head_ptr' = head_ptr /\ n_recs' = n_recs /\ rec_size' = rec_size
        /\ todo' = todo /\ call' = call /\ before' = before
    BY <1>8 DEF vars, ram
  <2>2. Keeps(eeprom) => Keeps(eeprom)'
    <3>1. \A p \in HeadPtrs : Table(eeprom, p)' = Table(eeprom, p)
      BY <2>1 DEF Table
    <3> QED BY <2>1, <3>1 DEF Keeps
  <2>3. Ordered => Ordered'
    BY <2>1 DEF Ordered
  <2>4. (RunInv => RunInv') /\ (CreateInv => CreateInv') /\ (RestInv => RestInv')
    BY <2>1, <2>2, <2>3 DEF RunInv, CreateInv, RestInv
  <2> QED BY <2>1, <2>4 DEF DBInv, Idle
<1> QED BY <1>1, <1>2, <1>3, <1>4, <1>5, <1>6, <1>7, <1>8 DEF Next

\* For tables of any number, size and place that keep to their space: whenever the power
\* fails in a call, no other table has changed, and the one that the call is about has
\* its length and the records in front of the one that the call names.
THEOREM InterruptedSafe == Spec => []InterruptedKeeps
<1>1. DBInv /\ [Next]_vars => DBInv'
  BY InvNext
<1> QED BY <1>1, InvInit, InvKeeps, PTL DEF Spec

-----------------------------------------------------------------------------
(* The memory when the running call has done its writes                    *)

LEMMA HasMin ==
  ASSUME NEW T \in SUBSET Nat, T # {}
  PROVE  \E m \in T : \A x \in T : m <= x
<1> DEFINE R == {ss \in Nat \X Nat : ss[1] < ss[2]}
<1>1. IsWellFoundedOn(R, Nat)
  BY NatLessThanWellFounded DEF OpToRel
<1> HIDE DEF R
<1>2. PICK m \in T : \A x \in T : ~(<<x, m>> \in R)
  BY <1>1, WFMin
<1>3. \A x \in T : ~(x < m)
  BY <1>2 DEF R
<1> QED BY <1>3

LEMMA MaxIsThere ==
  ASSUME NEW n \in Nat, NEW T \in SUBSET (1..n), T # {}
  PROVE  Max(T) \in T
<1> DEFINE U == {n - x : x \in T}
<1>1. U \in SUBSET Nat /\ U # {}
  OBVIOUS
<1> HIDE DEF U
<1>2. PICK m \in U : \A y \in U : m <= y
  BY <1>1, HasMin
<1>3. PICK x \in T : m = n - x
  BY <1>2 DEF U
<1>4. \A y \in T : x >= y
  <2>1. ASSUME NEW y \in T PROVE x >= y
    <3>1. n - y \in U
      BY DEF U
    <3>2. n - x <= n - y /\ x \in Int /\ y \in Int
      BY <1>2, <1>3, <3>1
    <3> QED BY <3>2
  <2> QED BY <2>1
<1> QED BY <1>3, <1>4 DEF Max

\* Settled, for any memory and any list of writes.
Written(mem, list) ==
  IF list = <<>> THEN mem
  ELSE LET writes(a) == {k \in DOMAIN list : list[k][1] % EEPROMSize = a}
           hit == {list[k][1] % EEPROMSize : k \in DOMAIN list} IN
       [a \in Addrs |-> IF a \in hit THEN list[Max(writes(a))][2] ELSE mem[a]]

LEMMA SettledIs == Settled = Written(eeprom, todo) /\ Settled' = Written(eeprom', todo')
  BY DEF Settled, Idle, Written

\* The list's writes make fin of mem; they agree on every byte they touch.
Finishes(mem, list, fin) ==
  /\ fin \in Memory
  /\ \A k \in 1..Len(list) : fin[list[k][1]] = list[k][2]
  /\ \A x \in Addrs : (\A k \in 1..Len(list) : list[k][1] # x) => fin[x] = mem[x]

\* The last write of a byte decides, and every write of it is like the last.
LEMMA WrittenIs ==
  ASSUME NEW mem \in Memory, NEW list \in Seq(Addrs \X Bytes), NEW g,
         \A k \in 1..Len(list) : list[k][2] = g[list[k][1]]
  PROVE  Finishes(mem, list, Written(mem, list))
<1>1. CASE list = <<>>
  <2>1. Len(list) = 0 /\ Written(mem, list) = mem
    BY <1>1 DEF Written
  <2> QED BY <2>1 DEF Finishes
<1>2. CASE list # <<>>
  <2> DEFINE W(a) == {k \in 1..Len(list) : list[k][1] = a}
             fin == Written(mem, list)
  <2>1. Len(list) \in Nat /\ DOMAIN list = 1..Len(list)
    BY LenProperties
  <2>2. ASSUME NEW k \in 1..Len(list)
        PROVE  list[k][1] \in Addrs /\ list[k][2] \in Bytes
                 /\ list[k][1] % EEPROMSize = list[k][1]
    <3>1. list[k] \in Addrs \X Bytes
      BY <2>1, ElementOfSeq
    <3>2. list[k][1] \in Addrs /\ list[k][2] \in Bytes
      BY <3>1
    <3>3. list[k][1] % EEPROMSize = list[k][1]
      BY <3>2, AddrMod
    <3> QED BY <3>2, <3>3
  <2>3. ASSUME NEW a \in Addrs
        PROVE  fin[a] = IF W(a) # {} THEN list[Max(W(a))][2] ELSE mem[a]
    <3>1. {k \in DOMAIN list : list[k][1] % EEPROMSize = a} = W(a)
      BY <2>1, <2>2
    <3>2. a \in {list[k][1] % EEPROMSize : k \in DOMAIN list} <=> W(a) # {}
      BY <2>1, <2>2
    <3> QED BY <1>2, <3>1, <3>2 DEF Written
  <2>4. ASSUME NEW a \in Addrs, W(a) # {}
        PROVE  fin[a] = g[a] /\ fin[a] \in Bytes
    <3>1. W(a) \in SUBSET (1..Len(list))
      OBVIOUS
    <3>2. Max(W(a)) \in W(a)
      <4> HIDE DEF W
      <4> QED BY <2>1, <2>4, <3>1, MaxIsThere
    <3> QED BY <2>2, <2>3, <2>4, <3>2
  <2>5. fin \in Memory
    <3>1. fin = [a \in Addrs |-> fin[a]]
      BY <1>2 DEF Written
    <3>2. \A a \in Addrs : fin[a] \in Bytes
      BY <2>3, <2>4 DEF Memory
    <3> HIDE DEF fin
    <3> QED BY <3>1, <3>2 DEF Memory
  <2>6. \A k \in 1..Len(list) : fin[list[k][1]] = list[k][2]
    <3>1. ASSUME NEW k \in 1..Len(list) PROVE fin[list[k][1]] = list[k][2]
      <4>1. list[k][1] \in Addrs /\ k \in W(list[k][1])
        BY <2>2
      <4> HIDE DEF fin, W
      <4>2. fin[list[k][1]] = g[list[k][1]]
        BY <2>4, <4>1
      <4> QED BY <4>2
    <3> QED BY <3>1
  <2>7. \A x \in Addrs : (\A k \in 1..Len(list) : list[k][1] # x) => fin[x] = mem[x]
    BY <2>3
  <2> HIDE DEF fin
  <2> QED BY <2>5, <2>6, <2>7 DEF Finishes, fin
<1> QED BY <1>1, <1>2

LEMMA FinishIsOne ==
  ASSUME NEW mem \in Memory, NEW list \in Seq(Addrs \X Bytes), NEW fin, Finishes(mem, list, fin)
  PROVE  Written(mem, list) = fin
<1> DEFINE w == Written(mem, list)
<1>1. \A k \in 1..Len(list) : list[k][2] = fin[list[k][1]]
  BY DEF Finishes
<1>2. Finishes(mem, list, w)
  BY <1>1, WrittenIs
<1> HIDE DEF w
<1>3. \A x \in Addrs : w[x] = fin[x]
  BY <1>2 DEF Finishes
<1>4. w = [x \in Addrs |-> w[x]] /\ fin = [x \in Addrs |-> fin[x]]
  BY <1>2 DEF Finishes, Memory
<1>5. w = fin
  BY <1>3, <1>4
<1> QED BY <1>5 DEF w

\* A byte written: what the memory will be stays.
LEMMA SettledStays ==
  ASSUME DBInv, EEPROMWrite, Finishes(eeprom, todo, Settled)
  PROVE  Settled' = Settled /\ Finishes(eeprom', todo', Settled)
<1> DEFINE fin == Settled
           mem == eeprom'
           list == todo'
<1>1. /\ Len(todo) \in Nat \ {0} /\ todo[1][1] \in Addrs /\ eeprom \in Memory
      /\ list \in Seq(Addrs \X Bytes) /\ Len(list) = Len(todo) - 1
      /\ \A k \in 1..Len(list) : list[k] = todo[k + 1]
      /\ mem \in Memory
      /\ \A x \in Addrs : x # todo[1][1] => mem[x] = eeprom[x]
      /\ mem[todo[1][1]] = todo[1][2]
  <2>1. todo[1] \in Addrs \X Bytes
    BY FirstWrite
  <2>2. todo[1][1] \in Addrs
    BY <2>1
  <2> QED BY <2>2, FirstWrite DEF DBInv
<1>2. /\ fin \in Memory
      /\ \A k \in 1..Len(todo) : fin[todo[k][1]] = todo[k][2]
      /\ \A x \in Addrs : (\A k \in 1..Len(todo) : todo[k][1] # x) => fin[x] = eeprom[x]
  BY DEF Finishes
<1> HIDE DEF fin, mem, list
<1>3. \A k \in 1..Len(list) : fin[list[k][1]] = list[k][2]
  <2>1. \A k \in 1..Len(list) : k + 1 \in 1..Len(todo)
    BY <1>1
  <2> QED BY <1>1, <1>2, <2>1
<1>4. ASSUME NEW x \in Addrs, \A k \in 1..Len(list) : list[k][1] # x
      PROVE  fin[x] = mem[x]
  <2>1. CASE x = todo[1][1]
    <3>1. 1 \in 1..Len(todo)
      BY <1>1
    <3> QED BY <1>1, <1>2, <2>1, <3>1
  <2>2. CASE x # todo[1][1]
    <3>1. ASSUME NEW k \in 1..Len(todo) PROVE todo[k][1] # x
      <4>1. CASE k = 1
        BY <2>2, <4>1
      <4>2. CASE k # 1
        <5>1. k - 1 \in 1..Len(list) /\ (k - 1) + 1 = k
          BY <1>1, <4>2
        <5>2. list[k - 1] = todo[k]
          BY <1>1, <5>1
        <5> QED BY <1>4, <5>1, <5>2
      <4> QED BY <4>1, <4>2
    <3> QED BY <1>1, <1>2, <2>2, <3>1
  <2> QED BY <2>1, <2>2
<1>5. Finishes(mem, list, fin)
  BY <1>2, <1>3, <1>4 DEF Finishes
<1>6. Written(mem, list) = fin
  BY <1>1, <1>5, FinishIsOne
<1>7. Settled' = Written(mem, list)
  BY SettledIs DEF mem, list
<1> QED BY <1>5, <1>6, <1>7 DEF fin, mem, list

-----------------------------------------------------------------------------
(* What a table is made of                                                 *)

\* The bytes that records can occupy, and what is in them.
Area    == {x \in Addrs : \E p \in HeadPtrs : \E s \in RecSizes :
              p + DB_HEAD_SIZE <= x /\ x < End(p, s)}
Content == Values \cup {Erased}
Clean(mem) == \A x \in Area : mem[x] \in Content

Rec(mem, p, s, i) == [b \in 1..s |-> mem[Slot(p, s, i) + b - 1]]

LEMMA InArea ==
  ASSUME NEW p \in HeadPtrs, NEW s \in RecSizes, NEW i \in 1..MaxRecs, NEW b \in 1..s
  PROVE  Slot(p, s, i) + b - 1 \in Area
  BY Within DEF Area

LEMMA HeadNotInArea ==
  ASSUME NEW p \in HeadPtrs
  PROVE  p \notin Area /\ p + 1 \notin Area
<1>1. ASSUME NEW q \in HeadPtrs, NEW s \in RecSizes, NEW x \in {p, p + 1},
             q + DB_HEAD_SIZE <= x, x < End(q, s)
      PROVE  FALSE
  <2>1. p \in Nat /\ q \in Nat /\ MaxRecs * s \in Nat /\ End(q, s) = q + 4 + MaxRecs * s
    BY Naturals DEF End, DB_HEAD_SIZE
  <2>2. q < p => q + 4 + MaxRecs * s <= p
    BY TablesApart
  <2> QED BY <1>1, <2>1, <2>2 DEF DB_HEAD_SIZE
<1> QED BY <1>1 DEF Area

\* The table at p has its records, as mem holds them.
LEMMA TableHas ==
  ASSUME NEW mem \in Memory, NEW p \in HeadPtrs, NEW s \in RecSizes, mem[p + 1] = s,
         mem[p] <= MaxRecs
  PROVE  /\ mem[p] \in 0..MaxRecs /\ Len(Table(mem, p)) = mem[p]
         /\ Table(mem, p) = [i \in 1..mem[p] |-> Rec(mem, p, s, i)]
<1>1. mem[p] \in 0..MaxRecs
  <2>1. mem[p] \in Nat
    BY HeadIsThere, Naturals DEF Memory
  <2> QED BY <2>1, Naturals
<1>2. s # Erased
  BY ByteAssumption DEF Erased
<1>3. Len(Table(mem, p)) = mem[p]
  BY <1>2, TableLen
<1>4. ASSUME NEW i \in 1..mem[p]
      PROVE  Rec(mem, p, s, i) = [b \in 1..s |-> mem[(Slot(p, s, i) + b - 1) % EEPROMSize]]
  <2>1. i \in 1..MaxRecs
    BY <1>1, Naturals
  <2>2. \A b \in 1..s : (Slot(p, s, i) + b - 1) % EEPROMSize = Slot(p, s, i) + b - 1
    BY <2>1, Within
  <2> QED BY <2>2 DEF Rec
<1>5. Table(mem, p) =
        [i \in 1..mem[p] |-> [b \in 1..s |-> mem[(Slot(p, s, i) + b - 1) % EEPROMSize]]]
  BY <1>2 DEF Table, Slot
<1>6. Table(mem, p) = [i \in 1..mem[p] |-> Rec(mem, p, s, i)]
  BY <1>4, <1>5, Zenon
<1> QED BY <1>1, <1>3, <1>6

LEMMA RecIsHalfWritten ==
  ASSUME NEW mem \in Memory, Clean(mem), NEW p \in HeadPtrs, NEW s \in RecSizes,
         NEW i \in 1..MaxRecs
  PROVE  Rec(mem, p, s, i) \in HalfWritten
<1>1. \A b \in 1..s : mem[Slot(p, s, i) + b - 1] \in Content
  BY InArea DEF Clean
<1>2. Rec(mem, p, s, i) \in [1..s -> Values \cup {Erased}]
  BY <1>1 DEF Rec, Content
<1> QED BY <1>2 DEF HalfWritten

LEMMA TableIsSeq ==
  ASSUME NEW mem \in Memory, Clean(mem), NEW p \in HeadPtrs, Sound(mem, p)
  PROVE  Table(mem, p) \in Seq(HalfWritten)
<1>1. CASE mem[p + 1] = Erased
  <2>1. Table(mem, p) = <<>>
    BY <1>1, TableLen
  <2> QED BY <2>1
<1>2. CASE mem[p + 1] # Erased
  <2> DEFINE s == mem[p + 1]
  <2>1. s \in RecSizes /\ mem[p] <= MaxRecs
    BY <1>2 DEF Sound
  <2>2. mem[p] \in 0..MaxRecs /\ Table(mem, p) = [i \in 1..mem[p] |-> Rec(mem, p, s, i)]
    BY <2>1, TableHas
  <2> HIDE DEF s
  <2>3. \A i \in 1..mem[p] : i \in 1..MaxRecs
    BY <2>2, Naturals
  <2>4. \A i \in 1..mem[p] : Rec(mem, p, s, i) \in HalfWritten
    BY <2>1, <2>3, RecIsHalfWritten
  <2>5. Table(mem, p) \in [1..mem[p] -> HalfWritten] /\ mem[p] \in Nat
    BY <2>2, <2>4, Naturals
  <2> QED BY <2>5, ListIs
<1> QED BY <1>1, <1>2

\* A table is the sequence that has its length and its records.
LEMMA TableIs ==
  ASSUME NEW mem \in Memory, NEW p \in HeadPtrs, NEW s \in RecSizes, mem[p + 1] = s,
         mem[p] <= MaxRecs, NEW S, NEW t \in Seq(S), Len(t) = mem[p],
         \A i \in 1..Len(t) : t[i] = Rec(mem, p, s, i)
  PROVE  Table(mem, p) = t
<1>1. Table(mem, p) = [i \in 1..mem[p] |-> Rec(mem, p, s, i)]
  BY TableHas
<1>2. t = [i \in 1..Len(t) |-> t[i]]
  BY LenProperties
<1> QED BY <1>1, <1>2, Zenon

LEMMA OthersSame ==
  ASSUME NEW mem \in Memory, NEW new \in Memory, AllSound(mem),
         NEW h \in HeadPtrs, NEW s \in RecSizes,
         \A x \in Addrs : x < h \/ End(h, s) <= x => new[x] = mem[x],
         NEW q \in HeadPtrs, q # h
  PROVE  Table(new, q) = Table(mem, q)
<1>1. Sound(mem, q)
  BY DEF AllSound
<1>2. h \in Nat /\ q \in Nat /\ q \in Addrs /\ q + 1 \in Addrs /\ MaxRecs * s \in Nat
      /\ End(h, s) = h + 4 + MaxRecs * s /\ MaxRecs \in Nat
  BY HeadIsThere, Naturals DEF End, DB_HEAD_SIZE
<1>3. q < h \/ End(h, s) <= q
  BY <1>2, TablesApart
<1>4. new[q] = mem[q] /\ new[q + 1] = mem[q + 1]
  <2>1. q < h => q + 1 < h
    BY <1>2, HeadsApart
  <2> QED BY <1>2, <1>3, <2>1
<1>5. CASE mem[q + 1] = Erased
  BY <1>4, <1>5, TableLen
<1>6. CASE mem[q + 1] # Erased
  <2> DEFINE z == mem[q + 1]
  <2>1. z \in RecSizes /\ mem[q] <= MaxRecs
    BY <1>1, <1>6 DEF Sound
  <2>2. Table(mem, q) = [i \in 1..mem[q] |-> Rec(mem, q, z, i)] /\ mem[q] \in 0..MaxRecs
        /\ Table(new, q) = [i \in 1..mem[q] |-> Rec(new, q, z, i)]
    BY <1>4, <2>1, TableHas
  <2> HIDE DEF z
  <2>3. q < h => End(q, z) <= h
    BY <2>1, TablesApart DEF End, DB_HEAD_SIZE
  <2>4. ASSUME NEW i \in 1..mem[q], NEW b \in 1..z
        PROVE  new[Slot(q, z, i) + b - 1] = mem[Slot(q, z, i) + b - 1]
    <3> DEFINE x == Slot(q, z, i) + b - 1
    <3>1. i \in 1..MaxRecs
      BY <2>2, Naturals
    <3>2. x \in Addrs /\ x \in Int /\ q + 4 <= x /\ x < End(q, z) /\ End(q, z) \in Int
      BY <2>1, <3>1, Within, SlotEnds DEF DB_HEAD_SIZE
    <3> HIDE DEF x
    <3>3. x < h \/ End(h, s) <= x
      BY <1>2, <1>3, <2>3, <3>2
    <3> QED BY <3>2, <3>3 DEF x
  <2>5. \A i \in 1..mem[q] : Rec(new, q, z, i) = Rec(mem, q, z, i)
    BY <2>4 DEF Rec
  <2> QED BY <2>2, <2>5, Zenon
<1> QED BY <1>5, <1>6

LEMMA RemovedIs ==
  ASSUME NEW S, NEW t \in Seq(S), NEW r \in 1..Len(t)
  PROVE  /\ DBT!RemoveAt(t, r) \in Seq(S) /\ Len(DBT!RemoveAt(t, r)) = Len(t) - 1
         /\ \A i \in 1..(Len(t) - 1) :
              DBT!RemoveAt(t, r)[i] = IF i < r THEN t[i] ELSE t[i + 1]
<1> DEFINE a == SubSeq(t, 1, r - 1)
           b == SubSeq(t, r + 1, Len(t))
<1>1. Len(t) \in Nat /\ r \in Nat /\ 1 <= r /\ r <= Len(t)
  BY LenProperties
<1>2. a \in Seq(S) /\ Len(a) = r - 1 /\ \A i \in 1..(r - 1) : a[i] = t[i]
  <2>1. 1 \in 1..(Len(t) + 1) /\ r - 1 \in (1 - 1)..Len(t)
    BY <1>1
  <2> QED BY <1>1, <2>1, SubSeqProperties
<1>3. b \in Seq(S) /\ Len(b) = Len(t) - r /\ \A i \in 1..(Len(t) - r) : b[i] = t[i + r]
  <2>1. r + 1 \in 1..(Len(t) + 1) /\ Len(t) \in ((r + 1) - 1)..Len(t)
    BY <1>1
  <2> QED BY <1>1, <2>1, SubSeqProperties
<1>4. DBT!RemoveAt(t, r) = a \o b
  BY DEF DBT!RemoveAt
<1> HIDE DEF a, b
<1>5. /\ a \o b \in Seq(S) /\ Len(a \o b) = Len(a) + Len(b)
      /\ \A i \in 1..(Len(a) + Len(b)) : (a \o b)[i] = IF i <= Len(a) THEN a[i] ELSE b[i - Len(a)]
  BY <1>2, <1>3, ConcatProperties
<1>6. ASSUME NEW i \in 1..(Len(t) - 1)
      PROVE  (a \o b)[i] = IF i < r THEN t[i] ELSE t[i + 1]
  <2>1. i \in 1..(Len(a) + Len(b))
    BY <1>1, <1>2, <1>3
  <2>2. CASE i < r
    BY <1>1, <1>2, <1>5, <2>1, <2>2
  <2>3. CASE ~(i < r)
    <3>1. i - (r - 1) \in 1..(Len(t) - r) /\ (i - (r - 1)) + r = i + 1 /\ ~(i <= r - 1)
      BY <1>1, <2>3
    <3> QED BY <1>2, <1>3, <1>5, <2>1, <2>3, <3>1
  <2> QED BY <2>2, <2>3
<1> QED BY <1>1, <1>2, <1>3, <1>4, <1>5, <1>6

LEMMA InsertedIs ==
  ASSUME NEW S, NEW t \in Seq(S), NEW r \in 1..Len(t), NEW e \in S
  PROVE  /\ DBT!InsertAt(t, r, e) \in Seq(S) /\ Len(DBT!InsertAt(t, r, e)) = Len(t) + 1
         /\ \A i \in 1..(Len(t) + 1) :
              DBT!InsertAt(t, r, e)[i] = IF i < r THEN t[i] ELSE IF i = r THEN e ELSE t[i - 1]
<1> DEFINE a == SubSeq(t, 1, r - 1)
           b == SubSeq(t, r, Len(t))
           c == a \o <<e>>
<1>1. Len(t) \in Nat /\ r \in Nat /\ 1 <= r /\ r <= Len(t)
  BY LenProperties
<1>2. a \in Seq(S) /\ Len(a) = r - 1 /\ \A i \in 1..(r - 1) : a[i] = t[i]
  <2>1. 1 \in 1..(Len(t) + 1) /\ r - 1 \in (1 - 1)..Len(t)
    BY <1>1
  <2> QED BY <1>1, <2>1, SubSeqProperties
<1>3. b \in Seq(S) /\ Len(b) = Len(t) - r + 1
      /\ \A i \in 1..(Len(t) - r + 1) : b[i] = t[i + r - 1]
  <2>1. r \in 1..(Len(t) + 1) /\ Len(t) \in (r - 1)..Len(t)
    BY <1>1
  <2> QED BY <1>1, <2>1, SubSeqProperties
<1>4. DBT!InsertAt(t, r, e) = c \o b
  BY DEF DBT!InsertAt
<1>5. c \in Seq(S) /\ Len(c) = r /\ c[r] = e /\ \A i \in 1..(r - 1) : c[i] = t[i]
  <2> HIDE DEF a, b
  <2>1. <<e>> \in Seq(S) /\ Len(<<e>>) = 1 /\ <<e>>[1] = e
    OBVIOUS
  <2>2. /\ c \in Seq(S) /\ Len(c) = Len(a) + 1
        /\ \A i \in 1..(Len(a) + 1) : c[i] = IF i <= Len(a) THEN a[i] ELSE <<e>>[i - Len(a)]
    BY <1>2, <2>1, ConcatProperties
  <2> HIDE DEF c
  <2>3. r \in 1..(Len(a) + 1) /\ ~(r <= Len(a)) /\ r - Len(a) = 1
    BY <1>1, <1>2
  <2>4. c[r] = e
    BY <2>1, <2>2, <2>3
  <2> QED BY <1>1, <1>2, <2>2, <2>4
<1> HIDE DEF a, b, c
<1>6. /\ c \o b \in Seq(S) /\ Len(c \o b) = Len(c) + Len(b)
      /\ \A i \in 1..(Len(c) + Len(b)) : (c \o b)[i] = IF i <= Len(c) THEN c[i] ELSE b[i - Len(c)]
  BY <1>3, <1>5, ConcatProperties
<1>7. ASSUME NEW i \in 1..(Len(t) + 1)
      PROVE  (c \o b)[i] = IF i < r THEN t[i] ELSE IF i = r THEN e ELSE t[i - 1]
  <2>1. i \in 1..(Len(c) + Len(b))
    BY <1>1, <1>3, <1>5
  <2>2. CASE i <= r
    BY <1>1, <1>5, <1>6, <2>1, <2>2
  <2>3. CASE ~(i <= r)
    <3>1. i - r \in 1..(Len(t) - r + 1) /\ (i - r) + r - 1 = i - 1 /\ ~(i < r) /\ i # r
      BY <1>1, <2>3
    <3> QED BY <1>3, <1>5, <1>6, <2>1, <2>3, <3>1
  <2> QED BY <2>2, <2>3
<1> QED BY <1>1, <1>3, <1>4, <1>5, <1>6, <1>7

\* The table at h is in its space and has records of s bytes.
Fits(mem, h, s) ==
  /\ mem \in Memory /\ Clean(mem) /\ mem[h + 1] = s /\ mem[h] <= MaxRecs
  /\ h \in HeadPtrs /\ s \in RecSizes

LEMMA FitsIs ==
  ASSUME NEW mem, NEW h, NEW s, Fits(mem, h, s)
  PROVE  /\ Table(mem, h) \in Seq(HalfWritten) /\ Len(Table(mem, h)) = mem[h]
         /\ mem[h] \in 0..MaxRecs /\ mem[h] \in Nat
         /\ \A i \in 1..mem[h] : Table(mem, h)[i] = Rec(mem, h, s, i)
         /\ \A i \in 1..MaxRecs : Rec(mem, h, s, i) \in HalfWritten
<1>1. mem \in Memory /\ Clean(mem) /\ mem[h + 1] = s /\ mem[h] <= MaxRecs
      /\ h \in HeadPtrs /\ s \in RecSizes /\ Sound(mem, h)
  BY DEF Fits, Sound
<1>2. mem[h] \in 0..MaxRecs /\ Len(Table(mem, h)) = mem[h]
      /\ Table(mem, h) = [i \in 1..mem[h] |-> Rec(mem, h, s, i)]
  BY <1>1, TableHas
<1>3. Table(mem, h) \in Seq(HalfWritten)
  BY <1>1, TableIsSeq
<1>4. \A i \in 1..MaxRecs : Rec(mem, h, s, i) \in HalfWritten
  BY <1>1, RecIsHalfWritten
<1>5. \A i \in 1..mem[h] : Table(mem, h)[i] = Rec(mem, h, s, i)
  BY <1>2
<1>6. mem[h] \in Nat
  BY <1>2, Naturals
<1> QED BY <1>2, <1>3, <1>4, <1>5, <1>6

LEMMA Appended ==
  ASSUME NEW mem, NEW fin, NEW h, NEW s, Fits(mem, h, s), Fits(fin, h, s),
         fin[h] = mem[h] + 1,
         \A i \in 1..mem[h] : Rec(fin, h, s, i) = Rec(mem, h, s, i)
  PROVE  \E r \in HalfWritten : Table(fin, h) = Append(Table(mem, h), r)
<1> DEFINE t == Table(mem, h)
           n == mem[h]
           r == Rec(fin, h, s, n + 1)
           u == Append(t, r)
<1>1. t \in Seq(HalfWritten) /\ Len(t) = n /\ n \in Nat
      /\ \A i \in 1..n : t[i] = Rec(mem, h, s, i)
  BY FitsIs
<1>2. fin[h] \in 0..MaxRecs /\ r \in HalfWritten
  <2>1. fin[h] \in 0..MaxRecs /\ \A i \in 1..MaxRecs : Rec(fin, h, s, i) \in HalfWritten
    BY FitsIs
  <2>2. n + 1 \in 1..MaxRecs
    BY <1>1, <2>1, Naturals
  <2> QED BY <2>1, <2>2
<1>3. r = Rec(fin, h, s, n + 1)
  OBVIOUS
<1>4. \A i \in 1..n : Rec(fin, h, s, i) = Rec(mem, h, s, i)
  OBVIOUS
<1>5. fin[h] = n + 1
  OBVIOUS
<1> HIDE DEF t, r, n
<1>6. u \in Seq(HalfWritten) /\ Len(u) = n + 1 /\ (\A i \in 1..n : u[i] = t[i]) /\ u[n + 1] = r
  BY <1>1, <1>2, AppendProperties
<1> HIDE DEF u
<1>7. \A i \in 1..Len(u) : u[i] = Rec(fin, h, s, i)
  <2>1. \A i \in 1..(n + 1) : i # n + 1 => i \in 1..n
    BY <1>1
  <2> QED BY <1>1, <1>3, <1>4, <1>6, <2>1
<1>8. Table(fin, h) = u
  BY <1>5, <1>6, <1>7, TableIs DEF Fits
<1> QED BY <1>2, <1>8 DEF u, t

LEMMA Overwritten ==
  ASSUME NEW mem, NEW fin, NEW h, NEW s, Fits(mem, h, s), Fits(fin, h, s),
         fin[h] = mem[h], NEW k \in Nat \ {0},
         \A i \in 1..mem[h] : i # k => Rec(fin, h, s, i) = Rec(mem, h, s, i)
  PROVE  IF k \in 1..mem[h]
         THEN \E r \in HalfWritten : Table(fin, h) = [Table(mem, h) EXCEPT ![k] = r]
         ELSE Table(fin, h) = Table(mem, h)
<1> DEFINE t == Table(mem, h)
           n == mem[h]
           r == Rec(fin, h, s, k)
           u == [t EXCEPT ![k] = r]
<1>1. t \in Seq(HalfWritten) /\ Len(t) = n /\ n \in 0..MaxRecs
      /\ \A i \in 1..n : t[i] = Rec(mem, h, s, i)
  BY FitsIs
<1>2. \A i \in 1..n : i # k => Rec(fin, h, s, i) = Rec(mem, h, s, i)
  OBVIOUS
<1>3. fin[h] = n /\ r = Rec(fin, h, s, k)
  OBVIOUS
<1>4. CASE k \in 1..n
  <2>1. r \in HalfWritten
    <3>1. k \in 1..MaxRecs
      BY <1>1, <1>4, Naturals
    <3> QED BY <3>1, FitsIs
  <2> HIDE DEF t, r, n
  <2>2. u \in Seq(HalfWritten) /\ Len(u) = n /\ u[k] = r /\ \A i \in 1..n : i # k => u[i] = t[i]
    BY <1>1, <1>4, <2>1, ExceptSeq
  <2> HIDE DEF u
  <2>3. \A i \in 1..Len(u) : u[i] = Rec(fin, h, s, i)
    BY <1>1, <1>2, <1>3, <2>2
  <2>4. Table(fin, h) = u
    BY <1>3, <2>2, <2>3, TableIs DEF Fits
  <2> QED BY <1>4, <2>1, <2>4 DEF u, t, n
<1>5. CASE k \notin 1..n
  <2> HIDE DEF t, r, n
  <2>1. \A i \in 1..Len(t) : t[i] = Rec(fin, h, s, i)
    BY <1>1, <1>2, <1>5
  <2>2. Table(fin, h) = t
    BY <1>1, <1>3, <2>1, TableIs DEF Fits
  <2> QED BY <1>5, <2>2 DEF t, n
<1> QED BY <1>4, <1>5

LEMMA Removed ==
  ASSUME NEW mem, NEW fin, NEW h, NEW s, Fits(mem, h, s), Fits(fin, h, s),
         fin[h] = mem[h] - 1, NEW k \in 1..mem[h],
         \A i \in 1..(mem[h] - 1) :
           Rec(fin, h, s, i) = IF i < k THEN Rec(mem, h, s, i) ELSE Rec(mem, h, s, i + 1)
  PROVE  Table(fin, h) = DBT!RemoveAt(Table(mem, h), k)
<1> DEFINE t == Table(mem, h)
           n == mem[h]
           u == DBT!RemoveAt(t, k)
<1>1. t \in Seq(HalfWritten) /\ Len(t) = n /\ n \in Nat
      /\ \A i \in 1..n : t[i] = Rec(mem, h, s, i)
  BY FitsIs
<1>2. \A i \in 1..(n - 1) :
        Rec(fin, h, s, i) = IF i < k THEN Rec(mem, h, s, i) ELSE Rec(mem, h, s, i + 1)
  OBVIOUS
<1>3. fin[h] = n - 1 /\ k \in 1..n
  OBVIOUS
<1> HIDE DEF t, n
<1>4. u \in Seq(HalfWritten) /\ Len(u) = n - 1
      /\ \A i \in 1..(n - 1) : u[i] = IF i < k THEN t[i] ELSE t[i + 1]
  BY <1>1, <1>3, RemovedIs
<1> HIDE DEF u
<1>5. \A i \in 1..Len(u) : u[i] = Rec(fin, h, s, i)
  <2>1. \A i \in 1..(n - 1) : i \in 1..n /\ i + 1 \in 1..n
    BY <1>1
  <2> QED BY <1>1, <1>2, <1>4, <2>1
<1>6. Table(fin, h) = u
  BY <1>3, <1>4, <1>5, TableIs DEF Fits
<1> QED BY <1>6 DEF u, t

LEMMA Inserted ==
  ASSUME NEW mem, NEW fin, NEW h, NEW s, Fits(mem, h, s), Fits(fin, h, s),
         fin[h] = mem[h] + 1, NEW k \in 1..mem[h],
         \A i \in 1..(mem[h] + 1) :
           /\ i < k => Rec(fin, h, s, i) = Rec(mem, h, s, i)
           /\ i > k => Rec(fin, h, s, i) = Rec(mem, h, s, i - 1)
  PROVE  \E r \in HalfWritten : Table(fin, h) = DBT!InsertAt(Table(mem, h), k, r)
<1> DEFINE t == Table(mem, h)
           n == mem[h]
           r == Rec(fin, h, s, k)
           u == DBT!InsertAt(t, k, r)
<1>1. t \in Seq(HalfWritten) /\ Len(t) = n /\ n \in Nat /\ n \in 0..MaxRecs
      /\ \A i \in 1..n : t[i] = Rec(mem, h, s, i)
  BY FitsIs
<1>2. \A i \in 1..(n + 1) :
        /\ i < k => Rec(fin, h, s, i) = Rec(mem, h, s, i)
        /\ i > k => Rec(fin, h, s, i) = Rec(mem, h, s, i - 1)
  OBVIOUS
<1>3. fin[h] = n + 1 /\ k \in 1..n /\ r = Rec(fin, h, s, k)
  OBVIOUS
<1>4. r \in HalfWritten
  <2>1. k \in 1..MaxRecs
    BY <1>1, <1>3, Naturals
  <2> QED BY <2>1, FitsIs
<1> HIDE DEF t, n, r
<1>5. u \in Seq(HalfWritten) /\ Len(u) = n + 1
      /\ \A i \in 1..(n + 1) : u[i] = IF i < k THEN t[i] ELSE IF i = k THEN r ELSE t[i - 1]
  <2>1. k \in 1..Len(t)
    BY <1>1, <1>3
  <2>2. u \in Seq(HalfWritten) /\ Len(u) = Len(t) + 1
        /\ \A i \in 1..(Len(t) + 1) :
             u[i] = IF i < k THEN t[i] ELSE IF i = k THEN r ELSE t[i - 1]
    <3>1. t \in Seq(HalfWritten) /\ r \in HalfWritten
      BY <1>1, <1>4
    <3>2. DBT!InsertAt(t, k, r) \in Seq(HalfWritten)
      BY <3>1, <2>1, InsertedIs
    <3>3. Len(DBT!InsertAt(t, k, r)) = Len(t) + 1
      BY <3>1, <2>1, InsertedIs
    <3>4. \A i \in 1..(Len(t) + 1) :
              DBT!InsertAt(t, k, r)[i] = IF i < k THEN t[i] ELSE IF i = k THEN r ELSE t[i - 1]
      BY <3>1, <2>1, InsertedIs
    <3> QED BY <3>2, <3>3, <3>4
  <2> HIDE DEF u
  <2> QED BY <1>1, <2>2
<1> HIDE DEF u
<1>6. ASSUME NEW i \in 1..Len(u) PROVE u[i] = Rec(fin, h, s, i)
  <2>1. CASE i < k
    <3>1. i \in 1..n /\ i \in 1..(n + 1)
      BY <1>1, <1>3, <1>5, <2>1
    <3> QED BY <1>1, <1>2, <1>5, <2>1, <3>1
  <2>2. CASE i = k
    BY <1>1, <1>3, <1>5, <2>2
  <2>3. CASE i > k
    <3>1. i - 1 \in 1..n /\ i \in 1..(n + 1) /\ ~(i < k) /\ i # k
      BY <1>1, <1>3, <1>5, <2>3
    <3>2. u[i] = t[i - 1] /\ Rec(fin, h, s, i) = Rec(mem, h, s, i - 1)
      BY <1>2, <1>5, <2>3, <3>1
    <3> QED BY <1>1, <3>1, <3>2
  <2> QED BY <1>1, <1>3, <1>5, <2>1, <2>2, <2>3
<1>7. Table(fin, h) = u
  BY <1>3, <1>5, <1>6, TableIs DEF Fits
<1> QED BY <1>4, <1>7 DEF u, t, r

-----------------------------------------------------------------------------
(* What the lists of writes do                                             *)

\* The list copies record i + d to record i, for every i in I, byte by byte.
CellOf(mem, h, s, i, d, b) == <<Slot(h, s, i) + b - 1, mem[Slot(h, s, i + d) + b - 1]>>
Copies(list, mem, h, s, I, d) ==
  /\ \A k \in 1..Len(list) : \E i \in I : \E b \in 1..s : list[k] = CellOf(mem, h, s, i, d, b)
  /\ \A i \in I : \A b \in 1..s : \E k \in 1..Len(list) : list[k] = CellOf(mem, h, s, i, d, b)

LEMMA DivIs ==
  ASSUME NEW s \in Nat \ {0}, NEW j \in Nat, NEW c \in 0..(s - 1)
  PROVE  (j * s + c) \div s = j /\ (j * s + c) % s = c
<1> DEFINE x == j * s + c
           q == x \div s
           r == x % s
<1>1. x \in Nat /\ j * s \in Nat
  OBVIOUS
<1>2. q \in Nat /\ r \in 0..(s - 1) /\ x = q * s + r /\ q * s \in Nat
  <2> HIDE DEF x
  <2>1. q \in Nat /\ r \in 0..(s - 1) /\ x = q * s + r
    BY <1>1, DivMod
  <2> HIDE DEF q, r
  <2> QED BY <2>1
<1>3. x = j * s + c
  OBVIOUS
<1> HIDE DEF x, q, r
<1>4. ~(q < j)
  <2>1. ASSUME q < j PROVE FALSE
    <3>1. (q + 1) * s <= j * s
      BY <1>2, <2>1, Monotone
    <3>2. (q + 1) * s = q * s + s
      BY <1>2
    <3> QED BY <1>1, <1>2, <1>3, <3>1, <3>2
  <2> QED BY <2>1
<1>5. ~(j < q)
  <2>1. ASSUME j < q PROVE FALSE
    <3>1. (j + 1) * s <= q * s
      BY <1>2, <2>1, Monotone
    <3>2. (j + 1) * s = j * s + s
      OBVIOUS
    <3> QED BY <1>1, <1>2, <1>3, <3>1, <3>2
  <2> QED BY <2>1
<1>6. q = j
  BY <1>2, <1>4, <1>5
<1>7. r = c
  BY <1>1, <1>2, <1>3, <1>6
<1> QED BY <1>6, <1>7 DEF q, r, x

LEMMA SlotNext ==
  ASSUME NEW p \in HeadPtrs, NEW s \in RecSizes, NEW i \in Int, NEW j \in Nat
  PROVE  /\ Slot(p, s, i) \in Int /\ j * s \in Nat
         /\ Slot(p, s, i + j) = Slot(p, s, i) + j * s
<1>1. p \in Nat /\ s \in Nat
  BY Naturals
<1>2. (i + j - 1) * s = (i - 1) * s + j * s /\ (i - 1) * s \in Int /\ j * s \in Nat
  BY <1>1
<1> QED BY <1>1, <1>2 DEF Slot, DB_HEAD_SIZE

\* The k-th byte behind record i.
LEMMA ByteIndex ==
  ASSUME NEW s \in Nat \ {0}, NEW m \in Nat, NEW j \in 0..(m - 1), NEW b \in 1..s
  PROVE  j * s + b \in 1..(m * s)
<1>1. (j + 1) * s <= m * s /\ (j + 1) * s = j * s + s /\ j * s \in Nat /\ m * s \in Nat
  BY Monotone
<1> QED BY <1>1

LEMMA RecordBytes ==
  ASSUME Ready, NEW recno \in 1..MaxRecs, NEW v
  PROVE  /\ Len(RecBytes(recno, v)) = rec_size
         /\ \A b \in 1..rec_size :
              RecBytes(recno, v)[b] = <<Slot(head_ptr, rec_size, recno) + b - 1, v>>
<1>1. rec_size \in Nat /\ RecAddr(recno) = Slot(head_ptr, rec_size, recno)
  BY SlotOfTable, Naturals DEF Ready
<1>2. RecBytes(recno, v) = [b \in 1..rec_size |-> <<Slot(head_ptr, rec_size, recno) + b - 1, v>>]
  BY <1>1 DEF RecBytes
<1> QED BY <1>1, <1>2

LEMMA DownCopies ==
  ASSUME Ready, NEW recno \in 1..n_recs
  PROVE  Copies(ShiftDown(recno), eeprom, head_ptr, rec_size, recno..(n_recs - 1), 1)
<1> DEFINE h == head_ptr
           s == rec_size
           first == recno + 1
           m == n_recs - recno
           list == ShiftDown(recno)
           cell(i, b) == CellOf(eeprom, h, s, i, 1, b)
<1>1. n_recs \in Nat /\ recno \in Nat /\ 1 <= recno /\ recno <= n_recs /\ n_recs <= MaxRecs
      /\ s \in Nat \ {0} /\ MaxRecs \in Nat /\ m \in Nat /\ m * s \in Nat
      /\ h \in HeadPtrs /\ s \in RecSizes
  BY Naturals DEF Ready
<1>2. /\ Len(list) = m * s
      /\ \A k \in 1..(m * s) :
           list[k] = <<Slot(h, s, recno) + k - 1,
                       eeprom[(Slot(h, s, recno + 1) + k - 1) % EEPROMSize]>>
  <2>1. RecAddr(first - 1) = Slot(h, s, recno) /\ RecAddr(first) = Slot(h, s, recno + 1)
    BY <1>1, SlotOfTable
  <2>2. (IF n_recs < first THEN 0 ELSE n_recs - first + 1) = m
    BY <1>1
  <2>3. list = [k \in 1..(m * s) |-> <<Slot(h, s, recno) + k - 1,
                     eeprom[(Slot(h, s, recno + 1) + k - 1) % EEPROMSize]>>]
    BY <1>1, <2>1, <2>2 DEF ShiftDown
  <2> HIDE DEF h, s, m, list
  <2> QED BY <1>1, <2>3
<1> HIDE DEF h, s, m, list
<1>3. ASSUME NEW j \in 0..(m - 1), NEW b \in 1..s
      PROVE  /\ j * s + b \in 1..(m * s) /\ recno + j \in recno..(n_recs - 1)
             /\ list[j * s + b] = cell(recno + j, b)
  <2> DEFINE k == j * s + b
  <2>1. k \in 1..(m * s) /\ k \in Int /\ b \in Int /\ j \in Nat
    BY <1>1, ByteIndex
  <2>2. recno + j \in recno..(n_recs - 1) /\ recno + j + 1 \in 1..MaxRecs
    BY <1>1 DEF m
  <2>3. Slot(h, s, recno + j) = Slot(h, s, recno) + j * s /\ Slot(h, s, recno) \in Int
        /\ Slot(h, s, recno + 1 + j) = Slot(h, s, recno + 1) + j * s /\ Slot(h, s,
             recno + 1) \in Int
        /\ j * s \in Nat /\ recno + 1 + j = recno + j + 1
    <3>1. recno \in Int /\ recno + 1 \in Int /\ recno + 1 + j = recno + j + 1
      BY <1>1, <2>1
    <3>2. Slot(h, s, recno + j) = Slot(h, s, recno) + j * s /\ Slot(h, s, recno) \in Int
          /\ j * s \in Nat
      BY <1>1, <2>1, <3>1, SlotNext
    <3>3. Slot(h, s, recno + 1 + j) = Slot(h, s, recno + 1) + j * s
          /\ Slot(h, s, recno + 1) \in Int
      BY <1>1, <2>1, <3>1, SlotNext
    <3> QED BY <3>1, <3>2, <3>3
  <2>4. Slot(h, s, recno) + k - 1 = Slot(h, s, recno + j) + b - 1
        /\ Slot(h, s, recno + 1) + k - 1 = Slot(h, s, recno + j + 1) + b - 1
    BY <2>1, <2>3
  <2>5. (Slot(h, s, recno + j + 1) + b - 1) % EEPROMSize = Slot(h, s, recno + j + 1) + b - 1
    BY <1>1, <2>2, Within
  <2> HIDE DEF k
  <2>6. list[k] = <<Slot(h, s, recno + j) + b - 1, eeprom[Slot(h, s, recno + j + 1) + b - 1]>>
    BY <1>2, <2>1, <2>4, <2>5
  <2> QED BY <2>1, <2>2, <2>6 DEF k, CellOf
<1>4. ASSUME NEW k \in 1..Len(list)
      PROVE  \E i \in recno..(n_recs - 1) : \E b \in 1..s : list[k] = cell(i, b)
  <2> DEFINE j == (k - 1) \div s
             c == (k - 1) % s
  <2>1. j \in 0..(m - 1) /\ c \in 0..(s - 1) /\ k - 1 = j * s + c /\ k \in Int
    <3>1. k \in 1..(m * s) /\ m \in Nat /\ s \in Nat \ {0}
      BY <1>1, <1>2
    <3>2. j \in 0..(m - 1) /\ c \in 0..(s - 1) /\ k - 1 = j * s + c
      BY <3>1, BytePlace
    <3> QED BY <1>1, <3>1, <3>2
  <2> HIDE DEF j, c
  <2>2. j * s \in Int /\ c + 1 \in 1..s
    BY <1>1, <2>1
  <2>3. k = j * s + (c + 1)
    BY <2>1, <2>2
  <2> QED BY <1>3, <2>1, <2>2, <2>3
<1>5. ASSUME NEW i \in recno..(n_recs - 1), NEW b \in 1..s
      PROVE  \E k \in 1..Len(list) : list[k] = cell(i, b)
  <2>1. i - recno \in 0..(m - 1) /\ recno + (i - recno) = i
    BY <1>1 DEF m
  <2> QED BY <1>2, <1>3, <2>1
<1> QED BY <1>4, <1>5 DEF Copies, h, s, list

LEMMA UpCopies ==
  ASSUME Ready, n_recs < MaxRecs, NEW recno \in 1..n_recs
  PROVE  Copies(ShiftUp(recno), eeprom, head_ptr, rec_size, (recno + 1)..(n_recs + 1), -1)
<1> DEFINE h == head_ptr
           s == rec_size
           m == n_recs - recno + 1
           list == ShiftUp(recno)
           cell(i, b) == CellOf(eeprom, h, s, i, -1, b)
<1>1. n_recs \in Nat /\ recno \in Nat /\ 1 <= recno /\ recno <= n_recs /\ n_recs < MaxRecs
      /\ s \in Nat \ {0} /\ MaxRecs \in Nat /\ m \in Nat /\ m * s \in Nat
      /\ h \in HeadPtrs /\ s \in RecSizes
  BY Naturals DEF Ready
<1>2. /\ Len(list) = m * s
      /\ \A k \in 1..(m * s) :
           list[k] = <<RecAddr(n_recs - ((k - 1) \div s) + 1) + ((k - 1) % s),
                       eeprom[(RecAddr(n_recs - ((k - 1) \div s)) + ((k - 1) % s)) % EEPROMSize]>>
  <2>1. (IF n_recs < recno THEN 0 ELSE n_recs - recno + 1) = m
    BY <1>1
  <2>2. list = [k \in 1..(m * s) |->
          <<RecAddr(n_recs - ((k - 1) \div s) + 1) + ((k - 1) % s),
            eeprom[(RecAddr(n_recs - ((k - 1) \div s)) + ((k - 1) % s)) % EEPROMSize]>>]
    BY <1>1, <2>1 DEF ShiftUp
  <2> HIDE DEF h, s, m, list
  <2> QED BY <1>1, <2>2
<1> HIDE DEF h, s, m, list
<1>3. ASSUME NEW j \in 0..(m - 1), NEW b \in 1..s
      PROVE  /\ j * s + b \in 1..(m * s) /\ n_recs + 1 - j \in (recno + 1)..(n_recs + 1)
             /\ list[j * s + b] = cell(n_recs + 1 - j, b)
  <2> DEFINE k == j * s + b
             i == n_recs + 1 - j
  <2>1. k \in 1..(m * s) /\ k \in Int /\ b \in Int /\ j \in Nat /\ j * s \in Nat
        /\ b - 1 \in 0..(s - 1)
    BY <1>1, ByteIndex
  <2>2. i \in (recno + 1)..(n_recs + 1) /\ i - 1 \in 1..MaxRecs /\ i - 1 = n_recs - j
        /\ i = n_recs - j + 1 /\ i \in Int /\ i - 1 \in Int
    BY <1>1 DEF m
  <2>3. (k - 1) \div s = j /\ (k - 1) % s = b - 1
    <3>1. k - 1 = j * s + (b - 1)
      BY <2>1
    <3>2. (j * s + (b - 1)) \div s = j /\ (j * s + (b - 1)) % s = b - 1
      BY <1>1, <2>1, DivIs
    <3> HIDE DEF k
    <3> QED BY <3>1, <3>2
  <2> HIDE DEF k, i
  <2>4. RecAddr(i) = Slot(h, s, i) /\ RecAddr(i - 1) = Slot(h, s, i - 1)
        /\ Slot(h, s, i) \in Int /\ Slot(h, s, i - 1) \in Int
    BY <1>1, <2>2, SlotOfTable, SlotInt DEF h, s
  <2>5. (Slot(h, s, i - 1) + b - 1) % EEPROMSize = Slot(h, s, i - 1) + b - 1
    BY <1>1, <2>2, Within
  <2>6. list[k] = <<RecAddr(n_recs - j + 1) + (b - 1),
                    eeprom[(RecAddr(n_recs - j) + (b - 1)) % EEPROMSize]>>
    BY <1>2, <2>1, <2>3
  <2>7. list[k] = <<RecAddr(i) + (b - 1), eeprom[(RecAddr(i - 1) + (b - 1)) % EEPROMSize]>>
    BY <2>2, <2>6
  <2>8. Slot(h, s, i) + (b - 1) = Slot(h, s, i) + b - 1
        /\ Slot(h, s, i - 1) + (b - 1) = Slot(h, s, i - 1) + b - 1
    BY <2>1, <2>4
  <2>9. list[k] = <<Slot(h, s, i) + b - 1, eeprom[Slot(h, s, i - 1) + b - 1]>>
    BY <2>4, <2>5, <2>7, <2>8
  <2>10. i + (-1) = i - 1
    BY <2>2
  <2>11. list[k] = cell(i, b)
    BY <2>9, <2>10 DEF CellOf
  <2> QED BY <2>1, <2>2, <2>11 DEF k, i
<1>4. ASSUME NEW k \in 1..Len(list)
      PROVE  \E i \in (recno + 1)..(n_recs + 1) : \E b \in 1..s : list[k] = cell(i, b)
  <2> DEFINE j == (k - 1) \div s
             c == (k - 1) % s
  <2>1. j \in 0..(m - 1) /\ c \in 0..(s - 1) /\ k - 1 = j * s + c /\ k \in Int
    <3>1. k \in 1..(m * s) /\ m \in Nat /\ s \in Nat \ {0}
      BY <1>1, <1>2
    <3>2. j \in 0..(m - 1) /\ c \in 0..(s - 1) /\ k - 1 = j * s + c
      BY <3>1, BytePlace
    <3> QED BY <1>1, <3>1, <3>2
  <2> HIDE DEF j, c
  <2>2. j * s \in Int /\ c + 1 \in 1..s
    BY <1>1, <2>1
  <2>3. k = j * s + (c + 1)
    BY <2>1, <2>2
  <2> HIDE DEF cell
  <2>4. n_recs + 1 - j \in (recno + 1)..(n_recs + 1)
        /\ list[j * s + (c + 1)] = cell(n_recs + 1 - j, c + 1)
    BY <1>3, <2>1, <2>2
  <2> QED BY <2>2, <2>3, <2>4
<1>5. ASSUME NEW i \in (recno + 1)..(n_recs + 1), NEW b \in 1..s
      PROVE  \E k \in 1..Len(list) : list[k] = cell(i, b)
  <2> HIDE DEF cell
  <2>1. n_recs + 1 - i \in 0..(m - 1) /\ n_recs + 1 - (n_recs + 1 - i) = i
    BY <1>1 DEF m
  <2> QED BY <1>2, <1>3, <2>1
<1> QED BY <1>4, <1>5 DEF Copies, h, s, list

\* A list as the set of its writes.
Writes(list) == {list[k] : k \in 1..Len(list)}

LEMMA WritesConcat ==
  ASSUME NEW S, NEW a \in Seq(S), NEW b \in Seq(S)
  PROVE  a \o b \in Seq(S) /\ Writes(a \o b) = Writes(a) \cup Writes(b)
<1>1. /\ a \o b \in Seq(S) /\ Len(a \o b) = Len(a) + Len(b)
      /\ \A i \in 1..(Len(a) + Len(b)) : (a \o b)[i] = IF i <= Len(a) THEN a[i] ELSE b[i - Len(a)]
  BY ConcatProperties
<1>2. Len(a) \in Nat /\ Len(b) \in Nat
  BY LenProperties
<1> DEFINE c == a \o b
<1> HIDE DEF c
<1>3. ASSUME NEW x \in Writes(c) PROVE x \in Writes(a) \cup Writes(b)
  <2>1. PICK k \in 1..(Len(a) + Len(b)) : x = c[k]
    BY <1>1 DEF Writes, c
  <2>2. CASE k <= Len(a)
    <3>1. k \in 1..Len(a) /\ x = a[k]
      BY <1>1, <1>2, <2>1, <2>2 DEF c
    <3> QED BY <3>1 DEF Writes
  <2>3. CASE ~(k <= Len(a))
    <3>1. k - Len(a) \in 1..Len(b) /\ x = b[k - Len(a)]
      BY <1>1, <1>2, <2>1, <2>3 DEF c
    <3> QED BY <3>1 DEF Writes
  <2> QED BY <2>2, <2>3
<1>4. ASSUME NEW x \in Writes(a) PROVE x \in Writes(c)
  <2>1. PICK k \in 1..Len(a) : x = a[k]
    BY DEF Writes
  <2>2. k \in 1..Len(c) /\ c[k] = a[k]
    BY <1>1, <1>2, <2>1 DEF c
  <2> QED BY <2>1, <2>2 DEF Writes
<1>5. ASSUME NEW x \in Writes(b) PROVE x \in Writes(c)
  <2>1. PICK k \in 1..Len(b) : x = b[k]
    BY DEF Writes
  <2>2. k + Len(a) \in 1..Len(c) /\ c[k + Len(a)] = b[k]
    <3>1. k + Len(a) \in 1..(Len(a) + Len(b)) /\ ~(k + Len(a) <= Len(a))
            /\ k + Len(a) - Len(a) = k
      BY <1>2
    <3> QED BY <1>1, <3>1 DEF c
  <2> QED BY <2>1, <2>2 DEF Writes
<1> QED BY <1>1, <1>3, <1>4, <1>5, Zenon DEF c

LEMMA WritesOne ==
  ASSUME NEW x
  PROVE  Writes(<<x>>) = {x} /\ Writes(<<>>) = {}
  BY DEF Writes

CopyCells(mem, h, s, I, d) == {CellOf(mem, h, s, i, d, b) : i \in I, b \in 1..s}
FillCells(h, s, I, v)      == {<<Slot(h, s, i) + b - 1, v>> : i \in I, b \in 1..s}

LEMMA WritesCopies ==
  ASSUME NEW list, NEW mem, NEW h, NEW s, NEW I, NEW d, Copies(list, mem, h, s, I, d)
  PROVE  Writes(list) = CopyCells(mem, h, s, I, d)
<1>1. ASSUME NEW x \in Writes(list) PROVE x \in CopyCells(mem, h, s, I, d)
  <2>1. PICK k \in 1..Len(list) : x = list[k]
    BY DEF Writes
  <2>2. PICK i \in I, b \in 1..s : list[k] = CellOf(mem, h, s, i, d, b)
    BY DEF Copies
  <2> QED BY <2>1, <2>2 DEF CopyCells
<1>2. ASSUME NEW x \in CopyCells(mem, h, s, I, d) PROVE x \in Writes(list)
  <2>1. PICK i \in I, b \in 1..s : x = CellOf(mem, h, s, i, d, b)
    BY DEF CopyCells
  <2>2. PICK k \in 1..Len(list) : list[k] = CellOf(mem, h, s, i, d, b)
    BY DEF Copies
  <2> QED BY <2>1, <2>2 DEF Writes
<1> QED BY <1>1, <1>2

LEMMA WritesRecord ==
  ASSUME Ready, NEW recno \in 1..MaxRecs, NEW v
  PROVE  Writes(RecBytes(recno, v)) = FillCells(head_ptr, rec_size, {recno}, v)
<1>1. Len(RecBytes(recno, v)) = rec_size
      /\ \A b \in 1..rec_size :
           RecBytes(recno, v)[b] = <<Slot(head_ptr, rec_size, recno) + b - 1, v>>
  BY RecordBytes
<1> DEFINE list == RecBytes(recno, v)
           cell(b) == <<Slot(head_ptr, rec_size, recno) + b - 1, v>>
<1> HIDE DEF list, cell
<1>2. Len(list) = rec_size /\ \A b \in 1..rec_size : list[b] = cell(b)
  BY <1>1 DEF list, cell
<1>3. Writes(list) = {cell(b) : b \in 1..rec_size}
  BY <1>2 DEF Writes
<1>4. FillCells(head_ptr, rec_size, {recno}, v) = {cell(b) : b \in 1..rec_size}
  BY DEF FillCells, cell
<1> QED BY <1>3, <1>4 DEF list

LEMMA SlotsApart ==
  ASSUME NEW p \in HeadPtrs, NEW s \in RecSizes, NEW i \in Int, NEW j \in Int, i # j,
         NEW b \in 1..s, NEW c \in 1..s
  PROVE  Slot(p, s, i) + b - 1 # Slot(p, s, j) + c - 1
<1>1. Slot(p, s, i) \in Int /\ Slot(p, s, j) \in Int /\ s \in Nat /\ b \in Int /\ c \in Int
  BY SlotInt, Naturals
<1>2. CASE i < j
  <2>1. Slot(p, s, i) + s <= Slot(p, s, j)
    BY <1>2, SlotOrder
  <2> QED BY <1>1, <2>1
<1>3. CASE j < i
  <2>1. Slot(p, s, j) + s <= Slot(p, s, i)
    BY <1>3, SlotOrder
  <2> QED BY <1>1, <2>1
<1> QED BY <1>2, <1>3

\* The memory that a set of writes makes, where they agree on every byte.
Makes(mem, W, fin) ==
  /\ fin \in Memory
  /\ \A w \in W : fin[w[1]] = w[2]
  /\ \A x \in Addrs : (\A w \in W : w[1] # x) => fin[x] = mem[x]

LEMMA FinishMakes ==
  ASSUME NEW mem, NEW list, NEW fin
  PROVE  Finishes(mem, list, fin) <=> Makes(mem, Writes(list), fin)
  BY DEF Finishes, Makes, Writes

\* The table invariant: bytes of records are bytes of values or erased ones, now and
\* when the call has finished; the history holds tables; create() changes one.
TableInv ==
  /\ Finishes(eeprom, todo, Settled)
  /\ Clean(eeprom) /\ Clean(Settled)
  /\ before \in [HeadPtrs -> Seq(HalfWritten)]
  /\ ~Idle /\ call.op = "create" =>
       /\ call.recno = 0
       /\ \A q \in HeadPtrs :
            Table(eeprom, q) = before[q] \/ (q = head_ptr /\ Table(eeprom, q) = <<>>)

LEMMA TablesAreSeqs ==
  ASSUME NEW mem \in Memory, Clean(mem), AllSound(mem)
  PROVE  Tables(mem) \in [HeadPtrs -> Seq(HalfWritten)]
<1>1. \A p \in HeadPtrs : Table(mem, p) \in Seq(HalfWritten)
  BY TableIsSeq DEF AllSound
<1> QED BY <1>1 DEF Tables

\* A call begins: g tells what it writes where.
LEMMA CallBegins ==
  ASSUME DBInv, TableInv, Idle, eeprom' = eeprom, before' = Tables(eeprom),
         call'.op = "create" => call'.recno = 0,
         todo' \in Seq(Addrs \X Bytes), NEW g,
         \A w \in Writes(todo') : w[2] = g[w[1]] /\ (w[1] \in Area => w[2] \in Content)
  PROVE  TableInv' /\ Makes(eeprom, Writes(todo'), Settled')
<1> DEFINE fin == Settled'
           list == todo'
<1>1. eeprom \in Memory /\ AllSound(eeprom) /\ Clean(eeprom)
  BY DEF DBInv, TableInv
<1>2. fin = Written(eeprom, list)
  BY SettledIs
<1>3. \A k \in 1..Len(list) : list[k][2] = g[list[k][1]]
  BY DEF Writes
<1>4. list \in Seq(Addrs \X Bytes)
  OBVIOUS
<1>5. \A w \in Writes(list) : w[1] \in Area => w[2] \in Content
  OBVIOUS
<1> HIDE DEF fin, list
<1>6. Finishes(eeprom, list, fin)
  BY <1>1, <1>2, <1>3, <1>4, WrittenIs
<1>7. Makes(eeprom, Writes(list), fin)
  BY <1>6, FinishMakes
<1>8. Clean(fin)
  <2>1. ASSUME NEW x \in Area PROVE fin[x] \in Content
    <3>1. x \in Addrs /\ eeprom[x] \in Content
      BY <1>1 DEF Area, Clean
    <3>2. CASE \E w \in Writes(list) : w[1] = x
      BY <1>5, <1>7, <3>2 DEF Makes
    <3>3. CASE ~\E w \in Writes(list) : w[1] = x
      BY <1>7, <3>1, <3>3 DEF Makes
    <3> QED BY <3>2, <3>3
  <2> QED BY <2>1 DEF Clean
<1>9. before' \in [HeadPtrs -> Seq(HalfWritten)]
  BY <1>1, TablesAreSeqs
<1>10. \A q \in HeadPtrs : Table(eeprom, q)' = before'[q]
  BY DEF Tables, Table
<1>11. Finishes(eeprom, todo, Settled)' /\ Clean(eeprom)' /\ Clean(Settled)'
  BY <1>1, <1>6, <1>8 DEF fin, list, Finishes, Clean
<1>12. TableInv'
  BY <1>9, <1>10, <1>11 DEF TableInv
<1> QED BY <1>7, <1>12 DEF fin, list

LEMMA SlotShift ==
  ASSUME NEW p \in HeadPtrs, NEW s \in RecSizes, NEW i \in Int, NEW d \in Int
  PROVE  /\ Slot(p, s, i) \in Int /\ d * s \in Int /\ Slot(p, s, i + d) = Slot(p, s, i) + d * s
<1>1. p \in Nat /\ s \in Nat
  BY Naturals
<1>2. (i + d - 1) * s = (i - 1) * s + d * s /\ (i - 1) * s \in Int /\ d * s \in Int
  BY <1>1
<1> QED BY <1>1, <1>2 DEF Slot, DB_HEAD_SIZE

\* What a call makes of the memory: records I get what record i + d had, the records
\* of V get v, the count becomes the one of H, and all else stays.
CallSets(W, mem, h, s, I, d, V, v, H) ==
  W = CopyCells(mem, h, s, I, d) \cup FillCells(h, s, V, v) \cup {<<h, n>> : n \in H}

\* The records J of the new memory are the ones d further in the old.
Moved(mem, new, h, s, J, d) == \A i \in J : Rec(new, h, s, i) = Rec(mem, h, s, i + d)

CallBegun ==
  /\ DBInv /\ TableInv /\ Idle /\ Ready /\ RestInv /\ rec_size # 0
  /\ eeprom' = eeprom /\ before' = Tables(eeprom) /\ call'.op # "create"
  /\ todo' \in Seq(Addrs \X Bytes)
CallWrites(r, v, V, I, d, J, c, H) ==
  /\ r \in 1..MaxRecs /\ (V # {} => v \in Values) /\ V \in SUBSET {r}
  /\ I \in SUBSET (1..MaxRecs) /\ (r \in V => r \notin I)
  /\ d \in Int /\ (\A i \in I : i + d \in 1..MaxRecs)
  /\ J \in SUBSET (1..MaxRecs) /\ (\A i \in J : i \notin I /\ i \notin V)
  /\ H \in SUBSET {c}
  /\ CallSets(Writes(todo'), eeprom, head_ptr, rec_size, I, d, V, v, H)
CallMakes(I, d, J, c, H) ==
  /\ TableInv' /\ Settled' \in Memory /\ Clean(Settled')
  /\ Settled'[head_ptr + 1] = rec_size
  /\ H = {} => Settled'[head_ptr] = n_recs
  /\ H # {} => Settled'[head_ptr] = c
  /\ Moved(eeprom, Settled', head_ptr, rec_size, I, d)
  /\ Moved(eeprom, Settled', head_ptr, rec_size, J, 0)
  /\ \A q \in HeadPtrs \ {head_ptr} : Table(Settled', q) = Table(eeprom, q)

LEMMA CallSettles ==
  ASSUME NEW r, NEW v, NEW V, NEW I, NEW d, NEW J, NEW c, NEW H,
         CallBegun, CallWrites(r, v, V, I, d, J, c, H)
  PROVE  CallMakes(I, d, J, c, H)
<1>1. /\ DBInv /\ TableInv /\ Idle /\ Ready /\ RestInv /\ rec_size # 0
      /\ eeprom' = eeprom /\ before' = Tables(eeprom) /\ call'.op # "create"
      /\ todo' \in Seq(Addrs \X Bytes)
  BY DEF CallBegun
<1>2. /\ r \in 1..MaxRecs /\ (V # {} => v \in Values) /\ V \in SUBSET {r}
      /\ I \in SUBSET (1..MaxRecs) /\ (r \in V => r \notin I)
      /\ d \in Int /\ (\A i \in I : i + d \in 1..MaxRecs)
      /\ J \in SUBSET (1..MaxRecs) /\ (\A i \in J : i \notin I /\ i \notin V)
      /\ H \in SUBSET {c}
      /\ CallSets(Writes(todo'), eeprom, head_ptr, rec_size, I, d, V, v, H)
  BY DEF CallWrites
<1> USE <1>1, <1>2
<1> DEFINE h == head_ptr
           s == rec_size
           fin == Settled'
           W == Writes(todo')
           at(i, b) == Slot(h, s, i) + b - 1
           filled(x) == \E i \in V : \E b \in 1..s : x = at(i, b)
           g == [x \in Addrs |-> IF x = h THEN c ELSE IF filled(x) THEN v ELSE eeprom[x + d * s]]
<1>3. /\ h \in HeadPtrs /\ s \in RecSizes /\ eeprom \in Memory /\ AllSound(eeprom)
           /\ Clean(eeprom)
      /\ eeprom[h] = n_recs /\ eeprom[h + 1] = s /\ V \subseteq 1..MaxRecs
      /\ h \in Addrs /\ h + 1 \in Addrs /\ h \notin Area /\ h + 1 \notin Area /\ h # h + 1
      /\ h \in Nat
  <2>1. h \in HeadPtrs /\ s \in RecSizes
    BY DEF Ready
  <2>2. h \in Addrs /\ h + 1 \in Addrs /\ h \notin Area /\ h + 1 \notin Area /\ h \in Nat
    BY <2>1, HeadIsThere, HeadNotInArea, Naturals
  <2>3. eeprom[h] = n_recs /\ eeprom[h + 1] = s
    BY DEF RestInv
  <2> QED BY <2>1, <2>2, <2>3 DEF DBInv, TableInv
<1>4. ASSUME NEW i \in 1..MaxRecs, NEW b \in 1..s
      PROVE  at(i, b) \in Area /\ at(i, b) \in Addrs /\ at(i, b) # h /\ at(i, b) # h + 1
             /\ at(i, b) \in Int /\ h <= at(i, b) /\ at(i, b) < End(h, s)
  <2>1. at(i, b) \in Area /\ at(i, b) \in Addrs /\ at(i, b) \in Int
        /\ h + DB_HEAD_SIZE <= at(i, b) /\ at(i, b) < End(h, s)
    BY <1>3, InArea, Within
  <2> HIDE DEF at
  <2> QED BY <1>3, <2>1 DEF DB_HEAD_SIZE
<1>5. \A i \in 1..MaxRecs, j \in 1..MaxRecs : i # j =>
        \A b \in 1..s : \A k \in 1..s : at(i, b) # at(j, k)
  BY <1>3, SlotsApart
<1>6. \A i \in I : \A b \in 1..s : CellOf(eeprom, h, s, i, d, b) = <<at(i, b),
        eeprom[at(i + d, b)]>>
  BY DEF CellOf
<1>7. ASSUME NEW i \in I, NEW b \in 1..s
      PROVE  at(i, b) + d * s = at(i + d, b)
  <2>1. Slot(h, s, i) \in Int /\ d * s \in Int /\ Slot(h, s, i + d) = Slot(h, s, i) + d * s
    <3>1. i \in 1..MaxRecs
      OBVIOUS
    <3>2. i \in Int
      BY <3>1, Naturals
    <3>3. d \in Int /\ h \in HeadPtrs /\ s \in RecSizes
      BY <1>3
    <3> HIDE DEF h, s
    <3> QED BY <3>2, <3>3, SlotShift
  <2>2. b \in Int /\ s \in Nat
    BY <1>3, Naturals
  <2> QED BY <2>1, <2>2
<1> HIDE DEF at
<1>8. ASSUME NEW i \in I, NEW b \in 1..s
      PROVE  <<at(i, b), eeprom[at(i + d, b)]>> \in W
  <2>1. CellOf(eeprom, h, s, i, d, b) \in CopyCells(eeprom, h, s, I, d)
    BY DEF CopyCells
  <2>2. CellOf(eeprom, h, s, i, d, b) \in W
    BY <2>1 DEF CallSets
  <2> HIDE DEF W
  <2> QED BY <1>6, <2>2
<1>9. ASSUME NEW i \in V, NEW b \in 1..s
      PROVE  <<at(i, b), v>> \in W
  BY DEF CallSets, FillCells, at
<1>10. ASSUME NEW n \in H PROVE <<h, n>> \in W
  BY DEF CallSets
<1>11. ASSUME NEW w \in W
      PROVE  \/ \E i \in I : \E b \in 1..s : w = <<at(i, b), eeprom[at(i + d, b)]>>
             \/ \E i \in V : \E b \in 1..s : w = <<at(i, b), v>>
             \/ H # {} /\ w = <<h, c>>
  <2>1. CASE w \in CopyCells(eeprom, h, s, I, d)
    <3>1. PICK i \in I, b \in 1..s : w = CellOf(eeprom, h, s, i, d, b)
      BY <2>1 DEF CopyCells
    <3> QED BY <1>6, <3>1
  <2>2. CASE w \in FillCells(h, s, V, v)
    BY <2>2 DEF FillCells, at
  <2>3. CASE w \in {<<h, n>> : n \in H}
    BY <2>3
  <2> QED BY <2>1, <2>2, <2>3 DEF CallSets
<1> HIDE DEF W
<1>12. ASSUME NEW w \in W
      PROVE  w[2] = g[w[1]] /\ (w[1] \in Area => w[2] \in Content)
  <2>1. ASSUME NEW i \in I, NEW b \in 1..s, w = <<at(i, b), eeprom[at(i + d, b)]>>
        PROVE  w[2] = g[w[1]] /\ w[2] \in Content
    <3>1. at(i, b) \in Addrs /\ at(i, b) # h /\ i \in 1..MaxRecs
      BY <1>4
    <3>2. ~filled(at(i, b))
      <4>1. ASSUME NEW j \in V, NEW k \in 1..s PROVE at(i, b) # at(j, k)
        <5>1. i # j /\ j \in 1..MaxRecs
          OBVIOUS
        <5> QED BY <1>5, <3>1, <5>1
      <4> QED BY <4>1
    <3>3. g[at(i, b)] = eeprom[at(i + d, b)]
      <4> HIDE DEF filled
      <4> QED BY <1>7, <3>1, <3>2
    <3>4. at(i + d, b) \in Area
      BY <1>4
    <3>5. eeprom[at(i + d, b)] \in Content
      BY <1>3, <3>4 DEF Clean
    <3> HIDE DEF g
    <3> QED BY <2>1, <3>3, <3>5
  <2>2. ASSUME NEW i \in V, NEW b \in 1..s, w = <<at(i, b), v>>
        PROVE  w[2] = g[w[1]] /\ w[2] \in Content
    <3>1. at(i, b) \in Addrs /\ at(i, b) # h
      BY <1>4
    <3>2. filled(at(i, b))
      OBVIOUS
    <3>3. g[at(i, b)] = v
      <4> HIDE DEF filled
      <4> QED BY <3>1, <3>2
    <3> HIDE DEF g
    <3> QED BY <2>2, <3>3 DEF Content
  <2>3. ASSUME w = <<h, c>>
        PROVE  w[2] = g[w[1]] /\ w[1] \notin Area
    BY <1>3, <2>3
  <2> HIDE DEF g
  <2> QED BY <1>11, <2>1, <2>2, <2>3
<1> HIDE DEF g, filled
<1>13. TableInv' /\ Makes(eeprom, W, fin)
  BY <1>12, CallBegins DEF W
<1>14. fin \in Memory /\ Clean(fin)
  BY <1>13 DEF TableInv, Makes, Clean
<1> HIDE DEF fin
<1>15. fin[h + 1] = s
  <2>1. ASSUME NEW w \in W PROVE w[1] # h + 1
    BY <1>3, <1>4, <1>11
  <2> QED BY <1>3, <1>13, <2>1 DEF Makes
<1>16. (H = {} => fin[h] = n_recs) /\ (H # {} => fin[h] = c)
  <2>1. CASE H = {}
    <3>1. ASSUME NEW w \in W PROVE w[1] # h
      BY <1>3, <1>4, <1>11, <2>1
    <3> QED BY <1>3, <1>13, <2>1, <3>1 DEF Makes
  <2>2. CASE H # {}
    <3>1. <<h, c>> \in W
      BY <1>10, <2>2
    <3> QED BY <1>13, <2>2, <3>1 DEF Makes
  <2> QED BY <2>1, <2>2
<1>17. ASSUME NEW i \in I
       PROVE  Rec(fin, h, s, i) = Rec(eeprom, h, s, i + d)
  <2>1. \A b \in 1..s : fin[at(i, b)] = eeprom[at(i + d, b)]
    BY <1>8, <1>13 DEF Makes
  <2> QED BY <2>1 DEF Rec, at
<1>18. ASSUME NEW i \in 1..MaxRecs, i \notin I, i \notin V
       PROVE  Rec(fin, h, s, i) = Rec(eeprom, h, s, i)
  <2>1. ASSUME NEW b \in 1..s PROVE fin[at(i, b)] = eeprom[at(i, b)]
    <3>1. ASSUME NEW w \in W PROVE w[1] # at(i, b)
      <4>1. ASSUME NEW j \in 1..MaxRecs, NEW k \in 1..s, j # i PROVE at(j, k) # at(i, b)
        BY <1>5, <4>1
      <4>2. \A j \in I \cup V : j \in 1..MaxRecs /\ j # i
        BY <1>3, <1>18
      <4>3. at(i, b) # h
        BY <1>4
      <4> QED BY <1>11, <4>1, <4>2, <4>3
    <3>2. at(i, b) \in Addrs
      BY <1>4
    <3> QED BY <1>13, <3>1, <3>2 DEF Makes
  <2> QED BY <2>1 DEF Rec, at
<1>19. ASSUME NEW q \in HeadPtrs \ {h}
       PROVE  Table(fin, q) = Table(eeprom, q)
  <2>1. ASSUME NEW x \in Addrs, x < h \/ End(h, s) <= x
        PROVE  fin[x] = eeprom[x]
    <3>1. ASSUME NEW w \in W PROVE w[1] # x
      <4>1. End(h, s) \in Int /\ h < End(h, s) /\ x \in Int
        <5>1. MaxRecs * s \in Nat
          BY <1>3, Naturals
        <5>2. End(h, s) = h + 4 + MaxRecs * s
          BY DEF End, DB_HEAD_SIZE
        <5>3. x \in Int
          BY Naturals
        <5> HIDE <1>1, <1>2
        <5> QED BY <1>3, <5>1, <5>2, <5>3
      <4>2. \A i \in 1..MaxRecs : \A b \in 1..s : at(i, b) # x
        <5>1. ASSUME NEW i \in 1..MaxRecs, NEW b \in 1..s PROVE at(i, b) # x
          <6>1. at(i, b) \in Int /\ h <= at(i, b) /\ at(i, b) < End(h, s)
            BY <1>4
          <6> QED BY <1>3, <2>1, <4>1, <6>1
        <5> QED BY <5>1
      <4>3. h # x
        BY <1>3, <2>1, <4>1
      <4> QED BY <1>3, <1>11, <4>2, <4>3
    <3> QED BY <1>13, <3>1 DEF Makes
  <2> QED BY <1>3, <1>14, <2>1, OthersSame
<1>20. Moved(eeprom, fin, h, s, I, d)
  BY <1>17 DEF Moved
<1>21. Moved(eeprom, fin, h, s, J, 0)
  <2>1. \A i \in 1..MaxRecs : i + 0 = i
    BY Naturals
  <2>2. \A i \in J : i \in 1..MaxRecs /\ i \notin I /\ i \notin V
    OBVIOUS
  <2> QED BY <1>18, <2>1, <2>2 DEF Moved
<1> QED BY <1>13, <1>14, <1>15, <1>16, <1>19, <1>20, <1>21 DEF fin, h, s, CallMakes

-----------------------------------------------------------------------------
(* Every step is a step of the table                                       *)

LEMMA NoWrites ==
  ASSUME DBInv, TableInv, todo' = <<>>, eeprom' = eeprom, before' = Tables(eeprom)
  PROVE  TableInv' /\ Settled' = eeprom /\ Idle'
<1>1. eeprom \in Memory /\ AllSound(eeprom) /\ Clean(eeprom)
  BY DEF DBInv, TableInv
<1>2. Settled' = eeprom /\ Idle'
  BY DEF Settled, Idle
<1>3. Finishes(eeprom, <<>>, eeprom)
  BY <1>1 DEF Finishes
<1>4. Finishes(eeprom, todo, Settled)' /\ Clean(eeprom)' /\ Clean(Settled)'
  BY <1>1, <1>2, <1>3 DEF Finishes, Clean
<1>5. before' \in [HeadPtrs -> Seq(HalfWritten)]
  BY <1>1, TablesAreSeqs
<1>6. TableInv'
  BY <1>2, <1>4, <1>5 DEF TableInv
<1> QED BY <1>2, <1>6

LEMMA SameTables ==
  /\ \A p \in HeadPtrs : Tables(Settled)[p] = Table(Settled, p)
  /\ \A p \in HeadPtrs : Tables(Settled)'[p] = Table(Settled', p)
  /\ Idle => Settled = eeprom
  BY DEF Tables, Table, Settled

LEMMA CallStep ==
  ASSUME Idle, ~Idle', before' = Tables(eeprom), head_ptr' \in HeadPtrs,
         call'.recno \in 0..(Len(Table(eeprom, head_ptr')) + 1),
         Table(Settled', head_ptr') \in DBT!Effects(call'.recno, Table(eeprom, head_ptr')),
         \A q \in HeadPtrs \ {head_ptr'} : Table(Settled', q) = Table(eeprom, q)
  PROVE  DBT!Next
<1> DEFINE p == head_ptr'
           i == call'.recno
<1>1. Settled = eeprom /\ p \in HeadPtrs
  BY SameTables
<1>2. /\ \A q \in HeadPtrs : Tables(Settled)[q] = Table(eeprom, q)
      /\ \A q \in HeadPtrs : Tables(Settled)'[q] = Table(Settled', q)
  BY <1>1, SameTables
<1>3. (IF Idle THEN {} ELSE {<<head_ptr, call.recno>>}) = {}
      /\ (IF Idle THEN {} ELSE {<<head_ptr, call.recno>>})' = {<<p, i>>}
  OBVIOUS
<1>4. before' = Tables(Settled)
  BY <1>1
<1>5. DBT!Call(p, i)
  BY <1>1, <1>2, <1>3, <1>4 DEF DBT!Call
<1>6. i \in 0..(Len(Tables(Settled)[p]) + 1)
  BY <1>1, <1>2
<1> QED BY <1>1, <1>5, <1>6 DEF DBT!Next

LEMMA NoChangeStep ==
  ASSUME Idle, Idle', eeprom' = eeprom, before' = Tables(eeprom)
  PROVE  DBT!Next
<1>1. Settled = eeprom /\ Settled' = eeprom
  BY DEF Settled
<1>2. Tables(Settled)' = Tables(Settled)
  BY <1>1 DEF Tables, Table
<1>3. DBT!NoChange
  BY <1>1, <1>2 DEF DBT!NoChange
<1> QED BY <1>3 DEF DBT!Next

\* The open table as the abstract call sees it.
LEMMA OpenFits ==
  ASSUME DBInv, TableInv, Idle, Ready, RestInv, rec_size # 0
  PROVE  /\ Fits(eeprom, head_ptr, rec_size) /\ Len(Table(eeprom, head_ptr)) = n_recs
         /\ eeprom[head_ptr] = n_recs /\ n_recs \in Nat /\ DOMAIN Table(eeprom,
              head_ptr) = 1..n_recs
<1>1. Fits(eeprom, head_ptr, rec_size) /\ eeprom[head_ptr] = n_recs
  BY Naturals DEF Ready, RestInv, TableInv, Fits
<1>2. Table(eeprom, head_ptr) \in Seq(HalfWritten) /\ Len(Table(eeprom, head_ptr)) = n_recs
      /\ n_recs \in Nat
  BY <1>1, FitsIs
<1>3. DOMAIN Table(eeprom, head_ptr) = 1..n_recs
  BY <1>2, LenProperties
<1> QED BY <1>1, <1>2, <1>3

LEMMA WriteStep ==
  ASSUME DBInv, TableInv, Opened, NEW recno \in Recnos, NEW v \in Values,
         recno = n_recs + 1 => Room, write(recno, v)
  PROVE  TableInv' /\ DBT!Next
<1> DEFINE h == head_ptr
           s == rec_size
           t == Table(eeprom, h)
           fin == Settled'
<1>1. Idle /\ Ready /\ RestInv /\ rec_size # 0 /\ n_recs \in 0..MaxRecs
      /\ h \in HeadPtrs /\ s \in RecSizes
  BY OpenReady DEF write, Begin, Ready
<1>2. eeprom' = eeprom /\ head_ptr' = head_ptr /\ call' = [op |-> "write", recno |-> recno]
      /\ before' = Tables(eeprom)
      /\ todo' = (IF MayWrite(recno, n_recs) THEN RecBytes(recno, v) ELSE <<>>)
  BY DEF write, Begin, ram
<1>3. CASE ~MayWrite(recno, n_recs)
  BY <1>1, <1>2, <1>3, NoWrites, NoChangeStep
<1>4. CASE MayWrite(recno, n_recs)
  <2>1. recno \in 1..MaxRecs /\ v \in Bytes /\ recno \in 1..(n_recs + 1) /\ recno \in Nat \ {0}
    BY <1>1, <1>4, Naturals, ByteAssumption DEF MayWrite, Recnos, Room, Bytes
  <2>2. RecBytes(recno, v) \in Seq(Cells(h, s, recno)) /\ Len(RecBytes(recno, v)) = s
        /\ Writes(RecBytes(recno, v)) = FillCells(h, s, {recno}, v)
    BY <1>1, <2>1, RecBytesIn, RecordBytes, WritesRecord
  <2>3. todo' = RecBytes(recno, v) /\ todo' \in Seq(Addrs \X Bytes) /\ ~Idle'
    <3>1. todo' = RecBytes(recno, v) /\ s \in Nat \ {0}
      BY <1>1, <1>2, <1>4, Naturals
    <3>2. todo' # <<>>
      BY <2>2, <3>1
    <3>3. \A x \in Seq(Cells(h, s, recno)) : x \in Seq(Addrs \X Bytes)
      BY CellsAreBytes, SeqMonotonic
    <3> QED BY <2>2, <3>1, <3>2, <3>3 DEF Idle
  <2>4. CallSets(Writes(todo'), eeprom, h, s, {}, 1, {recno}, v, {})
    <3>1. CopyCells(eeprom, h, s, {}, 1) = {}
      BY DEF CopyCells
    <3> QED BY <2>2, <2>3, <3>1 DEF CallSets
  <2>5. CallMakes({}, 1, (1..MaxRecs) \ {recno}, 0, {})
    <3> DEFINE J == (1..MaxRecs) \ {recno}
    <3>1. CallBegun
      BY <1>1, <1>2, <2>3 DEF CallBegun
    <3>2. CallWrites(recno, v, {recno}, {}, 1, J, 0, {})
      BY <2>1, <2>4 DEF CallWrites
    <3> HIDE DEF J
    <3>3. CallMakes({}, 1, J, 0, {})
      BY <3>1, <3>2, CallSettles
    <3> QED BY <3>3 DEF J
  <2>6. /\ TableInv' /\ fin \in Memory /\ Clean(fin) /\ fin[h + 1] = s /\ fin[h] = n_recs
        /\ Moved(eeprom, fin, h, s, (1..MaxRecs) \ {recno}, 0)
        /\ \A q \in HeadPtrs \ {h} : Table(fin, q) = Table(eeprom, q)
    BY <2>5 DEF CallMakes
  <2> HIDE DEF fin
  <2>7. Fits(eeprom, h, s) /\ Len(t) = n_recs /\ DOMAIN t = 1..n_recs /\ eeprom[h] = n_recs
        /\ n_recs \in Nat /\ Fits(fin, h, s)
    BY <1>1, <2>6, OpenFits, Naturals DEF Fits
  <2>8. IF recno \in 1..n_recs
        THEN \E r \in HalfWritten : Table(fin, h) = [t EXCEPT ![recno] = r]
        ELSE Table(fin, h) = t
    <3>1. \A i \in 1..n_recs : i \in 1..MaxRecs /\ i + 0 = i
      BY <1>1, Naturals
    <3>2. \A i \in 1..eeprom[h] : i # recno => Rec(fin, h, s, i) = Rec(eeprom, h, s, i)
      BY <2>6, <2>7, <3>1 DEF Moved
    <3> HIDE DEF h, s
    <3> QED BY <2>1, <2>6, <2>7, <3>2, Overwritten
  <2>9. Table(fin, h) \in DBT!WriteRec(recno, t)
    <3>1. recno \notin 1..n_recs => recno = n_recs + 1
      BY <2>1, <2>7
    <3> HIDE DEF h, t
    <3> QED BY <2>7, <2>8, <3>1 DEF DBT!WriteRec
  <2>10. recno \in 0..(Len(t) + 1)
    BY <2>1, <2>7
  <2> QED BY <1>1, <1>2, <2>3, <2>6, <2>9, <2>10, CallStep DEF DBT!Effects, fin
<1> QED BY <1>3, <1>4

LEMMA AppendStep ==
  ASSUME DBInv, TableInv, Room, NEW v \in Values, append(v)
  PROVE  TableInv' /\ DBT!Next
<1> DEFINE h == head_ptr
           s == rec_size
           t == Table(eeprom, h)
           n == n_recs + 1
           fin == Settled'
<1>1. Idle /\ Ready /\ RestInv /\ rec_size # 0 /\ n_recs \in 0..MaxRecs /\ n_recs < MaxRecs
      /\ h \in HeadPtrs /\ s \in RecSizes
  BY OpenReady DEF append, Begin, Ready, Room
<1>2. Inc(n_recs) = n /\ n \in 1..MaxRecs /\ n \in Nat \ {0}
  BY <1>1, NextCount
<1>3. eeprom' = eeprom /\ head_ptr' = head_ptr /\ call' = [op |-> "append", recno |-> n]
      /\ before' = Tables(eeprom)
      /\ todo' = (IF MayWrite(n, n) THEN RecBytes(n, v) ELSE <<>>) \o <<<<h, n>>>>
  BY <1>2 DEF append, Begin, HeadCount
<1>4. MayWrite(n, n)
  BY <1>2 DEF MayWrite
<1>5. RecBytes(n, v) \in Seq(Addrs \X Bytes) /\ Writes(RecBytes(n, v)) = FillCells(h, s, {n}, v)
  <2>1. RecBytes(n, v) \in Seq(Cells(h, s, n)) /\ Writes(RecBytes(n, v)) = FillCells(h, s, {n}, v)
    BY <1>1, <1>2, RecBytesIn, WritesRecord, ByteAssumption DEF Bytes
  <2>2. \A x \in Seq(Cells(h, s, n)) : x \in Seq(Addrs \X Bytes)
    BY CellsAreBytes, SeqMonotonic
  <2> QED BY <2>1, <2>2
<1>6. <<<<h, n>>>> \in Seq(Addrs \X Bytes)
  <2>1. h \in Addrs /\ n \in Bytes
    BY <1>1, <1>2, HeadIsThere, TablesApart, Naturals DEF Bytes
  <2> QED BY <2>1
<1> HIDE DEF n
<1>7. todo' \in Seq(Addrs \X Bytes) /\ Writes(todo') = FillCells(h, s, {n}, v) \cup {<<h, n>>}
  <2> DEFINE a == RecBytes(n, v)
             b == <<<<h, n>>>>
             W == Addrs \X Bytes
  <2>1. todo' = a \o b
    BY <1>3, <1>4
  <2>2. a \in Seq(W) /\ b \in Seq(W) /\ Writes(a) = FillCells(h, s, {n}, v)
        /\ Writes(b) = {<<h, n>>}
    BY <1>5, <1>6, WritesOne
  <2> HIDE DEF a, b, W
  <2>3. a \o b \in Seq(W) /\ Writes(a \o b) = Writes(a) \cup Writes(b)
    BY <2>2, WritesConcat
  <2> QED BY <2>1, <2>2, <2>3 DEF W
<1>8. CallSets(Writes(todo'), eeprom, h, s, {}, 1, {n}, v, {n})
  <2>1. CopyCells(eeprom, h, s, {}, 1) = {}
    BY DEF CopyCells
  <2> QED BY <1>7, <2>1 DEF CallSets
<1>9. ~Idle'
  <2>1. Writes(todo') # {}
    BY <1>7
  <2> QED BY <2>1, WritesOne DEF Idle
<1>10. CallMakes({}, 1, (1..MaxRecs) \ {n}, n, {n})
  <2> DEFINE J == (1..MaxRecs) \ {n}
  <2>1. CallBegun
    BY <1>1, <1>3, <1>7 DEF CallBegun
  <2>2. CallWrites(n, v, {n}, {}, 1, J, n, {n})
    BY <1>2, <1>8 DEF CallWrites
  <2> HIDE DEF J
  <2>3. CallMakes({}, 1, J, n, {n})
    BY <2>1, <2>2, CallSettles
  <2> QED BY <2>3 DEF J
<1>11. /\ TableInv' /\ fin \in Memory /\ Clean(fin) /\ fin[h + 1] = s /\ fin[h] = n
       /\ Moved(eeprom, fin, h, s, (1..MaxRecs) \ {n}, 0)
       /\ \A q \in HeadPtrs \ {h} : Table(fin, q) = Table(eeprom, q)
  BY <1>10 DEF CallMakes
<1> HIDE DEF fin
<1>12. Fits(eeprom, h, s) /\ Len(t) = n_recs /\ eeprom[h] = n_recs
       /\ n_recs \in Nat /\ Fits(fin, h, s)
  BY <1>1, <1>2, <1>11, OpenFits, Naturals DEF Fits
<1>13. \E r \in HalfWritten : Table(fin, h) = Append(t, r)
  <2>1. \A i \in 1..n_recs : i \in 1..MaxRecs /\ i # n /\ i + 0 = i
    BY <1>1, Naturals DEF n
  <2>2. \A i \in 1..eeprom[h] : Rec(fin, h, s, i) = Rec(eeprom, h, s, i)
    BY <1>11, <1>12, <2>1 DEF Moved
  <2>3. fin[h] = eeprom[h] + 1
    BY <1>11, <1>12 DEF n
  <2> HIDE DEF h, s
  <2> QED BY <1>12, <2>2, <2>3, Appended
<1>14. n = Len(t) + 1
  BY <1>12 DEF n
<1>15. Table(fin, h) \in DBT!AppendRec(n, t)
  <2> HIDE DEF t
  <2> QED BY <1>13, <1>14 DEF DBT!AppendRec
<1>16. n \in 0..(Len(t) + 1)
  BY <1>2, <1>12 DEF n
<1> QED BY <1>1, <1>3, <1>9, <1>11, <1>15, <1>16, CallStep DEF DBT!Effects, fin

LEMMA CellsListed ==
  ASSUME NEW h, NEW s, NEW r, NEW list \in Seq(Cells(h, s, r))
  PROVE  list \in Seq(Addrs \X Bytes)
  BY CellsAreBytes, SeqMonotonic

LEMMA CountListed ==
  ASSUME NEW h \in HeadPtrs, NEW n \in 0..MaxRecs
  PROVE  <<<<h, n>>>> \in Seq(Addrs \X Bytes) /\ Writes(<<<<h, n>>>>) = {<<h, n>>}
<1>1. h \in Addrs /\ n \in Bytes
  BY HeadIsThere, TablesApart, Naturals DEF Bytes
<1> QED BY <1>1, WritesOne

LEMMA DeleteStep ==
  ASSUME DBInv, TableInv, Opened, NEW recno \in Shifted, deleteRec(recno)
  PROVE  TableInv' /\ DBT!Next
<1> DEFINE h == head_ptr
           s == rec_size
           t == Table(eeprom, h)
           n == n_recs - 1
           fin == Settled'
<1>1. Idle /\ Ready /\ RestInv /\ rec_size # 0 /\ n_recs \in 0..MaxRecs
      /\ h \in HeadPtrs /\ s \in RecSizes
  BY OpenReady DEF deleteRec, Begin, Ready
<1>2. eeprom' = eeprom /\ call' = [op |-> "delete", recno |-> recno] /\ before' = Tables(eeprom)
  BY DEF deleteRec, Begin
<1>3. CASE RecnoRefused(recno)
  <2>1. todo' = <<>>
    BY <1>1, <1>3 DEF deleteRec, Idle
  <2> QED BY <1>1, <1>2, <2>1, NoWrites, NoChangeStep
<1>4. CASE ~RecnoRefused(recno)
  <2>1. recno \in 1..n_recs /\ recno \in 1..MaxRecs /\ n \in 0..MaxRecs /\ n_recs \in Nat
    BY <1>1, <1>4, Naturals DEF RecnoRefused, Shifted, Recnos
  <2>2. Dec(n_recs) = n
    <3>1. n_recs - 1 \in 0..(ByteMod - 1)
      BY <1>1, <2>1, TablesApart, Naturals
    <3>2. (n_recs - 1) % ByteMod = n_recs - 1
      BY <3>1, Naturals
    <3> QED BY <3>2 DEF Dec
  <2>3. head_ptr' = head_ptr /\ todo' = ShiftDown(recno) \o <<<<h, n>>>>
    BY <1>4, <2>2 DEF deleteRec, HeadCount
  <2> HIDE DEF n
  <2>4. ShiftDown(recno) \in Seq(Addrs \X Bytes)
        /\ Writes(ShiftDown(recno)) = CopyCells(eeprom, h, s, recno..(n_recs - 1), 1)
    <3>1. ShiftDown(recno) \in Seq(Cells(h, s, recno))
      BY <1>1, <2>1, ShiftDownIn
    <3>2. Copies(ShiftDown(recno), eeprom, h, s, recno..(n_recs - 1), 1)
      BY <1>1, <2>1, DownCopies
    <3> QED BY <3>1, <3>2, CellsListed, WritesCopies, Zenon
  <2>5. <<<<h, n>>>> \in Seq(Addrs \X Bytes) /\ Writes(<<<<h, n>>>>) = {<<h, n>>}
    BY <1>1, <2>1, CountListed
  <2>6. todo' \in Seq(Addrs \X Bytes)
        /\ Writes(todo') = CopyCells(eeprom, h, s, recno..(n_recs - 1), 1) \cup {<<h, n>>}
    <3> DEFINE a == ShiftDown(recno)
               b == <<<<h, n>>>>
               W == Addrs \X Bytes
    <3>1. todo' = a \o b
      BY <2>3
    <3>2. a \in Seq(W) /\ b \in Seq(W) /\ Writes(b) = {<<h, n>>}
          /\ Writes(a) = CopyCells(eeprom, h, s, recno..(n_recs - 1), 1)
      BY <2>4, <2>5
    <3> HIDE DEF a, b, W
    <3>3. a \o b \in Seq(W) /\ Writes(a \o b) = Writes(a) \cup Writes(b)
      BY <3>2, WritesConcat
    <3> QED BY <3>1, <3>2, <3>3 DEF W
  <2>7. ~Idle'
    <3>1. Writes(todo') # {}
      BY <2>6
    <3> QED BY <3>1, WritesOne DEF Idle
  <2>8. CallMakes(recno..(n_recs - 1), 1, 1..(recno - 1), n, {n})
    <3> DEFINE I == recno..(n_recs - 1)
               J == 1..(recno - 1)
    <3>1. CallBegun
      BY <1>1, <1>2, <2>6 DEF CallBegun
    <3>2. CallSets(Writes(todo'), eeprom, h, s, I, 1, {}, 0, {n})
      <4>1. FillCells(h, s, {}, 0) = {}
        BY DEF FillCells
      <4> HIDE DEF I
      <4> QED BY <2>6, <4>1 DEF CallSets, I
    <3>3. CallWrites(recno, 0, {}, I, 1, J, n, {n})
      <4>1. I \in SUBSET (1..MaxRecs) /\ J \in SUBSET (1..MaxRecs)
            /\ (\A i \in I : i + 1 \in 1..MaxRecs) /\ \A i \in J : i \notin I
        BY <1>1, <2>1, Naturals
      <4> HIDE DEF I, J
      <4> QED BY <2>1, <3>2, <4>1 DEF CallWrites
    <3> HIDE DEF I, J
    <3>4. CallMakes(I, 1, J, n, {n})
      BY <3>1, <3>3, CallSettles
    <3> QED BY <3>4 DEF I, J
  <2>9. /\ TableInv' /\ fin \in Memory /\ Clean(fin) /\ fin[h + 1] = s /\ fin[h] = n
        /\ Moved(eeprom, fin, h, s, recno..(n_recs - 1), 1)
        /\ Moved(eeprom, fin, h, s, 1..(recno - 1), 0)
        /\ \A q \in HeadPtrs \ {h} : Table(fin, q) = Table(eeprom, q)
    BY <2>8 DEF CallMakes
  <2> HIDE DEF fin
  <2>10. Fits(eeprom, h, s) /\ Len(t) = n_recs /\ eeprom[h] = n_recs /\ DOMAIN t = 1..n_recs
         /\ Fits(fin, h, s)
    BY <1>1, <2>1, <2>9, OpenFits, Naturals DEF Fits
  <2>11. Table(fin, h) = DBT!RemoveAt(t, recno)
    <3>1. ASSUME NEW i \in 1..(n_recs - 1)
          PROVE  Rec(fin, h, s, i) = IF i < recno THEN Rec(eeprom, h, s, i)
                                     ELSE Rec(eeprom, h, s, i + 1)
      <4>1. CASE i < recno
        <5>1. i \in 1..(recno - 1) /\ i + 0 = i
          BY <2>1, <4>1
        <5> QED BY <2>9, <4>1, <5>1 DEF Moved
      <4>2. CASE ~(i < recno)
        <5>1. i \in recno..(n_recs - 1)
          BY <2>1, <4>2
        <5> QED BY <2>9, <4>2, <5>1 DEF Moved
      <4> QED BY <4>1, <4>2
    <3>2. fin[h] = eeprom[h] - 1 /\ recno \in 1..eeprom[h]
      BY <2>1, <2>9, <2>10 DEF n
    <3> HIDE DEF h, s
    <3> QED BY <2>10, <3>1, <3>2, Removed
  <2>12. Table(fin, h) \in DBT!DeleteRec(recno, t)
    <3> HIDE DEF t
    <3> QED BY <2>1, <2>10, <2>11 DEF DBT!DeleteRec
  <2>13. recno \in 0..(Len(t) + 1)
    BY <2>1, <2>10
  <2> QED BY <1>1, <1>2, <2>3, <2>7, <2>9, <2>12, <2>13, CallStep DEF DBT!Effects, fin
<1> QED BY <1>3, <1>4

LEMMA InsertStep ==
  ASSUME DBInv, TableInv, Room, NEW recno \in Shifted, NEW v \in Values, insert(recno, v)
  PROVE  TableInv' /\ DBT!Next
<1> DEFINE h == head_ptr
           s == rec_size
           t == Table(eeprom, h)
           n == n_recs + 1
           fin == Settled'
           I == (recno + 1)..n
           J == 1..(recno - 1)
<1>1. Idle /\ Ready /\ RestInv /\ rec_size # 0 /\ n_recs \in 0..MaxRecs /\ n_recs < MaxRecs
      /\ h \in HeadPtrs /\ s \in RecSizes
  BY OpenReady DEF insert, Begin, Ready, Room
<1>2. eeprom' = eeprom /\ call' = [op |-> "insert", recno |-> recno] /\ before' = Tables(eeprom)
  BY DEF insert, Begin
<1>3. CASE RecnoRefused(recno)
  <2>1. todo' = <<>>
    BY <1>1, <1>3 DEF insert, Idle
  <2> QED BY <1>1, <1>2, <2>1, NoWrites, NoChangeStep
<1>4. CASE ~RecnoRefused(recno)
  <2>1. recno \in 1..n_recs /\ recno \in 1..MaxRecs /\ n_recs \in Nat /\ recno # 0
    BY <1>1, <1>4, Naturals DEF RecnoRefused, Shifted, Recnos
  <2>2. Inc(n_recs) = n /\ n \in 1..MaxRecs /\ n \in 0..MaxRecs
    BY <1>1, NextCount
  <2>3. head_ptr' = head_ptr
        /\ todo' = (ShiftUp(recno) \o RecBytes(recno, v)) \o <<<<h, n>>>>
    BY <1>4, <2>1, <2>2 DEF insert, HeadCount
  <2>4. ShiftUp(recno) \in Seq(Addrs \X Bytes)
        /\ Writes(ShiftUp(recno)) = CopyCells(eeprom, h, s, I, -1)
    <3>1. ShiftUp(recno) \in Seq(Cells(h, s, recno))
      BY <1>1, <2>1, ShiftUpIn
    <3>2. Copies(ShiftUp(recno), eeprom, h, s, I, -1)
      BY <1>1, <2>1, UpCopies
    <3>3. ShiftUp(recno) \in Seq(Addrs \X Bytes)
      BY <3>1, CellsListed
    <3> HIDE DEF I
    <3>4. Writes(ShiftUp(recno)) = CopyCells(eeprom, h, s, I, -1)
      BY <3>2, WritesCopies
    <3> QED BY <3>3, <3>4
  <2>5. RecBytes(recno, v) \in Seq(Addrs \X Bytes)
        /\ Writes(RecBytes(recno, v)) = FillCells(h, s, {recno}, v)
    <3>1. RecBytes(recno, v) \in Seq(Cells(h, s, recno))
      BY <1>1, <2>1, RecBytesIn, ByteAssumption DEF Bytes
    <3> QED BY <1>1, <2>1, <3>1, CellsListed, WritesRecord
  <2> HIDE DEF I, J
  <2>6. <<<<h, n>>>> \in Seq(Addrs \X Bytes) /\ Writes(<<<<h, n>>>>) = {<<h, n>>}
    BY <1>1, <2>2, CountListed
  <2>7. todo' \in Seq(Addrs \X Bytes)
        /\ Writes(todo') = CopyCells(eeprom, h, s, I, -1) \cup FillCells(h, s, {recno}, v)
                             \cup {<<h, n>>}
    <3> DEFINE a == ShiftUp(recno)
               b == RecBytes(recno, v)
               c == <<<<h, n>>>>
               W == Addrs \X Bytes
    <3>1. todo' = (a \o b) \o c
      BY <2>3
    <3>2. a \in Seq(W) /\ b \in Seq(W) /\ c \in Seq(W)
          /\ Writes(a) = CopyCells(eeprom, h, s, I, -1)
          /\ Writes(b) = FillCells(h, s, {recno}, v) /\ Writes(c) = {<<h, n>>}
      BY <2>4, <2>5, <2>6
    <3> HIDE DEF a, b, c, W
    <3> DEFINE ab == a \o b
    <3>3. ab \in Seq(W) /\ Writes(ab) = Writes(a) \cup Writes(b)
      BY <3>2, WritesConcat
    <3>4. todo' = ab \o c
      BY <3>1
    <3> HIDE DEF ab
    <3>5. ab \o c \in Seq(W) /\ Writes(ab \o c) = Writes(ab) \cup Writes(c)
      <4>1. ab \in Seq(W) /\ c \in Seq(W)
        BY <3>2, <3>3
      <4> QED BY <4>1, WritesConcat
    <3> QED BY <3>2, <3>3, <3>4, <3>5 DEF W
  <2>8. ~Idle'
    <3>1. Writes(todo') # {}
      BY <2>7
    <3> QED BY <3>1, WritesOne DEF Idle
  <2>9. CallMakes(I, -1, J, n, {n})
    <3>1. CallBegun
      BY <1>1, <1>2, <2>7 DEF CallBegun
    <3>2. CallSets(Writes(todo'), eeprom, h, s, I, -1, {recno}, v, {n})
      BY <2>7 DEF CallSets
    <3>3. I \in SUBSET (1..MaxRecs) /\ J \in SUBSET (1..MaxRecs)
          /\ (\A i \in I : i + (-1) \in 1..MaxRecs) /\ (\A i \in J : i \notin I /\ i # recno)
          /\ recno \notin I /\ -1 \in Int
      BY <1>1, <2>1, <2>2, Naturals DEF I, J
    <3>4. CallWrites(recno, v, {recno}, I, -1, J, n, {n})
      BY <2>1, <3>2, <3>3 DEF CallWrites
    <3> QED BY <3>1, <3>4, CallSettles
  <2>10. /\ TableInv' /\ fin \in Memory /\ Clean(fin) /\ fin[h + 1] = s /\ fin[h] = n
         /\ Moved(eeprom, fin, h, s, I, -1) /\ Moved(eeprom, fin, h, s, J, 0)
         /\ \A q \in HeadPtrs \ {h} : Table(fin, q) = Table(eeprom, q)
    BY <2>9 DEF CallMakes
  <2> HIDE DEF fin
  <2>11. Fits(eeprom, h, s) /\ Len(t) = n_recs /\ eeprom[h] = n_recs /\ DOMAIN t = 1..n_recs
         /\ Fits(fin, h, s)
    BY <1>1, <2>2, <2>10, OpenFits, Naturals DEF Fits
  <2>12. \E r \in HalfWritten : Table(fin, h) = DBT!InsertAt(t, recno, r)
    <3>1. ASSUME NEW i \in 1..(n_recs + 1)
          PROVE  /\ i < recno => Rec(fin, h, s, i) = Rec(eeprom, h, s, i)
                 /\ i > recno => Rec(fin, h, s, i) = Rec(eeprom, h, s, i - 1)
      <4>1. i < recno => i \in J /\ i + 0 = i
        BY <2>1 DEF J
      <4>2. i > recno => i \in I /\ i + (-1) = i - 1
        BY <2>1 DEF I
      <4> QED BY <2>10, <4>1, <4>2 DEF Moved
    <3>2. fin[h] = eeprom[h] + 1 /\ recno \in 1..eeprom[h]
      BY <2>1, <2>10, <2>11
    <3> HIDE DEF h, s
    <3> QED BY <2>11, <3>1, <3>2, Inserted
  <2>13. Table(fin, h) \in DBT!InsertRec(recno, t)
    <3> HIDE DEF t
    <3> QED BY <2>1, <2>11, <2>12 DEF DBT!InsertRec
  <2>14. recno \in 0..(Len(t) + 1)
    BY <2>1, <2>11
  <2> QED BY <1>1, <1>2, <2>3, <2>8, <2>10, <2>13, <2>14, CallStep DEF DBT!Effects, fin
<1> QED BY <1>3, <1>4

LEMMA OpenStep ==
  ASSUME DBInv, TableInv, NEW p \in HeadPtrs, open(p)
  PROVE  TableInv' /\ DBT!Next
<1>1. Idle /\ todo' = <<>> /\ eeprom' = eeprom /\ before' = Tables(eeprom)
  BY DEF open, Begin, Idle
<1> QED BY <1>1, NoWrites, NoChangeStep

LEMMA NoRecords ==
  ASSUME NEW mem \in Memory, NEW p \in HeadPtrs, mem[p] = 0
  PROVE  Table(mem, p) = <<>>
<1>1. CASE mem[p + 1] = Erased
  BY <1>1, TableLen
<1>2. CASE mem[p + 1] # Erased
  <2>1. Table(mem, p) \in [1..0 -> {}] /\ 1..0 = {}
    BY <1>2 DEF Table
  <2>2. Table(mem, p) \in Seq({}) /\ Len(Table(mem, p)) = 0
    BY <2>1, ListIs
  <2> QED BY <2>2, EmptySeq
<1> QED BY <1>1, <1>2

LEMMA CreateStep ==
  ASSUME DBInv, TableInv, NEW p \in HeadPtrs, NEW size \in RecSizes, create(p, size)
  PROVE  TableInv' /\ DBT!Next
<1> DEFINE fin == Settled'
           g == [x \in Addrs |-> IF x = p THEN 0 ELSE size]
<1>1. /\ Idle /\ eeprom' = eeprom /\ head_ptr' = p /\ before' = Tables(eeprom)
      /\ call' = [op |-> "create", recno |-> 0] /\ todo' = <<<<p, 0>>, <<p + 1, size>>>>
  BY DEF create, Begin, HeadBytes
<1>2. p \in Addrs /\ p + 1 \in Addrs /\ p \in Nat /\ p # p + 1 /\ p \notin Area
        /\ p + 1 \notin Area
      /\ 0 \in Bytes /\ size \in Bytes
  BY HeadIsThere, HeadNotInArea, Naturals, ByteAssumption DEF Bytes
<1>3. todo' \in Seq(Addrs \X Bytes) /\ ~Idle'
  BY <1>1, <1>2 DEF Idle
<1>4. Writes(todo') = {<<p, 0>>, <<p + 1, size>>}
  <2> DEFINE l == <<<<p, 0>>, <<p + 1, size>>>>
  <2>1. Len(l) = 2 /\ l[1] = <<p, 0>> /\ l[2] = <<p + 1, size>>
    OBVIOUS
  <2> HIDE DEF l
  <2>2. Writes(l) = {l[1], l[2]}
    BY <2>1 DEF Writes
  <2> QED BY <1>1, <2>1, <2>2 DEF l
<1>5. \A w \in Writes(todo') : w[2] = g[w[1]] /\ (w[1] \in Area => w[2] \in Content)
  BY <1>2, <1>4
<1>6. TableInv' /\ Makes(eeprom, Writes(todo'), fin)
  <2>1. call'.op = "create" => call'.recno = 0
    BY <1>1
  <2>2. eeprom' = eeprom /\ before' = Tables(eeprom)
    BY <1>1
  <2> HIDE DEF g
  <2> QED BY <1>1, <1>3, <1>5, <2>1, <2>2, CallBegins
<1>7. fin \in Memory /\ fin[p] = 0 /\ \A x \in Addrs : x # p /\ x # p + 1 => fin[x] = eeprom[x]
  <2> HIDE DEF fin
  <2> QED BY <1>4, <1>6 DEF Makes
<1>8. eeprom \in Memory /\ AllSound(eeprom)
  BY DEF DBInv
<1> HIDE DEF fin
<1>9. Table(fin, p) = <<>>
  BY <1>7, NoRecords
<1>10. ASSUME NEW q \in HeadPtrs \ {p}
       PROVE  Table(fin, q) = Table(eeprom, q)
  <2>1. ASSUME NEW x \in Addrs, x < p \/ End(p, size) <= x
        PROVE  fin[x] = eeprom[x]
    <3>1. End(p, size) = p + 4 + MaxRecs * size /\ MaxRecs * size \in Nat /\ x \in Nat
      BY Naturals DEF End, DB_HEAD_SIZE
    <3>2. x # p /\ x # p + 1
      BY <1>2, <2>1, <3>1
    <3> QED BY <1>7, <3>2
  <2> QED BY <1>7, <1>8, <2>1, OthersSame
<1>11. Table(fin, p) \in DBT!Effects(0, Table(eeprom, p))
  BY <1>9 DEF DBT!Effects, DBT!Create
<1>12. call'.recno = 0 /\ 0 \in 0..(Len(Table(eeprom, p)) + 1)
  <2>1. Len(Table(eeprom, p)) \in Nat
    <3>1. Table(eeprom, p) \in Seq(HalfWritten)
      BY <1>8, TableIsSeq DEF TableInv, AllSound
    <3> QED BY <3>1, LenProperties
  <2> QED BY <1>1, <2>1
<1> QED BY <1>1, <1>3, <1>6, <1>10, <1>11, <1>12, CallStep DEF fin

\* A byte of a record or of a head.
LEMMA ByteKeeps ==
  ASSUME DBInv, DBInv', TableInv, EEPROMWrite
  PROVE  TableInv' /\ Settled' = Settled
<1>1. Settled' = Settled /\ Finishes(eeprom', todo', Settled)
  BY SettledStays DEF TableInv
<1>2. Finishes(eeprom, todo, Settled)' /\ Clean(Settled)'
  BY <1>1 DEF Finishes, Clean, TableInv
<1>3. /\ Len(todo) \in Nat \ {0} /\ eeprom'[todo[1][1]] = todo[1][2]
      /\ \A x \in Addrs : x # todo[1][1] => eeprom'[x] = eeprom[x]
      /\ eeprom' \in Memory
  BY FirstWrite
<1>4. Clean(eeprom)'
  <2>1. Settled[todo[1][1]] = todo[1][2]
    <3>1. 1 \in 1..Len(todo)
      BY <1>3
    <3> QED BY <3>1 DEF TableInv, Finishes
  <2>2. ASSUME NEW x \in Area PROVE eeprom'[x] \in Content
    <3>1. x \in Addrs
      BY DEF Area
    <3>2. eeprom[x] \in Content /\ Settled[x] \in Content
      BY DEF TableInv, Clean
    <3>3. CASE x = todo[1][1]
      BY <1>3, <2>1, <3>2, <3>3
    <3>4. CASE x # todo[1][1]
      BY <1>3, <3>1, <3>2, <3>4
    <3> QED BY <3>3, <3>4
  <2> QED BY <2>2 DEF Clean
<1>5. head_ptr' = head_ptr /\ call' = call /\ before' = before /\ todo' = Tail(todo)
  BY DEF EEPROMWrite, ram
<1>6. ASSUME ~Idle', call.op = "create"
      PROVE  /\ call.recno = 0
             /\ \A q \in HeadPtrs : \/ Table(eeprom', q) = before[q]
                                    \/ q = head_ptr /\ Table(eeprom', q) = <<>>
  <2>1. CreateInv /\ ~Idle
    BY <1>6 DEF DBInv, RunInv, Ops, EEPROMWrite
  <2>2. call.recno = 0 /\ head_ptr \in HeadPtrs /\ eeprom \in Memory /\ AllSound(eeprom)
        /\ \A q \in HeadPtrs : Table(eeprom, q) = before[q] \/ q = head_ptr
    BY <1>6, <2>1 DEF TableInv, CreateInv, DBInv
  <2>3. todo[1] = <<head_ptr, 0>>
    <3>1. ASSUME todo = <<<<head_ptr + 1, rec_size>>>> PROVE FALSE
      <4>1. Len(todo) = 1
        BY <3>1
      <4>2. Len(todo') = Len(todo) - 1 /\ todo' \in Seq(Addrs \X Bytes)
        BY FirstWrite
      <4>3. todo' = <<>>
        BY <4>1, <4>2, EmptySeq
      <4> QED BY <1>6, <4>3 DEF Idle
    <3> QED BY <2>1, <3>1 DEF CreateInv
  <2>4. eeprom'[head_ptr] = 0 /\ \A x \in Addrs : x # head_ptr => eeprom'[x] = eeprom[x]
    BY <1>3, <2>3
  <2>5. Table(eeprom', head_ptr) = <<>>
    BY <1>3, <2>2, <2>4, NoRecords
  <2>6. ASSUME NEW q \in HeadPtrs, q # head_ptr
        PROVE  Table(eeprom', q) = Table(eeprom, q)
    <3>1. PICK s \in RecSizes : TRUE
      BY ByteAssumption
    <3>2. End(head_ptr, s) = head_ptr + 4 + MaxRecs * s /\ MaxRecs * s \in Nat /\ head_ptr \in Nat
      BY <2>2, Naturals DEF End, DB_HEAD_SIZE
    <3>3. \A x \in Addrs : x < head_ptr \/ End(head_ptr, s) <= x => eeprom'[x] = eeprom[x]
      <4>1. \A x \in Addrs : x < head_ptr \/ End(head_ptr, s) <= x => x # head_ptr
        BY <3>2, Naturals
      <4> QED BY <2>4, <4>1
    <3> QED BY <1>3, <2>2, <2>6, <3>3, OthersSame
  <2> QED BY <2>2, <2>5, <2>6
<1>7. TableInv'
  <2>1. before \in [HeadPtrs -> Seq(HalfWritten)]
    BY DEF TableInv
  <2>2. \A q \in HeadPtrs : Table(eeprom, q)' = Table(eeprom', q)
    BY DEF Table
  <2> QED BY <1>2, <1>4, <1>5, <1>6, <2>1, <2>2 DEF TableInv
<1> QED BY <1>1, <1>7

LEMMA ByteStep ==
  ASSUME DBInv, DBInv', TableInv, EEPROMWrite
  PROVE  TableInv' /\ [DBT!Next]_DBT!vars
<1>1. TableInv' /\ Settled' = Settled /\ ~Idle
  BY ByteKeeps DEF EEPROMWrite
<1>2. head_ptr' = head_ptr /\ call' = call /\ before' = before
  BY DEF EEPROMWrite, ram
<1>3. Tables(Settled)' = Tables(Settled)
  BY <1>1 DEF Tables, Table
<1>4. CASE Idle'
  <2>1. DBT!Return
    BY <1>1, <1>2, <1>3, <1>4 DEF DBT!Return
  <2> QED BY <1>1, <2>1 DEF DBT!Next
<1>5. CASE ~Idle'
  BY <1>1, <1>2, <1>3, <1>5 DEF DBT!vars
<1> QED BY <1>4, <1>5

\* The power fails while a call is under way: the tables are as InterruptedKeeps
\* has them, and in the call's own table there are records.
LEMMA InterruptedRun ==
  ASSUME DBInv, TableInv, RunInv, NEW q \in HeadPtrs
  PROVE  /\ Len(Table(eeprom, q)) = Len(before[q]) /\ Len(before[q]) \in Nat
         /\ q # head_ptr => Table(eeprom, q) = before[q]
         /\ \A k \in 1..Len(before[q]) :
              /\ k < call.recno => Table(eeprom, q)[k] = before[q][k]
              /\ Table(eeprom, q)[k] \in HalfWritten
<1> DEFINE t == Table(eeprom, q)
           b == before[q]
<1>1. Len(t) = Len(b)
      /\ \A i \in 1..Len(t) : q # head_ptr \/ i < call.recno => t[i] = b[i]
  BY DEF RunInv, Keeps
<1>2. t \in Seq(HalfWritten) /\ b \in Seq(HalfWritten)
  BY TableIsSeq DEF DBInv, TableInv, AllSound
<1> HIDE DEF t, b
<1>3. Len(b) \in Nat /\ \A k \in 1..Len(t) : t[k] \in HalfWritten
  BY <1>2, LenProperties, ElementOfSeq
<1>4. q # head_ptr => t = b
  <2>1. ASSUME q # head_ptr PROVE \A i \in 1..Len(t) : t[i] = b[i]
    BY <1>1, <2>1
  <2> QED BY <1>1, <1>2, <2>1, SeqEqual
<1>5. \A k \in 1..Len(b) : (k < call.recno => t[k] = b[k]) /\ t[k] \in HalfWritten
  BY <1>1, <1>3
<1> QED BY <1>1, <1>3, <1>4, <1>5 DEF t, b

LEMMA PowerStep ==
  ASSUME DBInv, TableInv, PowerFail
  PROVE  TableInv' /\ DBT!Next
<1>1. todo' = <<>> /\ eeprom' = eeprom /\ before' = Tables(eeprom)
  BY DEF PowerFail
<1>2. TableInv' /\ Settled' = eeprom /\ Idle'
  BY <1>1, NoWrites
<1>3. (IF Idle THEN {} ELSE {<<head_ptr, call.recno>>})' = {}
  BY <1>2
<1>4. Tables(Settled)' = Tables(eeprom)
  BY <1>2 DEF Tables, Table
<1>5. Idle => Tables(Settled) = Tables(eeprom)
  BY SameTables
<1>6. \A q \in HeadPtrs : Tables(Settled)'[q] = Table(eeprom, q)
  BY <1>4 DEF Tables
<1>7. CASE Idle
  <2>1. (IF Idle THEN {} ELSE {<<head_ptr, call.recno>>}) = {}
    BY <1>7
  <2>2. DBT!PowerLoss
    BY <1>1, <1>3, <1>4, <1>5, <1>7, <2>1 DEF DBT!PowerLoss
  <2> QED BY <1>2, <2>2 DEF DBT!Next
<1>8. CASE ~Idle
  <2> DEFINE p == head_ptr
             i == call.recno
             w == Tables(Settled)'
  <2>1. (IF Idle THEN {} ELSE {<<head_ptr, call.recno>>}) = {<<p, i>>}
    BY <1>8
  <2> HIDE DEF p, i
  <2>2. /\ \A q \in HeadPtrs \ {p} : w[q] = before[q]
        /\ \/ i = 0 /\ w[p] = <<>>
           \/ /\ Len(w[p]) = Len(before[p])
              /\ \A k \in 1..Len(before[p]) :
                   IF k < i \/ i = 0 THEN w[p][k] = before[p][k]
                   ELSE w[p][k] \in HalfWritten
    <3> HIDE DEF w
    <3>1. \A q \in HeadPtrs : w[q] = Table(eeprom, q)
      BY <1>6 DEF w
    <3>2. CASE CreateInv
      <4>1. i = 0 /\ p \in HeadPtrs
            /\ \A q \in HeadPtrs :
                 Table(eeprom, q) = before[q] \/ (q = p /\ Table(eeprom, q) = <<>>)
        BY <1>8, <3>2 DEF CreateInv, TableInv, p, i
      <4> QED BY <3>1, <4>1
    <3>3. CASE RunInv
      <4>1. i \in Nat \ {0} /\ p \in HeadPtrs
        BY <3>3 DEF RunInv, p, i
      <4>2. \A q \in HeadPtrs :
              /\ Len(w[q]) = Len(before[q])
              /\ q # p => w[q] = before[q]
              /\ \A k \in 1..Len(before[q]) : (k < i => w[q][k] = before[q][k])
                                             /\ w[q][k] \in HalfWritten
        BY <3>1, <3>3, InterruptedRun DEF p, i
      <4> QED BY <4>1, <4>2
    <3> QED BY <1>8, <3>2, <3>3 DEF DBInv
  <2>3. DBT!PowerLoss
    <3> HIDE DEF w
    <3>1. before' = w
      BY <1>1, <1>4 DEF w
    <3>2. \A c \in {<<p, i>>} : c[1] = p /\ c[2] = i
      OBVIOUS
    <3>3. {<<p, i>>} # {}
      OBVIOUS
    <3> QED BY <1>3, <2>1, <2>2, <3>1, <3>2, <3>3, Zenon DEF DBT!PowerLoss, w
  <2> QED BY <1>2, <2>3 DEF DBT!Next
<1> QED BY <1>7, <1>8

LEMMA TableInit == Init => TableInv /\ DBT!Init
<1> SUFFICES ASSUME Init PROVE TableInv /\ DBT!Init
  OBVIOUS
<1>1. todo = <<>> /\ Idle /\ before = Tables(eeprom) /\ call.op # "create"
  BY DEF Init, Idle
<1>2. DBInv
  BY InvInit
<1>3. \A x \in Addrs : eeprom[x] = Erased
  BY DEF Init
<1>4. Settled = eeprom
  BY <1>1 DEF Settled
<1>5. eeprom \in Memory /\ AllSound(eeprom)
  BY <1>2 DEF DBInv
<1>6. Clean(eeprom)
  BY <1>3 DEF Clean, Area, Content
<1>7. Finishes(eeprom, todo, Settled)
  BY <1>1, <1>4, <1>5 DEF Finishes
<1>8. TableInv
  <2>1. before \in [HeadPtrs -> Seq(HalfWritten)]
    BY <1>1, <1>5, <1>6, TablesAreSeqs
  <2> QED BY <1>1, <1>4, <1>6, <1>7, <2>1 DEF TableInv
<1>9. DBT!Init
  <2>1. \A p \in HeadPtrs : Table(eeprom, p) = <<>>
    BY <1>3, <1>5, HeadIsThere, TableLen
  <2>2. Tables(Settled) = [p \in HeadPtrs |-> <<>>]
    BY <1>4, <2>1 DEF Tables
  <2> QED BY <1>1, <1>4, <2>2 DEF DBT!Init
<1> QED BY <1>8, <1>9

LEMMA StutterStep ==
  ASSUME TableInv, UNCHANGED vars
  PROVE  TableInv' /\ UNCHANGED DBT!vars
<1>1. eeprom' = eeprom /\ todo' = todo /\ call' = call /\ before' = before
      /\ head_ptr' = head_ptr /\ (Idle' <=> Idle)
  BY DEF vars, ram, Idle
<1>2. Settled' = Settled
  BY <1>1, SettledIs
<1>3. Tables(Settled)' = Tables(Settled)
  BY <1>2 DEF Tables, Table
<1>4. \A q \in HeadPtrs : Table(eeprom, q)' = Table(eeprom, q)
  BY <1>1 DEF Table
<1>5. Finishes(eeprom, todo, Settled)' /\ Clean(eeprom)' /\ Clean(Settled)'
  BY <1>1, <1>2 DEF TableInv, Finishes, Clean
<1>6. TableInv'
  BY <1>1, <1>4, <1>5 DEF TableInv
<1>7. UNCHANGED DBT!vars
  BY <1>1, <1>3 DEF DBT!vars
<1> QED BY <1>6, <1>7

LEMMA TableNext ==
  ASSUME DBInv, DBInv', TableInv, [Next]_vars
  PROVE  TableInv' /\ [DBT!Next]_DBT!vars
<1>1. CASE EEPROMWrite
  BY <1>1, ByteStep
<1>2. CASE PowerFail
  BY <1>2, PowerStep
<1>3. CASE \E p \in HeadPtrs : open(p) \/ (\E size \in RecSizes : create(p, size))
  BY <1>3, OpenStep, CreateStep
<1>4. CASE \E recno \in Recnos, v \in Values :
             Opened /\ (recno = n_recs + 1 => Room) /\ write(recno, v)
  BY <1>4, WriteStep
<1>5. CASE \E recno \in Shifted, v \in Values : Room /\ insert(recno, v)
  BY <1>5, InsertStep
<1>6. CASE \E recno \in Shifted : Opened /\ deleteRec(recno)
  BY <1>6, DeleteStep
<1>7. CASE \E v \in Values : Room /\ append(v)
  BY <1>7, AppendStep
<1>8. CASE UNCHANGED vars
  BY <1>8, StutterStep
<1> QED BY <1>1, <1>2, <1>3, <1>4, <1>5, <1>6, <1>7, <1>8 DEF Next

\* For a caller that opens a table before use and keeps to its space, and tables of any
\* number, size and place: the library is a set of sequences that every call changes
\* at once, and only there; a power failure in a call costs no more than the records
\* from the one that the call named on.
THEOREM TableImplemented == Spec => ImplementsTable
<1>1. DBInv /\ [Next]_vars => DBInv'
  BY InvNext
<1>2. DBInv /\ DBInv' /\ TableInv /\ [Next]_vars => TableInv' /\ [DBT!Next]_DBT!vars
  BY TableNext
<1> QED BY <1>1, <1>2, InvInit, TableInit, PTL DEF Spec, ImplementsTable, DBT!Spec
=============================================================================
