-------------------------------- MODULE DB ----------------------------------
(***************************************************************************)
(* The EEPROM record library (libraries/DB).                               *)
(*                                                                         *)
(* A table is a two-byte header (number of records, record size) at its    *)
(* head address, two bytes of padding and the records one after another.   *)
(* A call computes in RAM and then writes the EEPROM byte by byte: todo is *)
(* what it has not written yet, and the power may fail between two bytes.  *)
(* The bytes that deleteRec() and insert() move are read before any write  *)
(* can reach them, so the whole list is known when the call begins.        *)
(***************************************************************************)
EXTENDS Integers, Sequences, FiniteSetsExt

CONSTANTS
  ByteMod,      \* a byte counts modulo ByteMod (256)
  EEPROMSize,   \* the EEPROM's bytes; addresses wrap around
  HeadPtrs,     \* head addresses the caller uses
  RecSizes,     \* record sizes the caller uses
  Values,       \* a record is some value, repeated in each of its bytes
  MaxRecs,      \* the caller keeps no more records in a table
  PowerFails    \* may the power fail?

ASSUME ByteAssumption ==
  /\ ByteMod \in Nat \ {0, 1} /\ EEPROMSize \in Nat \ {0}
  /\ Values \subseteq 0..(ByteMod - 1) /\ RecSizes \subseteq 1..(ByteMod - 2)
  /\ RecSizes # {} /\ MaxRecs \in Nat /\ PowerFails \in BOOLEAN
ASSUME TablesFit ==
  \A p \in HeadPtrs : p \in Nat /\ \A s \in RecSizes : p + 4 + MaxRecs * s <= EEPROMSize
\* The caller sets a space aside for each table, and a byte counts its records.
ASSUME TablesApart ==
  /\ MaxRecs < ByteMod
  /\ \A p, q \in HeadPtrs : p < q => \A s \in RecSizes : p + 4 + MaxRecs * s <= q

VARIABLES
  eeprom,               \* the EEPROM, byte by byte
  head_ptr, tbl_ptr,    \* DB_head_ptr, DB_tbl_ptr
  n_recs, rec_size,     \* DB_head, in RAM
  error,                \* DB_error
  todo,                 \* the EEPROM writes that the running call still has to do
  call, before          \* history: the last call, and the tables when it began

ram  == <<head_ptr, tbl_ptr, n_recs, rec_size>>
vars == <<eeprom, ram, error, todo, call, before>>

Bytes  == 0..(ByteMod - 1)
Erased == ByteMod - 1
Addrs  == 0..(EEPROMSize - 1)
DB_HEAD_SIZE == 4

\* The table at p as open(p) and read() find it in memory mem.
Table(mem, p) ==
  LET size == mem[p + 1] IN
  IF size = Erased THEN <<>>
  ELSE [i \in 1..mem[p] |->
          [b \in 1..size |-> mem[(p + DB_HEAD_SIZE + (i - 1) * size + b - 1) % EEPROMSize]]]
Tables(mem) == [p \in HeadPtrs |-> Table(mem, p)]

Idle == todo = <<>>

\* The EEPROM when the running call has done all its writes.
Settled ==
  IF Idle THEN eeprom
  ELSE LET writes(a) == {k \in DOMAIN todo : todo[k][1] % EEPROMSize = a}
           hit == {todo[k][1] % EEPROMSize : k \in DOMAIN todo} IN
       [a \in Addrs |-> IF a \in hit THEN todo[Max(writes(a))][2] ELSE eeprom[a]]

Opened == tbl_ptr = head_ptr + DB_HEAD_SIZE /\ rec_size # 0

TypeOK ==
  /\ eeprom \in [Addrs -> Bytes]
  /\ head_ptr \in HeadPtrs \cup {0}
  /\ tbl_ptr \in {p + DB_HEAD_SIZE : p \in HeadPtrs} \cup {0}
  /\ n_recs \in Bytes /\ rec_size \in Bytes
  /\ error \in BOOLEAN
  /\ todo \in Seq(Addrs \X Bytes)
  /\ call \in [op : {"none", "create", "open", "write", "delete", "insert", "append"},
               recno : Nat]

-----------------------------------------------------------------------------
Init ==
  /\ eeprom = [a \in Addrs |-> Erased]
  /\ head_ptr = 0 /\ tbl_ptr = 0 /\ n_recs = 0 /\ rec_size = 0
  /\ error = FALSE /\ todo = <<>>
  /\ call = [op |-> "none", recno |-> 0]
  /\ before = Tables(eeprom)

\* A call begins when the previous one has returned.
Begin(op, recno) ==
  /\ Idle
  /\ call' = [op |-> op, recno |-> recno]
  /\ before' = Tables(eeprom)

\* EEPROM.write() of one byte.
EEPROMWrite ==
  /\ ~Idle
  /\ eeprom' = [eeprom EXCEPT ![todo[1][1] % EEPROMSize] = todo[1][2]]
  /\ todo' = Tail(todo)
  /\ UNCHANGED <<ram, error, call, before>>

\* The power fails and returns; RAM starts as zeros, the call is lost.
PowerFail ==
  /\ PowerFails
  /\ head_ptr' = 0 /\ tbl_ptr' = 0 /\ n_recs' = 0 /\ rec_size' = 0
  /\ error' = FALSE /\ todo' = <<>>
  /\ call' = [op |-> "none", recno |-> 0]
  /\ before' = Tables(eeprom)
  /\ UNCHANGED eeprom

-----------------------------------------------------------------------------
\* writeHead(): the header, field by field.
HeadBytes(p, n, size) == <<<<p, n>>, <<p + 1, size>>>>

create(p, size) ==
  /\ Begin("create", 0)
  /\ head_ptr' = p /\ n_recs' = 0 /\ rec_size' = size
  /\ todo' = HeadBytes(p, 0, size)
  /\ UNCHANGED <<eeprom, tbl_ptr, error>>

\* readHead(); the caller opens what was created.
open(p) ==
  /\ Begin("open", 0)
  /\ eeprom[p + 1] # Erased
  /\ head_ptr' = p /\ tbl_ptr' = p + DB_HEAD_SIZE
  /\ n_recs' = eeprom[p] /\ rec_size' = eeprom[p + 1]
  /\ UNCHANGED <<eeprom, error, todo>>

\* Mutant: the record before.
Mut_RecordBefore(recno) == tbl_ptr + (recno - 2) * rec_size

RecAddr(recno) == tbl_ptr + (recno - 1) * rec_size

\* EEPROM_dbWrite(): the bytes of one record, in order.
RecBytes(recno, v) == [b \in 1..rec_size |-> <<RecAddr(recno) + b - 1, v>>]

\* The guard of write(); n is the number of records at that moment.
MayWrite(recno, n) == recno > 0 /\ recno <= n + 1
RecnoRefused(recno) == recno > n_recs

\* deleteRec() copies record i over record i - 1, i from recno + 1 up.  write()
\* refuses the copy to record 0.
ShiftDown(recno) ==
  LET first == IF recno = 0 THEN 2 ELSE recno + 1 IN
  [k \in 1..((IF n_recs < first THEN 0 ELSE n_recs - first + 1) * rec_size) |->
     <<RecAddr(first - 1) + k - 1,
       eeprom[(RecAddr(first) + k - 1) % EEPROMSize]>>]

\* insert() copies record i over record i + 1, i from n_recs down to recno.  With
\* recno = 0 the last copy puts what the buffer holds into record 1: record 1
\* itself, or in an empty table whatever malloc() returned.
\* (Mutant: from recno up, so that every record becomes the first one copied.)
Mut_ShiftUpAscending(recno) ==
  [k \in 1..((n_recs - recno + 1) * rec_size) |->
     <<RecAddr(recno + 1) + k - 1,
       eeprom[(RecAddr(recno) + ((k - 1) % rec_size)) % EEPROMSize]>>]
ShiftUp(recno) ==
  LET last == IF recno = 0 THEN 1 ELSE recno IN
  [k \in 1..((IF n_recs < last THEN 0 ELSE n_recs - last + 1) * rec_size) |->
     LET i == n_recs - ((k - 1) \div rec_size)
         b == (k - 1) % rec_size IN
     <<RecAddr(i + 1) + b, eeprom[(RecAddr(i) + b) % EEPROMSize]>>]

HeadCount(n) == <<<<head_ptr, n>>>>
Inc(n) == (n + 1) % ByteMod
Dec(n) == (n - 1) % ByteMod

\* write(): replaces a record, or fills the one after the last without counting it.
write(recno, v) ==
  /\ Begin("write", recno)
  /\ error' = ~MayWrite(recno, n_recs)
  /\ todo' = IF MayWrite(recno, n_recs) THEN RecBytes(recno, v) ELSE <<>>
  /\ UNCHANGED <<eeprom, ram>>

deleteRec(recno) ==
  /\ Begin("delete", recno)
  /\ IF RecnoRefused(recno)
     THEN error' = TRUE /\ UNCHANGED <<ram, todo>>
     ELSE /\ error' = (recno = 0 /\ n_recs = 1)
          /\ n_recs' = Dec(n_recs)
          /\ todo' = ShiftDown(recno) \o HeadCount(Dec(n_recs))
          /\ UNCHANGED <<head_ptr, tbl_ptr, rec_size>>
  /\ UNCHANGED eeprom

insert(recno, v) ==
  /\ Begin("insert", recno)
  /\ IF RecnoRefused(recno)
     THEN error' = TRUE /\ UNCHANGED <<ram, todo>>
     ELSE /\ error' = (recno = 0)
          /\ n_recs' = Inc(n_recs)
          /\ \E junk \in Values :
               todo' = ShiftUp(recno)
                         \o (IF recno # 0 THEN RecBytes(recno, v)
                             ELSE IF n_recs = 0 THEN RecBytes(1, junk) ELSE <<>>)
                         \o HeadCount(Inc(n_recs))
          /\ UNCHANGED <<head_ptr, tbl_ptr, rec_size>>
  /\ UNCHANGED eeprom

append(v) ==
  /\ Begin("append", Inc(n_recs))
  /\ n_recs' = Inc(n_recs)
  /\ error' = ~MayWrite(n_recs', n_recs')
  /\ todo' = (IF MayWrite(n_recs', n_recs') THEN RecBytes(n_recs', v) ELSE <<>>)
               \o HeadCount(n_recs')
  /\ UNCHANGED <<eeprom, head_ptr, tbl_ptr, rec_size>>

-----------------------------------------------------------------------------
\* The caller opens a table before use, keeps to the space set aside for it, and
\* never asks insert() or deleteRec() for record 0, which their check lets pass.
Room    == Opened /\ n_recs < MaxRecs
Recnos  == 0..(MaxRecs + 1)
Shifted == Recnos \ {0}

Next ==
  \/ EEPROMWrite \/ PowerFail
  \/ \E p \in HeadPtrs : open(p) \/ (\E size \in RecSizes : create(p, size))
  \/ \E recno \in Recnos, v \in Values :
       Opened /\ (recno = n_recs + 1 => Room) /\ write(recno, v)
  \/ \E recno \in Shifted, v \in Values : Room /\ insert(recno, v)
  \/ \E recno \in Shifted : Opened /\ deleteRec(recno)
  \/ \E v \in Values : Room /\ append(v)

Spec == Init /\ [][Next]_vars

-----------------------------------------------------------------------------
(* Properties                                                              *)

\* Whenever the power fails during a call, the other tables are as they were, and
\* the one the call is about has its old length and all the records before the one
\* the call names: an interrupted append is as if it had not begun.
InterruptedKeeps ==
  ~Idle /\ call.op \in {"write", "delete", "insert", "append"} =>
    \A p \in HeadPtrs :
      LET now == Table(eeprom, p) IN
      /\ Len(now) = Len(before[p])
      /\ \A i \in 1..Len(now) : p # head_ptr \/ i < call.recno => now[i] = before[p][i]

\* For such a caller the library is a set of sequences that every call updates
\* at once, or leaves alone when it refuses; a power failure during a call costs at
\* most the records from the one it named on.
HalfWritten == UNION {[1..size -> Values \cup {Erased}] : size \in RecSizes}
DBT == INSTANCE DBTable WITH
  Records <- HalfWritten,
  tables  <- Tables(Settled),
  old     <- before,
  busy    <- IF Idle THEN {} ELSE {<<head_ptr, call.recno>>}
ImplementsTable == DBT!Spec
=============================================================================
