------------------------------ MODULE DBTable -------------------------------
(***************************************************************************)
(* What the EEPROM record library promises its caller: every head address  *)
(* holds a table, a sequence of records numbered from 1; a call changes    *)
(* the table it is about at once, and no other.  Only when the power fails *)
(* before the call returns does it show that a call takes time: then the   *)
(* table has its old length and the old records in front of the one the    *)
(* call named, and any records from there on.                              *)
(***************************************************************************)
EXTENDS Naturals, Sequences, SequencesExt

CONSTANTS
  HeadPtrs,     \* the head addresses in use
  Records       \* what a record can hold, half-written ones included

VARIABLES
  tables,       \* the tables
  old,          \* the tables when the last call began
  busy          \* the call in progress: at most one pair <<head address, record>>

vars == <<tables, old, busy>>

Init == tables = [p \in HeadPtrs |-> <<>>] /\ old = tables /\ busy = {}

\* What a call that writes nothing before record i may make of a table t.  write()
\* also takes the number after the last record; that does not become a record.
Create(i, t)    == IF i = 0 THEN {<<>>} ELSE {}
AppendRec(i, t) == IF i = Len(t) + 1 THEN {Append(t, r) : r \in Records} ELSE {}
WriteRec(i, t)  == IF i \in DOMAIN t THEN {[t EXCEPT ![i] = r] : r \in Records}
                   ELSE IF i = Len(t) + 1 THEN {t} ELSE {}
InsertRec(i, t) == IF i \in DOMAIN t THEN {InsertAt(t, i, r) : r \in Records} ELSE {}
DeleteRec(i, t) == IF i \in DOMAIN t THEN {RemoveAt(t, i)} ELSE {}

Effects(i, t) ==
  Create(i, t) \cup AppendRec(i, t) \cup WriteRec(i, t) \cup InsertRec(i, t) \cup DeleteRec(i, t)

Call(p, i) ==
  /\ busy = {} /\ busy' = {<<p, i>>}
  /\ tables'[p] \in Effects(i, tables[p])
  /\ \A q \in HeadPtrs \ {p} : tables'[q] = tables[q]
  /\ old' = tables

\* open(), or a call with a record number that does not exist.
NoChange == busy = {} /\ old' = tables /\ UNCHANGED <<tables, busy>>

Return == busy # {} /\ busy' = {} /\ UNCHANGED <<tables, old>>

PowerLoss ==
  /\ busy' = {} /\ old' = tables'
  /\ busy = {} => tables' = tables
  /\ \A call \in busy :
       LET p == call[1]
           i == call[2] IN
       /\ \A q \in HeadPtrs \ {p} : tables'[q] = old[q]
       /\ \/ i = 0 /\ tables'[p] = <<>>
          \/ /\ Len(tables'[p]) = Len(old[p])
             /\ \A k \in 1..Len(old[p]) :
                  IF k < i \/ i = 0 THEN tables'[p][k] = old[p][k]
                  ELSE tables'[p][k] \in Records

Next ==
  \/ \E p \in HeadPtrs : \E i \in 0..(Len(tables[p]) + 1) : Call(p, i)
  \/ NoChange \/ Return \/ PowerLoss

Spec == Init /\ [][Next]_vars
=============================================================================
