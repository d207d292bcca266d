------------------------- MODULE SharedMemoryProofs -------------------------
(***************************************************************************)
(* Theorems about the two parts whose programs share memory without a      *)
(* lock.  The database logger, for every number of tables, rows and        *)
(* failures: which rows can be lost, and in which order the others are     *)
(* stored.  The fault injector, for every set of command lines and any     *)
(* number of faults: its count is never ahead of the faults on the bus.    *)
(***************************************************************************)
EXTENDS DiagLogger, FaultInject, DataLemmas

-----------------------------------------------------------------------------
(* The database logger.                                                    *)

USE LoggerAssumption DEF LoggerAssumption

Labels == {"idle", "table", "insert", "clear", "shut", "dead"}
Row == 1..MaxRows

\* Thread p is within _flush.
Active(p) == pc[p] \in {"table", "insert", "clear"}

\* A buffer holds rows that were logged, at most as many as were.
BufInv ==
    \A t \in Tables :
       /\ Len(buf[t]) <= count[t]
       /\ \A i \in DOMAIN buf[t] : buf[t][i] <= count[t]

\* Where the threads can be: only shutdown lets two of them flush at a time,
\* and before it the iterator of executemany is within its list.
FlushersInv ==
    /\ \A p \in Flushers : pc[p] \in {"insert", "clear"} => tbl[p] \in Tables
    /\ overlap => ~Running
    /\ ~conn => ~Running
    /\ ~overlap /\ ~Running => pc["worker"] \in {"idle", "dead"}
    /\ Running /\ pc["worker"] = "insert" => pos["worker"] <= Len(buf[tbl["worker"]]) + 1

\* What close() has flushed stays empty: nothing is logged any more.
DrainedInv ==
    /\ Active("close") => \A t \in Tables : t < tbl["close"] => buf[t] = <<>>
    /\ pc["close"] = "shut" => \A t \in Tables : buf[t] = <<>> /\ txn[t] = <<>>

-----------------------------------------------------------------------------
\* The tables, one by one.
LEMMA TableFacts ==
    ASSUME TypeOK, NEW t \in Tables
    PROVE  /\ buf[t] \in Seq(Row) /\ txn[t] \in Seq(Row) /\ db[t] \in Seq(Row)
           /\ count[t] \in 0..MaxRows
           /\ Len(buf[t]) \in Nat /\ DOMAIN buf[t] = 1..Len(buf[t])
           /\ Len(txn[t]) \in Nat /\ DOMAIN txn[t] = 1..Len(txn[t])
<1>1. /\ buf[t] \in Seq(Row) /\ txn[t] \in Seq(Row) /\ db[t] \in Seq(Row)
      /\ count[t] \in 0..MaxRows
  BY DEF TypeOK, RowSeqs, Row
<1> QED BY <1>1, LenProperties

\* Where a Goto leaves the threads.
LEMMA GotoFacts ==
    ASSUME TypeOK, NEW p \in Flushers, NEW l \in Labels,
           NEW t \in 1..(NTables + 1), NEW r \in 1..(MaxRows + 1), Goto(p, l, t, r)
    PROVE  /\ pc' \in [Flushers -> Labels]
           /\ tbl' \in [Flushers -> 1..(NTables + 1)]
           /\ pos' \in [Flushers -> 1..(MaxRows + 1)]
           /\ pc'[p] = l /\ tbl'[p] = t /\ pos'[p] = r
           /\ \A q \in Flushers : q /= p => pc'[q] = pc[q] /\ tbl'[q] = tbl[q] /\ pos'[q] = pos[q]
BY DEF TypeOK, Goto, Labels

\* The threads, one by one.
LEMMA ThreadFacts ==
    ASSUME TypeOK, FlushersInv, NEW p \in Flushers
    PROVE  /\ pc[p] \in Labels /\ tbl[p] \in 1..(NTables + 1) /\ pos[p] \in 1..(MaxRows + 1)
           /\ pc[p] \in {"insert", "clear"} => tbl[p] \in Tables
BY DEF TypeOK, FlushersInv, Labels

\* The start and the end of the tables and rows are within range.
LEMMA Ends ==
    /\ 1 \in 1..(NTables + 1) /\ NTables + 1 \in 1..(NTables + 1) /\ 1 \in 1..(MaxRows + 1)
    /\ Flushers = {"worker", "close"}
    /\ \A t \in Tables : t + 1 \in 1..(NTables + 1)
    /\ Empty \in RowSeqs /\ \A t \in Tables : Empty[t] = <<>>
<1>1. <<>> \in Seq(1..MaxRows)
  BY EmptySeq
<1> QED BY <1>1 DEF Flushers, Tables, Empty, RowSeqs

\* Without an overlap, a thread in _flush is alone there.
LEMMA Alone ==
    ASSUME TypeOK, FlushersInv, ~overlap, NEW p \in Flushers, Active(p), NEW q \in Flushers, q /= p
    PROVE  ~Active(q)
BY DEF FlushersInv, Active, Flushers, Running

-----------------------------------------------------------------------------
\* A step of a thread within the flush, and where it goes.
LEMMA StepGoes ==
    ASSUME TypeOK, BufInv, FlushersInv, NEW p \in Flushers, FlushStep(p) \/ FlushFails(p)
    PROVE  /\ Active(p)
           /\ \E l \in Labels, t \in 1..(NTables + 1), r \in 1..(MaxRows + 1) :
                 /\ Goto(p, l, t, r)
                 /\ l \in {"insert", "clear"} => t \in Tables
                 /\ l = "insert" => r <= Len(buf'[t]) + 1
                 /\ p = "close" => l /= "idle"
<1> DEFINE Goes(l, t, r) ==
             /\ l \in Labels /\ t \in 1..(NTables + 1) /\ r \in 1..(MaxRows + 1)
             /\ Goto(p, l, t, r)
             /\ l \in {"insert", "clear"} => t \in Tables
             /\ l = "insert" => r <= Len(buf'[t]) + 1
             /\ p = "close" => l /= "idle"
<1> SUFFICES Active(p) /\ \E l, t, r : Goes(l, t, r)
  OBVIOUS
<1>1. CASE NextTable(p)
  <2>1. /\ tbl[p] \in Tables /\ tbl[p] \in 1..(NTables + 1) /\ tbl[p] + 1 \in 1..(NTables + 1)
        /\ Active(p) /\ "table" \in Labels /\ "insert" \in Labels /\ 1 \in 1..(MaxRows + 1)
    BY <1>1, ThreadFacts, Ends DEF NextTable, Tables, Active, Labels
  <2>2. 1 <= Len(buf'[tbl[p]]) + 1
    BY <1>1, <2>1, TableFacts DEF NextTable, rows
  <2>3. CASE buf[tbl[p]] = <<>>
    <3>1. Goto(p, "table", tbl[p] + 1, 1)
      BY <1>1, <2>3 DEF NextTable
    <3>2. Goes("table", tbl[p] + 1, 1)
      BY <2>1, <3>1
    <3> QED BY <2>1, <3>2
  <2>4. CASE buf[tbl[p]] /= <<>>
    <3>1. Goto(p, "insert", tbl[p], 1)
      BY <1>1, <2>4 DEF NextTable
    <3>2. Goes("insert", tbl[p], 1)
      BY <2>1, <2>2, <3>1
    <3> QED BY <2>1, <3>2
  <2> QED BY <2>3, <2>4
<1>2. CASE InsertRow(p)
  <2>1. /\ tbl[p] \in Tables /\ tbl[p] \in 1..(NTables + 1) /\ pos[p] \in 1..(MaxRows + 1)
        /\ Active(p) /\ "insert" \in Labels
    BY <1>2, ThreadFacts DEF InsertRow, Active, Labels
  <2>2. /\ buf' = buf /\ pos[p] <= Len(buf[tbl[p]]) /\ Len(buf[tbl[p]]) \in Nat
        /\ Len(buf[tbl[p]]) <= count[tbl[p]] /\ count[tbl[p]] \in 0..MaxRows
    BY <1>2, <2>1, TableFacts DEF InsertRow, BufInv
  <2>3. pos[p] + 1 \in 1..(MaxRows + 1) /\ pos[p] + 1 <= Len(buf'[tbl[p]]) + 1
    <3>1. \A i \in 1..(MaxRows + 1), n \in Nat, m \in 0..MaxRows :
             i <= n /\ n <= m => i + 1 \in 1..(MaxRows + 1) /\ i + 1 <= n + 1
      OBVIOUS
    <3>2. buf'[tbl[p]] = buf[tbl[p]]
      BY <2>2
    <3> QED BY <2>1, <2>2, <3>1, <3>2
  <2>4. Goto(p, "insert", tbl[p], pos[p] + 1)
    BY <1>2 DEF InsertRow
  <2>5. Goes("insert", tbl[p], pos[p] + 1)
    BY <2>1, <2>3, <2>4
  <2> QED BY <2>1, <2>5
<1>3. CASE InsertedAll(p)
  <2>1. /\ tbl[p] \in Tables /\ tbl[p] \in 1..(NTables + 1) /\ 1 \in 1..(MaxRows + 1)
        /\ Active(p) /\ "clear" \in Labels /\ Goto(p, "clear", tbl[p], 1)
    BY <1>3, ThreadFacts, Ends DEF InsertedAll, Active, Labels
  <2>2. Goes("clear", tbl[p], 1)
    BY <2>1
  <2> QED BY <2>1, <2>2
<1>4. CASE Clear(p)
  <2>1. /\ tbl[p] \in Tables /\ tbl[p] + 1 \in 1..(NTables + 1) /\ 1 \in 1..(MaxRows + 1)
        /\ Active(p) /\ "table" \in Labels /\ Goto(p, "table", tbl[p] + 1, 1)
    BY <1>4, ThreadFacts, Ends DEF Clear, Active, Labels
  <2>2. Goes("table", tbl[p] + 1, 1)
    BY <2>1
  <2> QED BY <2>1, <2>2
<1>5. CASE Commit(p)
  <2>1. /\ Active(p) /\ Goto(p, IF p = "close" THEN "shut" ELSE "idle", 1, 1)
        /\ (IF p = "close" THEN "shut" ELSE "idle") \in Labels \ {"insert", "clear"}
        /\ 1 \in 1..(NTables + 1) /\ 1 \in 1..(MaxRows + 1)
    BY <1>5, Ends DEF Commit, FlushReturns, Active, Labels
  <2>2. Goes(IF p = "close" THEN "shut" ELSE "idle", 1, 1)
    BY <2>1
  <2> QED BY <2>1, <2>2
<1>6. CASE FlushFails(p)
  <2>1. /\ Active(p) /\ "dead" \in Labels /\ Goto(p, "dead", 1, 1)
        /\ 1 \in 1..(NTables + 1) /\ 1 \in 1..(MaxRows + 1)
    BY <1>6, Ends DEF FlushFails, Active, Labels
  <2>2. Goes("dead", 1, 1)
    BY <2>1
  <2> QED BY <2>1, <2>2
<1> QED BY <1>1, <1>2, <1>3, <1>4, <1>5, <1>6 DEF FlushStep

\* A row appended to a buffer is one that was just counted.
LEMMA LogFacts ==
    ASSUME TypeOK, BufInv, NEW t \in Tables, Log(t)
    PROVE  /\ Running /\ count[t] + 1 \in Row
           /\ count' \in [Tables -> 0..MaxRows] /\ buf' \in RowSeqs
           /\ count'[t] = count[t] + 1 /\ buf'[t] = Append(buf[t], count[t] + 1)
           /\ \A u \in Tables : u /= t => count'[u] = count[u] /\ buf'[u] = buf[u]
           /\ Len(buf'[t]) = Len(buf[t]) + 1 /\ DOMAIN buf'[t] = 1..(Len(buf[t]) + 1)
           /\ \A i \in DOMAIN buf[t] : buf'[t][i] = buf[t][i]
           /\ buf'[t][Len(buf[t]) + 1] = count[t] + 1
<1>1. count[t] + 1 \in Row /\ count[t] + 1 \in 0..MaxRows
  BY TableFacts DEF Log, Row
<1>2. /\ Append(buf[t], count[t] + 1) \in Seq(Row)
      /\ Len(Append(buf[t], count[t] + 1)) = Len(buf[t]) + 1
      /\ DOMAIN Append(buf[t], count[t] + 1) = 1..(Len(buf[t]) + 1)
      /\ \A i \in DOMAIN buf[t] : Append(buf[t], count[t] + 1)[i] = buf[t][i]
      /\ Append(buf[t], count[t] + 1)[Len(buf[t]) + 1] = count[t] + 1
  BY <1>1, TableFacts, AppendFacts
<1>3. /\ buf' = [buf EXCEPT ![t] = Append(buf[t], count[t] + 1)]
      /\ count' = [count EXCEPT ![t] = count[t] + 1]
      /\ Running
  BY DEF Log
<1>4. buf \in [Tables -> Seq(Row)] /\ count \in [Tables -> 0..MaxRows]
  BY DEF TypeOK, RowSeqs, Row
<1>5. buf'[t] = Append(buf[t], count[t] + 1)
  BY <1>3, <1>4
<1>6. buf' \in RowSeqs
  BY <1>2, <1>3, <1>4 DEF RowSeqs, Row
<1> QED BY <1>1, <1>2, <1>3, <1>4, <1>5, <1>6

\* A row inserted goes to the end of its table's transaction.
LEMMA InsertFacts ==
    ASSUME TypeOK, BufInv, FlushersInv, NEW p \in Flushers, InsertRow(p)
    PROVE  /\ tbl[p] \in Tables /\ pos[p] \in DOMAIN buf[tbl[p]] /\ txn' \in RowSeqs
           /\ buf[tbl[p]][pos[p]] \in Row
           /\ txn'[tbl[p]] = Append(txn[tbl[p]], buf[tbl[p]][pos[p]])
           /\ \A u \in Tables : u /= tbl[p] => txn'[u] = txn[u]
           /\ pos[p] + 1 \in 1..(MaxRows + 1)
<1>1. tbl[p] \in Tables /\ pos[p] \in 1..(MaxRows + 1)
  BY ThreadFacts DEF InsertRow
<1>2. pos[p] \in DOMAIN buf[tbl[p]]
  BY <1>1, TableFacts DEF InsertRow
<1>3. buf[tbl[p]][pos[p]] \in Row
  BY <1>1, <1>2, TableFacts, ElementOfSeq
<1>4. Append(txn[tbl[p]], buf[tbl[p]][pos[p]]) \in Seq(Row)
  BY <1>1, <1>3, TableFacts, AppendFacts
<1>5. txn' = [txn EXCEPT ![tbl[p]] = Append(txn[tbl[p]], buf[tbl[p]][pos[p]])]
  BY DEF InsertRow
<1>6. txn \in [Tables -> Seq(Row)]
  BY DEF TypeOK, RowSeqs, Row
<1>7. txn' \in RowSeqs
  BY <1>4, <1>5, <1>6 DEF RowSeqs, Row
<1>8. pos[p] + 1 \in 1..(MaxRows + 1)
  BY <1>1, <1>2, TableFacts DEF BufInv
<1> QED BY <1>1, <1>2, <1>3, <1>5, <1>6, <1>7, <1>8

\* ... and is in the transaction from then on.
LEMMA InsertElements ==
    ASSUME TypeOK, BufInv, FlushersInv, NEW p \in Flushers, InsertRow(p)
    PROVE  ToSet(txn'[tbl[p]]) = ToSet(txn[tbl[p]]) \cup {buf[tbl[p]][pos[p]]}
<1> DEFINE q == txn[tbl[p]]
           x == buf[tbl[p]][pos[p]]
<1>1. q \in Seq(Row) /\ x \in Row /\ txn'[tbl[p]] = Append(q, x)
  BY InsertFacts, TableFacts
<1> HIDE DEF q, x
<1>2. ToSet(Append(q, x)) = ToSet(q) \cup {x}
  BY <1>1, AppendElements
<1> QED BY <1>1, <1>2 DEF q, x

\* A commit puts the transaction behind what is stored, table by table.
LEMMA CommitFacts ==
    ASSUME TypeOK, NEW p \in Flushers, Commit(p)
    PROVE  /\ db' \in RowSeqs /\ txn' \in RowSeqs
           /\ \A t \in Tables : txn'[t] = <<>> /\ db'[t] = db[t] \o txn[t]
<1>1. \A t \in Tables : db[t] \o txn[t] \in Seq(Row)
  BY TableFacts, ConcatProperties
<1>2. db' = [t \in Tables |-> db[t] \o txn[t]] /\ txn' = Empty
  BY DEF Commit
<1> QED BY <1>1, <1>2, Ends DEF RowSeqs, Row

-----------------------------------------------------------------------------
\* Types of the rows.
LEMMA RowTypes ==
    ASSUME TypeOK, BufInv, FlushersInv, [Next]_vars
    PROVE  /\ buf' \in RowSeqs /\ txn' \in RowSeqs /\ db' \in RowSeqs
           /\ count' \in [Tables -> 0..MaxRows]
<1> USE DEF rows
<1>0. /\ buf \in RowSeqs /\ txn \in RowSeqs /\ db \in RowSeqs
      /\ count \in [Tables -> 0..MaxRows]
  BY DEF TypeOK
<1>1. ASSUME NEW t \in Tables, Log(t) PROVE buf' \in RowSeqs /\ count' \in [Tables -> 0..MaxRows] /\ UNCHANGED <<txn, db>>
  BY <1>1, LogFacts DEF Log
<1>2. ASSUME NEW p \in Flushers, InsertRow(p) PROVE txn' \in RowSeqs /\ UNCHANGED <<buf, db, count>>
  BY <1>2, InsertFacts DEF InsertRow
<1>3. ASSUME NEW p \in Flushers, Commit(p) PROVE txn' \in RowSeqs /\ db' \in RowSeqs /\ UNCHANGED <<buf, count>>
  BY <1>3, CommitFacts DEF Commit
<1>4. ASSUME NEW p \in Flushers, Clear(p) PROVE buf' \in RowSeqs /\ UNCHANGED <<txn, db, count>>
  <2>1. <<>> \in Seq(1..MaxRows)
    BY EmptySeq
  <2> QED BY <1>0, <1>4, <2>1 DEF Clear, RowSeqs
<1>5. ASSUME NEW p \in Flushers, FlushFails(p) PROVE txn' \in RowSeqs /\ UNCHANGED <<buf, db, count>>
  BY <1>5, Ends DEF FlushFails
<1>6. CASE CloseConn
  BY <1>0, <1>6, Ends DEF CloseConn
<1>7. ASSUME NEW p \in Flushers, NextTable(p) \/ InsertedAll(p) PROVE UNCHANGED rows
  BY <1>7 DEF NextTable, InsertedAll
<1>8. CASE RunFlush \/ FlushOnClosed \/ FlushSkipped \/ Shutdown \/ UNCHANGED vars
  BY <1>0, <1>8 DEF RunFlush, FlushOnClosed, FlushSkipped, Shutdown, vars
<1> QED BY <1>0, <1>1, <1>2, <1>3, <1>4, <1>5, <1>6, <1>7, <1>8 DEF Next, FlushStep

\* Types of the threads, and the run task against its worker.
LEMMA ThreadTypes ==
    ASSUME TypeOK, BufInv, FlushersInv, [Next]_vars
    PROVE  /\ pc' \in [Flushers -> Labels]
           /\ tbl' \in [Flushers -> 1..(NTables + 1)]
           /\ pos' \in [Flushers -> 1..(MaxRows + 1)]
           /\ task' \in {"sleep", "await", "dead", "cancelled"}
           /\ task' = "sleep" => pc'["worker"] = "idle"
<1>0. /\ pc \in [Flushers -> Labels]
      /\ tbl \in [Flushers -> 1..(NTables + 1)]
      /\ pos \in [Flushers -> 1..(MaxRows + 1)]
      /\ task \in {"sleep", "await", "dead", "cancelled"}
      /\ task = "sleep" => pc["worker"] = "idle"
  BY DEF TypeOK, Labels
<1>1. ASSUME NEW p \in Flushers, FlushStep(p) \/ FlushFails(p)
      PROVE  /\ pc' \in [Flushers -> Labels]
             /\ tbl' \in [Flushers -> 1..(NTables + 1)]
             /\ pos' \in [Flushers -> 1..(MaxRows + 1)]
             /\ task' \in {"sleep", "await", "dead", "cancelled"}
             /\ task' = "sleep" => pc'["worker"] = "idle"
  <2>1. PICK l \in Labels, t \in 1..(NTables + 1), r \in 1..(MaxRows + 1) : Goto(p, l, t, r)
    BY <1>1, StepGoes
  <2>2. /\ pc' \in [Flushers -> Labels]
        /\ tbl' \in [Flushers -> 1..(NTables + 1)]
        /\ pos' \in [Flushers -> 1..(MaxRows + 1)]
        /\ \A q \in Flushers : q /= p => pc'[q] = pc[q]
    BY <2>1, GotoFacts
  <2>3. CASE UNCHANGED task
    <3>1. p = "worker" => task /= "sleep"
      BY <1>0, <1>1, StepGoes DEF Active
    <3> QED BY <1>0, <2>2, <2>3, <3>1, Ends
  <2>4. CASE Commit(p)
    <3>1. task' = IF p = "worker" /\ task = "await" THEN "sleep" ELSE task
      BY <2>4 DEF Commit, FlushReturns
    <3>2. p = "worker" => pc'[p] = "idle"
      BY <2>4, GotoFacts, Ends DEF Commit, FlushReturns, Labels
    <3> QED BY <1>0, <2>2, <3>1, <3>2, Ends
  <2>5. CASE FlushFails(p)
    <3>1. task' = IF p = "worker" /\ task = "await" THEN "dead" ELSE task
      BY <2>5 DEF FlushFails
    <3>2. p = "worker" => task /= "sleep"
      BY <1>0, <1>1, StepGoes DEF Active
    <3> QED BY <1>0, <2>2, <3>1, <3>2, Ends
  <2> QED BY <1>1, <2>3, <2>4, <2>5 DEF FlushStep, NextTable, InsertRow, InsertedAll, Clear
<1>2. CASE RunFlush
  <2>1. Goto("worker", "table", 1, 1) /\ task' = "await"
    BY <1>2 DEF RunFlush
  <2> QED BY <2>1, GotoFacts, Ends DEF Labels
<1>3. CASE FlushOnClosed
  <2>1. Goto("worker", "dead", 1, 1) /\ task' = task /\ pc["worker"] /= "idle"
    BY <1>3 DEF FlushOnClosed
  <2> QED BY <1>0, <2>1, GotoFacts, Ends DEF Labels
<1>4. CASE FlushSkipped
  <2>1. Goto("worker", "idle", 1, 1) /\ task' = IF task = "await" THEN "sleep" ELSE task
    BY <1>4 DEF FlushSkipped, FlushReturns
  <2> QED BY <1>0, <2>1, GotoFacts, Ends DEF Labels
<1>5. CASE Shutdown
  <2>1. Goto("close", "table", 1, 1) /\ task' \in {"dead", "cancelled"}
    BY <1>5 DEF Shutdown
  <2> QED BY <2>1, GotoFacts, Ends DEF Labels
<1>6. CASE (\E t \in Tables : Log(t)) \/ CloseConn \/ UNCHANGED vars
  BY <1>0, <1>6 DEF Log, CloseConn, vars, flushers
<1> QED BY <1>1, <1>2, <1>3, <1>4, <1>5, <1>6 DEF Next

\* Types of the other variables.
LEMMA HistoryTypes ==
    ASSUME TypeOK, BufInv, FlushersInv, [Next]_vars
    PROVE  /\ conn' \in BOOLEAN /\ overlap' \in BOOLEAN
           /\ failures' \in 0..MaxFailures
           /\ inClear' \cup rolledBack' \subseteq Tables \X (1..MaxRows)
<1> USE DEF history
<1>0. /\ conn \in BOOLEAN /\ overlap \in BOOLEAN
      /\ failures \in 0..MaxFailures
      /\ inClear \cup rolledBack \subseteq Tables \X (1..MaxRows)
  BY DEF TypeOK
<1>1. ASSUME NEW t \in Tables, Log(t)
      PROVE  inClear' \subseteq Tables \X (1..MaxRows) /\ UNCHANGED <<conn, overlap, failures, rolledBack>>
  <2>1. count[t] + 1 \in 1..MaxRows
    BY <1>1, LogFacts DEF Row
  <2>2. inClear' \subseteq inClear \cup {<<t, count[t] + 1>>}
    BY <1>1 DEF Log
  <2> QED BY <1>0, <1>1, <2>1, <2>2 DEF Log
<1>2. ASSUME NEW p \in Flushers, FlushFails(p)
      PROVE  /\ failures' \in 0..MaxFailures /\ rolledBack' \subseteq Tables \X (1..MaxRows)
             /\ UNCHANGED <<conn, overlap, inClear>>
  <2>1. ASSUME NEW t \in Tables, NEW r \in ToSet(txn[t]) PROVE r \in 1..MaxRows
    <3>1. txn[t] \in Seq(1..MaxRows)
      BY DEF TypeOK, RowSeqs
    <3>2. PICK i \in DOMAIN txn[t] : r = txn[t][i]
      BY DEF ToSet
    <3>3. DOMAIN txn[t] = 1..Len(txn[t])
      BY <3>1, LenProperties
    <3> QED BY <3>1, <3>2, <3>3, ElementOfSeq
  <2>2. Unbuffered \subseteq Tables \X (1..MaxRows)
    BY <2>1 DEF Unbuffered
  <2> QED BY <1>0, <1>2, <2>2 DEF FlushFails
<1>3. ASSUME NEW p \in Flushers, FlushStep(p) PROVE UNCHANGED <<conn, failures, history>>
  BY <1>3 DEF FlushStep, NextTable, InsertRow, InsertedAll, Clear, Commit
<1>4. CASE RunFlush \/ FlushOnClosed \/ FlushSkipped \/ Shutdown \/ CloseConn \/ UNCHANGED vars
  BY <1>0, <1>4 DEF RunFlush, FlushOnClosed, FlushSkipped, Shutdown, CloseConn, vars
<1> QED BY <1>0, <1>1, <1>2, <1>3, <1>4 DEF Next

\* Every step keeps the types.
LEMMA TypesKept ==
    ASSUME TypeOK, BufInv, FlushersInv, [Next]_vars
    PROVE  TypeOK'
BY RowTypes, ThreadTypes, HistoryTypes DEF TypeOK, RowSeqs, Labels

\* Rows are logged before they are buffered, and nothing else enters a buffer.
LEMMA BufKept ==
    ASSUME TypeOK, BufInv, FlushersInv, [Next]_vars
    PROVE  BufInv'
<1>1. ASSUME NEW t \in Tables, Log(t) PROVE BufInv'
  <2>1. ASSUME NEW u \in Tables
        PROVE  /\ Len(buf'[u]) <= count'[u]
               /\ \A i \in DOMAIN buf'[u] : buf'[u][i] <= count'[u]
    <3>1. CASE u = t
      <4>1. Len(buf'[t]) <= count'[t]
        BY <1>1, LogFacts, TableFacts DEF BufInv
      <4>2. ASSUME NEW i \in DOMAIN buf'[t] PROVE buf'[t][i] <= count'[t]
        <5>1. CASE i = Len(buf[t]) + 1
          BY <1>1, <5>1, LogFacts, TableFacts
        <5>2. CASE i /= Len(buf[t]) + 1
          <6>1. i \in DOMAIN buf[t]
            BY <1>1, <5>2, LogFacts, TableFacts
          <6>2. buf[t][i] <= count[t] /\ buf[t][i] \in Row
            BY <6>1, TableFacts, ElementOfSeq DEF BufInv
          <6>3. buf'[t][i] = buf[t][i] /\ count'[t] = count[t] + 1 /\ count[t] \in Nat
            BY <1>1, <6>1, LogFacts, TableFacts
          <6> QED BY <6>2, <6>3 DEF Row
        <5> QED BY <5>1, <5>2
      <4> QED BY <3>1, <4>1, <4>2
    <3>2. CASE u /= t
      BY <1>1, <3>2, LogFacts DEF BufInv
    <3> QED BY <3>1, <3>2
  <2> QED BY <2>1 DEF BufInv
<1>2. ASSUME NEW p \in Flushers, Clear(p) PROVE BufInv'
  <2>1. /\ \A t \in Tables : buf'[t] = buf[t] \/ buf'[t] = <<>>
        /\ count' = count
    BY <1>2, ThreadFacts DEF Clear, TypeOK, RowSeqs
  <2>2. Len(<<>>) = 0 /\ DOMAIN <<>> = {}
    OBVIOUS
  <2>3. \A t \in Tables : 0 <= count[t]
    BY TableFacts
  <2> QED BY <2>1, <2>2, <2>3 DEF BufInv
<1>3. ASSUME NEW p \in Flushers, NextTable(p) \/ InsertRow(p) \/ InsertedAll(p) \/ Commit(p) \/ FlushFails(p)
      PROVE  BufInv'
  <2>1. UNCHANGED <<buf, count>>
    BY <1>3 DEF NextTable, InsertRow, InsertedAll, Commit, FlushFails, rows
  <2> QED BY <2>1 DEF BufInv
<1>4. CASE RunFlush \/ FlushOnClosed \/ FlushSkipped \/ Shutdown \/ CloseConn \/ UNCHANGED vars
  <2>1. UNCHANGED <<buf, count>>
    BY <1>4 DEF RunFlush, FlushOnClosed, FlushSkipped, Shutdown, CloseConn, vars, rows
  <2> QED BY <2>1 DEF BufInv
<1> QED BY <1>1, <1>2, <1>3, <1>4 DEF Next, FlushStep

\* Two threads flush only after a shutdown that found a worker flushing.
LEMMA FlushersKept ==
    ASSUME TypeOK, BufInv, FlushersInv, [Next]_vars
    PROVE  FlushersInv'
<1> USE Ends DEF Running
<1>1. ASSUME NEW t \in Tables, Log(t) PROVE FlushersInv'
  <2>1. UNCHANGED <<conn, pc, tbl, pos, overlap>>
    BY <1>1 DEF Log, flushers
  <2>2. ASSUME NEW u \in Tables PROVE Len(buf[u]) <= Len(buf'[u])
    BY <1>1, LogFacts, TableFacts
  <2>3. ASSUME Running, pc["worker"] = "insert" PROVE pos["worker"] <= Len(buf'[tbl["worker"]]) + 1
    <3>1. tbl["worker"] \in Tables /\ pos["worker"] <= Len(buf[tbl["worker"]]) + 1 /\ pos["worker"] \in Nat
      BY <2>3, ThreadFacts DEF FlushersInv
    <3>2. Len(buf'[tbl["worker"]]) \in Nat
      BY <1>1, <3>1, LogFacts, TableFacts
    <3> QED BY <2>2, <3>1, <3>2, TableFacts
  <2> QED BY <2>1, <2>3 DEF FlushersInv
<1>2. ASSUME NEW p \in Flushers, FlushStep(p) \/ FlushFails(p) PROVE FlushersInv'
  <2>1. PICK l \in Labels, t \in 1..(NTables + 1), r \in 1..(MaxRows + 1) :
           /\ Goto(p, l, t, r)
           /\ l \in {"insert", "clear"} => t \in Tables
           /\ l = "insert" => r <= Len(buf'[t]) + 1
           /\ p = "close" => l /= "idle"
    BY <1>2, StepGoes
  <2>2. /\ pc'[p] = l /\ tbl'[p] = t /\ pos'[p] = r
        /\ \A q \in Flushers : q /= p => pc'[q] = pc[q] /\ tbl'[q] = tbl[q] /\ pos'[q] = pos[q]
    BY <2>1, GotoFacts
  <2>3. UNCHANGED <<conn, overlap>>
    BY <1>2 DEF FlushStep, NextTable, InsertRow, InsertedAll, Clear, Commit, FlushFails, history
  <2>4. Active(p)
    BY <1>2, StepGoes
  <2>5. CASE p = "worker"
    BY <2>1, <2>2, <2>3, <2>4, <2>5 DEF FlushersInv, Active
  <2>6. CASE p = "close"
    BY <2>1, <2>2, <2>3, <2>4, <2>6 DEF FlushersInv, Active
  <2> QED BY <2>5, <2>6
<1>3. CASE RunFlush
  <2>1. Goto("worker", "table", 1, 1) /\ Running /\ UNCHANGED <<buf, conn, overlap>>
    BY <1>3 DEF RunFlush, rows, history
  <2>2. /\ pc'["worker"] = "table"
        /\ pc'["close"] = pc["close"] /\ tbl'["close"] = tbl["close"]
    BY <2>1, GotoFacts DEF Labels
  <2> QED BY <2>1, <2>2 DEF FlushersInv
<1>4. CASE FlushOnClosed \/ FlushSkipped
  <2>1. ~conn /\ UNCHANGED <<buf, conn, overlap>> /\ (Goto("worker", "dead", 1, 1) \/ Goto("worker", "idle", 1, 1))
    BY <1>4 DEF FlushOnClosed, FlushSkipped, FlushReturns, rows, history
  <2>2. /\ pc'["worker"] \in {"dead", "idle"}
        /\ pc'["close"] = pc["close"] /\ tbl'["close"] = tbl["close"]
    BY <2>1, GotoFacts DEF Labels
  <2> QED BY <2>1, <2>2 DEF FlushersInv
<1>5. CASE Shutdown
  <2>1. /\ Goto("close", "table", 1, 1) /\ Running /\ conn' = conn
        /\ overlap' = (pc["worker"] \notin {"idle", "dead"})
    BY <1>5 DEF Shutdown
  <2>2. /\ pc'["close"] = "table"
        /\ pc'["worker"] = pc["worker"] /\ tbl'["worker"] = tbl["worker"]
    BY <2>1, GotoFacts DEF Labels
  <2> QED BY <2>1, <2>2 DEF FlushersInv
<1>6. CASE CloseConn
  BY <1>6 DEF CloseConn, FlushersInv, flushers, history
<1>7. CASE UNCHANGED vars
  BY <1>7 DEF vars, rows, flushers, history, FlushersInv
<1> QED BY <1>1, <1>2, <1>3, <1>4, <1>5, <1>6, <1>7 DEF Next

\* Once shutdown has begun, close() leaves nothing behind it.
LEMMA DrainedKept ==
    ASSUME TypeOK, BufInv, FlushersInv, DrainedInv, [Next]_vars
    PROVE  DrainedInv'
<1> USE Ends
<1>0. buf \in [Tables -> Seq(Row)] /\ txn \in [Tables -> Seq(Row)]
  BY DEF TypeOK, RowSeqs, Row
<1>1. CASE Running /\ Running'
  BY <1>1 DEF DrainedInv, Active, Running
<1>2. CASE Shutdown
  <2>1. tbl'["close"] = 1 /\ pc'["close"] = "table"
    BY <1>2, GotoFacts DEF Shutdown, Labels
  <2> QED BY <2>1 DEF DrainedInv, Tables, Active
<1>3. ASSUME NEW p \in Flushers, Clear(p), ~Running PROVE DrainedInv'
  <2>1. /\ buf' = [buf EXCEPT ![tbl[p]] = <<>>] /\ txn' = txn /\ tbl[p] \in Tables
        /\ Goto(p, "table", tbl[p] + 1, 1)
    BY <1>3, ThreadFacts DEF Clear
  <2>2. /\ pc'[p] = "table" /\ tbl'[p] = tbl[p] + 1
        /\ \A q \in Flushers : q /= p => pc'[q] = pc[q] /\ tbl'[q] = tbl[q]
    BY <2>1, GotoFacts DEF Labels
  <2>3. \A t \in Tables : buf'[t] = <<>> \/ (buf'[t] = buf[t] /\ t /= tbl[p])
    BY <1>0, <2>1
  <2>4. \A t \in Tables : t < tbl[p] + 1 /\ t /= tbl[p] => t < tbl[p]
    BY <2>1 DEF Tables
  <2>5. p = "close" => Active("close")
    BY <1>3 DEF Clear, Active
  <2> QED BY <2>1, <2>2, <2>3, <2>4, <2>5 DEF DrainedInv, Active
<1>4. ASSUME NEW p \in Flushers, NextTable(p), ~Running PROVE DrainedInv'
  <2>1. /\ UNCHANGED <<buf, txn>> /\ tbl[p] \in Tables /\ pc[p] = "table"
        /\ tbl[p] \in 1..(NTables + 1) /\ tbl[p] + 1 \in 1..(NTables + 1)
        /\ \/ buf[tbl[p]] = <<>> /\ Goto(p, "table", tbl[p] + 1, 1)
           \/ Goto(p, "insert", tbl[p], 1)
    BY <1>4, ThreadFacts DEF NextTable, rows, Tables
  <2>2. /\ pc'[p] \in {"table", "insert"}
        /\ tbl'[p] = tbl[p] \/ (buf[tbl[p]] = <<>> /\ tbl'[p] = tbl[p] + 1)
        /\ \A q \in Flushers : q /= p => pc'[q] = pc[q] /\ tbl'[q] = tbl[q]
    BY <2>1, GotoFacts DEF Labels
  <2>4. \A t \in Tables : t < tbl[p] + 1 /\ t /= tbl[p] => t < tbl[p]
    BY <2>1 DEF Tables
  <2> QED BY <2>1, <2>2, <2>4 DEF DrainedInv, Active
<1>5. ASSUME NEW p \in Flushers, InsertRow(p), ~Running PROVE DrainedInv'
  <2>1. /\ buf' = buf /\ Goto(p, "insert", tbl[p], pos[p] + 1) /\ pc[p] = "insert"
        /\ tbl[p] \in Tables /\ pos[p] \in DOMAIN buf[tbl[p]]
        /\ pos[p] + 1 \in 1..(MaxRows + 1) /\ tbl[p] \in 1..(NTables + 1)
    BY <1>5, InsertFacts, ThreadFacts DEF InsertRow
  <2>2. /\ pc'[p] = "insert" /\ tbl'[p] = tbl[p]
        /\ \A q \in Flushers : q /= p => pc'[q] = pc[q] /\ tbl'[q] = tbl[q]
    BY <2>1, GotoFacts DEF Labels
  <2>3. buf[tbl[p]] /= <<>>
    BY <2>1
  <2>4. pc["close"] /= "shut" /\ pc'["close"] /= "shut"
    BY <2>1, <2>2, <2>3 DEF DrainedInv
  <2> QED BY <2>1, <2>2, <2>4 DEF DrainedInv, Active
<1>6. ASSUME NEW p \in Flushers, InsertedAll(p), ~Running PROVE DrainedInv'
  <2>1. /\ UNCHANGED <<buf, txn>> /\ Goto(p, "clear", tbl[p], 1) /\ pc[p] = "insert"
        /\ tbl[p] \in 1..(NTables + 1)
    BY <1>6, ThreadFacts DEF InsertedAll, rows
  <2>2. /\ pc'[p] = "clear" /\ tbl'[p] = tbl[p]
        /\ \A q \in Flushers : q /= p => pc'[q] = pc[q] /\ tbl'[q] = tbl[q]
    BY <2>1, GotoFacts DEF Labels
  <2> QED BY <2>1, <2>2 DEF DrainedInv, Active
<1>7. ASSUME NEW p \in Flushers, Commit(p), ~Running PROVE DrainedInv'
  <2>1. /\ buf' = buf /\ pc[p] = "table" /\ tbl[p] > NTables
        /\ Goto(p, IF p = "close" THEN "shut" ELSE "idle", 1, 1)
        /\ \A t \in Tables : txn'[t] = <<>>
    BY <1>7, CommitFacts DEF Commit, FlushReturns
  <2>2. /\ pc'[p] = (IF p = "close" THEN "shut" ELSE "idle")
        /\ \A q \in Flushers : q /= p => pc'[q] = pc[q] /\ tbl'[q] = tbl[q]
    BY <2>1, GotoFacts DEF Labels
  <2>3. \A t \in Tables : t < tbl[p]
    BY <2>1, ThreadFacts DEF Tables
  <2> QED BY <2>1, <2>2, <2>3 DEF DrainedInv, Active
<1>8. ASSUME NEW p \in Flushers, FlushFails(p), ~Running PROVE DrainedInv'
  <2>1. buf' = buf /\ Goto(p, "dead", 1, 1) /\ txn' = Empty
    BY <1>8 DEF FlushFails
  <2>2. /\ pc'[p] = "dead"
        /\ \A q \in Flushers : q /= p => pc'[q] = pc[q] /\ tbl'[q] = tbl[q]
    BY <2>1, GotoFacts DEF Labels
  <2> QED BY <2>1, <2>2 DEF DrainedInv, Active
<1>9. CASE FlushOnClosed \/ FlushSkipped
  <2>1. UNCHANGED <<buf, txn>> /\ (Goto("worker", "dead", 1, 1) \/ Goto("worker", "idle", 1, 1))
    BY <1>9 DEF FlushOnClosed, FlushSkipped, FlushReturns, rows
  <2>2. pc'["close"] = pc["close"] /\ tbl'["close"] = tbl["close"]
    BY <2>1, GotoFacts DEF Labels
  <2> QED BY <2>1, <2>2 DEF DrainedInv, Active
<1>10. CASE CloseConn
  BY <1>10 DEF CloseConn, DrainedInv, Active, flushers
<1>11. CASE UNCHANGED vars
  BY <1>11 DEF vars, rows, flushers, DrainedInv, Active
<1>12. CASE (\E t \in Tables : Log(t)) \/ RunFlush
  <2>1. Running /\ Running'
    BY <1>12, GotoFacts DEF Log, RunFlush, Running, flushers, Labels
  <2> QED BY <1>1, <2>1
<1>13. ASSUME NEW p \in Flushers, FlushStep(p) \/ FlushFails(p), Running PROVE Running'
  <2>1. p = "worker"
    BY <1>13, StepGoes DEF Active, Running
  <2> QED BY <1>13, <2>1, StepGoes, GotoFacts DEF Running
<1> QED BY <1>1, <1>2, <1>3, <1>4, <1>5, <1>6, <1>7, <1>8, <1>9, <1>10, <1>11, <1>12, <1>13 DEF Next, FlushStep

-----------------------------------------------------------------------------
\* What the flushes have made of the rows of table t.
Written(t) == ToSet(txn[t]) \cup ToSet(db[t])

\* A row is in its buffer, written, or one of those that may be lost.
RowsFound ==
    \A t \in Tables : \A r \in 1..count[t] :
       \/ r \in ToSet(buf[t]) \cup Written(t)
       \/ <<t, r>> \in inClear \cup rolledBack

\* The rows executemany has passed are written; those it did not see before
\* it returned are counted in inClear.
FlushAccounts(p) ==
    /\ pc[p] = "clear" =>
         \A r \in ToSet(buf[tbl[p]]) : r \in Written(tbl[p]) \/ <<tbl[p], r>> \in inClear
    /\ pc[p] = "insert" =>
         \A i \in DOMAIN buf[tbl[p]] : i < pos[p] => buf[tbl[p]][i] \in Written(tbl[p])

Accounts == RowsFound /\ \A p \in Flushers : FlushAccounts(p)

\* The strengthening of RowsAccountedFor.
AccountInv == (overlap /\ failures > 0) \/ Accounts

-----------------------------------------------------------------------------
\* A row that is logged is in the buffer; executemany has not passed it.
LEMMA LogAccounts ==
    ASSUME TypeOK, BufInv, FlushersInv, Accounts, NEW t \in Tables, Log(t)
    PROVE  Accounts'
<1>1. /\ Running /\ UNCHANGED <<txn, db, pc, tbl, pos, rolledBack>>
      /\ inClear \subseteq inClear'
      /\ pc["worker"] = "clear" /\ tbl["worker"] = t => <<t, count[t] + 1>> \in inClear'
  BY DEF Log, flushers
<1>2. \A u \in Tables : Written(u)' = Written(u)
  BY <1>1 DEF Written
<1>3. ToSet(buf'[t]) = ToSet(buf[t]) \cup {count[t] + 1}
  <2>1. buf[t] \in Seq(Row) /\ count[t] + 1 \in Row /\ buf'[t] = Append(buf[t], count[t] + 1)
    BY LogFacts, TableFacts
  <2>2. ToSet(Append(buf[t], count[t] + 1)) = ToSet(buf[t]) \cup {count[t] + 1}
    BY <2>1, AppendElements
  <2> QED BY <2>1, <2>2
<1>4. \A u \in Tables : ToSet(buf[u]) \subseteq ToSet(buf'[u])
  BY <1>3, LogFacts
<1>5. RowsFound'
  <2>1. ASSUME NEW u \in Tables, NEW r \in 1..count'[u]
        PROVE  \/ r \in ToSet(buf'[u]) \cup Written(u)
               \/ <<u, r>> \in inClear' \cup rolledBack'
    <3>1. CASE u = t /\ r = count[t] + 1
      BY <1>3, <3>1
    <3>2. CASE ~(u = t /\ r = count[t] + 1)
      <4>1. r \in 1..count[u]
        BY <3>2, LogFacts, TableFacts
      <4> QED BY <1>1, <1>4, <4>1 DEF Accounts, RowsFound
    <3> QED BY <3>1, <3>2
  <2> QED BY <1>2, <2>1 DEF RowsFound
<1>6. ASSUME NEW p \in Flushers PROVE FlushAccounts(p)'
  <2>1. CASE pc[p] = "clear"
    <3>1. p = "worker" /\ tbl[p] \in Tables
      BY <1>1, <2>1, ThreadFacts DEF Running, Flushers
    <3>2. ASSUME NEW r \in ToSet(buf'[tbl[p]])
          PROVE  r \in Written(tbl[p]) \/ <<tbl[p], r>> \in inClear'
      <4>1. CASE r \in ToSet(buf[tbl[p]])
        BY <1>1, <2>1, <4>1 DEF Accounts, FlushAccounts
      <4>2. CASE r \notin ToSet(buf[tbl[p]])
        <5>1. tbl[p] = t /\ r = count[t] + 1
          BY <1>3, <3>1, <4>2, LogFacts
        <5> QED BY <1>1, <2>1, <3>1, <5>1
      <4> QED BY <4>1, <4>2
    <3> QED BY <1>1, <1>2, <2>1, <3>1, <3>2 DEF FlushAccounts
  <2>2. CASE pc[p] = "insert"
    <3>1. /\ p = "worker" /\ tbl[p] \in Tables /\ pos[p] \in Nat
          /\ pos[p] <= Len(buf[tbl[p]]) + 1
      BY <1>1, <2>2, ThreadFacts DEF Running, Flushers, FlushersInv
    <3>2. ASSUME NEW i \in DOMAIN buf'[tbl[p]], i < pos[p] PROVE buf'[tbl[p]][i] \in Written(tbl[p])
      <4>1. i \in DOMAIN buf[tbl[p]] /\ buf'[tbl[p]][i] = buf[tbl[p]][i]
        <5>1. CASE tbl[p] = t
          <6>1. i \in 1..(Len(buf[t]) + 1) /\ i < Len(buf[t]) + 1
            BY <3>1, <3>2, <5>1, LogFacts, TableFacts
          <6>2. i \in DOMAIN buf[t]
            BY <6>1, TableFacts
          <6> QED BY <5>1, <6>2, LogFacts
        <5>2. CASE tbl[p] /= t
          BY <3>1, <5>2, LogFacts
        <5> QED BY <5>1, <5>2
      <4> QED BY <2>2, <3>2, <4>1 DEF Accounts, FlushAccounts
    <3> QED BY <1>1, <1>2, <2>2, <3>1, <3>2 DEF FlushAccounts
  <2>3. CASE pc[p] \notin {"clear", "insert"}
    BY <1>1, <2>3 DEF FlushAccounts
  <2> QED BY <2>1, <2>2, <2>3
<1> QED BY <1>5, <1>6 DEF Accounts

\* A thread elsewhere in _flush is not disturbed when rows are only written.
LEMMA OtherAccounts ==
    ASSUME TypeOK, FlushersInv, NEW q \in Flushers, FlushAccounts(q),
           UNCHANGED <<pc[q], tbl[q], pos[q]>>,
           \A u \in Tables : buf'[u] = buf[u] \/ buf'[u] = <<>>,
           \A u \in Tables : Written(u) \subseteq Written(u)',
           inClear \subseteq inClear'
    PROVE  FlushAccounts(q)'
<1>1. CASE pc[q] \in {"insert", "clear"}
  <2>1. tbl[q] \in Tables
    BY <1>1, ThreadFacts
  <2>2. CASE buf'[tbl[q]] = buf[tbl[q]]
    BY <2>1, <2>2 DEF FlushAccounts, Written
  <2>3. CASE buf'[tbl[q]] = <<>>
    <3>1. DOMAIN buf'[tbl[q]] = {} /\ ToSet(buf'[tbl[q]]) = {}
      BY <2>3 DEF ToSet
    <3> QED BY <3>1 DEF FlushAccounts
  <2> QED BY <2>1, <2>2, <2>3
<1>2. CASE pc[q] \notin {"insert", "clear"}
  BY <1>2 DEF FlushAccounts
<1> QED BY <1>1, <1>2

\* Steps that only move rows from a buffer or transaction to another place.
LEMMA StepAccounts ==
    ASSUME TypeOK, BufInv, FlushersInv, Accounts, NEW p \in Flushers, FlushStep(p)
    PROVE  Accounts'
<1> USE Ends
<1>0. UNCHANGED <<count, inClear, rolledBack>>
  BY DEF FlushStep, NextTable, InsertRow, InsertedAll, Clear, Commit, rows, history
<1>1. PICK l \in Labels, t \in 1..(NTables + 1), r \in 1..(MaxRows + 1) : Goto(p, l, t, r)
  BY StepGoes
<1>2. /\ pc'[p] = l /\ tbl'[p] = t /\ pos'[p] = r
      /\ \A q \in Flushers : q /= p => pc'[q] = pc[q] /\ tbl'[q] = tbl[q] /\ pos'[q] = pos[q]
  BY <1>1, GotoFacts
<1>3. /\ \A u \in Tables : buf'[u] = buf[u] \/ buf'[u] = <<>>
      /\ \A u \in Tables : Written(u) \subseteq Written(u)'
  <2>1. CASE InsertRow(p)
    <3>1. \A u \in Tables : ToSet(txn[u]) \subseteq ToSet(txn'[u])
      BY <2>1, InsertElements, InsertFacts
    <3> QED BY <2>1, <3>1 DEF InsertRow, Written
  <2>2. CASE Commit(p)
    <3>1. ASSUME NEW u \in Tables PROVE ToSet(db'[u]) = ToSet(db[u]) \cup ToSet(txn[u])
      <4>1. db[u] \in Seq(Row) /\ txn[u] \in Seq(Row)
        BY TableFacts
      <4>2. ToSet(db[u] \o txn[u]) = ToSet(db[u]) \cup ToSet(txn[u])
        BY <4>1, ConcatElements
      <4> QED BY <2>2, <4>2, CommitFacts
    <3> QED BY <2>2, <3>1 DEF Commit, Written
  <2>3. CASE Clear(p)
    BY <2>3, ThreadFacts DEF Clear, Written, TypeOK, RowSeqs
  <2>4. CASE NextTable(p) \/ InsertedAll(p)
    BY <2>4 DEF NextTable, InsertedAll, rows, Written
  <2> QED BY <2>1, <2>2, <2>3, <2>4 DEF FlushStep
<1>4. ASSUME NEW q \in Flushers, q /= p PROVE FlushAccounts(q)'
  BY <1>0, <1>2, <1>3, <1>4, OtherAccounts DEF Accounts
<1>5. FlushAccounts(p)'
  <2>1. CASE NextTable(p)
    <3>1. pc'[p] = "table" \/ (pc'[p] = "insert" /\ pos'[p] = 1)
      BY <2>1, ThreadFacts, GotoFacts DEF NextTable, Labels, Tables
    <3>2. ASSUME pc'[p] = "insert" PROVE \A i \in DOMAIN buf'[tbl'[p]] : ~(i < pos'[p])
      <4>1. pos'[p] = 1 /\ buf' = buf
        BY <2>1, <3>1, <3>2 DEF NextTable, rows
      <4>2. tbl'[p] \in Tables
        <5>1. /\ tbl[p] \in 1..(NTables + 1) /\ tbl[p] + 1 \in 1..(NTables + 1)
              /\ tbl[p] \in Tables
              /\ Goto(p, "table", tbl[p] + 1, 1) \/ Goto(p, "insert", tbl[p], 1)
          BY <2>1, ThreadFacts DEF NextTable, Tables
        <5>2. (pc'[p] = "table" /\ tbl'[p] = tbl[p] + 1) \/ (pc'[p] = "insert" /\ tbl'[p] = tbl[p])
          BY <5>1, GotoFacts DEF Labels
        <5> QED BY <3>2, <5>1, <5>2
      <4> QED BY <4>1, <4>2, TableFacts
    <3> QED BY <3>1, <3>2 DEF FlushAccounts
  <2>2. CASE InsertRow(p)
    <3>1. /\ buf' = buf /\ Goto(p, "insert", tbl[p], pos[p] + 1) /\ pc[p] = "insert"
          /\ tbl[p] \in Tables /\ tbl[p] \in 1..(NTables + 1) /\ pos[p] \in 1..(MaxRows + 1)
          /\ pos[p] + 1 \in 1..(MaxRows + 1)
      BY <2>2, InsertFacts, ThreadFacts DEF InsertRow
    <3>2. pc'[p] = "insert" /\ tbl'[p] = tbl[p] /\ pos'[p] = pos[p] + 1
      BY <3>1, GotoFacts DEF Labels
    <3>3. buf[tbl[p]][pos[p]] \in Written(tbl[p])'
      <4>1. buf[tbl[p]][pos[p]] \in ToSet(txn'[tbl[p]])
        BY <2>2, InsertElements
      <4> QED BY <3>2, <4>1 DEF Written
    <3>4. ASSUME NEW i \in DOMAIN buf[tbl[p]], i < pos[p] + 1 PROVE buf[tbl[p]][i] \in Written(tbl[p])'
      <4>1. i \in Nat
        BY <3>1, TableFacts
      <4>2. CASE i = pos[p]
        BY <3>3, <4>2
      <4>3. CASE i /= pos[p]
        <5>1. i < pos[p]
          BY <3>1, <3>4, <4>1, <4>3
        <5>2. buf[tbl[p]][i] \in Written(tbl[p])
          BY <3>1, <5>1 DEF Accounts, FlushAccounts
        <5>3. Written(tbl[p]) \subseteq Written(tbl[p])'
          BY <1>3, <3>1, <3>2 DEF Written
        <5> QED BY <5>2, <5>3
      <4> QED BY <4>2, <4>3
    <3> QED BY <3>1, <3>2, <3>4 DEF FlushAccounts, Written
  <2>3. CASE InsertedAll(p)
    <3>1. /\ UNCHANGED <<buf, txn, db>> /\ Goto(p, "clear", tbl[p], 1) /\ pc[p] = "insert"
          /\ tbl[p] \in Tables /\ tbl[p] \in 1..(NTables + 1)
          /\ pos[p] > Len(buf[tbl[p]]) /\ pos[p] \in Nat
      BY <2>3, ThreadFacts DEF InsertedAll, rows
    <3>2. pc'[p] = "clear" /\ tbl'[p] = tbl[p]
      BY <3>1, GotoFacts DEF Labels
    <3>3. \A i \in DOMAIN buf[tbl[p]] : i < pos[p]
      BY <3>1, TableFacts
    <3>4. \A e \in ToSet(buf[tbl[p]]) : e \in Written(tbl[p])
      BY <3>1, <3>3 DEF Accounts, FlushAccounts, ToSet
    <3> QED BY <3>1, <3>2, <3>4 DEF FlushAccounts, Written
  <2>4. CASE Clear(p)
    <3>1. Goto(p, "table", tbl[p] + 1, 1) /\ tbl[p] + 1 \in 1..(NTables + 1)
      BY <2>4, ThreadFacts DEF Clear
    <3> QED BY <3>1, GotoFacts DEF FlushAccounts, Labels
  <2>5. CASE Commit(p)
    <3>1. Goto(p, IF p = "close" THEN "shut" ELSE "idle", 1, 1)
      BY <2>5 DEF Commit, FlushReturns
    <3> QED BY <3>1, GotoFacts DEF FlushAccounts, Labels
  <2> QED BY <2>1, <2>2, <2>3, <2>4, <2>5 DEF FlushStep
<1>6. RowsFound'
  <2>1. CASE Clear(p)
    <3>1. /\ buf' = [buf EXCEPT ![tbl[p]] = <<>>] /\ pc[p] = "clear" /\ tbl[p] \in Tables
      BY <2>1, ThreadFacts DEF Clear
    <3>2. ASSUME NEW u \in Tables, NEW x \in ToSet(buf[u])
          PROVE  x \in ToSet(buf'[u]) \cup Written(u) \/ <<u, x>> \in inClear
      <4>1. CASE u = tbl[p]
        BY <3>1, <3>2, <4>1 DEF Accounts, FlushAccounts
      <4>2. CASE u /= tbl[p]
        BY <3>1, <3>2, <4>2 DEF TypeOK, RowSeqs
      <4> QED BY <4>1, <4>2
    <3> QED BY <1>0, <1>3, <3>2 DEF Accounts, RowsFound, Written
  <2>2. CASE ~Clear(p)
    <3>1. buf' = buf
      BY <2>2 DEF FlushStep, NextTable, InsertRow, InsertedAll, Commit, rows
    <3> QED BY <1>0, <1>3, <3>1 DEF Accounts, RowsFound, Written
  <2> QED BY <2>1, <2>2
<1> QED BY <1>4, <1>5, <1>6 DEF Accounts

\* A rollback takes back what this flush wrote: the rows still buffered will be
\* written again, the others are counted in rolledBack.  Only another thread
\* could have cleared rows this one rolls back.
LEMMA FailAccounts ==
    ASSUME TypeOK, FlushersInv, Accounts, ~overlap, NEW p \in Flushers, FlushFails(p)
    PROVE  Accounts'
<1> USE Ends
<1>1. /\ UNCHANGED <<buf, count, db, inClear>> /\ txn' = Empty
      /\ rolledBack' = rolledBack \cup Unbuffered /\ Goto(p, "dead", 1, 1)
      /\ Active(p)
  BY DEF FlushFails, Active
<1>2. RowsFound'
  <2>1. ASSUME NEW t \in Tables, NEW x \in ToSet(txn[t])
        PROVE  x \in ToSet(buf[t]) \/ <<t, x>> \in Unbuffered
    BY DEF Unbuffered
  <2> QED BY <1>1, <2>1 DEF Accounts, RowsFound, Written
<1>3. ASSUME NEW q \in Flushers PROVE pc'[q] \notin {"insert", "clear"}
  <2>1. CASE q = p
    BY <1>1, <2>1, GotoFacts DEF Labels
  <2>2. CASE q /= p
    BY <1>1, <2>2, GotoFacts, Alone DEF Labels, Active
  <2> QED BY <2>1, <2>2
<1> QED BY <1>2, <1>3 DEF Accounts, FlushAccounts

\* A thread that begins, ends or dies outside executemany accounts for nothing.
LEMMA MoveAccounts ==
    ASSUME TypeOK, FlushersInv, Accounts, NEW p \in Flushers, NEW l \in Labels, Goto(p, l, 1, 1),
           l \notin {"insert", "clear"}, UNCHANGED <<rows, inClear, rolledBack>>
    PROVE  Accounts'
<1>1. /\ pc'[p] = l
      /\ \A q \in Flushers : q /= p => pc'[q] = pc[q] /\ tbl'[q] = tbl[q] /\ pos'[q] = pos[q]
  BY GotoFacts, Ends
<1>2. \A u \in Tables : Written(u)' = Written(u)
  BY DEF Written, rows
<1>3. RowsFound'
  BY <1>2 DEF Accounts, RowsFound, rows
<1>4. ASSUME NEW q \in Flushers PROVE FlushAccounts(q)'
  <2>1. CASE q = p
    BY <1>1, <2>1 DEF FlushAccounts
  <2>2. CASE q /= p
    BY <1>1, <1>2, <2>2, OtherAccounts DEF Accounts, rows
  <2> QED BY <2>1, <2>2
<1> QED BY <1>3, <1>4 DEF Accounts

\* Every step keeps the account.
LEMMA AccountKept ==
    ASSUME TypeOK, BufInv, FlushersInv, DrainedInv, AccountInv, [Next]_vars
    PROVE  AccountInv'
<1> USE Ends
<1>1. ASSUME overlap, failures > 0 PROVE overlap' /\ failures' > 0
  <2>1. ~Running /\ failures \in Nat
    BY <1>1 DEF FlushersInv, TypeOK
  <2>2. overlap' = overlap
    BY <2>1 DEF Next, FlushStep, Log, RunFlush, NextTable, InsertRow, InsertedAll, Clear, Commit, FlushFails,
                FlushOnClosed, FlushSkipped, Shutdown, CloseConn, vars, history
  <2>3. failures' = failures \/ failures' = failures + 1
    BY <2>1 DEF Next, FlushStep, Log, RunFlush, NextTable, InsertRow, InsertedAll, Clear, Commit, FlushFails,
                FlushOnClosed, FlushSkipped, Shutdown, CloseConn, vars
  <2> QED BY <1>1, <2>1, <2>2, <2>3
<1> SUFFICES ASSUME Accounts, ~(overlap /\ failures > 0) PROVE AccountInv'
  BY <1>1 DEF AccountInv
<1>2. ASSUME NEW t \in Tables, Log(t) PROVE AccountInv'
  BY <1>2, LogAccounts DEF AccountInv
<1>3. ASSUME NEW p \in Flushers, FlushStep(p) PROVE AccountInv'
  BY <1>3, StepAccounts DEF AccountInv
<1>4. ASSUME NEW p \in Flushers, FlushFails(p) PROVE AccountInv'
  <2>1. CASE ~overlap
    BY <1>4, <2>1, FailAccounts DEF AccountInv
  <2>2. CASE overlap
    <3>1. overlap' /\ failures' = failures + 1 /\ failures \in Nat
      BY <1>4, <2>2 DEF FlushFails, TypeOK
    <3> QED BY <3>1 DEF AccountInv
  <2> QED BY <2>1, <2>2
<1>5. CASE RunFlush \/ FlushOnClosed \/ FlushSkipped \/ Shutdown
  <2>1. PICK p \in Flushers, l \in Labels \ {"insert", "clear"} : Goto(p, l, 1, 1)
    BY <1>5 DEF RunFlush, FlushOnClosed, FlushSkipped, FlushReturns, Shutdown, Labels
  <2>2. UNCHANGED <<rows, inClear, rolledBack>>
    BY <1>5 DEF RunFlush, FlushOnClosed, FlushSkipped, Shutdown, history
  <2> QED BY <2>1, <2>2, MoveAccounts DEF AccountInv
<1>6. CASE CloseConn
  <2>1. \A t \in Tables : txn'[t] = txn[t]
    BY <1>6 DEF CloseConn, DrainedInv
  <2>2. \A t \in Tables : Written(t)' = Written(t)
    BY <1>6, <2>1 DEF CloseConn, Written
  <2>3. UNCHANGED <<buf, count, pc, tbl, pos, inClear, rolledBack>>
    BY <1>6 DEF CloseConn, flushers, history
  <2>4. RowsFound'
    BY <2>2, <2>3 DEF Accounts, RowsFound
  <2>5. \A q \in Flushers : FlushAccounts(q)'
    BY <2>2, <2>3, OtherAccounts DEF Accounts
  <2> QED BY <2>4, <2>5 DEF AccountInv, Accounts
<1>7. CASE UNCHANGED vars
  BY <1>7 DEF vars, rows, flushers, history, AccountInv, Accounts, RowsFound, FlushAccounts, Written
<1> QED BY <1>2, <1>3, <1>4, <1>5, <1>6, <1>7 DEF Next

-----------------------------------------------------------------------------
\* Every row of q was logged before every row of s.
Below(q, s) == \A x \in ToSet(q) : \A y \in ToSet(s) : x < y

\* The rows stored, in the transaction and in the buffer of table t.
TableOrder(t) ==
    /\ Increasing(db[t]) /\ Increasing(txn[t]) /\ Increasing(buf[t])
    /\ Below(db[t], txn[t]) /\ Below(db[t], buf[t])
    /\ \A x \in Written(t) : x <= count[t]

\* What the flush of p has in its transaction: of the tables behind it, rows
\* before those buffered; of the table it is at, those the iterator has passed;
\* of the others nothing.
FlushOrder(p, t) ==
    /\ t < tbl[p] => Below(txn[t], buf[t])
    /\ t > tbl[p] \/ (t = tbl[p] /\ pc[p] = "table") => txn[t] = <<>>
    /\ t = tbl[p] /\ pc[p] = "insert" =>
         /\ Len(txn[t]) = pos[p] - 1
         /\ \A i \in 1..(pos[p] - 1) : i \in DOMAIN buf[t] /\ txn[t][i] = buf[t][i]

Ordered ==
    /\ \A t \in Tables : TableOrder(t)
    /\ \A p \in Flushers : Active(p) => \A t \in Tables : FlushOrder(p, t)
    /\ (\A p \in Flushers : ~Active(p)) => \A t \in Tables : txn[t] = <<>>

\* The strengthening of RowsInOrderOnce.
OrderInv == overlap \/ Ordered

-----------------------------------------------------------------------------
\* The empty sequence.
LEMMA NoRows ==
    /\ ToSet(<<>>) = {} /\ Increasing(<<>>)
    /\ \A s : Below(s, <<>>) /\ Below(<<>>, s)
<1>1. DOMAIN <<>> = {}
  OBVIOUS
<1>2. ToSet(<<>>) = {}
  BY <1>1 DEF ToSet
<1> QED BY <1>1, <1>2 DEF Increasing, Below

\* The rows are numbers.
LEMMA RowsAreNat ==
    ASSUME TypeOK, NEW t \in Tables
    PROVE  buf[t] \in Seq(Nat) /\ txn[t] \in Seq(Nat) /\ db[t] \in Seq(Nat)
<1>1. Row \subseteq Nat
  BY DEF Row
<1>2. ASSUME NEW q \in Seq(Row) PROVE q \in Seq(Nat)
  <2>1. Len(q) \in Nat /\ q \in [1..Len(q) -> Row]
    BY LenProperties
  <2>2. q \in [1..Len(q) -> Nat]
    BY <1>1, <2>1
  <2> QED BY <2>1, <2>2, FunctionIsSeq
<1> QED BY <1>2, TableFacts

\* The rows written are numbers.
LEMMA WrittenNat ==
    ASSUME TypeOK, NEW t \in Tables
    PROVE  Written(t) \subseteq Nat
<1>1. \A q \in Seq(Nat) : ToSet(q) \subseteq Nat
  BY LenProperties, ElementOfSeq DEF ToSet
<1> QED BY <1>1, RowsAreNat DEF Written

\* A row logged comes after all the others of its table.
LEMMA LogOrder ==
    ASSUME TypeOK, BufInv, FlushersInv, Ordered, NEW t \in Tables, Log(t)
    PROVE  Ordered'
<1> DEFINE x == count[t] + 1
<1>1. UNCHANGED <<txn, db, pc, tbl, pos>>
  BY DEF Log, flushers
<1>2. /\ x \in Row /\ count'[t] = x /\ buf'[t] = Append(buf[t], x)
      /\ \A u \in Tables : u /= t => count'[u] = count[u] /\ buf'[u] = buf[u]
      /\ buf[t] \in Seq(Nat) /\ count[t] \in Nat
  BY LogFacts, TableFacts, RowsAreNat
<1>3. \A e \in ToSet(buf[t]) : e < x
  BY <1>2, TableFacts, ElementOfSeq DEF BufInv, ToSet
<1>4. /\ Increasing(buf'[t]) /\ ToSet(buf'[t]) = ToSet(buf[t]) \cup {x}
  <2> HIDE DEF x
  <2>1. x \in Nat
    BY <1>2 DEF Row
  <2>2. Increasing(buf[t])
    BY DEF Ordered, TableOrder
  <2>3. Increasing(Append(buf[t], x)) /\ ToSet(Append(buf[t], x)) = ToSet(buf[t]) \cup {x}
    BY <1>2, <1>3, <2>1, <2>2, AppendIncreasing
  <2> QED BY <1>2, <2>3
<1>5. \A e \in Written(t) : e \in Nat /\ e <= count[t] /\ e < x
  <2>1. \A e \in Written(t) : e \in Nat
    BY WrittenNat
  <2> QED BY <1>2, <2>1 DEF Ordered, TableOrder
<1>6. Written(t)' = Written(t)
  BY <1>1 DEF Written
<1>7. TableOrder(t)'
  <2>1. Below(db[t], buf'[t])
    BY <1>4, <1>5 DEF Below, Written, Ordered, TableOrder
  <2>2. \A e \in Written(t) : e <= count'[t]
    BY <1>2, <1>5
  <2> HIDE DEF x
  <2> QED BY <1>1, <1>4, <1>6, <2>1, <2>2 DEF Ordered, TableOrder
<1>8. ASSUME NEW u \in Tables, u /= t PROVE TableOrder(u)'
  BY <1>1, <1>2, <1>8 DEF Ordered, TableOrder, Written
<1>9. ASSUME NEW p \in Flushers, Active(p), NEW u \in Tables PROVE FlushOrder(p, u)'
  <2>0. FlushOrder(p, u)
    BY <1>9 DEF Ordered
  <2>1. CASE u = t
    <3>1. Below(txn[t], buf[t]) => Below(txn[t], buf'[t])
      BY <1>4, <1>5 DEF Below, Written
    <3>2. \A i \in DOMAIN buf[t] : i \in DOMAIN buf'[t] /\ buf'[t][i] = buf[t][i]
      BY LogFacts, TableFacts
    <3> QED BY <1>1, <2>0, <2>1, <3>1, <3>2 DEF FlushOrder
  <2>2. CASE u /= t
    BY <1>1, <1>2, <2>0, <2>2 DEF FlushOrder
  <2> QED BY <2>1, <2>2
<1> QED BY <1>1, <1>7, <1>8, <1>9 DEF Ordered, Active

\* The rows of the thread's own table are inserted in the buffer's order.
LEMMA InsertOrder ==
    ASSUME TypeOK, BufInv, FlushersInv, ~overlap, Ordered, NEW p \in Flushers, InsertRow(p)
    PROVE  Ordered'
<1>0. PICK t \in Tables, x \in Row : t = tbl[p] /\ x = buf[tbl[p]][pos[p]]
  BY InsertFacts
<1>1. /\ t = tbl[p] /\ x = buf[t][pos[p]] /\ pos[p] \in DOMAIN buf[t]
      /\ txn'[t] = Append(txn[t], x)
      /\ \A u \in Tables : u /= t => txn'[u] = txn[u]
      /\ UNCHANGED <<buf, db, count>>
      /\ t \in 1..(NTables + 1) /\ pos[p] + 1 \in 1..(MaxRows + 1)
  BY <1>0, InsertFacts, ThreadFacts DEF InsertRow
<1>2. /\ pc[p] = "insert" /\ pc'[p] = "insert" /\ tbl'[p] = t /\ pos'[p] = pos[p] + 1
      /\ \A q \in Flushers : q /= p => pc'[q] = pc[q]
  BY <1>1, GotoFacts DEF InsertRow, Labels
<1>3. /\ Len(txn[t]) = pos[p] - 1 /\ pos[p] \in Nat
      /\ \A i \in 1..(pos[p] - 1) : i \in DOMAIN buf[t] /\ txn[t][i] = buf[t][i]
  BY <1>1, <1>2, ThreadFacts DEF Ordered, FlushOrder, Active
<1>4. TableOrder(t)
  BY <1>1 DEF Ordered
<1>5. txn[t] \in Seq(Nat) /\ x \in Nat /\ DOMAIN txn[t] = 1..(pos[p] - 1)
  <2>1. x \in Nat
    BY <1>1 DEF Row
  <2>2. t \in Tables /\ Len(txn[t]) = pos[p] - 1
    BY <1>1, <1>3
  <2>3. txn[t] \in Seq(Nat)
    BY <2>2, RowsAreNat
  <2>4. DOMAIN txn[t] = 1..Len(txn[t])
    BY <2>2, TableFacts
  <2> QED BY <2>1, <2>2, <2>3, <2>4
<1>6. ASSUME NEW e \in ToSet(txn[t]) PROVE e < x
  <2>1. PICK i \in 1..(pos[p] - 1) : e = txn[t][i]
    BY <1>5 DEF ToSet
  <2>2. e = buf[t][i] /\ i \in DOMAIN buf[t] /\ i < pos[p]
    BY <1>3, <2>1
  <2> QED BY <1>1, <1>4, <2>2 DEF TableOrder, Increasing
<1>7. x \in ToSet(buf[t]) /\ x <= count[t]
  BY <1>1 DEF ToSet, BufInv
<1>8. /\ Increasing(txn'[t]) /\ ToSet(txn'[t]) = ToSet(txn[t]) \cup {x}
  <2>1. Increasing(txn[t])
    BY <1>4 DEF TableOrder
  <2>2. Increasing(Append(txn[t], x)) /\ ToSet(Append(txn[t], x)) = ToSet(txn[t]) \cup {x}
    BY <1>5, <1>6, <2>1, AppendIncreasing
  <2> QED BY <1>1, <2>2
<1>9. TableOrder(t)'
  <2>1. Below(db[t], txn'[t])
    BY <1>4, <1>7, <1>8 DEF TableOrder, Below
  <2>2. \A e \in ToSet(txn'[t]) \cup ToSet(db[t]) : e <= count[t]
    BY <1>4, <1>7, <1>8 DEF TableOrder, Written
  <2>3. \A u \in Tables : TableOrder(u)' <=>
           /\ Increasing(db[u]) /\ Increasing(txn'[u]) /\ Increasing(buf[u])
           /\ Below(db[u], txn'[u]) /\ Below(db[u], buf[u])
           /\ \A e \in ToSet(txn'[u]) \cup ToSet(db[u]) : e <= count[u]
    BY <1>1 DEF TableOrder, Written
  <2>4. Increasing(db[t]) /\ Increasing(buf[t]) /\ Below(db[t], buf[t])
    BY <1>4 DEF TableOrder
  <2> QED BY <1>1, <1>8, <2>1, <2>2, <2>3, <2>4
<1>10. ASSUME NEW u \in Tables, u /= t PROVE TableOrder(u)'
  BY <1>1, <1>10 DEF Ordered, TableOrder, Written
<1>11. ASSUME NEW u \in Tables PROVE FlushOrder(p, u)'
  <2>0. FlushOrder(p, u)
    BY <1>2 DEF Ordered, Active
  <2>1. CASE u = t
    <3>1. Len(txn'[t]) = pos[p]
      <4>1. Len(Append(txn[t], x)) = Len(txn[t]) + 1
        BY <1>5, AppendFacts
      <4> QED BY <1>1, <1>3, <4>1
    <3>2. ASSUME NEW i \in 1..pos[p] PROVE i \in DOMAIN buf[t] /\ txn'[t][i] = buf[t][i]
      <4>1. CASE i = pos[p]
        <5>1. Append(txn[t], x)[Len(txn[t]) + 1] = x
          BY <1>5, AppendFacts
        <5> QED BY <1>1, <1>3, <4>1, <5>1
      <4>2. CASE i /= pos[p]
        <5>1. i \in 1..(pos[p] - 1) /\ i \in 1..Len(txn[t])
          BY <1>3, <4>2
        <5>2. Append(txn[t], x)[i] = txn[t][i]
          BY <1>5, <5>1, AppendFacts
        <5> QED BY <1>1, <1>3, <5>1, <5>2
      <4> QED BY <4>1, <4>2
    <3>3. pos[p] + 1 - 1 = pos[p]
      BY <1>3
    <3>4. ~(t < tbl'[p]) /\ ~(t > tbl'[p]) /\ pc'[p] /= "table"
      BY <1>1, <1>2 DEF Tables
    <3>5. Len(txn'[t]) = pos'[p] - 1 /\ buf' = buf
      BY <1>1, <1>2, <3>1, <3>3
    <3>6. \A i \in 1..(pos'[p] - 1) : i \in DOMAIN buf'[t] /\ txn'[t][i] = buf'[t][i]
      <4>1. pos'[p] - 1 = pos[p] /\ buf'[t] = buf[t]
        <5>1. pos'[p] = pos[p] + 1 /\ pos[p] \in Nat
          BY <1>2, <1>3
        <5>2. buf'[t] = buf[t]
          BY <1>1
        <5> QED BY <5>1, <5>2
      <4> QED BY <3>2, <4>1
    <3> QED BY <2>1, <3>4, <3>5, <3>6 DEF FlushOrder
  <2>2. CASE u /= t
    BY <1>1, <1>2, <2>0, <2>2 DEF FlushOrder
  <2> QED BY <2>1, <2>2
<1>12. ASSUME NEW q \in Flushers, q /= p PROVE ~Active(q)'
  BY <1>2, <1>12, Alone DEF Active
<1>13. Active(p)'
  BY <1>2 DEF Active
<1>14. \A u \in Tables : TableOrder(u)'
  BY <1>9, <1>10
<1>15. \A q \in Flushers : Active(q)' => \A u \in Tables : FlushOrder(q, u)'
  BY <1>11, <1>12
<1> QED BY <1>13, <1>14, <1>15 DEF Ordered

\* A commit stores the transaction behind the rows already stored.
LEMMA CommitOrder ==
    ASSUME TypeOK, BufInv, FlushersInv, ~overlap, Ordered, NEW p \in Flushers, Commit(p)
    PROVE  Ordered'
<1>1. /\ UNCHANGED <<buf, count>> /\ pc[p] = "table" /\ tbl[p] > NTables
      /\ \A t \in Tables : txn'[t] = <<>> /\ db'[t] = db[t] \o txn[t]
  BY CommitFacts DEF Commit
<1>2. ASSUME NEW t \in Tables PROVE TableOrder(t)'
  <2>1. TableOrder(t) /\ FlushOrder(p, t)
    BY <1>1 DEF Ordered, Active
  <2>2. t < tbl[p]
    BY <1>1, ThreadFacts DEF Tables
  <2>3. Below(txn[t], buf[t])
    BY <2>1, <2>2 DEF FlushOrder
  <2>4. db[t] \in Seq(Row) /\ txn[t] \in Seq(Row) /\ db[t] \in Seq(Nat) /\ txn[t] \in Seq(Nat)
    BY TableFacts, RowsAreNat
  <2>5. ToSet(db[t] \o txn[t]) = ToSet(db[t]) \cup ToSet(txn[t])
    BY <2>4, ConcatElements
  <2>6. Increasing(db[t] \o txn[t])
    BY <2>1, <2>4, ConcatIncreasing DEF TableOrder, Below
  <2>7. Below(db'[t], buf[t]) /\ Increasing(db'[t]) /\ Increasing(buf[t])
    BY <1>1, <2>1, <2>3, <2>5, <2>6 DEF TableOrder, Below
  <2>8. Increasing(txn'[t]) /\ Below(db'[t], txn'[t]) /\ ToSet(txn'[t]) = {}
    BY <1>1, NoRows
  <2>9. \A e \in ToSet(db'[t]) : e <= count[t]
    BY <1>1, <2>1, <2>5 DEF TableOrder, Written
  <2> QED BY <1>1, <2>7, <2>8, <2>9 DEF TableOrder, Written
<1>3. ASSUME NEW q \in Flushers PROVE ~Active(q)'
  <2>0. Goto(p, IF p = "close" THEN "shut" ELSE "idle", 1, 1)
    BY DEF Commit, FlushReturns
  <2>1. CASE q = p
    BY <2>0, <2>1, GotoFacts, Ends DEF Active, Labels
  <2>2. CASE q /= p
    BY <1>1, <2>0, <2>2, GotoFacts, Ends, Alone DEF Active, Labels
  <2> QED BY <2>1, <2>2
<1> QED BY <1>1, <1>2, <1>3 DEF Ordered

\* The steps that move the thread on, or clear its table's buffer.
LEMMA MoveOrder ==
    ASSUME TypeOK, BufInv, FlushersInv, ~overlap, Ordered, NEW p \in Flushers,
           NextTable(p) \/ InsertedAll(p) \/ Clear(p)
    PROVE  Ordered'
<1>0. /\ Active(p) /\ UNCHANGED <<txn, db, count>>
      /\ \A t \in Tables : buf'[t] = buf[t] \/ buf'[t] = <<>>
  BY ThreadFacts DEF NextTable, InsertedAll, Clear, Active, rows, TypeOK, RowSeqs
<1>1. tbl[p] \in Tables /\ tbl[p] \in 1..(NTables + 1) /\ tbl[p] + 1 \in 1..(NTables + 1)
  BY ThreadFacts DEF NextTable, InsertedAll, Clear, Tables
<1>2. \/ /\ pc'[p] = "table" /\ tbl'[p] = tbl[p] + 1 /\ buf'[tbl[p]] = <<>>
      \/ pc'[p] = "insert" /\ tbl'[p] = tbl[p] /\ pos'[p] = 1 /\ pc[p] = "table"
      \/ pc'[p] = "clear" /\ tbl'[p] = tbl[p]
  <2>1. CASE NextTable(p)
    <3>1. CASE buf[tbl[p]] = <<>>
      BY <1>1, <2>1, <3>1, GotoFacts, Ends DEF NextTable, Labels, rows
    <3>2. CASE buf[tbl[p]] /= <<>>
      BY <1>1, <2>1, <3>2, GotoFacts, Ends DEF NextTable, Labels
    <3> QED BY <3>1, <3>2
  <2>2. CASE InsertedAll(p)
    BY <1>1, <2>2, GotoFacts, Ends DEF InsertedAll, Labels
  <2>3. CASE Clear(p)
    <3>1. buf'[tbl[p]] = <<>>
      BY <1>1, <2>3 DEF Clear, TypeOK, RowSeqs
    <3> QED BY <1>1, <2>3, <3>1, GotoFacts, Ends DEF Clear, Labels
  <2> QED BY <2>1, <2>2, <2>3
<1>3. ASSUME NEW t \in Tables PROVE TableOrder(t)'
  <2>1. TableOrder(t)
    BY DEF Ordered
  <2>2. Increasing(buf'[t]) /\ Below(db[t], buf'[t])
    BY <1>0, <2>1, NoRows DEF TableOrder
  <2> QED BY <1>0, <2>1, <2>2 DEF TableOrder, Written
<1>4. ASSUME NEW t \in Tables PROVE FlushOrder(p, t)'
  <2>1. FlushOrder(p, t)
    BY <1>0 DEF Ordered
  <2>2. Below(txn[t], buf[t]) => Below(txn[t], buf'[t])
    BY <1>0, NoRows
  <2>3. CASE /\ pc'[p] = "table" /\ tbl'[p] = tbl[p] + 1 /\ buf'[tbl[p]] = <<>>
    <3>1. CASE t = tbl[p]
      <4>1. Below(txn[t], buf'[t])
        BY <2>3, <3>1, NoRows
      <4>2. ~(t > tbl'[p]) /\ t /= tbl'[p]
        BY <1>1, <2>3, <3>1
      <4> QED BY <1>0, <2>3, <4>1, <4>2 DEF FlushOrder
    <3>2. CASE t < tbl[p]
      <4>1. ~(t > tbl'[p]) /\ t /= tbl'[p]
        BY <1>1, <2>3, <3>2 DEF Tables
      <4> QED BY <1>0, <2>1, <2>2, <2>3, <3>2, <4>1 DEF FlushOrder
    <3>3. CASE t > tbl[p]
      <4>1. ~(t < tbl'[p])
        BY <1>1, <2>3, <3>3 DEF Tables
      <4> QED BY <1>0, <2>1, <2>3, <3>3, <4>1 DEF FlushOrder
    <3> QED BY <1>1, <3>1, <3>2, <3>3 DEF Tables
  <2>4. CASE pc'[p] = "insert" /\ tbl'[p] = tbl[p] /\ pos'[p] = 1 /\ pc[p] = "table"
    <3>1. t = tbl[p] => txn[t] = <<>> /\ Len(txn[t]) = pos'[p] - 1
      BY <2>1, <2>4 DEF FlushOrder
    <3>2. 1..(pos'[p] - 1) = {}
      BY <2>4
    <3> QED BY <1>0, <2>1, <2>2, <2>4, <3>1, <3>2 DEF FlushOrder
  <2>5. CASE pc'[p] = "clear" /\ tbl'[p] = tbl[p]
    BY <1>0, <2>1, <2>2, <2>5 DEF FlushOrder
  <2> QED BY <1>2, <2>3, <2>4, <2>5
<1>5. ASSUME NEW q \in Flushers, q /= p PROVE ~Active(q)'
  <2>1. PICK l \in Labels, t \in 1..(NTables + 1), r \in 1..(MaxRows + 1) : Goto(p, l, t, r)
    BY StepGoes DEF FlushStep
  <2> QED BY <1>0, <1>5, <2>1, GotoFacts, Alone DEF Active
<1>6. Active(p)'
  BY <1>2 DEF Active
<1> QED BY <1>3, <1>4, <1>5, <1>6 DEF Ordered

\* No transaction is open where nothing flushes.
LEMMA FailOrder ==
    ASSUME TypeOK, FlushersInv, ~overlap, Ordered, NEW p \in Flushers, FlushFails(p)
    PROVE  Ordered'
<1>1. /\ UNCHANGED <<buf, db, count>> /\ Active(p) /\ Goto(p, "dead", 1, 1)
      /\ \A t \in Tables : txn'[t] = <<>>
  BY Ends DEF FlushFails, Active
<1>2. ASSUME NEW t \in Tables PROVE TableOrder(t)'
  <2>1. TableOrder(t)
    BY DEF Ordered
  <2>2. Increasing(txn'[t]) /\ Below(db[t], txn'[t]) /\ ToSet(txn'[t]) = {}
    BY <1>1, NoRows
  <2> QED BY <1>1, <2>1, <2>2 DEF TableOrder, Written
<1>3. ASSUME NEW q \in Flushers PROVE ~Active(q)'
  <2>1. CASE q = p
    BY <1>1, <2>1, GotoFacts, Ends DEF Active, Labels
  <2>2. CASE q /= p
    BY <1>1, <2>2, GotoFacts, Ends, Alone DEF Active, Labels
  <2> QED BY <2>1, <2>2
<1> QED BY <1>1, <1>2, <1>3 DEF Ordered

\* A flush begins with no transaction open.
LEMMA StartOrder ==
    ASSUME TypeOK, FlushersInv, Ordered, NEW p \in Flushers, \A q \in Flushers : ~Active(q),
           Goto(p, "table", 1, 1), UNCHANGED rows
    PROVE  Ordered'
<1>1. /\ \A t \in Tables : txn'[t] = <<>>
      /\ \A t \in Tables : TableOrder(t)'
  BY DEF Ordered, TableOrder, Written, rows
<1>2. /\ pc'[p] = "table" /\ tbl'[p] = 1
      /\ \A q \in Flushers : q /= p => pc'[q] = pc[q]
  BY GotoFacts, Ends DEF Labels
<1>3. ASSUME NEW t \in Tables PROVE FlushOrder(p, t)'
  BY <1>1, <1>2 DEF FlushOrder, Tables
<1>4. \A q \in Flushers : q /= p => ~Active(q)'
  BY <1>2 DEF Active
<1>5. Active(p)'
  BY <1>2 DEF Active
<1> QED BY <1>1, <1>3, <1>4, <1>5 DEF Ordered

\* Every step keeps the rows in order, unless close() overlaps a flush.
LEMMA OrderKept ==
    ASSUME TypeOK, BufInv, FlushersInv, DrainedInv, OrderInv, [Next]_vars
    PROVE  OrderInv'
<1> USE Ends
<1>1. overlap => overlap'
  BY DEF Next, FlushStep, Log, RunFlush, NextTable, InsertRow, InsertedAll, Clear, Commit, FlushFails,
         FlushOnClosed, FlushSkipped, Shutdown, CloseConn, vars, history, FlushersInv
<1> SUFFICES ASSUME Ordered, ~overlap, ~overlap' PROVE Ordered'
  BY <1>1 DEF OrderInv
<1>2. ASSUME NEW t \in Tables, Log(t) PROVE Ordered'
  BY <1>2, LogOrder
<1>3. ASSUME NEW p \in Flushers, FlushStep(p) PROVE Ordered'
  BY <1>3, InsertOrder, CommitOrder, MoveOrder DEF FlushStep
<1>4. ASSUME NEW p \in Flushers, FlushFails(p) PROVE Ordered'
  BY <1>4, FailOrder
<1>5. CASE RunFlush
  <2>1. pc["close"] = "idle" /\ pc["worker"] = "idle"
    BY <1>5 DEF RunFlush, Running, TypeOK
  <2> QED BY <1>5, <2>1, StartOrder DEF RunFlush, Active
<1>6. CASE Shutdown
  <2>1. pc["close"] = "idle" /\ pc["worker"] \in {"idle", "dead"}
    BY <1>6 DEF Shutdown, Running
  <2> QED BY <1>6, <2>1, StartOrder DEF Shutdown, Active
<1>7. CASE FlushOnClosed \/ FlushSkipped
  <2>1. ~conn /\ pc["worker"] \in {"insert", "table"}
    BY <1>7 DEF FlushOnClosed, FlushSkipped
  <2> QED BY <2>1 DEF FlushersInv
<1>8. CASE CloseConn
  <2>1. \A t \in Tables : txn'[t] = <<>> /\ txn[t] = <<>>
    BY <1>8 DEF CloseConn, DrainedInv
  <2>2. UNCHANGED <<buf, db, count, pc, tbl, pos>>
    BY <1>8 DEF CloseConn, flushers
  <2> QED BY <2>1, <2>2 DEF Ordered, TableOrder, FlushOrder, Written, Active
<1>9. CASE UNCHANGED vars
  BY <1>9 DEF vars, rows, flushers, Ordered, TableOrder, FlushOrder, Written, Active
<1> QED BY <1>2, <1>3, <1>4, <1>5, <1>6, <1>7, <1>8, <1>9 DEF Next

-----------------------------------------------------------------------------
\* The inductive invariant of the logger.
LoggerInv == TypeOK /\ BufInv /\ FlushersInv /\ DrainedInv /\ AccountInv /\ OrderInv

\* The logger starts with nothing logged, ...
LEMMA LoggerInit == Init => LoggerInv
<1> SUFFICES ASSUME Init PROVE LoggerInv
  OBVIOUS
<1> USE Ends
<1>1. /\ \A t \in Tables : buf[t] = <<>> /\ txn[t] = <<>> /\ db[t] = <<>> /\ count[t] = 0
      /\ \A p \in Flushers : pc[p] = "idle"
      /\ conn = TRUE /\ overlap = FALSE
  BY DEF Init
<1>2. TypeOK
  <2>1. buf \in RowSeqs /\ txn \in RowSeqs /\ db \in RowSeqs
    BY DEF Init
  <2>2. /\ count \in [Tables -> 0..MaxRows] /\ failures \in 0..MaxFailures
        /\ inClear \cup rolledBack \subseteq Tables \X (1..MaxRows)
    BY DEF Init
  <2>3. /\ pc \in [Flushers -> {"idle", "table", "insert", "clear", "shut", "dead"}]
        /\ tbl \in [Flushers -> 1..(NTables + 1)]
        /\ pos \in [Flushers -> 1..(MaxRows + 1)]
    BY DEF Init
  <2> QED BY <1>1, <2>1, <2>2, <2>3 DEF Init, TypeOK
<1>3. BufInv
  <2>1. Len(<<>>) = 0 /\ DOMAIN <<>> = {}
    OBVIOUS
  <2> QED BY <1>1, <2>1 DEF BufInv
<1>4. FlushersInv /\ DrainedInv
  BY <1>1 DEF FlushersInv, DrainedInv, Running, Active
<1>5. Accounts
  BY <1>1 DEF Accounts, RowsFound, FlushAccounts
<1>6. Ordered
  <2>1. \A t \in Tables : Written(t) = {}
    BY <1>1, NoRows DEF Written
  <2> QED BY <1>1, <2>1, NoRows DEF Ordered, TableOrder, Active
<1> QED BY <1>2, <1>3, <1>4, <1>5, <1>6 DEF LoggerInv, AccountInv, OrderInv

\* ... every step keeps the invariant, ...
LEMMA LoggerStep == LoggerInv /\ [Next]_vars => LoggerInv'
BY TypesKept, BufKept, FlushersKept, DrainedKept, AccountKept, OrderKept DEF LoggerInv

\* ... and so it always holds.
LEMMA LoggerInvariant == Spec => []LoggerInv
BY LoggerInit, LoggerStep, PTL DEF Spec

\* In every state the types hold, and while the run task sleeps no worker
\* flushes: it starts the next flush only when the last has returned
\* (diag_logger.py:196-198).
THEOREM LoggerTypes == Spec => []TypeOK
<1>1. LoggerInv => TypeOK
  BY DEF LoggerInv
<1> QED BY <1>1, LoggerInvariant, PTL

\* In every state a row that is neither buffered nor stored is one of those
\* the code can lose, whatever the tables, the rows and the failures.
THEOREM LossesAreKnown == Spec => []RowsAccountedFor
<1>1. LoggerInv => RowsAccountedFor
  <2> SUFFICES ASSUME Accounts, TypeOK, NEW x \in Lost PROVE x \in inClear \cup rolledBack
    BY DEF LoggerInv, AccountInv, RowsAccountedFor
  <2>1. /\ x[1] \in Tables /\ x[2] \in 1..MaxRows /\ x = <<x[1], x[2]>>
        /\ x[2] <= count[x[1]] /\ x[2] \notin Kept(x[1])
    BY DEF Lost
  <2>2. x[2] \in 1..count[x[1]]
    BY <2>1, TableFacts
  <2>3. x[2] \notin ToSet(buf[x[1]]) \cup Written(x[1])
    BY <2>1 DEF Kept, Written
  <2> QED BY <2>1, <2>2, <2>3 DEF Accounts, RowsFound
<1> QED BY <1>1, LoggerInvariant, PTL

\* In every state the rows of a table are stored in the order they were logged,
\* none twice, unless close() found a worker flushing (server.py:106-111).
THEOREM StoredInOrder == Spec => []RowsInOrderOnce
<1>1. LoggerInv => RowsInOrderOnce
  BY DEF LoggerInv, OrderInv, Ordered, TableOrder, RowsInOrderOnce
<1> QED BY <1>1, LoggerInvariant, PTL

HIDE LoggerAssumption DEF LoggerAssumption

-----------------------------------------------------------------------------
(* The fault injector.                                                     *)

\* Points of the PRU's loop at which the newest fault is not yet counted.
Counting == {"glitch", "hold", "count", "add"}

\* The strengthening: while a fault is not yet counted, neither side holds a
\* number that counts it.  TypeOK alone does not bound what PruCountWrite adds.
Uncounted ==
    pru.at \in Counting =>
       done < injected /\ pru.count < injected /\ store.count < injected

\* The inductive invariant.
CountInv == FaultTypeOK /\ Uncounted

-----------------------------------------------------------------------------
\* The bound on the faults is a number.
LEMMA MaxInjectedIsNat == MaxInjected \in Nat
BY FaultInjectAssumption DEF FaultInjectAssumption

\* The firmware starts with nothing injected and nothing counted.
LEMMA InitCount ==
    ASSUME FaultInit
    PROVE  CountInv
<1>1. /\ injected = 0 /\ injected \in 0..MaxInjected /\ done \in 0..injected
      /\ mode \in Modes /\ "idle" \in Modes
  BY MaxInjectedIsNat DEF FaultInit, Modes
<1>2. /\ pru \in [at : {"poll", "glitch", "hold", "count", "add", "one-shot"},
                  mode : Modes, count : 0..injected]
      /\ store \in [at : {"none", "clear", "magic", "mode", "count"},
                    mode : Modes, count : 0..injected]
  BY <1>1 DEF FaultInit
<1>3. pru.at \notin Counting
  BY DEF FaultInit, Counting
<1> QED BY <1>1, <1>2, <1>3 DEF FaultInit, CountInv, FaultTypeOK, Uncounted

\* The steps of the PRU: only here does the count go up, once per fault.
LEMMA PruKeepsCount ==
    ASSUME CountInv, PruStep
    PROVE  CountInv'
<1> USE MaxInjectedIsNat DEF CountInv, FaultTypeOK, Uncounted, Counting, Modes, GlitchModes, shm, generator
<1>1. CASE PruGlitch
  <2>1. /\ pru' = [at |-> "glitch", mode |-> mode, count |-> pru.count]
        /\ injected < MaxInjected /\ injected' = injected + 1
        /\ UNCHANGED <<shm, generator, store>>
    BY <1>1 DEF PruGlitch
  <2>2. /\ injected' \in 0..MaxInjected /\ 0..injected \subseteq 0..injected'
        /\ \A n \in 0..injected : n < injected'
    BY <2>1
  <2>3. FaultTypeOK'
    BY <2>1, <2>2
  <2>4. Uncounted'
    BY <2>1, <2>2
  <2> QED BY <2>3, <2>4
<1>2. CASE PruGlitchEnds
  BY <1>2 DEF PruGlitchEnds
<1>3. CASE PruHold
  <2>1. /\ pru' = [at |-> "hold", mode |-> mode, count |-> pru.count]
        /\ injected < MaxInjected /\ injected' = injected + 1
        /\ UNCHANGED <<shm, generator, store>>
    BY <1>3 DEF PruHold
  <2>2. /\ injected' \in 0..MaxInjected /\ 0..injected \subseteq 0..injected'
        /\ \A n \in 0..injected : n < injected'
    BY <2>1
  <2>3. FaultTypeOK'
    BY <2>1, <2>2
  <2>4. Uncounted'
    BY <2>1, <2>2
  <2> QED BY <2>3, <2>4
<1>4. CASE PruRelease
  BY <1>4 DEF PruRelease
<1>5. CASE PruCountRead
  <2>1. /\ pru' = [at |-> "add", mode |-> pru.mode, count |-> done]
        /\ pru.at = "count" /\ UNCHANGED <<shm, generator, store, injected>>
    BY <1>5 DEF PruCountRead
  <2> QED BY <2>1
<1>6. CASE PruCountWrite
  BY <1>6 DEF PruCountWrite
<1>7. CASE PruOneShotEnds
  BY <1>7 DEF PruOneShotEnds
<1> QED BY <1>1, <1>2, <1>3, <1>4, <1>5, <1>6, <1>7 DEF PruStep

\* A set_mode in progress writes back a count no higher than that it read.
LEMMA StoreKeepsCount ==
    ASSUME CountInv, StoreClear \/ StoreMagic \/ StoreMode \/ StoreCount
    PROVE  CountInv'
<1> USE DEF CountInv, FaultTypeOK, Uncounted, Counting, Modes, GlitchModes, generator
<1> USE MaxInjectedIsNat
<1>1. CASE StoreClear
  <2>1. /\ store' = [at |-> "magic", mode |-> store.mode, count |-> store.count]
        /\ magic' = FALSE /\ mode' = "idle" /\ done' = 0
        /\ UNCHANGED <<pru, generator, injected>>
    BY <1>1 DEF StoreClear
  <2>2. FaultTypeOK'
    <3>1. store' \in [at : {"none", "clear", "magic", "mode", "count"},
                      mode : Modes, count : 0..injected]
      BY <2>1
    <3>2. magic' \in BOOLEAN /\ mode' \in Modes
      BY <2>1, Zenon
    <3>3. done' \in 0..injected
      <4>1. injected \in Nat
        OBVIOUS
      <4> HIDE DEF CountInv, FaultTypeOK, Uncounted
      <4> QED BY <2>1, <4>1
    <3> QED BY <2>1, <3>1, <3>2, <3>3, Zenon
  <2>3. Uncounted'
    BY <2>1
  <2> QED BY <2>2, <2>3
<1>2. CASE StoreMagic
  BY <1>2 DEF StoreMagic
<1>3. CASE StoreMode
  BY <1>3 DEF StoreMode
<1>4. CASE StoreCount
  BY <1>4 DEF StoreCount
<1> QED BY <1>1, <1>2, <1>3, <1>4

\* The call of set_mode takes the count as it is, or does nothing.
LEMMA SetModeKeepsCount ==
    ASSUME CountInv, NEW m \in Modes, SetMode(m),
           UNCHANGED <<shm, pru, injected>>,
           /\ gen' \in {"off", "settling", "running", "resetting", "closing", "ended", "killed"}
           /\ ok' = ok /\ line' \in CommandLines \cup {<<>>} /\ loop' \in BOOLEAN
           /\ tasks' = <<>> \/ tasks' \in [DOMAIN line' -> {"created", "asleep", "over"}]
    PROVE  CountInv'
<1> USE DEF CountInv, FaultTypeOK, Uncounted, shm
<1>1. store' = [at |-> "clear", mode |-> m, count |-> done] \/ store' = store
  BY DEF SetMode
<1>2. FaultTypeOK'
  BY <1>1 DEF Modes, GlitchModes
<1>3. Uncounted'
  BY <1>1
<1> QED BY <1>2, <1>3

\* The scenarios and the ways out of them, all but set_mode's own stores.
LEMMA GeneratorKeepsCount ==
    ASSUME CountInv,
           \/ Launch \/ Settle
           \/ \E i \in DOMAIN tasks : StartTask(i) \/ WakeTask(i)
           \/ NextRound \/ RoundEnds \/ TaskFails
           \/ Interrupt \/ InterruptEarly
           \/ Close \/ End \/ Kill
    PROVE  CountInv'
<1> DEFINE States == {"created", "asleep", "over"}
<1>1. CASE Launch
  <2>1. line' \in CommandLines /\ tasks' = [i \in DOMAIN line' |-> "created"]
    BY <1>1 DEF Launch, Fresh
  <2> QED BY <1>1, <2>1 DEF Launch, Connect, CountInv, FaultTypeOK, Uncounted, shm
<1>2. CASE Settle
  BY <1>2 DEF Settle, CountInv, FaultTypeOK, Uncounted, shm
<1>3. ASSUME NEW i \in DOMAIN tasks, StartTask(i) PROVE CountInv'
  <2>1. tasks' = <<>> \/ tasks' \in [DOMAIN line -> States]
    BY <1>3 DEF StartTask, CountInv, FaultTypeOK
  <2>2. CASE line[i] = "traffic"
    BY <1>3, <2>1, <2>2 DEF StartTask, CountInv, FaultTypeOK, Uncounted, shm
  <2>3. CASE line[i] # "traffic"
    <3>1. line[i] \in Modes
      BY <1>3, <2>3, FaultInjectAssumption
         DEF FaultInjectAssumption, StartTask, CountInv, FaultTypeOK, OneShot, Endless, Modes, GlitchModes
    <3> QED BY <1>3, <2>1, <2>3, <3>1, SetModeKeepsCount DEF StartTask, CountInv, FaultTypeOK
  <2> QED BY <2>2, <2>3
<1>4. ASSUME NEW i \in DOMAIN tasks, WakeTask(i) PROVE CountInv'
  <2>1. tasks' = <<>> \/ tasks' \in [DOMAIN line -> States]
    BY <1>4 DEF WakeTask, CountInv, FaultTypeOK
  <2> QED BY <1>4, <2>1, SetModeKeepsCount DEF WakeTask, CountInv, FaultTypeOK, Modes
<1>5. CASE NextRound
  <2>1. tasks' = [i \in DOMAIN line |-> "created"]
    BY <1>5 DEF NextRound, Fresh
  <2> QED BY <1>5, <2>1 DEF NextRound, CountInv, FaultTypeOK, Uncounted, shm
<1>6. ASSUME Finally PROVE CountInv'
  BY <1>6, SetModeKeepsCount DEF Finally, Leave, CountInv, FaultTypeOK, Modes
<1>7. CASE InterruptEarly
  BY <1>7 DEF InterruptEarly, Leave, CountInv, FaultTypeOK, Uncounted, shm
<1>8. CASE Close
  BY <1>8, SetModeKeepsCount DEF Close, CountInv, FaultTypeOK, Modes
<1>9. CASE End
  BY <1>9 DEF End, CountInv, FaultTypeOK, Uncounted, shm
<1>10. CASE Kill
  <2>1. /\ gen' = "killed" /\ tasks' = <<>> /\ line' = <<>> /\ loop' = FALSE
        /\ store' = [at |-> "none", mode |-> "idle", count |-> 0]
        /\ UNCHANGED <<shm, pru, ok, injected>>
    BY <1>10 DEF Kill, Leave
  <2>2. FaultTypeOK'
    <3>1. store' \in [at : {"none", "clear", "magic", "mode", "count"},
                      mode : Modes, count : 0..injected]
      BY <2>1, MaxInjectedIsNat DEF CountInv, FaultTypeOK, Modes
    <3> QED BY <2>1, <3>1, Zenon DEF CountInv, FaultTypeOK, shm
  <2>3. Uncounted'
    BY <2>1, MaxInjectedIsNat DEF CountInv, FaultTypeOK, Uncounted, shm
  <2> QED BY <2>2, <2>3 DEF CountInv
<1> QED BY <1>1, <1>2, <1>3, <1>4, <1>5, <1>6, <1>7, <1>8, <1>9, <1>10
        DEF RoundEnds, TaskFails, Interrupt

\* Every step keeps the invariant.
LEMMA NextKeepsCount ==
    ASSUME CountInv, [FaultNext]_faultVars
    PROVE  CountInv'
<1>1. CASE PruStep
  BY <1>1, PruKeepsCount
<1>2. CASE StoreClear \/ StoreMagic \/ StoreMode \/ StoreCount
  BY <1>2, StoreKeepsCount
<1>3. CASE UNCHANGED faultVars
  BY <1>3 DEF CountInv, FaultTypeOK, Uncounted, faultVars, shm, generator
<1> QED BY <1>1, <1>2, <1>3, GeneratorKeepsCount DEF FaultNext

\* In every state the types hold, and the count is at most the number of faults
\* injected: what set_mode writes back (generator.py:84-86) can only lose counts
\* of the PRU, never invent one.
THEOREM CountNeverAhead == FaultSpec => []FaultTypeOK
<1>1. CountInv => FaultTypeOK
  BY DEF CountInv
<1> QED BY <1>1, InitCount, NextKeepsCount, PTL DEF FaultSpec
=============================================================================
