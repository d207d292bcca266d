----------------------------- MODULE DiagLogger -----------------------------
(***************************************************************************)
(* The database logger of backend/can_sniffer/diag_logger.py.  The event   *)
(* loop appends rows to one buffer per table; every 50 ms the run task has *)
(* a worker thread flush the buffers in a transaction; at shutdown close() *)
(* flushes once more on the event loop's thread, whether or not a worker   *)
(* is still at it.  The threads share the buffers and the connection, and  *)
(* no lock guards either: a flush is a step per row, per test and per      *)
(* clear().  executemany walks the live list, so it also takes the rows    *)
(* appended while it runs.  Rows of a table are numbered as appended.      *)
(***************************************************************************)
EXTENDS Integers, Sequences, SequencesExt, Deques

CONSTANTS NTables,      \* buffers of the logger, in the order _flush takes them
          MaxRows,      \* bound: rows logged to a table
          MaxFailures,  \* bound: database errors (disk full, locked...)
          MayStop       \* whether the server is shut down

ASSUME LoggerAssumption ==
    /\ NTables \in Nat \ {0} /\ MaxRows \in Nat /\ MaxFailures \in Nat
    /\ MayStop \in BOOLEAN

VARIABLES buf,         \* the row buffers
          count,       \* history: rows logged to each table
          txn,         \* rows inserted in the open transaction
          db,          \* rows committed
          conn,        \* the connection is open
          task,        \* the run task: "sleep", "await", "dead" or "cancelled"
          pc,          \* of each thread that may flush: where in _flush it is
          tbl,         \* ... the table it has come to
          pos,         \* ... the next row of executemany
          failures,    \* database errors so far
          inClear,     \* history: rows appended between executemany and clear()
          rolledBack,  \* history: rows cleared whose transaction was rolled back
          overlap      \* history: close() found a worker flushing

rows == <<buf, count, txn, db>>
flushers == <<pc, tbl, pos>>
history == <<inClear, rolledBack, overlap>>
vars == <<rows, conn, task, flushers, failures, history>>

Tables == 1..NTables

\* The worker thread of asyncio.to_thread, and the event loop in close().
Flushers == {"worker", "close"}

Empty == [t \in Tables |-> <<>>]

Init ==
    /\ buf = Empty /\ txn = Empty /\ db = Empty
    /\ count = [t \in Tables |-> 0]
    /\ conn = TRUE
    /\ task = "sleep"
    /\ pc = [p \in Flushers |-> "idle"]
    /\ tbl = [p \in Flushers |-> 1] /\ pos = [p \in Flushers |-> 1]
    /\ failures = 0
    /\ inClear = {} /\ rolledBack = {}
    /\ overlap = FALSE

\* The event loop still runs callbacks: close() has not begun.
Running == pc["close"] = "idle"

-----------------------------------------------------------------------------
\* log_frame, log_error, log_pru_event, log_capture, log_annotation, ...
Log(t) ==
    /\ Running /\ count[t] < MaxRows
    /\ count' = [count EXCEPT ![t] = @ + 1]
    /\ buf' = [buf EXCEPT ![t] = Append(@, count[t] + 1)]
    /\ inClear' = IF pc["worker"] = "clear" /\ tbl["worker"] = t
                    THEN inClear \cup {<<t, count[t] + 1>>} ELSE inClear
    /\ UNCHANGED <<txn, db, conn, task, flushers, failures, rolledBack, overlap>>

\* Thread p goes on at label l, with its table and row.
Goto(p, l, t, r) ==
    /\ pc' = [pc EXCEPT ![p] = l]
    /\ tbl' = [tbl EXCEPT ![p] = t]
    /\ pos' = [pos EXCEPT ![p] = r]

\* Mutant: the flush is started but not awaited.
RunFlushDetached ==
    /\ Running /\ task = "sleep"
    /\ Goto("worker", "table", 1, 1)
    /\ UNCHANGED <<rows, conn, task, failures, history>>

\* run: 50 ms are over, to_thread(_flush) starts and is awaited.
RunFlush ==
    /\ Running /\ task = "sleep"
    /\ task' = "await"
    /\ Goto("worker", "table", 1, 1)
    /\ UNCHANGED <<rows, conn, failures, history>>

\* Mutant: an empty buffer ends the flush.
NextTableStopping(p) ==
    /\ pc[p] = "table" /\ tbl[p] <= NTables
    /\ IF buf[tbl[p]] = <<>>
         THEN Goto(p, "table", NTables + 1, 1)
         ELSE Goto(p, "insert", tbl[p], 1)
    /\ UNCHANGED <<rows, conn, task, failures, history>>

\* "if self._x_buf": an empty buffer is passed over.
NextTable(p) ==
    /\ pc[p] = "table" /\ tbl[p] <= NTables
    /\ IF buf[tbl[p]] = <<>>
         THEN Goto(p, "table", tbl[p] + 1, 1)
         ELSE Goto(p, "insert", tbl[p], 1)
    /\ UNCHANGED <<rows, conn, task, failures, history>>

\* executemany inserts the row its iterator has come to.
InsertRow(p) ==
    /\ pc[p] = "insert" /\ conn
    /\ pos[p] <= Len(buf[tbl[p]])
    /\ txn' = [txn EXCEPT ![tbl[p]] = Append(@, buf[tbl[p]][pos[p]])]
    /\ Goto(p, "insert", tbl[p], pos[p] + 1)
    /\ UNCHANGED <<buf, count, db, conn, task, failures, history>>

\* Mutant: the last row is left out.
InsertedAllShort(p) ==
    /\ pc[p] = "insert" /\ conn
    /\ pos[p] >= Len(buf[tbl[p]])
    /\ Goto(p, "clear", tbl[p], 1)
    /\ UNCHANGED <<rows, conn, task, failures, history>>

\* The iterator is exhausted and executemany returns.
InsertedAll(p) ==
    /\ pc[p] = "insert" /\ conn
    /\ pos[p] > Len(buf[tbl[p]])
    /\ Goto(p, "clear", tbl[p], 1)
    /\ UNCHANGED <<rows, conn, task, failures, history>>

\* Mutant: clear() is forgotten.
ClearNothing(p) ==
    /\ pc[p] = "clear"
    /\ Goto(p, "table", tbl[p] + 1, 1)
    /\ UNCHANGED <<rows, conn, task, failures, history>>

\* The buffer's clear().
Clear(p) ==
    /\ pc[p] = "clear"
    /\ buf' = [buf EXCEPT ![tbl[p]] = <<>>]
    /\ Goto(p, "table", tbl[p] + 1, 1)
    /\ UNCHANGED <<count, txn, db, conn, task, failures, history>>

-----------------------------------------------------------------------------
\* A flush by p is over: the run task sleeps on unless it was cancelled, and
\* close() goes on to close the connection.
FlushReturns(p) ==
    /\ Goto(p, IF p = "close" THEN "shut" ELSE "idle", 1, 1)
    /\ task' = IF p = "worker" /\ task = "await" THEN "sleep" ELSE task

\* "with self._conn" commits whatever the connection's transaction holds.
Commit(p) ==
    /\ pc[p] = "table" /\ tbl[p] > NTables /\ conn
    /\ db' = [t \in Tables |-> db[t] \o txn[t]]
    /\ txn' = Empty
    /\ FlushReturns(p)
    /\ UNCHANGED <<buf, count, conn, failures, history>>

\* The rows of the transaction that are in no buffer any more.
Unbuffered ==
    UNION {{<<t, r>> : r \in ToSet(txn[t]) \ ToSet(buf[t])} : t \in Tables}

\* A database error: "with" rolls back, and the exception ends the thread's
\* _flush and with it the run task, which does not catch it.
FlushFails(p) ==
    /\ failures < MaxFailures /\ conn
    /\ pc[p] = "insert" \/ (pc[p] = "table" /\ tbl[p] > NTables)
    /\ failures' = failures + 1
    /\ txn' = Empty
    /\ rolledBack' = rolledBack \cup Unbuffered
    /\ Goto(p, "dead", 1, 1)
    /\ task' = IF p = "worker" /\ task = "await" THEN "dead" ELSE task
    /\ UNCHANGED <<buf, count, db, conn, inClear, overlap>>

\* The connection was closed under the worker: ProgrammingError.
FlushOnClosed ==
    /\ ~conn
    /\ pc["worker"] = "insert" \/ (pc["worker"] = "table" /\ tbl["worker"] > NTables)
    /\ Goto("worker", "dead", 1, 1)
    /\ UNCHANGED <<rows, conn, task, failures, history>>

\* "if not self._conn": a worker that was slow to start returns at once.
FlushSkipped ==
    /\ ~conn
    /\ pc["worker"] = "table" /\ tbl["worker"] = 1
    /\ FlushReturns("worker")
    /\ UNCHANGED <<rows, conn, failures, history>>

\* Shutdown: the run task is cancelled, which does not stop a worker thread,
\* and close() begins its flush.
Shutdown ==
    /\ MayStop /\ Running
    /\ task' = IF task = "dead" THEN "dead" ELSE "cancelled"
    /\ overlap' = (pc["worker"] \notin {"idle", "dead"})
    /\ Goto("close", "table", 1, 1)
    /\ UNCHANGED <<rows, conn, failures, inClear, rolledBack>>

\* close() closes the connection; an open transaction is rolled back.
CloseConn ==
    /\ pc["close"] = "shut" /\ conn
    /\ conn' = FALSE
    /\ txn' = Empty
    /\ UNCHANGED <<buf, count, db, task, flushers, failures, history>>

-----------------------------------------------------------------------------
FlushStep(p) ==
    NextTable(p) \/ InsertRow(p) \/ InsertedAll(p) \/ Clear(p) \/ Commit(p)

Next ==
    \/ \E t \in Tables : Log(t)
    \/ RunFlush
    \/ \E p \in Flushers : FlushStep(p) \/ FlushFails(p)
    \/ FlushOnClosed \/ FlushSkipped
    \/ Shutdown
    \/ CloseConn

\* The run task's timer fires and a thread once in _flush goes on.
Spec ==
    /\ Init /\ [][Next]_vars
    /\ WF_vars(RunFlush) /\ WF_vars(CloseConn)
    /\ \A p \in Flushers : WF_vars(FlushStep(p))

-----------------------------------------------------------------------------
RowSeqs == [Tables -> Seq(1..MaxRows)]

\* Types of the variables; while the run task sleeps no worker is flushing.
TypeOK ==
    /\ buf \in RowSeqs /\ txn \in RowSeqs /\ db \in RowSeqs
    /\ count \in [Tables -> 0..MaxRows]
    /\ conn \in BOOLEAN /\ overlap \in BOOLEAN
    /\ task \in {"sleep", "await", "dead", "cancelled"}
    /\ pc \in [Flushers -> {"idle", "table", "insert", "clear", "shut", "dead"}]
    /\ tbl \in [Flushers -> 1..(NTables + 1)]
    /\ pos \in [Flushers -> 1..(MaxRows + 1)]
    /\ task = "sleep" => pc["worker"] = "idle"
    /\ failures \in 0..MaxFailures
    /\ inClear \cup rolledBack \subseteq Tables \X (1..MaxRows)

\* Where a row of table t can be found.
Kept(t) == ToSet(buf[t]) \cup ToSet(txn[t]) \cup ToSet(db[t])

\* The rows that are neither waiting nor stored.
Lost == {x \in Tables \X (1..MaxRows) : x[2] <= count[x[1]] /\ x[2] \notin Kept(x[1])}

\* The only ways to lose a row: it was appended in the window between the end
\* of executemany and clear(); its buffer had been cleared when a later
\* statement of the same transaction failed (diag_logger.py:206-244); or close()
\* and a worker flushed together and one cleared what the other rolled back.
RowsAccountedFor ==
    Lost \subseteq inClear \cup rolledBack \/ (overlap /\ failures > 0)

\* The rows of a table are stored in the order they were logged, none twice,
\* unless close() overlapped a worker's flush (server.py:106-111).
RowsInOrderOnce == overlap \/ \A t \in Tables : Increasing(db[t])

\* A logged row is stored within finitely many flushes, unless it is one of
\* those lost or a flush died on a database error or on the closed connection.
RowsAreStored ==
    \A t \in Tables : \A r \in 1..MaxRows :
       r <= count[t] ~> \/ r \in ToSet(db[t])
                        \/ <<t, r>> \in inClear \cup rolledBack
                        \/ task = "dead" \/ \E p \in Flushers : pc[p] = "dead"

\* server.py:35-36: every frame is persisted to the database.
NoRowLost == Lost = {}
=============================================================================
