------------------------------ MODULE SessionLog ------------------------------
(***************************************************************************)
(* The table of readings (src/logger/mod.rs) and the export that reads it  *)
(* (handle_export, src/server/mod.rs).  Each call of the store holds its   *)
(* mutex, so it is one step; an export without a session is two of them.   *)
(*                                                                         *)
(* A row's session is the default of its column: the second at which it is *)
(* inserted.  Its ts is that of the reading, in milliseconds, taken before *)
(* the insertion.  The wall clock does not go back.                        *)
(***************************************************************************)
EXTENDS Integers, Sequences

CONSTANTS
  Second,     \* milliseconds of a second
  MaxTime     \* bound: the wall clock, in milliseconds

ASSUME LogAssumption ==
  /\ Second \in Nat \ {0}
  /\ MaxTime \in Nat

VARIABLES
  now,      \* the wall clock
  rows,     \* the table, by id
  first,    \* of them, those of earlier runs of the process
  pending,  \* the reading the loop is about to insert, or 0
  ts,       \* its time
  unlogged, \* the readings whose insertion failed or was not reached
  export    \* the export under way: its session, and the rows when asked

logVars == <<now, rows, first, pending, ts, unlogged, export>>

Sessions == 0 .. MaxTime \div Second
NoSession == -1
Idle == [session |-> -2, had |-> 0]

Rows == {rows[i] : i \in DOMAIN rows}
Logged == {row.reading : row \in Rows}

LogTypeOK ==
  /\ now \in 0 .. MaxTime
  /\ first \in 0 .. Len(rows)
  /\ \A row \in Rows : row.session \in Sessions /\ row.ts \in 0 .. now
  /\ export # Idle => /\ export.session \in Sessions
                      /\ export.had \in 0 .. Len(rows)

LogInit ==
  /\ now = 0
  /\ rows = <<>> /\ first = 0
  /\ pending = 0 /\ ts = 0
  /\ unlogged = {}
  /\ export = Idle

(* Time passes before a step that looks at the clock.                      *)
TimePasses == now' \in {t \in {now, now + 1} : t <= MaxTime}

-----------------------------------------------------------------------------
(* Wrong: the loop does not wait for the insertion before.                 *)
StampsOver(r) ==
  /\ TimePasses
  /\ pending' = r /\ ts' = now'
  /\ UNCHANGED <<rows, first, unlogged, export>>

(* make_reading's now_ms; the reading is on its way to insert.             *)
Stamps(r) ==
  /\ pending = 0
  /\ TimePasses
  /\ pending' = r /\ ts' = now'
  /\ UNCHANGED <<rows, first, unlogged, export>>

Insert ==
  /\ pending # 0
  /\ TimePasses
  /\ rows' = Append(rows, [reading |-> pending, ts |-> ts,
                           session |-> now' \div Second])
  /\ pending' = 0 /\ ts' = 0
  /\ UNCHANGED <<first, unlogged, export>>

(* A warning; the reading is dropped.                                      *)
InsertFails ==
  /\ pending # 0
  /\ unlogged' = unlogged \cup {pending}
  /\ pending' = 0 /\ ts' = 0
  /\ UNCHANGED <<now, rows, first, export>>

(* Wrong: ascending.                                                       *)
Earliest(row) == \A other \in Rows : other.ts >= row.ts

(* ORDER BY ts_ms DESC LIMIT 1: of the rows with the largest ts, any.      *)
Latest(row) == \A other \in Rows : other.ts <= row.ts

(* Wrong: an empty table has an empty name for its session.                *)
LatestOrNone ==
  /\ export = Idle
  /\ \/ \E row \in Rows : /\ Latest(row)
                          /\ export' = [session |-> row.session, had |-> Len(rows)]
     \/ Rows = {} /\ export' = [session |-> NoSession, had |-> 0]
  /\ UNCHANGED <<now, rows, first, pending, ts, unlogged>>

(* handle_export without a session.  An empty table is a 404.              *)
LatestSession ==
  /\ export = Idle
  /\ \E row \in Rows : /\ Latest(row)
                       /\ export' = [session |-> row.session, had |-> Len(rows)]
  /\ UNCHANGED <<now, rows, first, pending, ts, unlogged>>

(* The rows export_csv writes: WHERE session = ?1.                         *)
Csv(session) == {row \in Rows : row.session = session}

(* export_csv of that session.  With a session in its query the export is  *)
(* this call alone, which changes nothing.                                 *)
ExportCsv ==
  /\ export # Idle
  /\ export' = Idle
  /\ UNCHANGED <<now, rows, first, pending, ts, unlogged>>

Exports == LatestSession \/ ExportCsv

(* The process is killed: the table stays.                                 *)
LogDies ==
  /\ unlogged' = unlogged \cup ({pending} \ {0})
  /\ pending' = 0 /\ ts' = 0
  /\ export' = Idle
  /\ first' = Len(rows)
  /\ UNCHANGED <<now, rows>>
=============================================================================
