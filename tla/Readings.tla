------------------------------- MODULE Readings -------------------------------
(***************************************************************************)
(* A reading from the polling loop to the pages and to the table: the loop *)
(* stamps it, sends it on the channel and inserts it, while the tasks of   *)
(* the WebSockets write and the export reads (src/scheduler/mod.rs,        *)
(* src/server/mod.rs, src/logger/mod.rs).  The process may be killed       *)
(* between any two steps and started again on the same table.              *)
(***************************************************************************)
EXTENDS ReadingFeed, SessionLog

vars == <<feedVars, logVars>>

Init == FeedInit /\ LogInit

Publish == Sends /\ Stamps(made + 1)
Log == (Insert \/ InsertFails) /\ UNCHANGED feedVars
Serve == Pages /\ UNCHANGED logVars
Export == Exports /\ UNCHANGED feedVars
Killed == FeedDies /\ LogDies

Next == Publish \/ Log \/ Serve \/ Export \/ Killed

(* The task of a page is scheduled, and the page reads what is written.    *)
Fairness == \A c \in Clients : WF_vars(Task(c) /\ UNCHANGED logVars)

Spec == Init /\ [][Next]_vars /\ Fairness

-----------------------------------------------------------------------------
TypeOK == FeedTypeOK /\ LogTypeOK

(* A page that was never told of a lag has been shown everything the       *)
(* channel took since it subscribed, without a gap or a repetition         *)
(* (handle_websocket, src/server/mod.rs:112-125).                          *)
Unbroken ==
  \A c \in Subscribed :
    ~ lagged[c] /\ ~ left[c] =>
      seen[c] = SubSeq(sent, start[c],
                       IF ws[c] = "writing" THEN pos[c] - 2 ELSE pos[c] - 1)

(* What a page shows is in the table, or is the one reading the loop is    *)
(* inserting, unless its insertion failed or the process was killed first: *)
(* the loop sends before it inserts, but is never two readings ahead       *)
(* (src/scheduler/mod.rs:74-79).                                           *)
ShownIsLogged ==
  \A c \in Clients : \A i \in DOMAIN seen[c] :
    seen[c][i] \in Logged \cup unlogged \cup {pending}

(* The export of the most recent session leaves out no row that is newer   *)
(* than all it holds, though rows are inserted between latest_session and  *)
(* export_csv (src/server/mod.rs:181-193).                                 *)
ExportIsRecent ==
  [][ExportCsv =>
       \A i \in 1 .. export.had :
         \E row \in Csv(export.session) : rows[i].ts <= row.ts]_vars

(* The export of the most recent session holds what this run of the        *)
(* process has recorded, as test_insert_latest_session_and_export_csv      *)
(* expects of two readings a tenth of a second apart                       *)
(* (src/logger/mod.rs:106-118).                                            *)
WholeRecording ==
  [][ExportCsv =>
       \A i \in first + 1 .. export.had : rows[i] \in Csv(export.session)]_vars

Feed == INSTANCE OrderedFeed
          WITH Clients <- Clients, made <- made, since <- since, seen <- seen

(* Whatever lags, leaves or is killed, a page is shown readings made since *)
(* it was accepted, in order and none twice.                               *)
FeedsInOrder == Feed!Spec

(* A page that stays and reads is shown every reading the channel takes    *)
(* while it is subscribed, unless it lags.                                 *)
CatchesUp ==
  \A c \in Clients : \A r \in 1 .. MaxReadings :
    (c \in Subscribed /\ \E i \in start[c] .. Len(sent) : sent[i] = r)
      ~> \/ \E i \in DOMAIN seen[c] : seen[c][i] = r
         \/ lagged[c] \/ left[c] \/ ws[c] = "none"
=============================================================================
