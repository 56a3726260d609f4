------------------------------ MODULE ExportJob ------------------------------
(***************************************************************************)
(* One export (services/export.service, workers/export.worker,             *)
(* utils/dataStream): a record is inserted and a job queued; a worker      *)
(* reads the rows page by page into a file and sets the status of the      *)
(* record.  The export may be deleted at any time.                         *)
(*                                                                         *)
(* Left out: the limits of a filter and of a PDF, the download link, the   *)
(* mail.  Two executions that write one file at once mix their bytes; the  *)
(* model keeps the rows of both.                                           *)
(***************************************************************************)
EXTENDS Integers, FiniteSets

CONSTANTS
  Rows,              \* rows of the exported table
  MaxRowTime,        \* bound: their times are 1..MaxRowTime
  PageSize,          \* EXPORT_STREAMING_PAGE_SIZE
  Exporters,         \* executions of the processor that may overlap
  MaxExportAttempts, \* attempts of the job (3)
  Formats,           \* formats an export may have
  MaxExportFaults,   \* bound: statements and writes that fail, workers that die or
                     \* lose the lock of their job
  NoExporter

ASSUME ExportAssumption ==
  /\ IsFiniteSet(Rows)
  /\ PageSize \in Nat \ {0} /\ MaxExportAttempts \in Nat \ {0} /\ MaxRowTime \in Nat
  /\ Formats \subseteq {"csv", "json", "pdf"}
  /\ MaxExportFaults \in Nat
  /\ NoExporter \notin Exporters

VARIABLES
  arrival,      \* [Rows -> 0..MaxRowTime]: 0 for a row that has not arrived
  dropped,      \* rows that retention removed
  format,       \* of the export
  record,       \* status and file_path of the row of export_history
  exportJob,    \* state, holder, attempts made, stalls
  exporter,     \* [Exporters -> pc, offset, rows read]
  file,         \* [present, rows]
  deletion,     \* where deleteExport is
  opened,       \* history: the rows there when an execution last began to read
  overtaken,    \* history: an execution lost its job and went on
  cutOff,       \* history: the latest execution died or had its last update refused
  exportFaults  \* history: faults so far

rowVars == <<arrival, dropped>>
exportVars == <<rowVars, format, record, exportJob, exporter, file, deletion, opened,
                overtaken, cutOff, exportFaults>>

Present == {r \in Rows : arrival[r] > 0} \ dropped
Settled == {"completed", "failed"}

ExportTypeOK ==
  /\ arrival \in [Rows -> 0..MaxRowTime] /\ dropped \subseteq Rows /\ format \in Formats
  /\ record \in [status : {"none", "pending", "processing", "deleted"} \cup Settled,
                 filePath : BOOLEAN]
  /\ exportJob \in [state : {"none", "waiting", "active"} \cup Settled,
                    holder : Exporters \cup {NoExporter},
                    attempts : 0..MaxExportAttempts, stalls : 0..2]
  /\ exporter \in [Exporters -> [
       pc : {"idle", "begin", "read", "stat", "complete", "fail", "return", "throw"},
       offset : Nat, rows : SUBSET Rows]]
  /\ file \in [present : BOOLEAN, rows : SUBSET Rows]
  /\ deletion \in {"idle", "unlink", "row", "refused"}
  /\ opened \subseteq Rows /\ overtaken \in BOOLEAN /\ cutOff \in BOOLEAN

ExportInit ==
  /\ arrival \in [Rows -> 0..MaxRowTime] /\ dropped = {}
  /\ format \in Formats
  /\ record = [status |-> "none", filePath |-> FALSE]
  /\ exportJob = [state |-> "none", holder |-> NoExporter, attempts |-> 0, stalls |-> 0]
  /\ exporter = [w \in Exporters |-> [pc |-> "idle", offset |-> 0, rows |-> {}]]
  /\ file = [present |-> FALSE, rows |-> {}]
  /\ deletion = "idle"
  /\ opened = {} /\ overtaken = FALSE /\ cutOff = FALSE
  /\ exportFaults = 0

Fault == exportFaults < MaxExportFaults /\ exportFaults' = exportFaults + 1
Moves(w, pc) == exporter' = [exporter EXCEPT ![w].pc = pc]

\* UPDATE export_history WHERE id: nothing once the row is deleted.
SetRecord(status, filePath) ==
  record' = IF record.status = "deleted" THEN record
            ELSE [status |-> status, filePath |-> filePath]

-----------------------------------------------------------------------------
(* The exported table: rows arrive in any order of their times, retention *)
(* removes the oldest *)

RowArrives(r) ==
  /\ arrival[r] = 0
  /\ \E t \in 1..MaxRowTime : arrival' = [arrival EXCEPT ![r] = t]
  /\ UNCHANGED <<dropped, format, record, exportJob, exporter, file, deletion, opened,
                 overtaken, cutOff, exportFaults>>

OldestRowDropped(r) ==
  /\ r \in Present /\ \A s \in Present : arrival[r] <= arrival[s]
  /\ dropped' = dropped \cup {r}
  /\ UNCHANGED <<arrival, format, record, exportJob, exporter, file, deletion, opened,
                 overtaken, cutOff, exportFaults>>

-----------------------------------------------------------------------------
(* Requests *)

\* requestExport: the row, then the job; when the queue refuses the job the row
\* stays.
RequestExport ==
  /\ record.status = "none"
  /\ record' = [status |-> "pending", filePath |-> FALSE]
  /\ \/ exportJob' = [exportJob EXCEPT !.state = "waiting"] /\ UNCHANGED exportFaults
     \/ Fault /\ UNCHANGED exportJob
  /\ UNCHANGED <<rowVars, format, exporter, file, deletion, opened, overtaken, cutOff>>

\* deleteExport reads the row, unlinks the file the row names, deletes the row.
DeleteRead ==
  /\ deletion \in {"idle", "refused"} /\ record.status \notin {"none", "deleted"}
  /\ deletion' = IF record.filePath THEN "unlink" ELSE "row"
  /\ UNCHANGED <<rowVars, format, record, exportJob, exporter, file, opened, overtaken,
                 cutOff, exportFaults>>

DeleteFile ==
  /\ deletion = "unlink" /\ deletion' = "row"
  /\ \/ file' = [present |-> FALSE, rows |-> {}] /\ UNCHANGED exportFaults
     \/ Fault /\ UNCHANGED file
  /\ UNCHANGED <<rowVars, format, record, exportJob, exporter, opened, overtaken, cutOff>>

DeleteRow ==
  /\ deletion = "row"
  /\ \/ /\ record' = [status |-> "deleted", filePath |-> FALSE] /\ deletion' = "idle"
        /\ UNCHANGED exportFaults
     \/ Fault /\ deletion' = "refused" /\ UNCHANGED record
  /\ UNCHANGED <<rowVars, format, exportJob, exporter, file, opened, overtaken, cutOff>>

-----------------------------------------------------------------------------
(* The worker *)

TakeExport(w) ==
  /\ exportJob.state = "waiting" /\ exporter[w].pc = "idle"
  /\ exportJob' = [exportJob EXCEPT !.state = "active", !.holder = w]
  /\ exporter' = [exporter EXCEPT ![w] = [pc |-> "begin", offset |-> 0, rows |-> {}]]
  /\ cutOff' = FALSE
  /\ UNCHANGED <<rowVars, format, record, file, deletion, opened, overtaken, exportFaults>>

\* The status; a CSV or JSON file is created before its rows are read.
BeginExport(w) ==
  /\ exporter[w].pc = "begin"
  /\ \/ /\ Moves(w, "read")
        /\ SetRecord("processing", record.filePath)
        /\ opened' = Present
        /\ file' = IF format = "pdf" THEN file ELSE [present |-> TRUE, rows |-> {}]
        /\ UNCHANGED exportFaults
     \/ /\ Fault /\ Moves(w, "fail")
        /\ UNCHANGED <<record, opened, file>>
  /\ UNCHANGED <<rowVars, format, exportJob, deletion, overtaken, cutOff>>

\* Mutant: the page is one of rows in ascending order.
PagesAscending(offset) ==
  {page \in SUBSET Present : \E before \in SUBSET (Present \ page) :
     /\ \/ Cardinality(before) = offset
        \/ before = Present /\ Cardinality(before) < offset
     /\ \/ Cardinality(page) = PageSize
        \/ page = Present \ before /\ Cardinality(page) < PageSize
     /\ \A r \in before, p \in Present \ before : arrival[r] <= arrival[p]
     /\ \A p \in page, s \in Present \ (before \cup page) : arrival[p] <= arrival[s]}

\* LIMIT PageSize OFFSET offset of the rows in descending order of their times;
\* rows of one time come in any order, another one at every query.
Pages(offset) ==
  {page \in SUBSET Present : \E before \in SUBSET (Present \ page) :
     /\ \/ Cardinality(before) = offset
        \/ before = Present /\ Cardinality(before) < offset
     /\ \/ Cardinality(page) = PageSize
        \/ page = Present \ before /\ Cardinality(page) < PageSize
     /\ \A r \in before, p \in Present \ before : arrival[r] >= arrival[p]
     /\ \A p \in page, s \in Present \ (before \cup page) : arrival[p] >= arrival[s]}

\* streamData reads a page; one that is not full is the last, and a PDF is
\* written after it.
ReadPage(w) ==
  /\ exporter[w].pc = "read"
  /\ \E page \in Pages(exporter[w].offset) :
       LET read == exporter[w].rows \cup page
           last == Cardinality(page) < PageSize
       IN /\ exporter' = [exporter EXCEPT ![w] =
               [pc |-> IF last THEN "stat" ELSE "read", rows |-> read,
                offset |-> IF last THEN @.offset ELSE @.offset + PageSize]]
          /\ file' = CASE format # "pdf" /\ file.present ->
                            [present |-> TRUE, rows |-> file.rows \cup page]
                       [] format = "pdf" /\ last -> [present |-> TRUE, rows |-> read]
                       [] OTHER -> file
  /\ UNCHANGED <<rowVars, format, record, exportJob, deletion, opened, overtaken, cutOff,
                 exportFaults>>

\* The process is gone and the job with it until it is found stalled.
Dies(w) ==
  /\ exporter' = [exporter EXCEPT ![w] = [pc |-> "idle", offset |-> 0, rows |-> {}]]
  /\ exportJob' = IF exportJob.holder = w THEN [exportJob EXCEPT !.holder = NoExporter]
                  ELSE exportJob
  /\ cutOff' = TRUE

\* A page query rejects: a PDF fails; for CSV and JSON the error of the destroyed
\* Transform has no listener and ends the process.
QueryFails(w) ==
  /\ exporter[w].pc = "read" /\ Fault
  /\ \/ format = "pdf" /\ Moves(w, "fail") /\ UNCHANGED <<exportJob, cutOff>>
     \/ format # "pdf" /\ Dies(w)
  /\ UNCHANGED <<rowVars, format, record, file, deletion, opened, overtaken>>

\* The pipeline into the file rejects.
WriteFails(w) ==
  /\ exporter[w].pc \in {"read", "stat"}
  /\ Fault /\ Moves(w, "fail")
  /\ UNCHANGED <<rowVars, format, record, exportJob, file, deletion, opened, overtaken,
                 cutOff>>

\* stat throws when the file has been unlinked.
StatFile(w) ==
  /\ exporter[w].pc = "stat"
  /\ Moves(w, IF file.present THEN "complete" ELSE "fail")
  /\ UNCHANGED <<rowVars, format, record, exportJob, file, deletion, opened, overtaken,
                 cutOff, exportFaults>>

CompleteRecord(w) ==
  /\ exporter[w].pc = "complete"
  /\ \/ Moves(w, "return") /\ SetRecord("completed", TRUE) /\ UNCHANGED exportFaults
     \/ Moves(w, "fail") /\ Fault /\ UNCHANGED record
  /\ UNCHANGED <<rowVars, format, exportJob, file, deletion, opened, overtaken, cutOff>>

\* The catch block; a path written earlier stays.
FailRecord(w) ==
  /\ exporter[w].pc = "fail" /\ Moves(w, "throw")
  /\ \/ SetRecord("failed", record.filePath) /\ UNCHANGED <<exportFaults, cutOff>>
     \/ Fault /\ cutOff' = TRUE /\ UNCHANGED record
  /\ UNCHANGED <<rowVars, format, exportJob, file, deletion, opened, overtaken>>

\* The processor ends; the queue ignores a worker that no longer holds the job.
EndExport(w) ==
  /\ exporter[w].pc \in {"return", "throw"} /\ Moves(w, "idle")
  /\ exportJob' =
       CASE exportJob.holder # w -> exportJob
         [] exportJob.holder = w /\ exporter[w].pc = "return" ->
              [exportJob EXCEPT !.state = "completed", !.holder = NoExporter]
         [] OTHER ->
              [exportJob EXCEPT
                 !.attempts = @ + 1, !.holder = NoExporter,
                 !.state = IF exportJob.attempts + 1 < MaxExportAttempts THEN "waiting"
                           ELSE "failed"]
  /\ UNCHANGED <<rowVars, format, record, file, deletion, opened, overtaken, cutOff,
                 exportFaults>>

ExporterDies(w) ==
  /\ exporter[w].pc # "idle" /\ Fault
  /\ Dies(w)
  /\ UNCHANGED <<rowVars, format, record, file, deletion, opened, overtaken>>

\* The lock of the job expires under a worker that goes on.
LoseExportLock ==
  /\ exportJob.holder # NoExporter /\ Fault
  /\ exportJob' = [exportJob EXCEPT !.holder = NoExporter] /\ overtaken' = TRUE
  /\ UNCHANGED <<rowVars, format, record, exporter, file, deletion, opened, cutOff>>

\* An active job without a lock is handed out once more, then it has failed.
RequeueStalledExport ==
  /\ exportJob.state = "active" /\ exportJob.holder = NoExporter
  /\ exportJob' = [exportJob EXCEPT
       !.stalls = @ + 1, !.state = IF exportJob.stalls = 0 THEN "waiting" ELSE "failed"]
  /\ UNCHANGED <<rowVars, format, record, exporter, file, deletion, opened, overtaken,
                 cutOff, exportFaults>>

-----------------------------------------------------------------------------
ExportNext ==
  \/ \E r \in Rows : RowArrives(r) \/ OldestRowDropped(r)
  \/ RequestExport \/ DeleteRead \/ DeleteFile \/ DeleteRow
  \/ \E w \in Exporters :
       \/ TakeExport(w) \/ BeginExport(w) \/ ReadPage(w) \/ QueryFails(w) \/ WriteFails(w)
       \/ StatFile(w) \/ CompleteRecord(w) \/ FailRecord(w) \/ EndExport(w)
       \/ ExporterDies(w)
  \/ LoseExportLock \/ RequeueStalledExport

ExportSpec == ExportInit /\ [][ExportNext]_exportVars

-----------------------------------------------------------------------------
(* Properties *)

\* The file of a completed export holds every row that was there when its pages
\* began to be read and is still there, whatever arrived or left in between,
\* unless another row shares its time.
CompletedIsWhole ==
  record.status = "completed" /\ deletion = "idle" /\ ~overtaken =>
    /\ file.present
    /\ \A r \in opened \cap Present :
         (\A s \in Rows \ {r} : arrival[s] # arrival[r]) => r \in file.rows

\* A record agrees with its settled job unless the last execution was cut off.
RecordAgrees ==
  exportJob.state \in Settled /\ record.status # "deleted" /\ ~overtaken /\ ~cutOff =>
    record.status = exportJob.state

\* As long as no second execution overtakes the first, what the record says of an
\* export is so: pages by OFFSET miss no row that stays, and the status follows
\* the job through retries, deletions and refused statements
\* (dataStream.ts:27, :90, export.worker.ts:130, :173).
RecordTellsTruth == CompletedIsWhole /\ RecordAgrees
==============================================================================
