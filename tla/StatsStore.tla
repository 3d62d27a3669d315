----------------------------- MODULE StatsStore -----------------------------
(***************************************************************************)
(* The statistics of lib/stats.js and the ways a process of serve.js comes *)
(* to its end.  Statistics live in memory.  A timer starts flush(), whose  *)
(* file operations run on libuv's threads while more is recorded; a stop   *)
(* or an uncaught exception runs flushSync().  SIGTERM first waits for the *)
(* event streams, and a kill asks nobody.  The next process starts from    *)
(* the file.                                                               *)
(*                                                                         *)
(* What has been recorded is represented by how often something was: the   *)
(* file holds "n" when it holds all of the first n records.                *)
(***************************************************************************)
EXTENDS Integers

CONSTANTS
  Flusher,     \* calls of flush() that may be under way at once
  Stream,      \* the SSE responses of a process
  DrainTime,   \* FFAI_DRAIN_TIMEOUT
  MaxRecords   \* bound of the model: records in all

ASSUME StatsStoreAssumption == DrainTime \in Nat /\ MaxRecords \in Nat

VARIABLES
  process,   \* "up", "draining", "exiting" once its event loop has stopped, or "down"
  mem,       \* the records in data
  dirty,     \* _dirty
  flushing,  \* _flushing
  job,       \* where each flush() waits
  snapshot,  \* what each flush() writes
  tmp,       \* the temporary file of flush()
  disk,      \* the statistics file
  streams,   \* activeSSEConnections
  drain      \* ticks until the deadline of the drain

fileVars == <<tmp, disk>>
jobVars  == <<job, snapshot>>
procVars == <<process, streams, drain>>
statsVars == <<procVars, mem, dirty, flushing, jobVars, fileVars>>

Records == 0..MaxRecords

Missing == -1  \* there is no such file
Torn    == -2  \* the file holds part of a snapshot

Jobs == {"idle", "opening", "writing", "renaming", "renamed", "cleanup"}

StatsTypeOK ==
  /\ process \in {"up", "draining", "exiting", "down"}
  /\ mem \in Records
  /\ dirty \in BOOLEAN
  /\ flushing \in BOOLEAN
  /\ job \in [Flusher -> Jobs]
  /\ snapshot \in [Flusher -> Records]
  /\ tmp \in Records \cup {Missing, Torn}
  /\ disk \in Records \cup {Torn}
  /\ streams \subseteq Stream
  /\ drain \in 0..DrainTime

StatsInit ==
  /\ process = "up"
  /\ mem = 0 /\ dirty = FALSE /\ flushing = FALSE
  /\ job = [f \in Flusher |-> "idle"]
  /\ snapshot = [f \in Flusher |-> 0]
  /\ tmp = Missing /\ disk = 0
  /\ streams = {} /\ drain = 0

\* The event loop runs callbacks.
Running == process \in {"up", "draining"}

-----------------------------------------------------------------------------
(* The requests.                                                           *)

\* recordRequest and the other record methods.
RecordOne ==
  /\ mem < MaxRecords
  /\ mem' = mem + 1
  /\ dirty' = TRUE

Record ==
  /\ Running
  /\ RecordOne
  /\ UNCHANGED <<procVars, flushing, jobVars, fileVars>>

StreamOpens(s) ==
  /\ Running
  /\ s \notin streams
  /\ streams' = streams \cup {s}
  /\ UNCHANGED <<process, drain, mem, dirty, flushing, jobVars, fileVars>>

\* The stream ends, which is recorded, or its client closes it, which is not.
StreamCloses(s) ==
  /\ Running
  /\ s \in streams
  /\ streams' = streams \ {s}
  /\ RecordOne \/ UNCHANGED <<mem, dirty>>
  /\ UNCHANGED <<process, drain, flushing, jobVars, fileVars>>

-----------------------------------------------------------------------------
(* flush(), one action per await.                                          *)

JobAt(f, here, next) == job[f] = here /\ job' = [job EXCEPT ![f] = next]

\* Mutant: a flush does not look for another one.
FlushAnyway(f) ==
  /\ Running
  /\ dirty
  /\ JobAt(f, "idle", "opening")
  /\ flushing' = TRUE
  /\ snapshot' = [snapshot EXCEPT ![f] = mem]
  /\ UNCHANGED <<procVars, mem, dirty, fileVars>>

\* The timer fires; the directory is made before the file is opened.
Flush(f) ==
  /\ Running
  /\ dirty /\ ~flushing
  /\ JobAt(f, "idle", "opening")
  /\ flushing' = TRUE
  /\ snapshot' = [snapshot EXCEPT ![f] = mem]
  /\ UNCHANGED <<procVars, mem, dirty, fileVars>>

\* writeFile truncates the temporary file, then fills it.
OpenTmp(f) ==
  /\ Running
  /\ JobAt(f, "opening", "writing")
  /\ tmp' = Torn
  /\ UNCHANGED <<procVars, mem, dirty, flushing, snapshot, disk>>

WriteTmp(f) ==
  /\ Running
  /\ JobAt(f, "writing", "renaming")
  /\ tmp' = snapshot[f]
  /\ UNCHANGED <<procVars, mem, dirty, flushing, snapshot, disk>>

\* The rename is the only step a thread may still take for a process whose
\* event loop has stopped.
Rename(f) ==
  /\ process # "down"
  /\ tmp # Missing
  /\ JobAt(f, "renaming", "renamed")
  /\ disk' = tmp
  /\ tmp' = Missing
  /\ UNCHANGED <<procVars, mem, dirty, flushing, snapshot>>

FlushDone(f) ==
  /\ Running
  /\ JobAt(f, "renamed", "idle")
  /\ dirty' = FALSE
  /\ flushing' = FALSE
  /\ UNCHANGED <<procVars, mem, snapshot, fileVars>>

\* Any of the file operations throws.
FlushFails(f) ==
  /\ Running
  /\ \E here \in {"opening", "writing", "renaming"} : JobAt(f, here, "cleanup")
  /\ UNCHANGED <<procVars, mem, dirty, flushing, snapshot, fileVars>>

\* Mutant: only a flush that succeeds allows the next one.
CleanupOnly(f) ==
  /\ Running
  /\ JobAt(f, "cleanup", "idle")
  /\ tmp' = Missing
  /\ UNCHANGED <<procVars, mem, dirty, flushing, snapshot, disk>>

\* catch and finally.
Cleanup(f) ==
  /\ Running
  /\ JobAt(f, "cleanup", "idle")
  /\ tmp' = Missing
  /\ flushing' = FALSE
  /\ UNCHANGED <<procVars, mem, dirty, snapshot, disk>>

-----------------------------------------------------------------------------
(* The end of a process.                                                   *)

\* Mutant: both flushes share one temporary file, so that a write in progress
\* goes on into the file the synchronous one has just renamed.
FlushSyncSameTmp ==
  /\ disk' = IF ~dirty /\ ~flushing THEN disk
             ELSE IF \E f \in Flusher : job[f] = "writing" THEN Torn ELSE mem
  /\ dirty' = FALSE
  /\ flushing' = FALSE

\* flushSync() has a temporary file of its own.  It may fail.
FlushSync ==
  /\ IF dirty \/ flushing
       THEN \/ disk' = mem /\ dirty' = FALSE
            \/ UNCHANGED <<disk, dirty>>
       ELSE UNCHANGED <<disk, dirty>>
  /\ flushing' = FALSE

StopRunning ==
  /\ process' = "exiting"
  /\ streams' = {}
  /\ drain' = 0
  /\ UNCHANGED <<mem, jobVars, tmp>>

\* SIGTERM, SIGINT: with no stream to wait for, the stop is immediate.
Terminate ==
  /\ process = "up"
  /\ IF streams = {} THEN FlushSync /\ StopRunning
     ELSE /\ process' = "draining"
          /\ drain' = DrainTime
          /\ UNCHANGED <<streams, mem, dirty, flushing, jobVars, fileVars>>

\* Mutant: a drain without a deadline.
ShutdownWhenIdle ==
  /\ process = "draining"
  /\ streams = {}
  /\ FlushSync
  /\ StopRunning

\* The drain is over: remaining streams are closed, statistics flushed.
Shutdown ==
  /\ process = "draining"
  /\ streams = {} \/ drain = 0
  /\ FlushSync
  /\ StopRunning

UncaughtException ==
  /\ Running
  /\ FlushSync
  /\ StopRunning

\* SIGKILL, a power cut.
Kill ==
  /\ Running
  /\ StopRunning
  /\ UNCHANGED <<dirty, flushing, disk>>

Exit ==
  /\ process = "exiting"
  /\ process' = "down"
  /\ job' = [f \in Flusher |-> "idle"]
  /\ UNCHANGED <<streams, drain, mem, dirty, flushing, snapshot, fileVars>>

\* The next process loads the file, and starts afresh from one it cannot parse.
Start ==
  /\ process = "down"
  /\ process' = "up"
  /\ mem' = IF disk = Torn THEN 0 ELSE disk
  /\ dirty' = FALSE
  /\ flushing' = FALSE
  /\ UNCHANGED <<streams, drain, jobVars, fileVars>>

StatsTick ==
  /\ process = "draining" /\ drain > 0
  /\ drain' = drain - 1
  /\ UNCHANGED <<process, streams, mem, dirty, flushing, jobVars, fileVars>>

-----------------------------------------------------------------------------
FlushStep(f) == OpenTmp(f) \/ WriteTmp(f) \/ Rename(f) \/ FlushDone(f) \/ FlushFails(f) \/ Cleanup(f)

StatsNext ==
  \/ Record
  \/ \E s \in Stream : StreamOpens(s) \/ StreamCloses(s)
  \/ \E f \in Flusher : Flush(f) \/ FlushStep(f)
  \/ Terminate \/ Shutdown \/ UncaughtException \/ Kill \/ Exit \/ Start
  \/ StatsTick

StatsSpec == StatsInit /\ [][StatsNext]_statsVars

\* The flush timer, the threads and the drain's poll all get their turn.
Fairness ==
  /\ WF_statsVars(\E f \in Flusher : Flush(f))
  /\ \A f \in Flusher : WF_statsVars(FlushStep(f))
  /\ WF_statsVars(StatsTick)
  /\ WF_statsVars(Shutdown)

FairStatsSpec == StatsSpec /\ Fairness
-----------------------------------------------------------------------------
\* Whatever moment a process ends at, with a flush of either kind under way,
\* the file the next one loads is a whole snapshot (the two temporary files).
NeverTorn == disk # Torn

\* While a process runs its statistics file only moves forward: no flush puts
\* an older snapshot in place of a newer one, failed flushes and the final
\* one included (_flushing).
ForwardOnly == [][Running => disk' >= disk]_statsVars

\* What has been recorded while no flush was under way reaches the file,
\* unless the process ends or a flush fails; a failed flush blocks no later
\* one.
Saved ==
  \A n \in Records :
    (Running /\ mem >= n /\ dirty /\ \A f \in Flusher : job[f] = "idle")
      ~> (disk >= n \/ ~Running \/ \E f \in Flusher : job[f] = "cleanup")

\* A stop ends: streams that go on, or new ones on connections that are still
\* open, hold it up no longer than the drain's deadline.
StopEnds == process = "draining" ~> ~Running

\* pool.shutdown is documented as "flush stats and clean up timers": when the
\* final flush does not fail, the file holds whatever was recorded.
NothingLostAtStop ==
  [][(Terminate \/ Shutdown) /\ process' = "exiting" /\ ~dirty' => disk' = mem]_statsVars
=============================================================================
