----------------------------- MODULE WalConsumer -----------------------------
(***************************************************************************)
(* The replay side of the write-ahead log: wal.Reader (reader.go) and the  *)
(* pipeline's walConsumer (pipeline/wal.go), running against the writer of *)
(* module Wal.  The driver goroutine appends; the consumer goroutine       *)
(* reads, exports, saves the checkpoint, applies retention and repairs     *)
(* damage; the process may be killed and started again between any two     *)
(* steps.                                                                  *)
(*                                                                         *)
(* accepted, sent and lost are history: what Append returned nil for, what *)
(* ExportBatch returned nil for, what was given up and by which mechanism. *)
(***************************************************************************)
EXTENDS Wal

CONSTANTS MaxCrash,      \* bound: number of process crashes
          DiskFull,      \* TRUE: a write to a segment file may fail
          SaveFault,     \* TRUE: SaveCheckpoint may fail
          FileFault      \* TRUE: opening, reading, cutting or removing a
                         \* segment file may fail

ASSUME FaultAssumption ==
  /\ MaxCrash \in Nat
  /\ {DiskFull, SaveFault, FileFault} \subseteq BOOLEAN

Cause == {"retention", "truncate", "skip", "adrift", "unreachable"}

(* No record is pending (c.pending = nil). *)
NoRec == 0

VARIABLES
  nrec,     \* number of Append calls started
  pc,       \* where the consumer goroutine is
  after,    \* where drain goes on after reportPressure: "read" or "idle"
  final,    \* the drain after stopCh was closed
  stopReq,  \* stopCh is closed
  cp,       \* c.cp
  rd,       \* r.seg and r.off of c.reader
  handle,   \* "open" when r.f is, "closed" when it is nil
  skew,     \* how far the handle's file position is ahead of r.off
  pending,  \* the record in c.pending, NoRec for nil
  newCp,    \* the local checkpoint of EnforceMaxSize
  level,    \* the local unacked of reportPressure, against its thresholds
  degraded, \* c.degraded
  crashes,
  accepted, sent, lost

reader == <<rd, handle, skew>>
consumerVars == <<pc, after, final, stopReq, cp, reader, pending, newCp, level, degraded>>
history == <<accepted, sent, lost>>
vars == <<logVars, consumerVars, nrec, crashes, history>>

(* Reader.Reset: no handle is kept. *)
ResetReader(p) == rd' = p /\ handle' = "closed" /\ skew' = 0

PC == {"read", "advance", "damage", "truncate", "export", "save", "stats",
       "full", "enforce", "resave", "report", "idle", "exit"}

TypeOK ==
  /\ LogTypeOK
  /\ nrec \in 0 .. MaxRecord
  /\ pc \in PC
  /\ after \in {"read", "idle"}
  /\ final \in BOOLEAN /\ stopReq \in BOOLEAN /\ degraded \in BOOLEAN
  /\ cp \in Position /\ newCp \in Position
  /\ rd \in Position /\ handle \in {"open", "closed"} /\ skew \in Nat
  /\ pending \in Rec \cup {NoRec}
  /\ level \in {"low", "mid", "high"}
  /\ crashes \in 0 .. MaxCrash
  /\ accepted \in SUBSET Rec /\ sent \in SUBSET Rec
  /\ lost \in [Cause -> SUBSET Rec]

Init ==
  /\ LogInit
  /\ nrec = 0
  /\ pc = "read" /\ after = "read"
  /\ final = FALSE /\ stopReq = FALSE
  /\ cp = Pos(0, 0) /\ rd = Pos(0, 0) /\ handle = "closed" /\ skew = 0
  /\ pending = NoRec
  /\ newCp = Pos(0, 0)
  /\ level = "low"
  /\ degraded = FALSE
  /\ crashes = 0
  /\ accepted = {} /\ sent = {}
  /\ lost = [c \in Cause |-> {}]

(* Records S are given up by mechanism c. *)
Lose(c, S) == lost' = [lost EXCEPT ![c] = @ \cup (S \ sent)]

Lost == UNION {lost[c] : c \in Cause}

-----------------------------------------------------------------------------
(* The driver goroutine: Pipeline.emit calls WAL.Append.  It does so until *)
(* Shutdown; a failed append requeues the batch, whose next attempt is a   *)
(* new record.                                                             *)

AppendBegin ==
  /\ ~stopReq
  /\ nrec < MaxRecord
  /\ BeginWrite
  /\ nrec' = nrec + 1
  /\ UNCHANGED <<consumerVars, crashes, history>>

AppendRefused ==
  /\ DiskFull
  /\ ~stopReq
  /\ nrec < MaxRecord
  /\ RefuseWrite
  /\ nrec' = nrec + 1
  /\ UNCHANGED <<consumerVars, crashes, history>>

(* Append returns nil.  The record is out of the reader's sight when the   *)
(* file it went to is unlinked, or when it landed before the reader's      *)
(* position.                                                               *)
InSight == segment \in segs /\ AtOrAfter(segment, Len(data[segment]) + 1, rd)

AppendEnd ==
  /\ EndWrite(nrec)
  /\ accepted' = accepted \cup {nrec}
  /\ Lose("unreachable", IF InSight THEN {} ELSE {nrec})
  /\ UNCHANGED <<consumerVars, nrec, crashes, sent>>

AppendFail ==
  /\ DiskFull
  /\ FailWrite
  /\ UNCHANGED <<consumerVars, nrec, crashes, accepted, sent, lost>>

(* Pipeline.Shutdown: the driver has flushed its tail and ended, then      *)
(* consumer.stop closes stopCh.                                            *)
Stop ==
  /\ ~stopReq
  /\ mu # "append"
  /\ stopReq' = TRUE
  /\ UNCHANGED <<logVars, pc, after, final, cp, reader, pending, newCp, level,
                 degraded, nrec, crashes, history>>

-----------------------------------------------------------------------------
(* Reader.Next, one step per system call that the writer can run between.  *)
(* The reader takes no lock, so it may meet a record half written.         *)

Goto(l) ==
  /\ pc' = l
  /\ UNCHANGED <<after, final, stopReq, cp, newCp, level, degraded>>

(* ensureOpen finds no file at the reader's segment. *)
Missing == handle = "closed" /\ rd.segment \notin segs

(* The handle's file position. *)
FilePos == rd.offset + skew

Readable == ~Missing /\ FilePos < Len(data[rd.segment])

(* A record begins at the file position, and all of it is there. *)
WholeNext ==
  /\ Readable
  /\ FilePos + 2 <= Len(data[rd.segment])
  /\ data[rd.segment][FilePos + 1] = Part
  /\ data[rd.segment][FilePos + 2] # Part

(* Records between r.off and the file position of a handle that has left   *)
(* r.off behind: the reader does not come back to them.                    *)
Overrun ==
  {data[rd.segment][i] :
     i \in {j \in DOMAIN data[rd.segment] : rd.offset + 1 < j /\ j < FilePos + 2}} \ {Part}

(* c.pending is set, and r.off moves on by the length of the record.  *)
ReadRecord ==
  /\ pc = "read"
  /\ WholeNext
  /\ pending' = data[rd.segment][FilePos + 2]
  /\ rd' = Pos(rd.segment, rd.offset + 2)
  /\ Lose("adrift", Overrun)
  /\ handle' = "open"
  /\ Goto("export")
  /\ UNCHANGED <<logVars, skew, nrec, crashes, accepted, sent>>

(* How far a read that fails takes the handle: to the end of the file, or  *)
(* behind the header, or the payload, that it took for one, but never      *)
(* behind a whole record.                                                  *)
Misread(first) ==
  \E k \in first .. Len(data[rd.segment]) :
    /\ WholeNext => k = FilePos + 1
    /\ skew' = k - rd.offset

(* Anything else makes Next return a CorruptionError; r.off stays. *)
ReadTorn ==
  /\ pc = "read"
  /\ Readable /\ ~WholeNext
  /\ Misread(FilePos + 1)
  /\ handle' = "open"
  /\ Goto("damage")
  /\ UNCHANGED <<logVars, rd, pending, nrec, crashes, history>>

(* The file cannot be opened or read: drain gives up for now. *)
ReadFail ==
  /\ FileFault
  /\ pc = "read"
  /\ ~Missing
  /\ \/ handle = "closed" /\ UNCHANGED <<handle, skew>>
     \/ handle' = "open" /\ (UNCHANGED skew \/ Misread(FilePos + 1))
  /\ Goto("idle")
  /\ UNCHANGED <<logVars, rd, pending, nrec, crashes, history>>

(* No bytes are left in the segment, or there is no such segment: the      *)
(* reader turns to the next one.                                           *)
ReadEnd ==
  /\ pc = "read"
  /\ ~Readable
  /\ handle' = IF Missing THEN "closed" ELSE "open"
  /\ Goto("advance")
  /\ UNCHANGED <<logVars, rd, skew, pending, nrec, crashes, history>>

(* advanceSegment finds segment r.seg + 1 and hops to it.  What the writer *)
(* put behind the reader's position since ReadEnd is passed over.          *)
AdvanceHop ==
  /\ pc = "advance"
  /\ rd.segment + 1 \in segs
  /\ ResetReader(Pos(rd.segment + 1, 0))
  /\ Lose("skip", IF rd.segment \in segs THEN IdsFrom(rd.segment, rd.offset) ELSE {})
  /\ Goto("read")
  /\ UNCHANGED <<logVars, pending, nrec, crashes, accepted, sent>>

(* There is no next segment: io.EOF.  drain reports pressure and returns. *)
AdvanceEOF ==
  /\ pc = "advance"
  /\ rd.segment + 1 \notin segs
  /\ pc' = "stats" /\ after' = "idle"
  /\ UNCHANGED <<logVars, final, stopReq, cp, reader, pending, newCp, level,
                 degraded, nrec, crashes, history>>

-----------------------------------------------------------------------------
(* Repair: drain calls Truncate(c.cp), which waits for w.mu.               *)

TruncateBegin ==
  /\ pc = "damage"
  /\ mu = "free"
  /\ mu' = "consumer"
  /\ Goto("truncate")
  /\ UNCHANGED <<segs, data, ckpt, segment, offset, reader, pending, nrec, crashes, history>>

(* Segments behind the checkpoint's are deleted, in ascending order. *)
LaterSegments == {s \in segs : s > cp.segment}

TruncateRemove ==
  /\ pc = "truncate"
  /\ \E s \in LaterSegments :
       /\ \A t \in LaterSegments : s <= t
       /\ RemoveSegment(s)
       /\ Lose("truncate", IdsFrom(s, 0))
  /\ UNCHANGED <<consumerVars, nrec, crashes, accepted, sent>>

(* Mutant: drain reads on after the repair without a Reset. *)
TruncateCutNoReset ==
  /\ pc = "truncate"
  /\ LaterSegments = {}
  /\ CutAt(cp) /\ Reopen(cp)
  /\ Lose("truncate", IdsFrom(cp.segment, cp.offset))
  /\ Goto("read")
  /\ UNCHANGED <<reader, pending, nrec, crashes, accepted, sent>>

(* The checkpoint's segment is cut, the writer reopened, the reader reset. *)
TruncateCut ==
  /\ pc = "truncate"
  /\ LaterSegments = {}
  /\ CutAt(cp) /\ Reopen(cp)
  /\ Lose("truncate", IdsFrom(cp.segment, cp.offset))
  /\ ResetReader(cp)
  /\ Goto("read")
  /\ UNCHANGED <<pending, nrec, crashes, accepted, sent>>

(* Truncate fails: a removal, os.Truncate, which finds no file when        *)
(* retention has deleted the checkpoint's segment, or the reopening of the *)
(* active segment.  drain gives up without a Reset, and the handle stays   *)
(* where the failed read has taken it.                                     *)
TruncateFail ==
  /\ pc = "truncate"
  /\ FileFault \/ (LaterSegments = {} /\ cp.segment \notin segs)
  /\ mu' = "free"
  /\ Goto("idle")
  /\ UNCHANGED <<segs, data, ckpt, segment, offset, reader, pending, nrec, crashes, history>>

ReopenFail ==
  /\ FileFault
  /\ pc = "truncate"
  /\ LaterSegments = {}
  /\ segment >= cp.segment
  /\ CutAt(cp)
  /\ Lose("truncate", IdsFrom(cp.segment, cp.offset))
  /\ Goto("idle")
  /\ UNCHANGED <<segment, offset, reader, pending, nrec, crashes, accepted, sent>>

-----------------------------------------------------------------------------
(* drain: export the pending record, then move and save the checkpoint.    *)

(* Mutant: a failed export lets go of the record the reader has passed. *)
ExportFailSkips ==
  /\ pc = "export"
  /\ pending' = NoRec
  /\ Goto("read")
  /\ UNCHANGED <<logVars, reader, nrec, crashes, history>>

(* ExportBatch returns an error: back off, retry the same record. *)
ExportFail ==
  /\ pc = "export"
  /\ UNCHANGED vars

ExportOk ==
  /\ pc = "export"
  /\ sent' = sent \cup {pending}
  /\ cp' = rd
  /\ pending' = NoRec
  /\ pc' = "save"
  /\ UNCHANGED <<logVars, after, final, stopReq, reader, newCp, level, degraded,
                 nrec, crashes, accepted, lost>>

(* SaveCheckpoint writes and renames, or fails and is only logged. *)
Save ==
  /\ pc = "save"
  /\ \/ SaveCheckpoint(cp)
     \/ SaveFault /\ UNCHANGED logVars
  /\ pc' = "stats" /\ after' = "read"
  /\ UNCHANGED <<final, stopReq, cp, reader, pending, newCp, level, degraded,
                 nrec, crashes, history>>

-----------------------------------------------------------------------------
(* reportPressure.                                                         *)

(* Degraded mode is entered above 70% and left below 50% of MaxSize. *)
Level(unacked) ==
  IF unacked > (MaxSize * 7) \div 10 THEN "high"
  ELSE IF unacked < (MaxSize * 5) \div 10 THEN "low" ELSE "mid"

(* Stats, without w.mu. *)
ReadStats ==
  /\ pc = "stats"
  /\ level' = Level(Unacked(cp))
  /\ pc' = IF Total > MaxSize THEN "full" ELSE "report"
  /\ UNCHANGED <<logVars, after, final, stopReq, cp, reader, pending, newCp,
                 degraded, nrec, crashes, history>>

EnforceBegin ==
  /\ pc = "full"
  /\ mu = "free"
  /\ mu' = "consumer"
  /\ newCp' = cp
  /\ pc' = "enforce"
  /\ UNCHANGED <<segs, data, ckpt, segment, offset, after, final, stopReq, cp,
                 reader, pending, level, degraded, nrec, crashes, history>>

EnforceRemove ==
  /\ pc = "enforce"
  /\ \E s \in segs :
       /\ MustDrop(s)
       /\ RemoveSegment(s)
       /\ newCp' = PassedOver(newCp, s)
       /\ Lose("retention", IdsFrom(s, 0))
  /\ UNCHANGED <<pc, after, final, stopReq, cp, reader, pending, level, degraded,
                 nrec, crashes, accepted, sent>>

(* os.Remove fails: the checkpoint of the segments already deleted is      *)
(* thrown away with the error.                                             *)
EnforceFail ==
  /\ FileFault
  /\ pc = "enforce"
  /\ \E s \in segs : MustDrop(s)
  /\ mu' = "free"
  /\ Goto("report")
  /\ UNCHANGED <<segs, data, ckpt, segment, offset, reader, pending, nrec, crashes, history>>

(* Mutant: the reader is not reset after retention. *)
EnforceEndNoReset ==
  /\ pc = "enforce"
  /\ ~\E s \in segs : MustDrop(s)
  /\ mu' = "free"
  /\ cp' = newCp
  /\ pc' = IF newCp # cp THEN "resave" ELSE "report"
  /\ UNCHANGED <<segs, data, ckpt, segment, offset, after, final, stopReq, reader,
                 pending, newCp, level, degraded, nrec, crashes, history>>

EnforceEnd ==
  /\ pc = "enforce"
  /\ ~\E s \in segs : MustDrop(s)
  /\ mu' = "free"
  /\ IF newCp # cp
       THEN cp' = newCp /\ ResetReader(newCp) /\ pc' = "resave"
       ELSE pc' = "report" /\ UNCHANGED <<cp, reader>>
  /\ UNCHANGED <<segs, data, ckpt, segment, offset, after, final, stopReq,
                 pending, newCp, level, degraded, nrec, crashes, history>>

Resave ==
  /\ pc = "resave"
  /\ \/ SaveCheckpoint(cp)
     \/ SaveFault /\ UNCHANGED logVars
  /\ Goto("report")
  /\ UNCHANGED <<reader, pending, nrec, crashes, history>>

(* Mutant: the flag is raised and never lowered. *)
ReportLatched ==
  /\ pc = "report"
  /\ degraded' = (degraded \/ level = "high")
  /\ pc' = after
  /\ UNCHANGED <<logVars, after, final, stopReq, cp, reader, pending, newCp, level,
                 nrec, crashes, history>>

(* Hysteresis on the unacked size read before retention, then back to drain. *)
Report ==
  /\ pc = "report"
  /\ degraded' = IF degraded THEN level # "low" ELSE level = "high"
  /\ pc' = after
  /\ UNCHANGED <<logVars, after, final, stopReq, cp, reader, pending, newCp, level,
                 nrec, crashes, history>>

-----------------------------------------------------------------------------
(* run: drain again on a wake-up or the idle tick; once stopCh is closed,  *)
(* drain a last time and end.                                              *)

(* Mutant: run returns on stopCh without the last drain. *)
WakeNoDrain ==
  /\ pc = "idle"
  /\ ~final
  /\ pc' \in {"read"} \cup (IF stopReq THEN {"exit"} ELSE {})
  /\ UNCHANGED <<logVars, after, final, stopReq, cp, reader, pending, newCp, level,
                 degraded, nrec, crashes, history>>

(* Mutant: run does not listen to stopCh. *)
WakeDeaf ==
  /\ pc = "idle"
  /\ ~final
  /\ Goto("read")
  /\ UNCHANGED <<logVars, reader, pending, nrec, crashes, history>>

Wake ==
  /\ pc = "idle"
  /\ ~final
  /\ pc' = "read"
  /\ final' \in {FALSE, stopReq}
  /\ UNCHANGED <<logVars, after, stopReq, cp, reader, pending, newCp, level,
                 degraded, nrec, crashes, history>>

Finish ==
  /\ pc = "idle"
  /\ final
  /\ Goto("exit")
  /\ UNCHANGED <<logVars, reader, pending, nrec, crashes, history>>

Exited == pc = "exit" /\ UNCHANGED vars

(* Mutant: the new reader starts at the writer's end, not the checkpoint. *)
CrashToTail ==
  /\ crashes < MaxCrash
  /\ crashes' = crashes + 1
  /\ Open
  /\ pc' = "read" /\ after' = "read"
  /\ final' = FALSE /\ stopReq' = FALSE
  /\ cp' = ckpt /\ ResetReader(Pos(segment', offset'))
  /\ pending' = NoRec
  /\ newCp' = ckpt
  /\ level' = "low"
  /\ degraded' = FALSE
  /\ UNCHANGED <<nrec, accepted, sent, lost>>

(* The process is killed and started again: Open, LoadCheckpoint,          *)
(* NewReader.  A write in progress leaves its partial record behind.       *)
Crash ==
  /\ crashes < MaxCrash
  /\ crashes' = crashes + 1
  /\ Open
  /\ pc' = "read" /\ after' = "read"
  /\ final' = FALSE /\ stopReq' = FALSE
  /\ cp' = ckpt /\ ResetReader(ckpt)
  /\ pending' = NoRec
  /\ newCp' = ckpt
  /\ level' = "low"
  /\ degraded' = FALSE
  /\ UNCHANGED <<nrec, accepted, sent, lost>>

Read == ReadRecord \/ ReadTorn \/ ReadFail \/ ReadEnd \/ AdvanceHop \/ AdvanceEOF
Repair == TruncateBegin \/ TruncateRemove \/ TruncateCut \/ TruncateFail
            \/ ReopenFail
Pressure == ReadStats \/ EnforceBegin \/ EnforceRemove \/ EnforceFail
              \/ EnforceEnd \/ Resave \/ Report

Next ==
  \/ AppendBegin \/ AppendRefused \/ AppendEnd \/ AppendFail \/ Stop
  \/ Read \/ Repair
  \/ ExportFail \/ ExportOk \/ Save
  \/ Pressure
  \/ Wake \/ Finish \/ Exited
  \/ Crash

Spec == Init /\ [][Next]_vars

(* Every goroutine that can run keeps running, os calls return, and the    *)
(* server is reachable again some time during the unbounded retries.       *)
Scheduled ==
  /\ WF_vars(AppendEnd)
  /\ WF_vars(Read) /\ WF_vars(Repair) /\ WF_vars(Save) /\ WF_vars(Pressure)
  /\ WF_vars(Wake) /\ WF_vars(Finish)
  /\ SF_vars(Wake /\ final')
  /\ SF_vars(TruncateBegin) /\ SF_vars(EnforceBegin)

FairSpec == Spec /\ Scheduled /\ WF_vars(ExportOk)

-----------------------------------------------------------------------------
(* Every record Append accepted was exported, was given up by a mechanism  *)
(* the code has (retention, truncation behind damage, the hop over a       *)
(* segment the reader believed finished, a handle left ahead of its        *)
(* position, an unlinked or passed file), or lies on disk at or after the  *)
(* checkpoint file, where the next start reads it: checkpoint.go, "any     *)
(* record at or after the checkpoint survives crashes and will be          *)
(* replayed".                                                              *)
Accounted == accepted \subseteq sent \cup Lost \cup Ahead(ckpt)

(* A partial record lies at p: the beginning of one whose rest is missing, *)
(* left by a failed write or being written at this moment.                 *)
TornAt(p) ==
  /\ p.offset + 1 \in DOMAIN data[p.segment]
  /\ data[p.segment][p.offset + 1] = Part
  /\ p.offset + 2 \in DOMAIN data[p.segment] => data[p.segment][p.offset + 2] = Part

(* reader.go: "a *CorruptionError means the log is damaged at the reader's *)
(* current position".  While file operations work, a CorruptionError, on   *)
(* which drain cuts the log, means that a partial record does lie at the   *)
(* reader's position; what the reader takes for damage without need is     *)
(* only a record whose write is in progress.  Retention, repairs, failed   *)
(* writes and retries never leave it inside a record.                      *)
CorruptionAtPartial == [][pc = "read" /\ pc' = "damage" => TornAt(rd)]_vars

(* The checkpoint file never moves backwards, so an acknowledged record is *)
(* not replayed again after one restart has passed it.                     *)
CheckpointMonotone == [][PosLeq(ckpt, ckpt')]_vars

(* The log and its consumer are a durable queue: every step of writer,     *)
(* reader, retention, repair, crash and restart accepts, delivers in       *)
(* order, gives up, or leaves the queue as it is.                          *)
Queue == INSTANCE DurableQueue WITH givenUp <- Lost

QueueSpec == Queue!Spec

(* When the consumer has drained and ended after Shutdown, every accepted  *)
(* record was exported or given up: nothing waits in the log.              *)
DrainedAtExit == pc = "exit" => accepted \subseteq sent \cup Lost

(* reader.go: the reader replays records in segment order; it passes over  *)
(* none that is on disk.                                                   *)
NothingSkipped == lost["skip"] = {}

(* Every accepted record is exported or given up in the end.               *)
EventuallyDelivered ==
  \A r \in Rec : r \in accepted ~> r \in sent \cup Lost

(* Shutdown completes: after consumer.stop the consumer ends.              *)
StopCompletes == stopReq ~> pc = "exit"

(* Degraded mode ends: the flag is lowered again and again, unless records *)
(* the reader hopped over keep counting as unacknowledged.                 *)
DegradationEnds == []<>(~degraded \/ lost["skip"] # {})
=============================================================================
