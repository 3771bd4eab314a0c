------------------------------ MODULE WalProofs ------------------------------
(***************************************************************************)
(* Proofs about WalConsumer, for every segment size, cap, number of        *)
(* records, crashes and combination of faults.                             *)
(***************************************************************************)
EXTENDS WalConsumer, TLAPS

(* The inductive invariant. *)

(* A write in progress ends the active segment with the beginning of its   *)
(* record; truncation and retention run under w.mu.                        *)
LockInv ==
  /\ mu = "append" =>
       /\ nrec \in Rec
       /\ Len(data[segment]) > 0
       /\ data[segment][Len(data[segment])] = Part
  /\ pc \in {"truncate", "enforce"} => mu = "consumer"

(* The rest of a record follows its beginning. *)
LeadInv ==
  \A s \in Segment : \A i \in DOMAIN data[s] :
    data[s][i] # Part => i > 1 /\ data[s][i - 1] = Part

(* The checkpoint file is never ahead of the acknowledged position, nor    *)
(* that ahead of the reader.                                               *)
OrderInv == PosLeq(ckpt, cp) /\ PosLeq(cp, rd)

(* A record is held exactly while it is being exported. *)
PendInv == IF pc = "export" THEN pending \in Rec ELSE pending = NoRec

(* While retention deletes, its checkpoint is the consumer's, or the start *)
(* of a segment with nothing left before it.                               *)
NewCpInv ==
  pc = "enforce" =>
    \/ newCp = cp
    \/ /\ cp.segment < newCp.segment
       /\ newCp.offset = 0
       /\ \A t \in segs : t >= newCp.segment

(* The record that ends with unit i of segment s is still to be read, or   *)
(* is the pending one, behind the acknowledged position.                   *)
Reachable(r, s, i) ==
  /\ data[s][i] = r
  /\ AtOrAfter(s, i, rd) \/ (r = pending /\ AtOrAfter(s, i, cp))

SafeInv ==
  \A r \in accepted :
    r \in sent \cup Lost \/ \E s \in segs : \E i \in DOMAIN data[s] : Reachable(r, s, i)

(* No segment is newer than the active one; a handle is open on one that   *)
(* exists or existed, and only an open handle leaves r.off behind.         *)
HandleInv ==
  /\ \A t \in segs : t <= segment
  /\ handle = "open" => rd.segment \in Segment /\ rd.segment <= segment
  /\ pc \in {"damage", "truncate"} => handle = "open"
  /\ skew # 0 => handle = "open"

IInv ==
  TypeOK /\ HandleInv /\ LockInv /\ LeadInv /\ OrderInv /\ PendInv /\ NewCpInv /\ SafeInv

(* What os.Truncate leaves of a file is a file, of the length asked for. *)
LEMMA CutType ==
  ASSUME NEW q \in Seq(Rec \cup {Part}), NEW n \in Nat
  PROVE  CutTo(q, n) \in Seq(Rec \cup {Part})
<1>1. CutTo(q, n) \in [1 .. n -> Rec \cup {Part}]
  BY DEF CutTo
<1> QED
  BY <1>1

(* The records of a segment are records. *)
LEMMA IdsType ==
  ASSUME LogTypeOK, NEW s \in Segment, NEW o \in Nat
  PROVE  IdsFrom(s, o) \in SUBSET Rec
BY DEF LogTypeOK, IdsFrom

(* Giving records up adds them, unless exported, to what is lost. *)
LEMMA LoseType ==
  ASSUME lost \in [Cause -> SUBSET Rec], NEW c \in Cause, NEW S \in SUBSET Rec,
         Lose(c, S)
  PROVE  lost' \in [Cause -> SUBSET Rec] /\ Lost' = Lost \cup (S \ sent)
BY DEF Lose, Lost, Cause

(* The file the reader is in is one of the log's. *)
LEMMA ReadPlace ==
  ASSUME TypeOK, HandleInv, ~Missing
  PROVE  /\ rd.segment \in Segment
         /\ data[rd.segment] \in Seq(Rec \cup {Part})
         /\ rd.offset \in Nat /\ skew \in Nat /\ FilePos \in Nat
<1>1. rd.segment \in Segment
  BY DEF TypeOK, LogTypeOK, HandleInv, Missing
<1>2. data[rd.segment] \in Seq(Rec \cup {Part}) /\ rd.offset \in Nat /\ skew \in Nat
  BY <1>1 DEF TypeOK, LogTypeOK, Position
<1> QED
  BY <1>1, <1>2 DEF FilePos

(* What a read finds whole is a record. *)
LEMMA ReadWhole ==
  ASSUME TypeOK, HandleInv, WholeNext
  PROVE  /\ ~Missing
         /\ FilePos + 2 \in 1 .. Len(data[rd.segment])
         /\ data[rd.segment][FilePos + 1] = Part
         /\ data[rd.segment][FilePos + 2] \in Rec
<1>1. ~Missing /\ FilePos + 2 <= Len(data[rd.segment])
  BY DEF WholeNext, Readable
<1>2. data[rd.segment] \in Seq(Rec \cup {Part}) /\ FilePos \in Nat
  BY <1>1, ReadPlace
<1>3. FilePos + 2 \in 1 .. Len(data[rd.segment])
  BY <1>1, <1>2
<1>4. \A q \in Seq(Rec \cup {Part}) : \A i \in 1 .. Len(q) : q[i] \in Rec \cup {Part}
  OBVIOUS
<1>5. data[rd.segment][FilePos + 2] \in Rec \cup {Part}
  BY <1>2, <1>3, <1>4, Zenon
<1> QED
  BY <1>1, <1>3, <1>5 DEF WholeNext

(* What a drifting handle passes over are records of the reader's file. *)
LEMMA OverrunType ==
  ASSUME TypeOK, HandleInv, ~Missing
  PROVE  /\ Overrun \in SUBSET Rec
         /\ \A r \in Overrun : \E i \in DOMAIN data[rd.segment] : data[rd.segment][i] = r
<1>1. data[rd.segment] \in Seq(Rec \cup {Part})
  BY ReadPlace
<1> QED
  BY <1>1 DEF Overrun

(* A read that fails leaves the handle at some distance from r.off. *)
LEMMA MisreadType ==
  ASSUME TypeOK, HandleInv, ~Missing, Misread(FilePos + 1)
  PROVE  skew' \in Nat
<1>1. PICK k \in FilePos + 1 .. Len(data[rd.segment]) : skew' = k - rd.offset
  BY DEF Misread
<1> QED
  BY <1>1, ReadPlace DEF FilePos

(* A step of Next keeps every variable in its type: offsets stay natural   *)
(* numbers, files stay sequences of records and partial records.           *)
LEMMA TypeStep == IInv /\ [Next]_vars => TypeOK'
<1> SUFFICES ASSUME IInv, [Next]_vars PROVE TypeOK'
  OBVIOUS
<1>0. WholeNext => ~Missing /\ data[rd.segment][FilePos + 2] \in Rec
  BY ReadWhole DEF IInv
<1>a. LogTypeOK /\ (UNCHANGED logVars => LogTypeOK')
  BY Zenon DEF IInv, TypeOK, LogTypeOK, logVars
<1>b. mu' \in {"free", "append", "consumer"} /\ UNCHANGED <<segs, data, ckpt, segment, offset>> => LogTypeOK'
  BY <1>a, Zenon DEF LogTypeOK
<1> USE SizeAssumption DEF IInv, TypeOK, PC, Position, Pos, ResetReader, reader, Goto,
            consumerVars, history
<1>c. ASSUME NEW q \in Seq(Rec \cup {Part}), StartWrite(q), mu' \in {"free", "append"}
      PROVE  LogTypeOK'
  <2>1. Target \in Segment /\ Opened(Target) \in Seq(Rec \cup {Part})
    BY <1>c, SMTT(60) DEF StartWrite, Opened, LogTypeOK
  <2>2. data' \in [Segment -> Seq(Rec \cup {Part})]
    BY <1>c, <2>1, SMTT(60) DEF StartWrite, LogTypeOK
  <2>3. segs' \in SUBSET Segment /\ segment' \in Segment /\ offset' \in Nat
    BY <1>c, <2>1, SMTT(60) DEF StartWrite, LogTypeOK
  <2> QED
    BY <1>a, <1>c, <2>2, <2>3 DEF StartWrite, LogTypeOK
<1>1. CASE AppendBegin
  <2>1. Append(Opened(Target), Part) \in Seq(Rec \cup {Part})
    BY <1>1, SMTT(60) DEF AppendBegin, BeginWrite, StartWrite, Opened, LogTypeOK
  <2>2. LogTypeOK'
    BY <1>1, <1>c, <2>1 DEF AppendBegin, BeginWrite
  <2> QED
    BY <1>1, <2>2 DEF AppendBegin
<1>d. CASE AppendRefused
  <2>1. ASSUME StartWrite(Opened(Target)) PROVE LogTypeOK'
    <3>1. Opened(Target) \in Seq(Rec \cup {Part})
      BY <2>1, SMTT(60) DEF StartWrite, Opened, LogTypeOK
    <3>2. mu' \in {"free", "append"}
      BY <1>d DEF AppendRefused, RefuseWrite
    <3> HIDE DEF IInv, TypeOK
    <3> QED
      BY <1>c, <2>1, <3>1, <3>2
  <2>2. ASSUME UNCHANGED <<segs, data, ckpt, segment, offset>> PROVE LogTypeOK'
    BY <1>a, <1>d, <2>2 DEF AppendRefused, RefuseWrite, logVars
  <2>3. LogTypeOK'
    BY <1>d, <2>1, <2>2 DEF AppendRefused, RefuseWrite
  <2> QED
    BY <1>d, <2>3 DEF AppendRefused
<1>2. CASE AppendEnd
  <2>1. nrec \in Rec
    BY <1>2 DEF AppendEnd, EndWrite, LockInv, LogTypeOK
  <2>2. Append(data[segment], nrec) \in Seq(Rec \cup {Part})
    BY <2>1 DEF LogTypeOK
  <2>3. LogTypeOK'
    BY <1>2, <2>2, SMTT(60) DEF AppendEnd, EndWrite, LogTypeOK
  <2>4. lost' \in [Cause -> SUBSET Rec]
    <3>1. (IF InSight THEN {} ELSE {nrec}) \in SUBSET Rec
      BY <2>1
    <3> QED
      BY <1>2, <3>1, LoseType DEF AppendEnd, Cause
  <2>5. accepted' \in SUBSET Rec
    BY <1>2, <2>1 DEF AppendEnd
  <2>6. UNCHANGED <<consumerVars, nrec, crashes, sent>>
    BY <1>2 DEF AppendEnd
  <2>7. /\ nrec' \in 0 .. MaxRecord /\ pc' \in PC /\ after' \in {"read", "idle"}
        /\ cp' \in Position /\ newCp' \in Position
        /\ rd' \in Position /\ handle' \in {"open", "closed"} /\ skew' \in Nat
        /\ pending' \in Rec \cup {NoRec} /\ level' \in {"low", "mid", "high"}
        /\ crashes' \in 0 .. MaxCrash /\ sent' \in SUBSET Rec
    BY <2>6
  <2>8. final' \in BOOLEAN /\ stopReq' \in BOOLEAN /\ degraded' \in BOOLEAN
    BY <2>6, Zenon
  <2> QED
    BY <2>3, <2>4, <2>5, <2>7, <2>8, Zenon
<1>3. CASE AppendFail
  <2>1. LogTypeOK'
    BY <1>3, <1>b DEF AppendFail, FailWrite
  <2> QED
    BY <1>3, <2>1 DEF AppendFail, FailWrite
<1>4. CASE Stop
  BY <1>a, <1>4 DEF Stop
<1>5. CASE ReadRecord
  <2>1. pending' \in Rec /\ ~Missing
    BY <1>0, <1>5, Zenon DEF ReadRecord
  <2>2. Overrun \in SUBSET Rec
    BY <2>1, OverrunType
  <2>3. lost' \in [Cause -> SUBSET Rec]
    BY <1>5, <2>2, LoseType DEF ReadRecord, Cause
  <2> QED
    BY <1>a, <1>5, <2>1, <2>3 DEF ReadRecord
<1>6. CASE ReadTorn
  <2>1. skew' \in Nat
    BY <1>6, MisreadType DEF ReadTorn, Readable
  <2> QED
    BY <1>a, <1>6, <2>1 DEF ReadTorn
<1>e. CASE ReadFail
  <2>1. skew' \in Nat /\ handle' \in {"open", "closed"}
    BY <1>e, MisreadType DEF ReadFail
  <2> QED
    BY <1>a, <1>e, <2>1 DEF ReadFail
<1>7. CASE ReadEnd
  BY <1>a, <1>7 DEF ReadEnd
<1>8. CASE AdvanceHop
  <2>1. (IF rd.segment \in segs THEN IdsFrom(rd.segment, rd.offset) ELSE {}) \in SUBSET Rec
    BY <1>a, IdsType DEF LogTypeOK
  <2>2. lost' \in [Cause -> SUBSET Rec]
    BY <1>8, <2>1, LoseType DEF AdvanceHop, Cause
  <2> QED
    BY <1>a, <1>8, <2>2 DEF AdvanceHop
<1>9. CASE AdvanceEOF
  BY <1>a, <1>9 DEF AdvanceEOF
<1>10. CASE TruncateBegin
  <2>1. LogTypeOK'
    BY <1>b, <1>10 DEF TruncateBegin
  <2> QED
    BY <1>10, <2>1 DEF TruncateBegin
<1>11. CASE TruncateRemove
  <2>1. PICK s \in LaterSegments : RemoveSegment(s) /\ Lose("truncate", IdsFrom(s, 0))
    BY <1>11 DEF TruncateRemove
  <2>2. IdsFrom(s, 0) \in SUBSET Rec
    BY <1>a, IdsType DEF LaterSegments, LogTypeOK
  <2>3. lost' \in [Cause -> SUBSET Rec]
    BY <2>1, <2>2, LoseType DEF Cause
  <2>4. LogTypeOK'
    BY <1>a, <2>1 DEF RemoveSegment, LogTypeOK
  <2> QED
    BY <1>11, <2>3, <2>4 DEF TruncateRemove
<1>12. CASE TruncateCut \/ ReopenFail
  <2>0. CutAt(cp) /\ Lose("truncate", IdsFrom(cp.segment, cp.offset))
    BY <1>12 DEF TruncateCut, ReopenFail
  <2>1. cp.segment \in Segment
    BY <1>a, <2>0 DEF CutAt, LogTypeOK
  <2>2. IdsFrom(cp.segment, cp.offset) \in SUBSET Rec
    BY <1>a, <2>1, IdsType DEF LogTypeOK
  <2>3. lost' \in [Cause -> SUBSET Rec]
    BY <2>0, <2>2, LoseType DEF Cause
  <2>4. LogTypeOK'
    <3> DEFINE kept == CutTo(data[cp.segment], cp.offset)
    <3>1. data[cp.segment] \in Seq(Rec \cup {Part}) /\ cp.offset \in Nat
      BY <1>a, <2>1 DEF LogTypeOK
    <3>2. kept \in Seq(Rec \cup {Part})
      BY <3>1, CutType
    <3>3. /\ data' = [data EXCEPT ![cp.segment] = kept]
          /\ mu' = "free" /\ UNCHANGED <<segs, ckpt>>
      BY <2>0 DEF CutAt
    <3>4. segment' \in {segment, cp.segment} /\ offset' \in {offset, cp.offset}
      BY <1>12 DEF TruncateCut, ReopenFail, Reopen
    <3> HIDE DEF kept, IInv, TypeOK
    <3>5. data' \in [Segment -> Seq(Rec \cup {Part})]
      BY <1>a, <3>2, <3>3 DEF LogTypeOK
    <3> QED
      BY <1>a, <2>1, <3>1, <3>3, <3>4, <3>5 DEF LogTypeOK
  <2> QED
    BY <1>12, <2>3, <2>4 DEF TruncateCut, ReopenFail
<1>13. CASE TruncateFail
  <2>1. LogTypeOK'
    BY <1>b, <1>13 DEF TruncateFail
  <2> QED
    BY <1>13, <2>1 DEF TruncateFail
<1>14. CASE ExportFail
  BY <1>a, <1>14 DEF ExportFail, vars
<1>15. CASE ExportOk
  BY <1>a, <1>15 DEF ExportOk, PendInv
<1>16. CASE Save
  <2>1. LogTypeOK'
    BY <1>a, <1>16 DEF Save, SaveCheckpoint, LogTypeOK
  <2> QED
    BY <1>16, <2>1 DEF Save
<1>17. CASE ReadStats
  BY <1>a, <1>17 DEF ReadStats, Level
<1>18. CASE EnforceBegin
  <2>1. LogTypeOK'
    BY <1>b, <1>18 DEF EnforceBegin
  <2> QED
    BY <1>18, <2>1 DEF EnforceBegin
<1>19. CASE EnforceRemove
  <2>1. PICK s \in segs : /\ RemoveSegment(s)
                          /\ newCp' = PassedOver(newCp, s)
                          /\ Lose("retention", IdsFrom(s, 0))
    BY <1>19 DEF EnforceRemove
  <2>2. IdsFrom(s, 0) \in SUBSET Rec
    BY <1>a, IdsType DEF LogTypeOK
  <2>3. lost' \in [Cause -> SUBSET Rec]
    BY <2>1, <2>2, LoseType DEF Cause
  <2>4. newCp' \in Position
    BY <1>a, <2>1, SMTT(60) DEF PassedOver, LogTypeOK
  <2>5. LogTypeOK'
    BY <1>a, <2>1 DEF RemoveSegment, LogTypeOK
  <2> QED
    BY <1>19, <2>3, <2>4, <2>5 DEF EnforceRemove
<1>20. CASE EnforceFail
  <2>1. LogTypeOK'
    BY <1>b, <1>20 DEF EnforceFail
  <2> QED
    BY <1>20, <2>1 DEF EnforceFail
<1>21. CASE EnforceEnd
  <2>1. LogTypeOK'
    BY <1>b, <1>21 DEF EnforceEnd
  <2> QED
    BY <1>21, <2>1 DEF EnforceEnd
<1>22. CASE Resave
  <2>1. LogTypeOK'
    BY <1>a, <1>22 DEF Resave, SaveCheckpoint, LogTypeOK
  <2> QED
    BY <1>22, <2>1 DEF Resave
<1>23. CASE Report
  <2>1. degraded' \in BOOLEAN /\ pc' \in PC
    BY <1>23 DEF Report
  <2> QED
    BY <1>a, <1>23, <2>1 DEF Report
<1>24. CASE Wake
  <2>1. final' \in BOOLEAN
    BY <1>24 DEF Wake
  <2> QED
    BY <1>a, <1>24, <2>1 DEF Wake
<1>25. CASE Finish
  BY <1>a, <1>25 DEF Finish
<1>26. CASE Exited
  BY <1>a, <1>26 DEF Exited, vars
<1>27. CASE Crash
  <2>1. PICK s \in Segment :
          /\ segs' = segs \cup {s}
          /\ data' = IF s \in segs THEN data ELSE [data EXCEPT ![s] = << >>]
          /\ segment' = s
          /\ offset' = Len(data'[s])
          /\ mu' = "free"
          /\ UNCHANGED ckpt
    BY <1>27 DEF Crash, Open
  <2>2. data' \in [Segment -> Seq(Rec \cup {Part})]
    BY <1>a, <2>1, SMTT(60) DEF LogTypeOK
  <2>3. LogTypeOK'
    BY <1>a, <2>1, <2>2, SMTT(60) DEF LogTypeOK
  <2>4. crashes' \in 0 .. MaxCrash
    BY <1>27, FaultAssumption DEF Crash
  <2>5. ckpt \in Position
    BY <1>a DEF LogTypeOK
  <2> QED
    BY <1>27, <2>3, <2>4, <2>5 DEF Crash
<1>28. CASE UNCHANGED vars
  BY <1>a, <1>28 DEF vars, logVars
<1> QED
  BY <1>1, <1>2, <1>3, <1>4, <1>5, <1>6, <1>7, <1>8, <1>9, <1>10, <1>11, <1>12, <1>13, <1>14,
     <1>15, <1>16, <1>17, <1>18, <1>19, <1>20, <1>21, <1>22, <1>23, <1>24, <1>25, <1>26, <1>27,
     <1>28, <1>d, <1>e DEF Next, Read, Repair, Pressure

(* The reader opens only files of the log, and a reset closes its handle.  *)
LEMMA HandleStep == IInv /\ [Next]_vars => HandleInv'
<1> SUFFICES ASSUME IInv, [Next]_vars PROVE HandleInv'
  OBVIOUS
<1> USE SizeAssumption
    DEF IInv, TypeOK, LogTypeOK, HandleInv, Segment, Position, Goto, Pos, reader, ResetReader
<1>1. CASE AppendBegin \/ AppendRefused
  <2>1. /\ segment <= segment' /\ segment' \in Segment
        /\ segs' \subseteq segs \cup {segment'}
    <3>1. ASSUME Target \in Segment, segment' = Target,
                 segs' = IF MustRotate THEN segs \cup {Target} ELSE segs
          PROVE  segment <= segment' /\ segment' \in Segment /\ segs' \subseteq segs \cup {segment'}
      BY <3>1 DEF Target
    <3>2. CASE AppendBegin
      BY <3>1, <3>2 DEF AppendBegin, BeginWrite, StartWrite
    <3>3. CASE AppendRefused
      <4>1. CASE StartWrite(Opened(Target))
        BY <3>1, <4>1 DEF StartWrite
      <4>2. CASE UNCHANGED <<segs, segment>>
        BY <4>2
      <4> QED
        BY <3>3, <4>1, <4>2 DEF AppendRefused, RefuseWrite
    <3> QED
      BY <1>1, <3>2, <3>3
  <2>2. UNCHANGED <<pc, rd, handle, skew>>
    BY <1>1 DEF AppendBegin, AppendRefused, consumerVars
  <2>3. \A t \in segs' : t <= segment'
    BY <2>1
  <2>5. handle = "open" => rd.segment \in Segment /\ rd.segment <= segment'
    BY <2>1
  <2>6. /\ pc \in {"damage", "truncate"} => handle = "open"
        /\ skew # 0 => handle = "open"
    OBVIOUS
  <2> HIDE DEF IInv
  <2> QED
    BY <2>2, <2>3, <2>5, <2>6
<1>2. CASE ReadRecord \/ ReadTorn \/ ReadFail \/ ReadEnd
  <2>1. ~Missing => rd.segment \in Segment /\ rd.segment <= segment
    BY DEF Missing
  <2>2. skew # 0 => ~Missing
    BY DEF Missing
  <2>3. CASE ReadRecord
    BY <2>1, <2>2, <2>3 DEF ReadRecord, WholeNext, Readable, logVars
  <2>4. CASE ReadTorn
    BY <2>1, <2>2, <2>4 DEF ReadTorn, Readable, logVars
  <2>5. CASE ReadEnd
    <3>1. CASE Missing
      BY <2>2, <2>5, <3>1 DEF ReadEnd, logVars
    <3>2. CASE ~Missing
      BY <2>1, <2>5, <3>2 DEF ReadEnd, logVars
    <3> QED
      BY <3>1, <3>2
  <2>6. CASE ReadFail
    BY <2>1, <2>2, <2>6 DEF ReadFail, logVars
  <2> QED
    BY <1>2, <2>3, <2>4, <2>5, <2>6
<1>3. CASE AdvanceHop
  BY <1>3 DEF AdvanceHop, logVars
<1>4. CASE TruncateBegin
  BY <1>4 DEF TruncateBegin
<1>5. CASE TruncateRemove
  <2>1. segs' \subseteq segs /\ segment' = segment
    BY <1>5 DEF TruncateRemove, RemoveSegment
  <2> QED
    BY <1>5, <2>1 DEF TruncateRemove, consumerVars
<1>6. CASE TruncateCut
  <2>1. \A t \in segs : t <= cp.segment
    BY <1>6 DEF TruncateCut, LaterSegments
  <2> QED
    BY <1>6, <2>1 DEF TruncateCut, CutAt, Reopen
<1>7. CASE TruncateFail \/ ReopenFail
  <2>1. UNCHANGED <<segs, segment, rd, handle, skew>> /\ pc' = "idle"
    BY <1>7, ZenonT(60) DEF TruncateFail, ReopenFail, CutAt
  <2> QED
    BY <2>1
<1>8. CASE EnforceRemove
  <2>1. segs' \subseteq segs /\ segment' = segment
    BY <1>8 DEF EnforceRemove, RemoveSegment
  <2> QED
    BY <1>8, <2>1 DEF EnforceRemove
<1>9. CASE EnforceEnd
  BY <1>9 DEF EnforceEnd
<1>10. CASE Crash
  <2>1. /\ handle' = "closed" /\ skew' = 0 /\ pc' = "read"
        /\ segs' \in SUBSET Nat /\ segment' \in Nat /\ \A s \in segs' : s <= segment'
    <3>1. PICK s \in Segment :
            /\ IF segs = {} THEN s = 0 ELSE s \in segs /\ \A t \in segs : t <= s
            /\ segs' = segs \cup {s} /\ segment' = s
      BY <1>10 DEF Crash, Open
    <3>2. segs \in SUBSET Nat /\ s \in Nat
      OBVIOUS
    <3>3. handle' = "closed" /\ skew' = 0 /\ pc' = "read"
      BY <1>10 DEF Crash
    <3> HIDE DEF IInv, Segment
    <3>4. segs' \in SUBSET Nat /\ segment' \in Nat
      BY <3>1, <3>2
    <3>5. s <= s /\ \A t \in segs : t <= s
      BY <3>1, <3>2
    <3> QED
      BY <3>1, <3>3, <3>4, <3>5
  <2> HIDE DEF IInv
  <2> QED
    BY <2>1
<1>11. CASE AppendEnd \/ AppendFail
  <2>1. UNCHANGED <<segs, segment, pc, rd, handle, skew>>
    BY <1>11, Zenon DEF AppendEnd, EndWrite, AppendFail, FailWrite, consumerVars
  <2> QED
    BY <2>1
<1>12. CASE Stop \/ AdvanceEOF \/ ExportOk \/ Save
  BY <1>12, ZenonT(60) DEF Stop, AdvanceEOF, ExportOk, Save, SaveCheckpoint, logVars
<1>13. CASE ReadStats \/ EnforceBegin \/ EnforceFail \/ Resave
  BY <1>13, ZenonT(60) DEF ReadStats, EnforceBegin, EnforceFail, Resave, SaveCheckpoint, logVars
<1>14. CASE Report \/ Wake \/ Finish
  BY <1>14, ZenonT(60) DEF Report, Wake, Finish, logVars
<1>15. CASE ExportFail \/ Exited \/ UNCHANGED vars
  BY <1>15, ZenonT(60) DEF ExportFail, Exited, vars, logVars, consumerVars
<1> QED
  BY <1>1, <1>2, <1>3, <1>4, <1>5, <1>6, <1>7, <1>8, <1>9, <1>10, <1>11, <1>12, <1>13,
     <1>14, <1>15 DEF Next, Read, Repair, Pressure

(* Only Append leaves an unfinished entry behind, at the end of the active *)
(* segment, and nothing else touches that segment while it holds w.mu.     *)
LEMMA LockStep == IInv /\ [Next]_vars => LockInv'
<1> SUFFICES ASSUME IInv, [Next]_vars PROVE LockInv'
  OBVIOUS
<1> USE DEF IInv, TypeOK, LogTypeOK, LockInv, Goto
<1>1. CASE AppendBegin
  <2>1. Target \in Segment /\ Opened(Target) \in Seq(Rec \cup {Part})
    BY <1>1, SMTT(60) DEF AppendBegin, BeginWrite, StartWrite, Opened
  <2>2. segment' = Target /\ data'[Target] = Append(Opened(Target), Part)
    BY <1>1, <2>1 DEF AppendBegin, BeginWrite, StartWrite
  <2>3. Len(data'[segment']) > 0 /\ data'[segment'][Len(data'[segment'])] = Part
    BY <2>1, <2>2
  <2>4. nrec' \in Rec
    BY <1>1, SizeAssumption DEF AppendBegin, Rec
  <2> QED
    BY <1>1, <2>3, <2>4 DEF AppendBegin, BeginWrite, StartWrite, consumerVars
<1>2. CASE AppendRefused \/ AppendEnd \/ AppendFail
  BY <1>2 DEF AppendRefused, RefuseWrite, AppendEnd, EndWrite, AppendFail, FailWrite,
              consumerVars
<1>3. CASE TruncateCut \/ ReopenFail \/ TruncateFail \/ EnforceFail \/ EnforceEnd \/ Crash
  BY <1>3 DEF TruncateCut, ReopenFail, CutAt, TruncateFail, EnforceFail, EnforceEnd, Crash, Open
<1>4. CASE TruncateBegin \/ EnforceBegin
  BY <1>4 DEF TruncateBegin, EnforceBegin
<1>5. CASE TruncateRemove \/ EnforceRemove
  BY <1>5 DEF TruncateRemove, EnforceRemove, RemoveSegment, consumerVars
<1>6. CASE Save \/ Resave
  BY <1>6 DEF Save, Resave, SaveCheckpoint, logVars
<1>7. CASE Stop \/ ReadRecord \/ ReadTorn \/ ReadFail \/ ReadEnd \/ AdvanceHop \/ AdvanceEOF
  BY <1>7 DEF Stop, ReadRecord, ReadTorn, ReadFail, ReadEnd, AdvanceHop, AdvanceEOF, logVars
<1>8. CASE ExportFail \/ ExportOk \/ ReadStats \/ Wake \/ Finish \/ Exited
  BY <1>8 DEF ExportFail, ExportOk, ReadStats, Wake, Finish, Exited, vars, logVars, consumerVars
<1>9. CASE Report
  BY <1>9 DEF Report, logVars
<1>10. CASE UNCHANGED vars
  BY <1>10 DEF vars, logVars, consumerVars
<1> QED
  BY <1>1, <1>2, <1>3, <1>4, <1>5, <1>6, <1>7, <1>8, <1>9, <1>10
     DEF Next, Read, Repair, Pressure

(* Append writes the rest of a record behind its beginning, and a cut      *)
(* keeps what is before it.                                                *)
LEMMA LeadStep == IInv /\ [Next]_vars => LeadInv'
<1> SUFFICES ASSUME IInv, [Next]_vars,
                    NEW s \in Segment, NEW i \in DOMAIN data'[s], data'[s][i] # Part
             PROVE  i > 1 /\ data'[s][i - 1] = Part
  BY DEF LeadInv
<1> USE DEF IInv, TypeOK, LogTypeOK
<1>0. data[s] \in Seq(Rec \cup {Part})
  OBVIOUS
<1>1. ASSUME i \in DOMAIN data[s], data'[s][i] = data[s][i],
             i > 1 => data'[s][i - 1] = data[s][i - 1]
      PROVE  i > 1 /\ data'[s][i - 1] = Part
  BY <1>1 DEF LeadInv
<1>2. ASSUME NEW q \in Seq(Rec \cup {Part}), StartWrite(q),
             q = Opened(Target) \/ q = Append(Opened(Target), Part)
      PROVE  i > 1 /\ data'[s][i - 1] = Part
  <2>1. Target \in Segment /\ data' = [data EXCEPT ![Target] = q]
    BY <1>2 DEF StartWrite
  <2>2. CASE s # Target
    BY <1>1, <2>1, <2>2
  <2>3. CASE s = Target
    <3>1. data'[s] = q /\ Opened(Target) \in {<< >>, data[s]}
      BY <2>1, <2>3 DEF Opened
    <3>2. i \in DOMAIN data[s] /\ \A j \in DOMAIN data[s] : data'[s][j] = data[s][j]
      <4>1. CASE Opened(Target) = << >>
        <5>0. Append(<< >>, Part) \in Seq({Part})
          OBVIOUS
        <5>1. \A j \in DOMAIN Append(<< >>, Part) : Append(<< >>, Part)[j] = Part
          BY <5>0
        <5>2. q # << >>
          BY <3>1
        <5> QED
          BY <1>2, <3>1, <4>1, <5>1, <5>2
      <4>2. CASE Opened(Target) = data[s]
        <5>1. /\ \A j \in DOMAIN data[s] : Append(data[s], Part)[j] = data[s][j]
              /\ \A j \in DOMAIN Append(data[s], Part) \ DOMAIN data[s] :
                   Append(data[s], Part)[j] = Part
          BY <1>0
        <5>2. data'[s] = data[s] \/ data'[s] = Append(data[s], Part)
          BY <1>2, <3>1, <4>2
        <5> HIDE DEF IInv, TypeOK, LogTypeOK
        <5> QED
          BY <5>1, <5>2
      <4> QED
        BY <3>1, <4>1, <4>2
    <3> QED
      BY <1>0, <1>1, <3>2
  <2> QED
    BY <2>2, <2>3
<1>3. CASE AppendBegin
  <2>1. Append(Opened(Target), Part) \in Seq(Rec \cup {Part})
    BY <1>3, SMTT(60) DEF AppendBegin, BeginWrite, StartWrite, Opened
  <2> QED
    BY <1>2, <1>3, <2>1 DEF AppendBegin, BeginWrite
<1>4. CASE UNCHANGED data
  BY <1>1, <1>4
<1>5. CASE AppendRefused
  <2>1. StartWrite(Opened(Target)) => Opened(Target) \in Seq(Rec \cup {Part})
    BY SMTT(60) DEF StartWrite, Opened
  <2> QED
    BY <1>2, <1>4, <1>5, <2>1 DEF AppendRefused, RefuseWrite
<1>6. CASE AppendEnd
  <2>1. /\ Len(data[segment]) > 0 /\ data[segment][Len(data[segment])] = Part
        /\ data' = [data EXCEPT ![segment] = Append(@, nrec)]
    BY <1>6 DEF AppendEnd, EndWrite, LockInv
  <2>2. CASE i \in DOMAIN data[s]
    <3>1. \A j \in DOMAIN data[s] : data'[s][j] = data[s][j]
      BY <1>0, <2>1
    <3> QED
      BY <1>0, <1>1, <2>2, <3>1
  <2>3. CASE i \notin DOMAIN data[s]
    <3>1. s = segment
      BY <2>1, <2>3
    <3>2. i = Len(data[s]) + 1 /\ data'[s][i - 1] = data[s][i - 1]
      BY <1>0, <2>1, <2>3, <3>1
    <3> QED
      BY <1>0, <2>1, <3>1, <3>2
  <2> QED
    BY <2>2, <2>3
<1>7. CASE TruncateCut \/ ReopenFail
  <2>1. /\ cp.segment \in Segment
        /\ data' = [data EXCEPT ![cp.segment] = CutTo(@, cp.offset)]
    BY <1>7 DEF TruncateCut, ReopenFail, CutAt
  <2>2. CASE s # cp.segment
    BY <1>1, <2>1, <2>2
  <2>3. CASE s = cp.segment
    <3>1. /\ i \in 1 .. cp.offset /\ cp.offset \in Nat
          /\ data'[s] = [j \in 1 .. cp.offset |-> IF j <= Len(data[s]) THEN data[s][j] ELSE Part]
      BY <2>1, <2>3 DEF Position, CutTo
    <3> HIDE DEF IInv, TypeOK, LogTypeOK
    <3>2. i <= Len(data[s]) /\ data'[s][i] = data[s][i]
      BY <3>1
    <3>3. i > 1 => data'[s][i - 1] = data[s][i - 1]
      BY <1>0, <3>1, <3>2
    <3>4. i \in DOMAIN data[s]
      BY <1>0, <3>1, <3>2
    <3> QED
      BY <1>1, <3>2, <3>3, <3>4
  <2> QED
    BY <2>2, <2>3
<1>8. CASE Crash
  <2>1. PICK t \in Segment : data' = IF t \in segs THEN data ELSE [data EXCEPT ![t] = << >>]
    BY <1>8 DEF Crash, Open
  <2>2. data'[s] = data[s]
    BY <2>1
  <2> QED
    BY <1>1, <2>2
<1> QED
  <2>1. CASE AppendFail \/ TruncateRemove \/ EnforceRemove \/ Save \/ Resave
    BY <1>4, <2>1 DEF AppendFail, FailWrite, TruncateRemove, EnforceRemove, RemoveSegment, Save,
                      Resave, SaveCheckpoint, logVars
  <2>2. CASE Stop \/ ReadRecord \/ ReadTorn \/ ReadFail \/ ReadEnd \/ AdvanceHop \/ AdvanceEOF
    BY <1>4, <2>2 DEF Stop, ReadRecord, ReadTorn, ReadFail, ReadEnd, AdvanceHop, AdvanceEOF,
                      logVars
  <2>3. CASE TruncateBegin \/ TruncateFail \/ EnforceBegin \/ EnforceFail \/ EnforceEnd
    BY <1>4, <2>3 DEF TruncateBegin, TruncateFail, EnforceBegin, EnforceFail, EnforceEnd
  <2>4. CASE ExportOk \/ ReadStats \/ Report \/ Wake \/ Finish
    BY <1>4, <2>4 DEF ExportOk, ReadStats, Report, Wake, Finish, logVars
  <2>5. CASE ExportFail \/ Exited \/ UNCHANGED vars
    BY <1>4, <2>5 DEF ExportFail, Exited, vars, logVars
  <2> QED
    BY <1>3, <1>5, <1>6, <1>7, <1>8, <2>1, <2>2, <2>3, <2>4, <2>5
       DEF Next, Read, Repair, Pressure

(* A record is pending only between ReadRecord and ExportOk. *)
LEMMA PendStep == IInv /\ [Next]_vars => PendInv'
<1> SUFFICES ASSUME IInv, [Next]_vars PROVE PendInv'
  OBVIOUS
<1>0. WholeNext => data[rd.segment][FilePos + 2] \in Rec
  BY ReadWhole DEF IInv
<1> USE DEF IInv, TypeOK, PendInv, Goto
<1>1. CASE ReadRecord
  <2>1. pending' \in Rec
    BY <1>0, <1>1, Zenon DEF ReadRecord
  <2> QED
    BY <1>1, <2>1 DEF ReadRecord
<1>2. CASE ExportOk \/ Crash
  BY <1>2 DEF ExportOk, Crash
<1>3. CASE AppendBegin \/ AppendRefused \/ AppendEnd \/ AppendFail \/ Stop
  BY <1>3 DEF AppendBegin, AppendRefused, AppendEnd, AppendFail, Stop, consumerVars
<1>4. CASE ReadTorn \/ ReadFail \/ ReadEnd \/ AdvanceHop \/ AdvanceEOF
  BY <1>4 DEF ReadTorn, ReadFail, ReadEnd, AdvanceHop, AdvanceEOF
<1>5. CASE TruncateBegin \/ TruncateRemove \/ TruncateCut \/ TruncateFail \/ ReopenFail
  BY <1>5 DEF TruncateBegin, TruncateRemove, TruncateCut, TruncateFail, ReopenFail, consumerVars
<1>6. CASE Save \/ ReadStats \/ EnforceBegin \/ EnforceRemove
  BY <1>6 DEF Save, ReadStats, EnforceBegin, EnforceRemove
<1>7. CASE EnforceFail \/ EnforceEnd \/ Resave \/ Report \/ Wake \/ Finish
  BY <1>7 DEF EnforceFail, EnforceEnd, Resave, Report, Wake, Finish
<1>8. CASE ExportFail \/ Exited \/ UNCHANGED vars
  BY <1>8 DEF ExportFail, Exited, vars, consumerVars
<1> QED
  BY <1>1, <1>2, <1>3, <1>4, <1>5, <1>6, <1>7, <1>8 DEF Next, Read, Repair, Pressure

(* The three positions keep their order: the checkpoint file follows the   *)
(* acknowledged position, which follows the reader.                        *)
LEMMA OrderStep == IInv /\ [Next]_vars => OrderInv'
<1> SUFFICES ASSUME IInv, [Next]_vars PROVE OrderInv'
  OBVIOUS
<1> USE DEF IInv, TypeOK, LogTypeOK, OrderInv, PosLeq, Position, Pos, Goto, reader, ResetReader
<1>1. CASE ReadRecord
  BY <1>1 DEF ReadRecord, logVars
<1>2. CASE AdvanceHop
  BY <1>2, SMTT(60) DEF AdvanceHop, logVars
<1>3. CASE TruncateCut
  BY <1>3 DEF TruncateCut, CutAt
<1>4. CASE ExportOk
  BY <1>4 DEF ExportOk, logVars
<1>5. CASE Save \/ Resave
  BY <1>5, SMTT(60) DEF Save, Resave, SaveCheckpoint, logVars
<1>6. CASE EnforceEnd
  BY <1>6 DEF EnforceEnd, NewCpInv
<1>7. CASE Crash
  BY <1>7 DEF Crash, Open
<1>8. CASE UNCHANGED <<ckpt, cp, rd>>
  BY <1>8
<1> QED
  <2>1. CASE AppendBegin \/ AppendRefused \/ AppendEnd \/ AppendFail \/ Stop
    BY <2>1, <1>8 DEF AppendBegin, BeginWrite, AppendRefused, RefuseWrite, StartWrite, AppendEnd,
                      EndWrite, AppendFail, FailWrite, Stop, logVars, consumerVars
  <2>2. CASE ReadTorn \/ ReadFail \/ ReadEnd \/ AdvanceEOF \/ TruncateBegin
    BY <2>2, <1>8 DEF ReadTorn, ReadFail, ReadEnd, AdvanceEOF, TruncateBegin, logVars
  <2>3. CASE TruncateRemove \/ TruncateFail \/ ReopenFail
    BY <2>3, <1>8 DEF TruncateRemove, RemoveSegment, TruncateFail, ReopenFail, CutAt, consumerVars
  <2>4. CASE ReadStats \/ EnforceBegin \/ EnforceRemove \/ EnforceFail
    BY <2>4, <1>8 DEF ReadStats, EnforceBegin, EnforceRemove, RemoveSegment, EnforceFail, logVars
  <2>5. CASE Report \/ Wake \/ Finish
    BY <2>5, <1>8 DEF Report, Wake, Finish, logVars
  <2>6. CASE ExportFail \/ Exited \/ UNCHANGED vars
    BY <2>6, <1>8 DEF ExportFail, Exited, vars, logVars, consumerVars
  <2> QED
    BY <1>1, <1>2, <1>3, <1>4, <1>5, <1>6, <1>7, <2>1, <2>2, <2>3, <2>4, <2>5, <2>6
       DEF Next, Read, Repair, Pressure

(* Retention deletes from the front, so when its checkpoint moves nothing  *)
(* is left before it.                                                      *)
LEMMA NewCpStep == IInv /\ [Next]_vars => NewCpInv'
<1> SUFFICES ASSUME IInv, [Next]_vars, pc' = "enforce"
             PROVE  NewCpInv'
  BY DEF NewCpInv
<1> USE DEF IInv, TypeOK, LogTypeOK, NewCpInv, Position, Pos, Goto
<1>1. CASE EnforceBegin
  BY <1>1 DEF EnforceBegin
<1>2. CASE EnforceRemove
  <2>1. PICK s \in segs : MustDrop(s) /\ RemoveSegment(s) /\ newCp' = PassedOver(newCp, s)
    BY <1>2 DEF EnforceRemove
  <2>2. /\ \A t \in segs' : t > s
        /\ s \in Nat
        /\ cp' = cp
    BY <1>2, <2>1, SMTT(60) DEF EnforceRemove, MustDrop, RemoveSegment, Segment
  <2>3. CASE s = newCp.segment
    <3>1. newCp' = [segment |-> s + 1, offset |-> 0] /\ cp.segment < s + 1
      <4>1. newCp' = [segment |-> s + 1, offset |-> 0]
        BY <2>1, <2>3 DEF PassedOver
      <4>2. pc = "enforce" /\ cp.segment \in Nat /\ newCp.segment \in Nat
        BY <1>2 DEF EnforceRemove
      <4>3. newCp = cp \/ cp.segment < newCp.segment
        BY <4>2
      <4> HIDE DEF IInv
      <4> QED
        BY <2>2, <2>3, <4>1, <4>2, <4>3
    <3>2. \A t \in segs' : t \in Nat /\ t >= s + 1
      BY <2>1, <2>2 DEF RemoveSegment, Segment
    <3> QED
      BY <2>2, <3>1, <3>2
  <2>4. CASE s # newCp.segment
    BY <1>2, <2>1, <2>2, <2>4 DEF EnforceRemove, PassedOver, RemoveSegment
  <2> QED
    BY <2>3, <2>4
<1>3. CASE pc = "enforce" /\ UNCHANGED <<segs, cp, newCp>>
  BY <1>3
<1> QED
  <2>1. CASE AppendBegin \/ AppendRefused \/ AppendEnd \/ AppendFail
    BY <2>1 DEF AppendBegin, BeginWrite, AppendRefused, RefuseWrite, StartWrite, AppendEnd,
                EndWrite, AppendFail, FailWrite, consumerVars, LockInv
  <2>2. CASE Stop \/ TruncateRemove
    BY <2>2, <1>3 DEF Stop, TruncateRemove, logVars, consumerVars
  <2>3. CASE ExportFail \/ Exited \/ UNCHANGED vars
    BY <2>3, <1>3 DEF ExportFail, Exited, vars, logVars, consumerVars
  <2>4. ~(ReadRecord \/ ReadTorn \/ ReadFail \/ ReadEnd \/ AdvanceHop \/ AdvanceEOF)
    BY DEF ReadRecord, ReadTorn, ReadFail, ReadEnd, AdvanceHop, AdvanceEOF
  <2>5. ~(TruncateBegin \/ TruncateCut \/ TruncateFail \/ ReopenFail \/ ExportOk \/ Save)
    BY DEF TruncateBegin, TruncateCut, TruncateFail, ReopenFail, ExportOk, Save
  <2>6. ~(ReadStats \/ EnforceFail \/ EnforceEnd \/ Resave \/ Report)
    BY DEF ReadStats, EnforceFail, EnforceEnd, Resave, Report
  <2>7. ~(Wake \/ Finish \/ Crash)
    BY DEF Wake, Finish, Crash
  <2> QED
    BY <1>1, <1>2, <2>1, <2>2, <2>3, <2>4, <2>5, <2>6, <2>7 DEF Next, Read, Repair, Pressure

(* No step loses an accepted record silently: it stays where the reader    *)
(* will meet it, or is exported, or is counted as given up.                *)
LEMMA SafeStep == IInv /\ [Next]_vars => SafeInv'
<1> SUFFICES ASSUME IInv, [Next]_vars, NEW r \in accepted', r \notin sent' \cup Lost'
             PROVE  \E s \in segs' : \E i \in DOMAIN data'[s] : Reachable(r, s, i)'
  BY DEF SafeInv
<1> USE DEF IInv, TypeOK, LogTypeOK
(* An old record that was not given up in this step has a place on disk. *)
<1>1. ASSUME r \in accepted, sent \subseteq sent', Lost \subseteq Lost'
      PROVE  \E s \in segs : \E i \in DOMAIN data[s] : Reachable(r, s, i)
  BY <1>1 DEF SafeInv
<1>2. r \in accepted => r \in Rec /\ r # NoRec /\ r # Part
  BY DEF Rec, NoRec, Part
<1>3. CASE AppendBegin
  <2>1. PICK s \in segs : \E i \in DOMAIN data[s] : Reachable(r, s, i)
    BY <1>1, <1>3 DEF AppendBegin, history, Lost
  <2>2. PICK i \in DOMAIN data[s] : Reachable(r, s, i)
    BY <2>1
  <2>3. Target \in Segment /\ s \in Segment /\ s \in segs'
    BY <1>3 DEF AppendBegin, BeginWrite, StartWrite
  <2>4. i \in DOMAIN data'[s] /\ data'[s][i] = data[s][i]
    BY <1>3, <2>2, <2>3 DEF AppendBegin, BeginWrite, StartWrite, Opened
  <2> QED
    BY <1>3, <2>2, <2>3, <2>4 DEF AppendBegin, Reachable, consumerVars, reader
<1>a. CASE AppendRefused
  <2>1. PICK s \in segs : \E i \in DOMAIN data[s] : Reachable(r, s, i)
    BY <1>1, <1>a DEF AppendRefused, history, Lost
  <2>2. PICK i \in DOMAIN data[s] : Reachable(r, s, i)
    BY <2>1
  <2>3. s \in segs' /\ data'[s] = data[s]
    <3>1. CASE StartWrite(Opened(Target))
      BY <3>1 DEF StartWrite, Opened
    <3> QED
      BY <1>a, <3>1 DEF AppendRefused, RefuseWrite
  <2> QED
    BY <1>a, <2>2, <2>3 DEF AppendRefused, Reachable, consumerVars, reader
<1>4. CASE AppendEnd
  <2>1. /\ nrec \in Rec
        /\ UNCHANGED <<segs, cp, rd, pending>>
        /\ data' = [data EXCEPT ![segment] = Append(@, nrec)]
    BY <1>4 DEF AppendEnd, EndWrite, LockInv, consumerVars, reader
  <2>2. \A s \in segs : \A i \in DOMAIN data[s] : i \in DOMAIN data'[s] /\ data'[s][i] = data[s][i]
    BY <2>1
  <2>3. CASE r = nrec
    <3>1. (IF InSight THEN {} ELSE {nrec}) \in SUBSET Rec
      BY <2>1
    <3>2. Lost' = Lost \cup ((IF InSight THEN {} ELSE {nrec}) \ sent) /\ sent' = sent
      BY <1>4, <3>1, LoseType DEF AppendEnd, Cause
    <3>3. InSight
      BY <2>3, <3>2
    <3>4. /\ data'[segment][Len(data[segment]) + 1] = r
          /\ Len(data[segment]) + 1 \in DOMAIN data'[segment]
      BY <2>1, <2>3
    <3> QED
      BY <2>1, <3>3, <3>4 DEF InSight, Reachable
  <2>4. CASE r # nrec
    <3>1. r \in accepted /\ sent' = sent
      BY <1>4, <2>4 DEF AppendEnd
    <3>2. (IF InSight THEN {} ELSE {nrec}) \in SUBSET Rec
      BY <2>1
    <3>3. Lost \subseteq Lost'
      BY <1>4, <3>2, LoseType DEF AppendEnd, Cause
    <3>4. PICK s \in segs : \E i \in DOMAIN data[s] : Reachable(r, s, i)
      BY <1>1, <3>1, <3>3
    <3>5. PICK i \in DOMAIN data[s] : Reachable(r, s, i)
      BY <3>4
    <3> QED
      BY <2>1, <2>2, <3>5 DEF Reachable
  <2> QED
    BY <2>3, <2>4
<1>6. CASE ReadRecord
  <2>a. /\ ~Missing /\ rd.segment \in Segment /\ rd.offset \in Nat /\ skew \in Nat
        /\ FilePos \in Nat /\ data[rd.segment] \in Seq(Rec \cup {Part})
        /\ FilePos + 2 \in 1 .. Len(data[rd.segment])
        /\ data[rd.segment][FilePos + 1] = Part /\ data[rd.segment][FilePos + 2] \in Rec
    BY <1>6, ReadWhole, ReadPlace DEF ReadRecord
  <2>b. Overrun \in SUBSET Rec
    BY <2>a, OverrunType
  <2>c. Lost' = Lost \cup (Overrun \ sent) /\ sent' = sent /\ accepted' = accepted
    BY <1>6, <2>b, LoseType DEF ReadRecord, Cause
  <2>1. PICK s \in segs : \E i \in DOMAIN data[s] : Reachable(r, s, i)
    BY <1>1, <2>c
  <2>2. PICK i \in DOMAIN data[s] : Reachable(r, s, i)
    BY <2>1
  <2>3. r \in Rec /\ pending = NoRec /\ r # pending
    BY <1>2, <1>6, <2>c DEF ReadRecord, PendInv
  <2>4. data[s][i] = r /\ AtOrAfter(s, i, rd)
    BY <2>2, <2>3 DEF Reachable
  <2>5. UNCHANGED <<segs, data, cp>> /\ rd' = Pos(rd.segment, rd.offset + 2)
        /\ pending' = data[rd.segment][FilePos + 2]
    BY <1>6 DEF ReadRecord, Goto, logVars
  <2>6. CASE AtOrAfter(s, i, rd')
    BY <2>2, <2>4, <2>5, <2>6 DEF Reachable
  <2>7. CASE ~AtOrAfter(s, i, rd')
    <3>0. s \in Nat /\ i \in Nat /\ rd.segment \in Nat
      BY <2>2, SMTT(60) DEF Position, Segment
    <3>1. s = rd.segment /\ rd.offset + 1 < i /\ i <= rd.offset + 3
      <4> HIDE DEF IInv
      <4> QED
        BY <2>4, <2>5, <2>7, <2>a, <3>0 DEF AtOrAfter, Pos
    <3>2. ~(i < FilePos + 2)
      <4>1. ASSUME i < FilePos + 2 PROVE r \in Overrun
        BY <1>2, <2>2, <2>3, <2>4, <3>1, <4>1 DEF Overrun, Rec, Part
      <4> QED
        BY <2>c, <4>1
    <3>3. i = FilePos + 2
      <4>1. i > 1 /\ data[s][i - 1] = Part
        BY <2>2, <2>3, <2>4 DEF LeadInv, Rec, Part
      <4>2. i # FilePos + 3
        <5>1. FilePos + 3 - 1 = FilePos + 2
          BY <2>a
        <5> QED
          BY <2>a, <3>1, <4>1, <5>1 DEF Rec, Part
      <4>3. FilePos = rd.offset + skew /\ rd.offset \in Nat /\ skew \in Nat
        BY <2>a DEF FilePos
      <4> HIDE DEF IInv, TypeOK, LogTypeOK
      <4> QED
        BY <3>0, <3>1, <3>2, <4>2, <4>3
    <3>4. r = pending'
      BY <2>4, <2>5, <3>1, <3>3
    <3>5. AtOrAfter(s, i, cp)
      BY <2>4, <3>1, SMTT(60) DEF AtOrAfter, OrderInv, PosLeq, Position, Segment
    <3> QED
      BY <2>2, <2>4, <2>5, <3>4, <3>5 DEF Reachable, AtOrAfter
  <2> QED
    BY <2>6, <2>7
<1>7. CASE AdvanceHop
  <2> DEFINE S == IF rd.segment \in segs THEN IdsFrom(rd.segment, rd.offset) ELSE {}
  <2>0. S \in SUBSET Rec
    BY IdsType DEF Position
  <2> HIDE DEF S
  <2>3. Lost' = Lost \cup (S \ sent) /\ sent' = sent /\ accepted' = accepted
    BY <1>7, <2>0, LoseType DEF AdvanceHop, S, Cause
  <2>1. PICK s \in segs : \E i \in DOMAIN data[s] : Reachable(r, s, i)
    BY <1>1, <2>3
  <2>2. PICK i \in DOMAIN data[s] : Reachable(r, s, i)
    BY <2>1
  <2>4. r # pending
    BY <1>2, <1>7, <2>3 DEF AdvanceHop, PendInv
  <2>5. data[s][i] = r /\ AtOrAfter(s, i, rd)
    BY <2>2, <2>4 DEF Reachable
  <2>6. UNCHANGED <<segs, data>> /\ rd' = Pos(rd.segment + 1, 0)
    BY <1>7 DEF AdvanceHop, ResetReader, logVars
  <2>7. ~(s = rd.segment /\ i > rd.offset + 1)
    <3>1. ASSUME s = rd.segment, i > rd.offset + 1 PROVE r \in S
      BY <1>2, <2>2, <2>3, <2>5, <3>1 DEF S, IdsFrom
    <3> QED
      BY <2>3, <3>1
  <2>8. AtOrAfter(s, i, rd')
    <3>1. s \in Nat /\ i \in Nat /\ i > 1
      BY <1>2, <2>2, <2>3, <2>5 DEF LeadInv, Segment
    <3>2. rd.segment \in Nat /\ rd.offset \in Nat
      BY DEF Position
    <3> HIDE DEF IInv
    <3> QED
      BY <2>5, <2>6, <2>7, <3>1, <3>2 DEF AtOrAfter, Pos
  <2> QED
    BY <2>2, <2>5, <2>6, <2>8 DEF Reachable
<1>8. CASE TruncateRemove
  <2>0. PICK x \in segs : RemoveSegment(x) /\ Lose("truncate", IdsFrom(x, 0))
    BY <1>8 DEF TruncateRemove, LaterSegments
  <2>3. Lost' = Lost \cup (IdsFrom(x, 0) \ sent) /\ sent' = sent /\ accepted' = accepted
    BY <1>8, <2>0, IdsType, LoseType DEF TruncateRemove, Cause
  <2>1. PICK s \in segs : \E i \in DOMAIN data[s] : Reachable(r, s, i)
    BY <1>1, <2>3
  <2>2. PICK i \in DOMAIN data[s] : Reachable(r, s, i)
    BY <2>1
  <2>4. s # x
    <3>1. s \in Segment /\ data[s][i] = r /\ i > 0 + 1
      BY <1>2, <2>2, <2>3 DEF Reachable, LeadInv
    <3> QED
      BY <1>2, <2>2, <2>3, <3>1 DEF IdsFrom
  <2> QED
    BY <1>8, <2>0, <2>2, <2>4 DEF TruncateRemove, RemoveSegment, Reachable, consumerVars, reader
<1>9. CASE TruncateCut \/ ReopenFail
  <2>a. /\ CutAt(cp) /\ Lose("truncate", IdsFrom(cp.segment, cp.offset))
        /\ LaterSegments = {} /\ sent' = sent /\ accepted' = accepted
    BY <1>9 DEF TruncateCut, ReopenFail
  <2>0. cp.segment \in Segment /\ cp.offset \in Nat
    BY <2>a DEF CutAt, Position
  <2>3. /\ Lost' = Lost \cup (IdsFrom(cp.segment, cp.offset) \ sent)
        /\ sent' = sent /\ accepted' = accepted
    BY <2>0, <2>a, IdsType, LoseType DEF Cause
  <2>1. PICK s \in segs : \E i \in DOMAIN data[s] : Reachable(r, s, i)
    BY <1>1, <2>3
  <2>2. PICK i \in DOMAIN data[s] : Reachable(r, s, i)
    BY <2>1
  <2>4. data[s][i] = r /\ AtOrAfter(s, i, cp)
    BY <2>2, SMTT(60) DEF Reachable, AtOrAfter, OrderInv, PosLeq, Position, Segment
  <2>5. s = cp.segment /\ i > cp.offset + 1
    BY <2>4, <2>a DEF LaterSegments, AtOrAfter
  <2>6. r \in IdsFrom(cp.segment, cp.offset)
    BY <1>2, <2>2, <2>3, <2>4, <2>5 DEF IdsFrom
  <2> QED
    BY <2>3, <2>6
<1>10. CASE ExportOk
  <2>1. PICK s \in segs : \E i \in DOMAIN data[s] : Reachable(r, s, i)
    BY <1>1, <1>10 DEF ExportOk, Lost
  <2>2. PICK i \in DOMAIN data[s] : Reachable(r, s, i)
    BY <2>1
  <2>3. r # pending
    BY <1>10 DEF ExportOk
  <2> QED
    BY <1>10, <2>2, <2>3 DEF ExportOk, Reachable, logVars, reader
<1>11. CASE EnforceRemove
  <2>0. PICK x \in segs : RemoveSegment(x) /\ Lose("retention", IdsFrom(x, 0))
    BY <1>11 DEF EnforceRemove
  <2>3. Lost' = Lost \cup (IdsFrom(x, 0) \ sent) /\ sent' = sent /\ accepted' = accepted
    BY <1>11, <2>0, IdsType, LoseType DEF EnforceRemove, Cause
  <2>1. PICK s \in segs : \E i \in DOMAIN data[s] : Reachable(r, s, i)
    BY <1>1, <2>3
  <2>2. PICK i \in DOMAIN data[s] : Reachable(r, s, i)
    BY <2>1
  <2>4. s # x
    <3>1. s \in Segment /\ data[s][i] = r /\ i > 0 + 1
      BY <1>2, <2>2, <2>3 DEF Reachable, LeadInv
    <3> QED
      BY <1>2, <2>2, <2>3, <3>1 DEF IdsFrom
  <2> QED
    BY <1>11, <2>0, <2>2, <2>4 DEF EnforceRemove, RemoveSegment, Reachable, reader
<1>12. CASE EnforceEnd
  <2>1. PICK s \in segs : \E i \in DOMAIN data[s] : Reachable(r, s, i)
    BY <1>1, <1>12 DEF EnforceEnd, history, Lost
  <2>2. PICK i \in DOMAIN data[s] : Reachable(r, s, i)
    BY <2>1
  <2>3. UNCHANGED <<segs, data, pending>>
    BY <1>12 DEF EnforceEnd
  <2>4. CASE newCp = cp
    BY <1>12, <2>2, <2>3, <2>4 DEF EnforceEnd, Reachable, reader
  <2>5. CASE newCp # cp
    <3>1. rd' = newCp /\ newCp.offset = 0 /\ s >= newCp.segment
      BY <1>12, <2>5 DEF EnforceEnd, NewCpInv, ResetReader
    <3>2. i > 1 /\ i \in Nat /\ s \in Nat /\ newCp.segment \in Nat
      BY <1>2, <1>12, <2>2 DEF Reachable, LeadInv, Segment, Position, EnforceEnd, history
    <3>3. AtOrAfter(s, i, rd')
      BY <3>1, <3>2 DEF AtOrAfter
    <3> QED
      BY <2>2, <2>3, <3>3 DEF Reachable
  <2> QED
    BY <2>4, <2>5
<1>13. CASE Crash
  <2>1. PICK s \in segs : \E i \in DOMAIN data[s] : Reachable(r, s, i)
    BY <1>1, <1>13 DEF Crash, Lost
  <2>2. PICK i \in DOMAIN data[s] : Reachable(r, s, i)
    BY <2>1
  <2>3. AtOrAfter(s, i, ckpt)
    BY <2>2, SMTT(60) DEF Reachable, AtOrAfter, OrderInv, PosLeq, Position, Segment
  <2>4. s \in segs' /\ data'[s] = data[s] /\ rd' = ckpt
    BY <1>13 DEF Crash, Open, ResetReader
  <2> QED
    BY <2>2, <2>3, <2>4 DEF Reachable
<1>14. CASE UNCHANGED <<segs, data, cp, rd, pending, accepted, sent, lost>>
  <2>1. PICK s \in segs : \E i \in DOMAIN data[s] : Reachable(r, s, i)
    BY <1>1, <1>14 DEF Lost
  <2>2. PICK i \in DOMAIN data[s] : Reachable(r, s, i)
    BY <2>1
  <2> QED
    BY <1>14, <2>2 DEF Reachable
<1> QED
  <2>1. CASE Stop \/ ReadTorn \/ ReadFail \/ ReadEnd \/ AdvanceEOF \/ TruncateBegin
    BY <2>1, <1>14 DEF Stop, ReadTorn, ReadFail, ReadEnd, AdvanceEOF, TruncateBegin, Goto, logVars,
                       history, reader
  <2>2. CASE TruncateFail \/ Save \/ ReadStats \/ EnforceBegin
    BY <2>2, <1>14 DEF TruncateFail, Save, SaveCheckpoint, ReadStats, EnforceBegin, Goto,
                       logVars, history, reader
  <2>3. CASE EnforceFail \/ Resave \/ Report \/ Wake \/ Finish
    BY <2>3, <1>14 DEF EnforceFail, Resave, SaveCheckpoint, Report, Wake, Finish, Goto,
                       logVars, history, reader
  <2>4. CASE ExportFail \/ Exited \/ UNCHANGED vars
    BY <2>4, <1>14 DEF ExportFail, Exited, vars, logVars, consumerVars, history, reader
  <2>5. CASE AppendFail
    BY <2>5, <1>14 DEF AppendFail, FailWrite, consumerVars, reader
  <2> QED
    BY <1>3, <1>4, <1>a, <2>5, <1>6, <1>7, <1>8, <1>9, <1>10, <1>11, <1>12, <1>13,
       <2>1, <2>2, <2>3, <2>4 DEF Next, Read, Repair, Pressure

(* The first state of the log satisfies the invariant. *)
LEMMA InitIInv == Init => IInv
<1> SUFFICES ASSUME Init PROVE IInv
  OBVIOUS
<1>1. TypeOK
  <2>1. MaxCrash \in Nat
    BY FaultAssumption
  <2>2. LogTypeOK
    BY SizeAssumption DEF Init, LogInit, LogTypeOK, Segment, Position, Pos
  <2>3. lost \in [Cause -> SUBSET Rec]
    BY DEF Init
  <2>4. final \in BOOLEAN /\ stopReq \in BOOLEAN /\ degraded \in BOOLEAN
    BY DEF Init
  <2>5. nrec \in 0 .. MaxRecord /\ crashes \in 0 .. MaxCrash
    BY <2>1, SizeAssumption DEF Init
  <2>6. cp \in Position /\ newCp \in Position /\ rd \in Position /\ skew \in Nat
    BY DEF Init, Position, Pos
  <2>7. /\ pc \in PC /\ after \in {"read", "idle"} /\ handle \in {"open", "closed"}
        /\ level \in {"low", "mid", "high"} /\ pending \in Rec \cup {NoRec}
        /\ accepted \in SUBSET Rec /\ sent \in SUBSET Rec
    BY DEF Init, PC
  <2> QED
    BY <2>2, <2>3, <2>4, <2>5, <2>6, <2>7 DEF TypeOK
<1>2. HandleInv /\ LockInv /\ LeadInv /\ OrderInv /\ PendInv /\ NewCpInv /\ SafeInv
  BY DEF Init, LogInit, HandleInv, LockInv, LeadInv, OrderInv, PendInv, NewCpInv, SafeInv, PosLeq, Pos
<1> QED
  BY <1>1, <1>2 DEF IInv

(* Every step of Append, the consumer, Stop and Crash keeps the invariant. *)
LEMMA StepIInv == IInv /\ [Next]_vars => IInv'
BY TypeStep, HandleStep, LockStep, LeadStep, OrderStep, PendStep, NewCpStep, SafeStep DEF IInv

(* The inductive invariant holds in every reachable state. *)
THEOREM Inductive == Spec => []IInv
BY InitIInv, StepIInv, PTL DEF Spec

(* Every variable of the log, the reader and the consumer keeps its type.  *)
THEOREM TypeCorrect == Spec => []TypeOK
BY Inductive, PTL DEF IInv

(* Every record Append accepted was exported, was given up by retention,   *)
(* truncation, a hop, a drifting handle or an unlinked file, or lies on    *)
(* disk at or after the checkpoint file, whatever crashes and failures     *)
(* happen.                                                                 *)
THEOREM AllAccounted == Spec => []Accounted
<1>1. IInv => Accounted
  <2> SUFFICES ASSUME IInv, NEW r \in accepted, r \notin sent \cup Lost
               PROVE  r \in Ahead(ckpt)
    BY DEF Accounted
  <2>1. PICK s \in segs : \E i \in DOMAIN data[s] : Reachable(r, s, i)
    BY DEF IInv, SafeInv
  <2>2. PICK i \in DOMAIN data[s] : Reachable(r, s, i)
    BY <2>1
  <2>3. data[s][i] = r /\ AtOrAfter(s, i, ckpt)
    BY <2>2, SMTT(60) DEF Reachable, AtOrAfter, IInv, TypeOK, LogTypeOK, OrderInv, PosLeq, Position,
                Segment
  <2> QED
    BY <2>2, <2>3 DEF Ahead, IInv, TypeOK
<1> QED
  BY <1>1, Inductive, PTL

(* The checkpoint file never moves backwards. *)
THEOREM CheckpointForward == Spec => CheckpointMonotone
<1>1. IInv /\ [Next]_vars => [PosLeq(ckpt, ckpt')]_vars
  <2> SUFFICES ASSUME IInv, Next PROVE PosLeq(ckpt, ckpt')
    OBVIOUS
  <2> USE DEF IInv, TypeOK, LogTypeOK, PosLeq, Position
  <2>1. CASE Save \/ Resave
    BY <2>1 DEF Save, Resave, SaveCheckpoint, OrderInv, logVars
  <2>2. CASE UNCHANGED ckpt
    BY <2>2
  <2>3. CASE AppendBegin \/ AppendRefused \/ AppendEnd \/ AppendFail \/ Stop \/ Crash
    BY <2>3, <2>2 DEF AppendBegin, BeginWrite, AppendRefused, RefuseWrite, StartWrite, AppendEnd,
                      EndWrite, AppendFail, FailWrite, Stop, Crash, Open, logVars
  <2>4. CASE Read
    BY <2>4, <2>2 DEF Read, ReadRecord, ReadTorn, ReadFail, ReadEnd, AdvanceHop, AdvanceEOF,
                      logVars
  <2>5. CASE Repair
    BY <2>5, <2>2 DEF Repair, TruncateBegin, TruncateRemove, RemoveSegment, TruncateCut, CutAt,
                      TruncateFail, ReopenFail
  <2>6. CASE ReadStats \/ EnforceBegin \/ EnforceRemove \/ EnforceFail \/ EnforceEnd \/ Report
    BY <2>6, <2>2 DEF ReadStats, EnforceBegin, EnforceRemove, RemoveSegment, EnforceFail,
                      EnforceEnd, Report, logVars
  <2>7. CASE ExportFail \/ ExportOk \/ Wake \/ Finish \/ Exited
    BY <2>7, <2>2 DEF ExportFail, ExportOk, Wake, Finish, Exited, vars, logVars
  <2> QED
    BY <2>1, <2>3, <2>4, <2>5, <2>6, <2>7 DEF Next, Pressure
<1> QED
  BY <1>1, Inductive, PTL DEF Spec, CheckpointMonotone
=============================================================================
