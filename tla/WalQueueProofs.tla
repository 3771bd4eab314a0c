--------------------------- MODULE WalQueueProofs ----------------------------
(***************************************************************************)
(* The write-ahead log and its consumer are a durable queue: WalConsumer   *)
(* implements DurableQueue, for every segment size, cap, number of         *)
(* records, crashes and combination of faults.  On top of WalProofs' IInv, *)
(* which says where a record is, the proof needs to know in which order    *)
(* the records lie in the files.                                           *)
(***************************************************************************)
EXTENDS WalProofs

(* Unit i of segment s lies before unit j of segment t. *)
Before(s, i, t, j) == s < t \/ (s = t /\ i < j)

(* Up to the active segment, unlinked files included, the records lie in   *)
(* the order they were appended in.  A file behind the active segment is   *)
(* what a truncation or a restart took out of the log; it is emptied when  *)
(* a rotation comes to its number again.                                   *)
SortedInv ==
  \A s, t \in Segment : \A i \in DOMAIN data[s], j \in DOMAIN data[t] :
    t <= segment /\ Before(s, i, t, j) /\ data[s][i] # Part /\ data[t][j] # Part
      => data[s][i] < data[t][j]

(* What lies in a file or was exported was accepted, and the record being  *)
(* written was not yet.                                                    *)
KnownInv ==
  /\ sent \subseteq accepted
  /\ accepted \subseteq 1 .. nrec
  /\ mu = "append" => nrec \notin accepted
  /\ \A s \in Segment : \A i \in DOMAIN data[s] : data[s][i] \in accepted \cup {Part}

(* What lies ahead of the reader is not older than the record being        *)
(* exported, or a drifting handle has passed it over.                      *)
FirstInv ==
  pc = "export" =>
    /\ pending \in accepted
    /\ \A s \in segs : \A i \in DOMAIN data[s] :
         AtOrAfter(s, i, rd) /\ data[s][i] # Part =>
           pending <= data[s][i] \/ data[s][i] \in sent \cup Lost

(* Exports happen in append order: when a record was exported, every       *)
(* earlier accepted record was exported or given up.                       *)
DeliveredPrefix ==
  \A q \in sent : \A r \in accepted : r < q => r \in sent \cup Lost

QInv == IInv /\ SortedInv /\ KnownInv /\ FirstInv /\ DeliveredPrefix

-----------------------------------------------------------------------------
(* Where the records of a file come from: a record was there before, in a  *)
(* file that already belonged to the log, or Append completes it.          *)
LEMMA EntryStep ==
  ASSUME IInv, [Next]_vars, NEW s \in Segment, NEW i \in DOMAIN data'[s], data'[s][i] # Part
  PROVE  \/ /\ i \in DOMAIN data[s] /\ data'[s][i] = data[s][i]
            /\ s <= segment' => s <= segment
         \/ /\ AppendEnd
            /\ segment' = segment /\ s = segment /\ i = Len(data[s]) + 1 /\ data'[s][i] = nrec
<1> USE DEF IInv, TypeOK, LogTypeOK, Segment
<1>6. CASE UNCHANGED <<data, segment>>
  BY <1>6
<1>1. ASSUME NEW q, StartWrite(q), q = Opened(Target) \/ q = Append(Opened(Target), Part)
      PROVE  /\ i \in DOMAIN data[s] /\ data'[s][i] = data[s][i]
             /\ s <= segment' => s <= segment
  <2>1. Target \in Segment /\ Opened(Target) \in Seq(Rec \cup {Part})
    BY <1>1, SMTT(60) DEF StartWrite, Opened
  <2>2. segment' = Target /\ data' = [data EXCEPT ![Target] = q]
    BY <1>1 DEF StartWrite
  <2>3. CASE s = Target
    <3>1. data'[s] = q
      BY <2>1, <2>2, <2>3
    <3>2. i \in 1 .. Len(Opened(Target)) /\ data'[s][i] = Opened(Target)[i]
      <4>1. CASE q = Opened(Target)
        BY <2>1, <3>1, <4>1
      <4>2. CASE q = Append(Opened(Target), Part)
        BY <2>1, <3>1, <4>2
      <4> QED
        BY <1>1, <4>1, <4>2
    <3>3. Opened(Target) = data[Target] /\ ~MustRotate
      BY <3>2 DEF Opened, Target, HandleInv
    <3> QED
      BY <2>2, <2>3, <3>2, <3>3 DEF Target
  <2>4. CASE s # Target
    BY <2>1, <2>2, <2>4, SizeAssumption DEF Target
  <2> QED
    BY <2>3, <2>4
<1>a. CASE AppendBegin \/ AppendRefused
  BY <1>1, <1>6, <1>a DEF AppendBegin, BeginWrite, AppendRefused, RefuseWrite
<1>2. CASE AppendEnd
  <2>1. /\ segment' = segment
        /\ data' = [data EXCEPT ![segment] = Append(@, nrec)]
    BY <1>2 DEF AppendEnd, EndWrite, LockInv
  <2> QED
    BY <1>2, <2>1
<1>3. CASE AppendFail
  BY <1>3 DEF AppendFail, FailWrite
<1>4. CASE TruncateCut \/ ReopenFail
  <2>1. cp.segment \in Segment /\ cp.offset \in Nat /\ segment' \in Nat /\ segment' <= segment
    <3>1. CutAt(cp) /\ (Reopen(cp) \/ segment' = segment)
      BY <1>4 DEF TruncateCut, ReopenFail
    <3> QED
      BY <3>1, SMTT(60) DEF CutAt, Reopen, Position
  <2>2. data' = [data EXCEPT ![cp.segment] = CutTo(@, cp.offset)] /\ cp.segment <= segment
    BY <1>4 DEF TruncateCut, ReopenFail, CutAt, HandleInv
  <2>3. CASE s = cp.segment
    <3>1. data'[s] = [j \in 1 .. cp.offset |-> IF j <= Len(data[s]) THEN data[s][j] ELSE Part]
      BY <2>1, <2>2, <2>3 DEF CutTo
    <3>2. data[s] \in Seq(Rec \cup {Part})
      OBVIOUS
    <3> HIDE DEF IInv, TypeOK, LogTypeOK
    <3>3. i \in DOMAIN data[s] /\ data'[s][i] = data[s][i]
      BY <2>1, <3>1, <3>2
    <3> QED
      BY <2>2, <2>3, <3>3
  <2>4. CASE s # cp.segment
    BY <2>1, <2>2, <2>4
  <2> QED
    BY <2>3, <2>4
<1>5. CASE Crash
  BY <1>5, SizeAssumption, SMTT(60) DEF Crash, Open, HandleInv
<1>7. CASE TruncateRemove \/ EnforceRemove \/ Save \/ Resave
  BY <1>7, <1>6 DEF TruncateRemove, EnforceRemove, RemoveSegment, Save, Resave, SaveCheckpoint,
                    logVars
<1>8. CASE Stop \/ ReadRecord \/ ReadTorn \/ ReadFail \/ ReadEnd \/ AdvanceHop \/ AdvanceEOF
  BY <1>8, <1>6 DEF Stop, ReadRecord, ReadTorn, ReadFail, ReadEnd, AdvanceHop, AdvanceEOF, logVars
<1>9. CASE TruncateBegin \/ TruncateFail \/ EnforceBegin \/ EnforceFail \/ EnforceEnd
  BY <1>9, <1>6 DEF TruncateBegin, TruncateFail, EnforceBegin, EnforceFail, EnforceEnd
<1>10. CASE ExportOk \/ ReadStats \/ Report \/ Wake \/ Finish
  BY <1>10, <1>6 DEF ExportOk, ReadStats, Report, Wake, Finish, logVars
<1>11. CASE ExportFail \/ Exited \/ UNCHANGED vars
  BY <1>11, <1>6 DEF ExportFail, Exited, vars, logVars
<1> QED
  BY <1>a, <1>2, <1>3, <1>4, <1>5, <1>7, <1>8, <1>9, <1>10, <1>11
     DEF Next, Read, Repair, Pressure

(* A record is appended behind all the log holds, so order is kept. *)
LEMMA SortedStep == QInv /\ [Next]_vars => SortedInv'
<1> SUFFICES ASSUME QInv, [Next]_vars,
                    NEW s \in Segment, NEW t \in Segment,
                    NEW i \in DOMAIN data'[s], NEW j \in DOMAIN data'[t],
                    t <= segment', Before(s, i, t, j),
                    data'[s][i] # Part, data'[t][j] # Part
             PROVE  data'[s][i] < data'[t][j]
  BY DEF SortedInv, Before
<1> USE DEF QInv, Before, Segment
<1>1. IInv
  OBVIOUS
<1>2. \/ /\ i \in DOMAIN data[s] /\ data'[s][i] = data[s][i]
      \/ AppendEnd /\ s = segment /\ i = Len(data[s]) + 1 /\ segment' = segment
  BY <1>1, EntryStep
<1>3. \/ /\ j \in DOMAIN data[t] /\ data'[t][j] = data[t][j]
         /\ t <= segment
      \/ AppendEnd /\ t = segment /\ j = Len(data[t]) + 1 /\ data'[t][j] = nrec
  BY <1>1, EntryStep
<1>4. data[s] \in Seq(Rec \cup {Part}) /\ data[t] \in Seq(Rec \cup {Part}) /\ segment \in Nat
  BY DEF IInv, TypeOK, LogTypeOK
<1>5. CASE i \in DOMAIN data[s] /\ data'[s][i] = data[s][i] /\ j \in DOMAIN data[t]
           /\ data'[t][j] = data[t][j] /\ t <= segment
  BY <1>5 DEF SortedInv
<1>6. CASE i \in DOMAIN data[s] /\ data'[s][i] = data[s][i] /\ AppendEnd /\ data'[t][j] = nrec
  <2>1. data[s][i] \in accepted /\ nrec \notin accepted /\ accepted \subseteq 1 .. nrec
    BY <1>6 DEF KnownInv, AppendEnd, EndWrite
  <2>2. nrec \in Nat
    BY DEF IInv, TypeOK
  <2>3. data[s][i] \in 1 .. nrec /\ data[s][i] # nrec
    BY <2>1
  <2> QED
    BY <1>6, <2>2, <2>3
<1>7. CASE AppendEnd /\ s = segment /\ i = Len(data[s]) + 1 /\ segment' = segment
  <2>1. s = t /\ i < j
    BY <1>7
  <2>2. j <= Len(data[t]) + 1
    BY <1>3, <1>4
  <2>3. i = Len(data[t]) + 1 /\ i \in Nat /\ j \in Nat
    BY <1>3, <1>4, <1>7, <2>1
  <2> QED
    BY <2>1, <2>2, <2>3
<1> QED
  BY <1>2, <1>3, <1>5, <1>6, <1>7

(* But for a completed Append and a successful export, a step only gives   *)
(* up records that lie in files of the log.                                *)
LEMMA HistoryStep ==
  ASSUME IInv, [Next]_vars, ~AppendEnd, ~ExportOk
  PROVE  /\ accepted' = accepted /\ sent' = sent
         /\ \E S \in SUBSET Rec :
              /\ Lost' = Lost \cup (S \ sent)
              /\ \A r \in S : \E s \in Segment : \E i \in DOMAIN data[s] : data[s][i] = r
<1> USE DEF IInv, TypeOK
<1> DEFINE Stored(S) == \A r \in S : \E s \in Segment : \E i \in DOMAIN data[s] : data[s][i] = r
<1>1. ASSUME NEW s \in Segment, NEW o \in Nat
      PROVE  IdsFrom(s, o) \in SUBSET Rec /\ Stored(IdsFrom(s, o))
  <2>1. IdsFrom(s, o) \in SUBSET Rec
    BY IdsType
  <2> QED
    BY <2>1 DEF IdsFrom
<1>2. {} \in SUBSET Rec /\ Stored({})
  OBVIOUS
<1>3. CASE AdvanceHop
  <2>1. rd.offset \in Nat /\ (rd.segment \in segs => rd.segment \in Segment)
    BY DEF LogTypeOK, Position
  <2> DEFINE S == IF rd.segment \in segs THEN IdsFrom(rd.segment, rd.offset) ELSE {}
  <2>2. S \in SUBSET Rec /\ Stored(S)
    BY <1>1, <1>2, <2>1
  <2>3. Lose("skip", S) /\ accepted' = accepted /\ sent' = sent
    BY <1>3 DEF AdvanceHop
  <2> HIDE DEF S
  <2>4. Lost' = Lost \cup (S \ sent)
    BY <2>2, <2>3, LoseType DEF Cause
  <2> QED
    BY <2>2, <2>3, <2>4
<1>4. CASE TruncateRemove
  <2>1. PICK x \in segs : Lose("truncate", IdsFrom(x, 0))
    BY <1>4 DEF TruncateRemove, LaterSegments
  <2>2. IdsFrom(x, 0) \in SUBSET Rec /\ Stored(IdsFrom(x, 0))
    BY <1>1 DEF LogTypeOK
  <2>3. Lost' = Lost \cup (IdsFrom(x, 0) \ sent) /\ sent' = sent /\ accepted' = accepted
    BY <1>4, <2>1, <2>2, LoseType DEF TruncateRemove, Cause
  <2> QED
    BY <2>2, <2>3
<1>5. CASE TruncateCut \/ ReopenFail
  <2>0. /\ CutAt(cp) /\ Lose("truncate", IdsFrom(cp.segment, cp.offset))
        /\ sent' = sent /\ accepted' = accepted
    BY <1>5 DEF TruncateCut, ReopenFail
  <2>1. cp.segment \in Segment /\ cp.offset \in Nat
    BY <2>0 DEF CutAt, LogTypeOK, Position
  <2>2. /\ IdsFrom(cp.segment, cp.offset) \in SUBSET Rec
        /\ Stored(IdsFrom(cp.segment, cp.offset))
    BY <1>1, <2>1
  <2>3. /\ Lost' = Lost \cup (IdsFrom(cp.segment, cp.offset) \ sent)
        /\ sent' = sent /\ accepted' = accepted
    BY <2>0, <2>2, LoseType DEF Cause
  <2> QED
    BY <2>2, <2>3
<1>6. CASE EnforceRemove
  <2>1. PICK x \in segs : Lose("retention", IdsFrom(x, 0))
    BY <1>6 DEF EnforceRemove
  <2>2. IdsFrom(x, 0) \in SUBSET Rec /\ Stored(IdsFrom(x, 0))
    BY <1>1 DEF LogTypeOK
  <2>3. Lost' = Lost \cup (IdsFrom(x, 0) \ sent) /\ sent' = sent /\ accepted' = accepted
    BY <1>6, <2>1, <2>2, LoseType DEF EnforceRemove, Cause
  <2> QED
    BY <2>2, <2>3
<1>7. CASE UNCHANGED <<accepted, sent, lost>>
  <2>1. Lost' = Lost \cup ({} \ sent)
    BY <1>7 DEF Lost
  <2> QED
    BY <1>2, <1>7, <2>1
<1>8. CASE AppendBegin \/ AppendRefused \/ AppendFail \/ Stop \/ Crash
  BY <1>7, <1>8 DEF AppendBegin, AppendRefused, AppendFail, Stop, Crash, history
<1>9. CASE ReadTorn \/ ReadFail \/ ReadEnd \/ AdvanceEOF \/ TruncateBegin \/ TruncateFail
  BY <1>7, <1>9 DEF ReadTorn, ReadFail, ReadEnd, AdvanceEOF, TruncateBegin, TruncateFail,
                    history
<1>a. CASE ReadRecord
  <2>1. ~Missing /\ rd.segment \in Segment
    BY <1>a, ReadWhole, ReadPlace DEF ReadRecord
  <2>2. Overrun \in SUBSET Rec /\ Stored(Overrun)
    BY <2>1, OverrunType
  <2>3. Lost' = Lost \cup (Overrun \ sent) /\ sent' = sent /\ accepted' = accepted
    BY <1>a, <2>2, LoseType DEF ReadRecord, Cause
  <2> QED
    BY <2>2, <2>3
<1>10. CASE Save \/ ReadStats \/ EnforceBegin \/ EnforceFail \/ EnforceEnd \/ Resave
  BY <1>7, <1>10 DEF Save, ReadStats, EnforceBegin, EnforceFail, EnforceEnd, Resave, history
<1>11. CASE Report \/ Wake \/ Finish \/ ExportFail \/ Exited \/ UNCHANGED vars
  BY <1>7, <1>11 DEF Report, Wake, Finish, ExportFail, Exited, vars, history
<1> QED
  BY <1>3, <1>4, <1>5, <1>6, <1>8, <1>9, <1>10, <1>11, <1>a DEF Next, Read, Repair, Pressure

(* A completed Append accepts the record being written, and gives it up    *)
(* when it landed out of the reader's sight.                               *)
LEMMA AppendHistory ==
  ASSUME QInv, AppendEnd
  PROVE  /\ nrec \in Rec /\ nrec \notin accepted /\ nrec \notin sent
         /\ accepted' = accepted \cup {nrec} /\ sent' = sent
         /\ Lost' \in {Lost, Lost \cup {nrec}}
<1> USE DEF QInv, IInv, TypeOK
<1>1. nrec \in Rec /\ nrec \notin accepted
  BY DEF AppendEnd, EndWrite, LockInv, KnownInv
<1>2. (IF InSight THEN {} ELSE {nrec}) \in SUBSET Rec
  BY <1>1
<1>3. Lost' = Lost \cup ((IF InSight THEN {} ELSE {nrec}) \ sent)
  BY <1>2, LoseType DEF AppendEnd, Cause
<1>4. nrec \notin sent
  BY <1>1 DEF KnownInv
<1> QED
  BY <1>1, <1>3, <1>4 DEF AppendEnd

(* The lock and the number of records change only in Append, or the lock   *)
(* is let go or taken by the consumer.                                     *)
LEMMA CounterStep ==
  ASSUME IInv, [Next]_vars
  PROVE  \/ (AppendBegin \/ AppendRefused) /\ nrec' = nrec + 1
         \/ nrec' = nrec /\ (mu' = "append" => mu = "append" /\ ~AppendEnd)
<1>1. CASE AppendBegin \/ AppendRefused \/ AppendEnd \/ AppendFail \/ Stop \/ Crash
  BY <1>1 DEF AppendBegin, AppendRefused, AppendEnd, EndWrite, AppendFail, FailWrite, Stop,
              Crash, Open, logVars
<1>2. CASE Read
  BY <1>2 DEF Read, ReadRecord, ReadTorn, ReadFail, ReadEnd, AdvanceHop, AdvanceEOF, logVars,
              AppendEnd, EndWrite
<1>3. CASE Repair
  BY <1>3 DEF Repair, TruncateBegin, TruncateRemove, RemoveSegment, TruncateCut, CutAt,
              TruncateFail, ReopenFail, AppendEnd, EndWrite
<1>4. CASE Pressure
  BY <1>4 DEF Pressure, ReadStats, EnforceBegin, EnforceRemove, RemoveSegment, EnforceFail,
              EnforceEnd, Resave, SaveCheckpoint, Report, logVars, AppendEnd, EndWrite
<1>5. CASE ExportFail \/ ExportOk \/ Save \/ Wake \/ Finish \/ Exited \/ UNCHANGED vars
  BY <1>5 DEF ExportFail, ExportOk, Save, SaveCheckpoint, Wake, Finish, Exited, vars, logVars,
              AppendEnd, EndWrite
<1> QED
  BY <1>1, <1>2, <1>3, <1>4, <1>5 DEF Next

(* Only Append puts records into files, and it accepts them as it does. *)
LEMMA KnownStep == QInv /\ [Next]_vars => KnownInv'
<1> SUFFICES ASSUME QInv, [Next]_vars PROVE KnownInv'
  OBVIOUS
<1>0. IInv /\ nrec \in Nat
  BY DEF QInv, IInv, TypeOK
<1>1. accepted \subseteq accepted' /\ (~AppendEnd => accepted' = accepted)
  BY <1>0, HistoryStep, AppendHistory DEF ExportOk
<1>2. sent' \subseteq accepted'
  <2>1. CASE ExportOk
    BY <2>1, <1>1 DEF ExportOk, QInv, KnownInv, FirstInv
  <2>2. CASE AppendEnd
    BY <2>2, <1>1, AppendHistory DEF QInv, KnownInv
  <2>3. CASE ~ExportOk /\ ~AppendEnd
    BY <2>3, <1>0, HistoryStep DEF QInv, KnownInv
  <2> QED
    BY <2>1, <2>2, <2>3
<1>3. accepted' \subseteq 1 .. nrec' /\ (mu' = "append" => nrec' \notin accepted')
  <2>1. CASE (AppendBegin \/ AppendRefused) /\ nrec' = nrec + 1
    <3>1. accepted' = accepted
      BY <2>1 DEF AppendBegin, AppendRefused, history
    <3> QED
      BY <2>1, <3>1, <1>0 DEF QInv, KnownInv
  <2>2. CASE nrec' = nrec /\ (mu' = "append" => mu = "append" /\ ~AppendEnd)
    <3>1. CASE AppendEnd
      <4>1. nrec \in 1 .. nrec
        BY <3>1, <1>0, AppendHistory DEF Rec
      <4> QED
        BY <2>2, <3>1, <4>1, AppendHistory DEF QInv, KnownInv
    <3>2. CASE ~AppendEnd
      BY <2>2, <3>2, <1>1 DEF QInv, KnownInv
    <3> QED
      BY <3>1, <3>2
  <2> QED
    BY <1>0, <2>1, <2>2, CounterStep
<1>4. ASSUME NEW s \in Segment, NEW i \in DOMAIN data'[s], data'[s][i] # Part
      PROVE  data'[s][i] \in accepted'
  <2>1. CASE i \in DOMAIN data[s] /\ data'[s][i] = data[s][i]
    BY <2>1, <1>1, <1>4 DEF QInv, KnownInv
  <2>2. CASE AppendEnd /\ data'[s][i] = nrec
    BY <2>2, AppendHistory
  <2> QED
    BY <2>1, <2>2, <1>0, <1>4, EntryStep
<1> QED
  BY <1>2, <1>3, <1>4 DEF KnownInv

(* Only a read takes up a record; until it is exported, nothing but Append *)
(* touches the log.                                                        *)
LEMMA ExportStep ==
  ASSUME IInv, [Next]_vars, pc' = "export"
  PROVE  \/ ReadRecord
         \/ /\ pc = "export" /\ UNCHANGED <<rd, pending>>
            /\ segs' \subseteq segs \cup {segment + 1}
<1>1. CASE AppendBegin \/ AppendRefused \/ AppendEnd \/ AppendFail \/ Stop
  BY <1>1 DEF AppendBegin, BeginWrite, AppendRefused, RefuseWrite, StartWrite, Target, AppendEnd,
              EndWrite, AppendFail, FailWrite, Stop, consumerVars, reader, logVars
<1>2. CASE ReadTorn \/ ReadFail \/ ReadEnd \/ AdvanceHop \/ AdvanceEOF \/ Crash
  BY <1>2 DEF ReadTorn, ReadFail, ReadEnd, AdvanceHop, AdvanceEOF, Crash, Goto
<1>3. CASE Repair
  BY <1>3 DEF Repair, TruncateBegin, TruncateRemove, TruncateCut, TruncateFail, ReopenFail, Goto,
              consumerVars
<1>4. CASE Pressure
  <2>1. after \in {"read", "idle"}
    BY DEF IInv, TypeOK
  <2> QED
    BY <1>4, <2>1 DEF Pressure, ReadStats, EnforceBegin, EnforceRemove, EnforceFail,
                      EnforceEnd, Resave, Report, Goto
<1>5. CASE ExportOk \/ Save \/ Wake \/ Finish
  BY <1>5 DEF ExportOk, Save, Wake, Finish, Goto
<1>6. CASE ExportFail \/ Exited \/ UNCHANGED vars
  BY <1>6 DEF ExportFail, Exited, vars, consumerVars, reader, logVars
<1> QED
  BY <1>1, <1>2, <1>3, <1>4, <1>5, <1>6 DEF Next, Read

(* What is given up stays given up, and what was exported stays so.  *)
LEMMA DoneGrows ==
  ASSUME QInv, [Next]_vars
  PROVE  sent \cup Lost \subseteq sent' \cup Lost'
<1>1. IInv
  BY DEF QInv
<1>2. CASE AppendEnd
  BY <1>2, AppendHistory
<1>3. CASE ExportOk
  BY <1>3 DEF ExportOk, Lost
<1>4. CASE ~AppendEnd /\ ~ExportOk
  BY <1>1, <1>4, HistoryStep
<1> QED
  BY <1>2, <1>3, <1>4

(* Until it is exported, the record in hand stays the oldest that is left  *)
(* to read.                                                                *)
LEMMA FirstStep == QInv /\ [Next]_vars => FirstInv'
<1> SUFFICES ASSUME QInv, [Next]_vars, pc' = "export"
             PROVE  /\ pending' \in accepted'
                    /\ \A s \in segs' : \A i \in DOMAIN data'[s] :
                         AtOrAfter(s, i, rd') /\ data'[s][i] # Part =>
                           pending' <= data'[s][i] \/ data'[s][i] \in sent' \cup Lost'
  BY DEF FirstInv, AtOrAfter
<1>0. IInv /\ TypeOK /\ LogTypeOK
  BY DEF QInv, IInv, TypeOK
<1>1. CASE ReadRecord
  <2> DEFINE z == rd.segment
             k == FilePos + 2
  <2>1. /\ UNCHANGED <<segs, data, accepted>>
        /\ pending' = data[z][k] /\ WholeNext
        /\ rd' = Pos(z, rd.offset + 2)
    BY <1>1 DEF ReadRecord, logVars
  <2>2. HandleInv /\ z \in Segment /\ z <= segment
    BY <1>0, <2>1 DEF WholeNext, Readable, Missing, IInv, HandleInv, LogTypeOK, TypeOK
  <2>3. /\ ~Missing /\ k \in DOMAIN data[z] /\ data[z][k] \in Rec /\ data[z][k] # Part
        /\ FilePos \in Nat /\ rd.offset \in Nat
        /\ data[z] \in Seq(Rec \cup {Part})
    BY <1>0, <2>1, <2>2, ReadWhole, ReadPlace DEF Rec, Part
  <2>6. Lost' = Lost \cup (Overrun \ sent) /\ sent' = sent
    BY <1>0, <1>1, <2>2, <2>3, OverrunType, LoseType DEF ReadRecord, Cause, TypeOK
  <2>4. pending' \in accepted'
    BY <2>1, <2>2, <2>3 DEF QInv, KnownInv
  <2>5. ASSUME NEW s \in segs, NEW i \in DOMAIN data[s], AtOrAfter(s, i, rd'),
               data[s][i] # Part
        PROVE  data[z][k] <= data[s][i] \/ data[s][i] \in sent' \cup Lost'
    <3>1. s \in Segment /\ s <= segment /\ data[s] \in Seq(Rec \cup {Part})
      BY <1>0 DEF LogTypeOK, IInv, HandleInv
    <3>2. s > z \/ (s = z /\ i > rd.offset + 3)
      BY <2>1, <2>3, <2>5 DEF AtOrAfter, Pos
    <3>3. CASE s = z /\ i < k
      <4>1. rd.offset + 1 < i
        BY <2>3, <3>1, <3>2, <3>3 DEF Segment
      <4>2. data[s][i] \in Overrun
        BY <2>5, <3>3, <4>1 DEF Overrun
      <4> QED
        BY <2>6, <4>2
    <3>4. CASE s = z /\ i = k
      BY <2>3, <3>4 DEF Rec
    <3>5. CASE s > z \/ (s = z /\ i > k)
      <4>1. Before(z, k, s, i)
        BY <2>2, <2>3, <3>1, <3>5 DEF Before, Segment
      <4>2. data[z][k] < data[s][i]
        BY <2>2, <2>3, <2>5, <3>1, <4>1 DEF QInv, SortedInv
      <4>3. data[s][i] \in Rec
        BY <2>5, <3>1
      <4> QED
        BY <2>3, <4>2, <4>3 DEF Rec
    <3>6. i \in Nat /\ k \in Nat
      BY <2>3, <3>1
    <3> QED
      BY <3>2, <3>3, <3>4, <3>5, <3>6
  <2> QED
    BY <2>1, <2>4, <2>5
<1>2. CASE pc = "export" /\ UNCHANGED <<rd, pending>> /\ segs' \subseteq segs \cup {segment + 1}
  <2>1. pending \in accepted
    BY <1>2 DEF QInv, FirstInv
  <2>2. accepted \subseteq accepted'
    BY <1>0, HistoryStep, AppendHistory DEF ExportOk
  <2>3. ASSUME NEW s \in segs', NEW i \in DOMAIN data'[s], AtOrAfter(s, i, rd),
               data'[s][i] # Part
        PROVE  pending <= data'[s][i] \/ data'[s][i] \in sent' \cup Lost'
    <3>1. LogTypeOK' /\ HandleInv'
      BY <1>0, TypeStep, HandleStep DEF TypeOK
    <3>2. s \in Segment /\ s <= segment' /\ segment \in Nat
      BY <1>0, <3>1 DEF LogTypeOK, HandleInv, Segment
    <3>3. CASE i \in DOMAIN data[s] /\ data'[s][i] = data[s][i] /\ (s <= segment' => s <= segment)
      <4>1. s \in segs
        BY <1>2, <3>2, <3>3
      <4> QED
        BY <1>2, <2>3, <3>3, <4>1, DoneGrows DEF QInv, FirstInv
    <3>4. CASE AppendEnd /\ data'[s][i] = nrec
      <4>1. nrec \in Nat /\ accepted \subseteq 1 .. nrec /\ nrec \notin accepted
        BY <1>0, <3>4, AppendHistory DEF TypeOK, QInv, KnownInv
      <4>2. pending \in 1 .. nrec /\ pending # nrec
        BY <2>1, <4>1
      <4> QED
        BY <3>4, <4>1, <4>2
    <3> QED
      BY <1>0, <2>3, <3>2, <3>3, <3>4, EntryStep
  <2> QED
    BY <1>2, <2>1, <2>2, <2>3
<1> QED
  BY <1>0, <1>1, <1>2, ExportStep

(* The record an export completes is the next in order: an earlier one was *)
(* exported or given up, or the reader would still have it ahead.          *)
LEMMA NextInOrder ==
  ASSUME QInv, pc = "export", NEW r \in accepted, r < pending
  PROVE  r \in sent \cup Lost
<1> SUFFICES ASSUME r \notin sent \cup Lost PROVE FALSE
  OBVIOUS
<1>0. r \in Rec /\ pending \in Rec
  BY DEF QInv, IInv, TypeOK, FirstInv
<1>1. r \in Rec /\ pending \in Rec /\ r # Part /\ r # pending
  BY <1>0, SizeAssumption DEF Rec, Part
<1>2. PICK s \in segs : \E i \in DOMAIN data[s] : Reachable(r, s, i)
  BY DEF QInv, IInv, SafeInv
<1>3. PICK i \in DOMAIN data[s] : Reachable(r, s, i)
  BY <1>2
<1>4. data[s][i] = r /\ AtOrAfter(s, i, rd)
  BY <1>1, <1>3 DEF Reachable
<1>5. pending <= r
  BY <1>1, <1>4 DEF QInv, FirstInv
<1> QED
  BY <1>1, <1>5 DEF Rec

(* Exporting the oldest record left keeps the delivered records a prefix. *)
LEMMA PrefixStep == QInv /\ [Next]_vars => DeliveredPrefix'
<1> SUFFICES ASSUME QInv, [Next]_vars, NEW q \in sent', NEW r \in accepted', r < q
             PROVE  r \in sent' \cup Lost'
  BY DEF DeliveredPrefix
<1>0. IInv /\ nrec \in Nat /\ sent \subseteq accepted /\ accepted \subseteq 1 .. nrec
  BY DEF QInv, IInv, TypeOK, KnownInv
<1>1. CASE AppendEnd
  <2>1. q \in 1 .. nrec /\ r \in accepted \cup {nrec}
    BY <1>0, <1>1, AppendHistory
  <2>2. r \in accepted
    BY <1>0, <2>1
  <2> QED
    BY <1>1, <2>2, AppendHistory DEF QInv, DeliveredPrefix
<1>2. CASE ExportOk
  <2>1. pc = "export" /\ accepted' = accepted /\ sent' = sent \cup {pending} /\ Lost' = Lost
    BY <1>2 DEF ExportOk, Lost
  <2> QED
    BY <2>1, NextInOrder DEF QInv, DeliveredPrefix
<1>3. CASE ~AppendEnd /\ ~ExportOk
  BY <1>0, <1>3, HistoryStep DEF QInv, DeliveredPrefix
<1> QED
  BY <1>1, <1>2, <1>3

(* The invariant of in-order delivery holds in every behaviour of the log  *)
(* and its consumer.                                                       *)
THEOREM QueueInductive == Spec => []QInv
<1>1. Init => QInv
  <2> SUFFICES ASSUME Init PROVE QInv
    OBVIOUS
  <2>1. IInv
    BY InitIInv
  <2>2. SortedInv /\ KnownInv /\ FirstInv /\ DeliveredPrefix
    BY DEF Init, LogInit, SortedInv, KnownInv, FirstInv, DeliveredPrefix
  <2> QED
    BY <2>1, <2>2 DEF QInv
<1>2. QInv /\ [Next]_vars => QInv'
  <2>1. IInv /\ [Next]_vars => IInv'
    BY StepIInv
  <2> QED
    BY <2>1, SortedStep, KnownStep, FirstStep, PrefixStep DEF QInv
<1> QED
  BY <1>1, <1>2, PTL DEF Spec

(* WalConsumer implements DurableQueue: Append's completion accepts, a     *)
(* successful export delivers the next record in order, a hop, a removed   *)
(* or a cut file gives records up, and no other step changes the queue.    *)
THEOREM ImplementsQueue == Spec => QueueSpec
<1>1. Init => Queue!Init
  BY DEF Init, Queue!Init, Lost
<1>2. QInv /\ [Next]_vars => [Queue!Next]_<<accepted, sent, Lost>>
  <2> SUFFICES ASSUME QInv, [Next]_vars PROVE Queue!Next
    OBVIOUS
  <2>0. IInv /\ nrec \in Nat /\ accepted \subseteq Rec
    BY DEF QInv, IInv, TypeOK
  <2>1. CASE AppendEnd
    <3>1. \A q \in accepted : q < nrec
      <4> SUFFICES ASSUME NEW q \in accepted PROVE q < nrec
        OBVIOUS
      <4>1. q \in 1 .. nrec /\ q # nrec
        BY <2>1, AppendHistory DEF QInv, KnownInv
      <4> QED
        BY <2>0, <4>1
    <3>2. Queue!Accept(nrec)
      BY <2>1, <3>1, AppendHistory DEF Queue!Accept
    <3> QED
      BY <2>1, <3>2, AppendHistory DEF Queue!Next
  <2>2. CASE ExportOk
    <3>1. /\ pc = "export" /\ pending \in accepted
          /\ UNCHANGED <<accepted, Lost>> /\ sent' = sent \cup {pending}
      BY <2>2 DEF ExportOk, Lost, QInv, FirstInv
    <3>2. Queue!Deliver(pending)
      BY <3>1, NextInOrder DEF Queue!Deliver
    <3> QED
      BY <2>0, <3>1, <3>2 DEF Queue!Next
  <2>3. CASE ~AppendEnd /\ ~ExportOk
    <3>1. PICK S \in SUBSET Rec :
            /\ Lost' = Lost \cup (S \ sent)
            /\ \A r \in S : \E s \in Segment : \E i \in DOMAIN data[s] : data[s][i] = r
      BY <2>0, <2>3, HistoryStep
    <3>2. S \subseteq accepted
      BY <3>1 DEF QInv, KnownInv, Rec, Part
    <3>3. Queue!GiveUp(S \ sent)
      BY <2>0, <2>3, <3>1, <3>2, HistoryStep DEF Queue!GiveUp
    <3> QED
      BY <3>3 DEF Queue!Next
  <2> QED
    BY <2>1, <2>2, <2>3
<1> QED
  BY <1>1, <1>2, QueueInductive, PTL DEF Spec, QueueSpec, Queue!Spec

-----------------------------------------------------------------------------
(* A promise of the log that needs something from the machine: the last    *)
(* drain leaves nothing behind when the process is not killed and the      *)
(* segment files can be opened, read, cut and removed.                     *)

(* The segment files are numbered without a gap up to the active one, or,  *)
(* while a truncation deletes, up to the checkpoint's; the positions of    *)
(* consumer and reader are in files that exist; and the handle has left    *)
(* r.off behind only until the repair that follows has reset it.           *)
Top == IF pc = "truncate" THEN cp.segment ELSE segment

WholeInv ==
  /\ pc # "truncate" => segment \in segs
  /\ \A s \in segs : \A u \in Segment : s <= u /\ u <= Top => u \in segs
  /\ (IF pc = "enforce" THEN newCp.segment ELSE cp.segment) \in segs
  /\ pc \notin {"truncate", "enforce"} => rd.segment \in segs
  /\ pc = "enforce" /\ newCp = cp => rd.segment \in segs
  /\ skew # 0 => pc \in {"damage", "truncate"}

(* Without kills and failing file operations the log stays a run of        *)
(* segments without gaps, the consumer inside.                             *)
LEMMA WholeStep ==
  ASSUME MaxCrash = 0, ~FileFault
  PROVE  IInv /\ WholeInv /\ [Next]_vars => WholeInv'
<1> SUFFICES ASSUME IInv, WholeInv, [Next]_vars PROVE WholeInv'
  OBVIOUS
<1> USE SizeAssumption DEF IInv, TypeOK, LogTypeOK, Position, Segment, Goto, ResetReader, Pos
<1>1. CASE UNCHANGED <<segs, segment, cp, newCp>> /\ UNCHANGED rd.segment /\ UNCHANGED skew
           /\ \/ pc' = pc
              \/ pc \notin {"damage", "truncate", "enforce"} /\ pc' \notin {"truncate", "enforce"}
  BY <1>1, SMTT(60) DEF WholeInv, Top
<1>2. CASE AppendBegin \/ AppendRefused
  <2>1. /\ pc \notin {"truncate", "enforce"}
        /\ UNCHANGED <<pc, cp, newCp, rd, skew>>
        /\ \/ segs' = segs /\ segment' = segment
           \/ segs' = segs \cup {segment + 1} /\ segment' = segment + 1
    BY <1>2 DEF AppendBegin, BeginWrite, AppendRefused, RefuseWrite, StartWrite, Target, LockInv,
                consumerVars, reader
  <2>2. segment' \in Segment
    BY <1>2 DEF AppendBegin, BeginWrite, AppendRefused, RefuseWrite, StartWrite
  <2>3. ASSUME NEW s \in segs', NEW u \in Segment, s <= u, u <= segment' PROVE u \in segs'
    <3>1. segment \in segs' /\ segment' \in segs' /\ segs \subseteq segs'
      BY <2>1 DEF WholeInv
    <3>2. CASE u = segment'
      BY <3>1, <3>2
    <3>3. CASE u # segment'
      <4>1. s \in segs /\ u <= segment
        BY <2>1, <2>2, <2>3, <3>3, SMTT(60)
      <4> QED
        BY <2>1, <2>3, <3>1, <4>1 DEF WholeInv, Top
    <3> QED
      BY <3>2, <3>3
  <2> QED
    BY <2>1, <2>3 DEF WholeInv, Top
<1>3. CASE AppendEnd \/ AppendFail \/ Stop
  BY <1>1, <1>3 DEF AppendEnd, EndWrite, AppendFail, FailWrite, Stop, consumerVars, reader,
                    logVars
<1>4. CASE ReadRecord \/ ReadTorn \/ ReadEnd \/ AdvanceEOF
  <2>1. CASE ReadRecord
    BY <1>1, <2>1 DEF ReadRecord, logVars, reader
  <2>2. CASE ReadTorn
    BY <2>2 DEF ReadTorn, logVars, reader, WholeInv, Top
  <2>3. CASE ReadEnd
    BY <1>1, <2>3 DEF ReadEnd, logVars, reader
  <2>4. CASE AdvanceEOF
    BY <1>1, <2>4 DEF AdvanceEOF, logVars, reader
  <2> QED
    BY <1>4, <2>1, <2>2, <2>3, <2>4
<1>5. CASE AdvanceHop
  BY <1>5 DEF AdvanceHop, WholeInv, Top, logVars
<1>6. CASE TruncateBegin
  <2>1. cp.segment <= segment
    BY <1>6 DEF TruncateBegin, WholeInv, HandleInv
  <2> QED
    BY <1>6, <2>1 DEF TruncateBegin, WholeInv, Top, reader
<1>7. CASE TruncateRemove
  <2>1. PICK x \in LaterSegments : segs' = segs \ {x}
    BY <1>7 DEF TruncateRemove, RemoveSegment
  <2>2. pc = "truncate" /\ UNCHANGED <<pc, cp, newCp, rd, segment>> /\ x > cp.segment
    BY <1>7 DEF TruncateRemove, RemoveSegment, consumerVars, reader, LaterSegments
  <2> QED
    BY <2>1, <2>2, SMTT(60) DEF WholeInv, Top
<1>8. CASE TruncateCut
  <2>1. segs' = segs /\ segment' = cp.segment /\ rd' = cp /\ pc' = "read" /\ cp' = cp
    BY <1>8 DEF TruncateCut, CutAt, Reopen, HandleInv
  <2> QED
    BY <1>8, <2>1 DEF TruncateCut, WholeInv, Top
<1>9. ~TruncateFail /\ ~ReopenFail /\ ~ReadFail /\ ~EnforceFail /\ ~Crash
  BY DEF TruncateFail, ReopenFail, ReadFail, WholeInv, EnforceFail, Crash
<1>10. CASE ExportOk
  BY <1>10 DEF ExportOk, WholeInv, Top, logVars, reader
<1>11. CASE Save \/ ReadStats \/ Resave \/ Report \/ Wake \/ Finish
  BY <1>1, <1>11 DEF Save, ReadStats, Resave, SaveCheckpoint, Report, Wake, Finish, logVars,
                     reader
<1>12. CASE EnforceBegin
  BY <1>12 DEF EnforceBegin, WholeInv, Top, reader
<1>13. CASE EnforceRemove
  <2>1. PICK x \in segs : /\ MustDrop(x)
                          /\ segs' = segs \ {x}
                          /\ newCp' = PassedOver(newCp, x)
    BY <1>13 DEF EnforceRemove, RemoveSegment
  <2>2. pc = "enforce" /\ UNCHANGED <<pc, cp, rd, skew, segment>>
    BY <1>13 DEF EnforceRemove, RemoveSegment, reader
  <2>3. x # segment /\ \A t \in segs : x <= t
    BY <2>1 DEF MustDrop
  <2>4. segment \in segs'
    BY <2>1, <2>2, <2>3 DEF WholeInv
  <2>5. \A s \in segs' : \A u \in Segment : s <= u /\ u <= segment => u \in segs'
    <3>1. \A s \in segs : \A u \in Segment : s <= u /\ u <= segment => u \in segs
      BY <2>2 DEF WholeInv, Top
    <3>2. segs \in SUBSET Int
      BY DEF Segment
    <3> SUFFICES ASSUME NEW s \in segs', NEW u \in Segment, s <= u, u <= segment
                 PROVE  u \in segs /\ u # x
      BY <2>1
    <3>3. s \in segs /\ s # x
      BY <2>1
    <3> HIDE DEF IInv
    <3>4. u \in segs
      BY <3>1, <3>3
    <3>5. x \in Int /\ s \in Int /\ x <= s
      BY <2>3, <3>2, <3>3
    <3> QED
      BY <3>3, <3>4, <3>5
  <2>6. CASE x = newCp.segment
    <3>1. x <= segment /\ segment \in segs
      BY <2>2 DEF WholeInv, HandleInv
    <3>2. x + 1 \in segs
      BY <2>2, <2>3, <3>1 DEF WholeInv, Top
    <3>3. newCp' = Pos(x + 1, 0) /\ newCp'.segment \in segs'
      BY <2>1, <2>6, <3>2 DEF PassedOver
    <3>4. newCp' # cp
      BY <2>2, <2>6, <3>3 DEF NewCpInv
    <3> QED
      BY <2>2, <2>4, <2>5, <3>3, <3>4 DEF WholeInv, Top
  <2>7. CASE x # newCp.segment
    <3>1. newCp' = newCp /\ newCp.segment \in segs'
      BY <2>1, <2>2, <2>7 DEF PassedOver, WholeInv
    <3>2. newCp = cp => rd.segment \in segs'
      BY <2>1, <2>2, <2>3, <2>7 DEF WholeInv, OrderInv, PosLeq
    <3> QED
      BY <2>2, <2>4, <2>5, <3>1, <3>2 DEF WholeInv, Top
  <2> QED
    BY <2>6, <2>7
<1>14. CASE EnforceEnd
  <2>1. CASE newCp = cp
    BY <1>14, <2>1 DEF EnforceEnd, WholeInv, Top, reader
  <2>2. CASE newCp # cp
    BY <1>14, <2>2 DEF EnforceEnd, WholeInv, Top
  <2> QED
    BY <2>1, <2>2
<1>15. CASE ExportFail \/ Exited \/ UNCHANGED vars
  BY <1>1, <1>15 DEF ExportFail, Exited, vars, logVars, consumerVars, reader
<1> QED
  BY <1>2, <1>3, <1>4, <1>5, <1>6, <1>7, <1>8, <1>9, <1>10, <1>11, <1>12, <1>13, <1>14, <1>15
     DEF Next, Read, Repair, Pressure

(* The drain after Shutdown: the log does not grow any more, the reader    *)
(* turns from a segment only at its end, and when it has found no next one *)
(* every record is exported or given up.                                   *)
Drained ==
  \/ pc \in {"stats", "full", "enforce", "resave", "report"} /\ after = "idle"
  \/ pc \in {"idle", "exit"}

DrainInv ==
  /\ final => stopReq
  /\ stopReq => mu # "append"
  /\ pc = "exit" => final
  /\ final /\ pc = "advance" => Len(data[rd.segment]) <= rd.offset
  /\ final /\ Drained => accepted \subseteq sent \cup Lost

(* Whatever is given up stays given up. *)
LEMMA LostGrows ==
  ASSUME IInv, [Next]_vars
  PROVE  Lost \subseteq Lost' /\ sent \subseteq sent' /\ (~AppendEnd => accepted' = accepted)
<1> USE DEF IInv, TypeOK
<1>1. CASE AppendBegin \/ AppendRefused \/ AppendFail \/ Stop \/ Crash
  BY <1>1 DEF AppendBegin, AppendRefused, AppendFail, Stop, Crash, history, Lost
<1>2. CASE AppendEnd
  BY <1>2 DEF AppendEnd, Lose, Lost, Cause
<1>3. CASE ReadTorn \/ ReadFail \/ ReadEnd \/ AdvanceEOF
  BY <1>3 DEF ReadTorn, ReadFail, ReadEnd, AdvanceEOF, history, Lost
<1>4. CASE ReadRecord \/ AdvanceHop
  BY <1>4 DEF ReadRecord, AdvanceHop, Lose, Lost, Cause
<1>5. CASE TruncateBegin \/ TruncateFail
  BY <1>5 DEF TruncateBegin, TruncateFail, history, Lost
<1>6. CASE TruncateRemove \/ TruncateCut \/ ReopenFail
  BY <1>6 DEF TruncateRemove, TruncateCut, ReopenFail, Lose, Lost, Cause
<1>7. CASE EnforceRemove
  BY <1>7 DEF EnforceRemove, Lose, Lost, Cause
<1>8. CASE ReadStats \/ EnforceBegin \/ EnforceFail \/ EnforceEnd \/ Resave \/ Report
  BY <1>8 DEF ReadStats, EnforceBegin, EnforceFail, EnforceEnd, Resave, Report, history, Lost
<1>9. CASE ExportFail \/ ExportOk \/ Save \/ Wake \/ Finish \/ Exited \/ UNCHANGED vars
  BY <1>9 DEF ExportFail, ExportOk, Save, Wake, Finish, Exited, vars, history, Lost
<1> QED
  BY <1>1, <1>2, <1>3, <1>4, <1>5, <1>6, <1>7, <1>8, <1>9 DEF Next, Read, Repair, Pressure

(* The drain after Shutdown starts and ends as run says. *)
LEMMA FinalStep ==
  ASSUME IInv, DrainInv, [Next]_vars
  PROVE  /\ final' => stopReq'
         /\ stopReq' => mu' # "append"
         /\ pc' = "exit" => final'
         /\ final' => final \/ Wake
<1> USE DEF DrainInv, IInv, TypeOK, LogTypeOK
<1>1. CASE AppendBegin \/ AppendRefused \/ AppendEnd \/ AppendFail
  BY <1>1 DEF AppendBegin, AppendRefused, RefuseWrite, AppendEnd, EndWrite, AppendFail, FailWrite,
              consumerVars
<1>2. CASE Stop
  BY <1>2 DEF Stop, logVars
<1>3. CASE Read
  BY <1>3 DEF Read, ReadRecord, ReadTorn, ReadFail, ReadEnd, AdvanceHop, AdvanceEOF, Goto, logVars
<1>4. CASE Repair
  BY <1>4 DEF Repair, TruncateBegin, TruncateRemove, RemoveSegment, TruncateCut, CutAt,
              TruncateFail, ReopenFail, Goto, consumerVars
<1>5. CASE ReadStats \/ EnforceBegin \/ EnforceRemove \/ EnforceFail
  BY <1>5 DEF ReadStats, EnforceBegin, EnforceRemove, RemoveSegment, EnforceFail, Goto, logVars
<1>6. CASE EnforceEnd \/ Resave \/ Report
  BY <1>6 DEF EnforceEnd, Resave, SaveCheckpoint, Report, Goto, logVars
<1>7. CASE ExportOk \/ Save \/ Finish
  BY <1>7 DEF ExportOk, Save, SaveCheckpoint, Finish, Goto, logVars
<1>8. CASE Wake
  <2>1. stopReq' = stopReq /\ mu' = mu /\ pc' = "read"
    BY <1>8 DEF Wake, logVars
  <2>2. final' = FALSE \/ final' = stopReq
    BY <1>8 DEF Wake
  <2>3. CASE stopReq = TRUE
    BY <1>8, <2>1, <2>3
  <2>4. CASE stopReq = FALSE
    BY <2>1, <2>2, <2>4
  <2> QED
    BY <2>3, <2>4
<1>9. CASE Crash
  BY <1>9 DEF Crash, Open
<1>10. CASE ExportFail \/ Exited \/ UNCHANGED vars
  BY <1>10 DEF ExportFail, Exited, vars, consumerVars, logVars
<1> QED
  BY <1>1, <1>2, <1>3, <1>4, <1>5, <1>6, <1>7, <1>8, <1>9, <1>10 DEF Next, Pressure

(* The last drain is over only after the reader has found the end. *)
LEMMA DrainedStep ==
  ASSUME IInv, WholeInv, [Next]_vars, MaxCrash = 0, ~FileFault, Drained', ~Wake
  PROVE  Drained \/ AdvanceEOF
<1> USE DEF IInv, TypeOK, Drained
<1>1. CASE AppendBegin \/ AppendRefused \/ AppendEnd \/ AppendFail \/ Stop
  BY <1>1 DEF AppendBegin, AppendRefused, AppendEnd, AppendFail, Stop, consumerVars
<1>2. CASE ReadRecord \/ ReadTorn \/ ReadEnd \/ AdvanceHop
  BY <1>2 DEF ReadRecord, ReadTorn, ReadEnd, AdvanceHop, Goto
<1>3. CASE TruncateBegin \/ TruncateRemove \/ TruncateCut
  BY <1>3 DEF TruncateBegin, TruncateRemove, TruncateCut, Goto, consumerVars
<1>4. ~TruncateFail /\ ~ReopenFail /\ ~ReadFail /\ ~Crash
  BY DEF TruncateFail, ReopenFail, ReadFail, WholeInv, Crash
<1>5. CASE ExportOk \/ Save \/ Finish \/ ReadStats \/ EnforceBegin
  BY <1>5 DEF ExportOk, Save, Finish, ReadStats, EnforceBegin, Goto
<1>6. CASE EnforceRemove \/ EnforceFail \/ EnforceEnd \/ Resave \/ Report
  BY <1>6 DEF EnforceRemove, EnforceFail, EnforceEnd, Resave, Report, Goto
<1>7. CASE ExportFail \/ Exited \/ UNCHANGED vars
  BY <1>7 DEF ExportFail, Exited, vars, consumerVars
<1> QED
  BY <1>1, <1>2, <1>3, <1>4, <1>5, <1>6, <1>7 DEF Next, Read, Repair, Pressure

(* Turning from a segment, the reader has read all of it. *)
LEMMA AdvanceStep ==
  ASSUME IInv, DrainInv, WholeInv, [Next]_vars, pc' = "advance", final'
  PROVE  Len(data'[rd'.segment]) <= rd'.offset
<1> USE DEF DrainInv, IInv, TypeOK, LogTypeOK
<1>1. CASE ReadEnd
  <2>1. final /\ mu # "append" /\ UNCHANGED <<data, rd>> /\ rd.segment \in segs /\ ~Readable
    BY <1>1 DEF ReadEnd, Goto, logVars, WholeInv
  <2>2. skew = 0 /\ ~Missing
    BY <1>1, <2>1 DEF WholeInv, ReadEnd, Missing
  <2> QED
    BY <2>1, <2>2 DEF Readable, FilePos, Position
<1>2. CASE AppendBegin \/ AppendRefused \/ AppendEnd \/ AppendFail
  <2>1. ~final
    BY <1>2 DEF AppendBegin, AppendRefused, AppendEnd, EndWrite, AppendFail, FailWrite
  <2> QED
    BY <1>2, <2>1 DEF AppendBegin, AppendRefused, AppendEnd, AppendFail, consumerVars
<1>3. CASE Stop
  BY <1>3 DEF Stop, logVars, reader
<1>4. CASE ReadRecord \/ ReadTorn \/ ReadFail \/ AdvanceHop \/ AdvanceEOF
  BY <1>4 DEF ReadRecord, ReadTorn, ReadFail, AdvanceHop, AdvanceEOF, Goto
<1>5. CASE TruncateBegin \/ TruncateRemove \/ TruncateCut \/ TruncateFail \/ ReopenFail
  BY <1>5 DEF TruncateBegin, TruncateRemove, TruncateCut, TruncateFail, ReopenFail, Goto,
              consumerVars
<1>6. CASE ExportOk \/ Save \/ Finish \/ ReadStats \/ EnforceBegin \/ Wake \/ Crash
  BY <1>6 DEF ExportOk, Save, Finish, ReadStats, EnforceBegin, Wake, Crash, Goto
<1>7. CASE EnforceRemove \/ EnforceFail \/ EnforceEnd \/ Resave \/ Report
  BY <1>7 DEF EnforceRemove, EnforceFail, EnforceEnd, Resave, Report, Goto
<1>8. CASE ExportFail \/ Exited \/ UNCHANGED vars
  BY <1>8 DEF ExportFail, Exited, vars, consumerVars, reader, logVars
<1> QED
  BY <1>1, <1>2, <1>3, <1>4, <1>5, <1>6, <1>7, <1>8 DEF Next, Read, Repair, Pressure

(* At the end of the last drain every accepted record is exported or       *)
(* counted as lost.                                                        *)
LEMMA DrainStep ==
  ASSUME MaxCrash = 0, ~FileFault
  PROVE  IInv /\ WholeInv /\ DrainInv /\ [Next]_vars => DrainInv'
<1> SUFFICES ASSUME IInv, WholeInv, DrainInv, [Next]_vars PROVE DrainInv'
  OBVIOUS
<1>1. /\ final' => stopReq'
      /\ stopReq' => mu' # "append"
      /\ pc' = "exit" => final'
      /\ final' => final \/ Wake
  BY FinalStep
<1>2. final' /\ pc' = "advance" => Len(data'[rd'.segment]) <= rd'.offset
  BY AdvanceStep
<1>3. ASSUME final', Drained' PROVE accepted' \subseteq sent' \cup Lost'
  <2>1. ~Wake
    BY <1>3 DEF Wake, Drained
  <2>2. final /\ ~AppendEnd
    BY <1>1, <1>3, <2>1 DEF DrainInv, AppendEnd, EndWrite
  <2>3. Lost \subseteq Lost' /\ sent \subseteq sent' /\ accepted' = accepted
    BY <2>2, LostGrows
  <2>4. CASE Drained
    BY <2>2, <2>3, <2>4 DEF DrainInv
  <2>5. CASE AdvanceEOF
    <3> SUFFICES ASSUME NEW r \in accepted, r \notin sent \cup Lost PROVE FALSE
      BY <2>3
    <3>1. PICK s \in segs : \E i \in DOMAIN data[s] : Reachable(r, s, i)
      BY DEF IInv, SafeInv
    <3>2. PICK i \in DOMAIN data[s] : Reachable(r, s, i)
      BY <3>1
    <3>3. pc = "advance" /\ pending = NoRec /\ rd.segment \in segs /\ rd.segment + 1 \notin segs
      BY <2>5 DEF AdvanceEOF, IInv, PendInv, WholeInv
    <3>4. r \in Rec /\ r # pending
      BY <3>3 DEF IInv, TypeOK, Rec, NoRec
    <3>5. AtOrAfter(s, i, rd)
      BY <3>2, <3>4 DEF Reachable
    <3>6. ~(s = rd.segment /\ i > rd.offset + 1)
      BY <2>2, <3>2, <3>3, SMTT(60) DEF DrainInv, IInv, TypeOK, LogTypeOK, Position
    <3>7. s > rd.segment /\ s <= segment /\ s \in Segment /\ rd.segment \in Segment
      BY <3>3, <3>5, <3>6 DEF AtOrAfter, IInv, HandleInv, TypeOK, LogTypeOK
    <3>a. segment \in Segment
      BY DEF IInv, TypeOK, LogTypeOK
    <3>8. rd.segment + 1 \in Segment /\ rd.segment + 1 <= segment /\ rd.segment <= rd.segment + 1
      BY <3>7, <3>a, SizeAssumption DEF Segment
    <3> QED
      BY <3>3, <3>8 DEF WholeInv, Top
  <2> QED
    BY <1>3, <2>1, <2>4, <2>5, DrainedStep
<1> QED
  BY <1>1, <1>2, <1>3 DEF DrainInv, Drained

(* When the process is not killed and file operations work, the consumer   *)
(* that has ended after Shutdown has left nothing in the log: every        *)
(* accepted record was exported or given up, whatever writes failed and    *)
(* whatever was cut out of the log as damaged.                             *)
THEOREM NothingLeft ==
  ASSUME MaxCrash = 0, ~FileFault
  PROVE  Spec => []DrainedAtExit
<1>1. Init => WholeInv /\ DrainInv
  BY SizeAssumption DEF Init, LogInit, WholeInv, Top, DrainInv, Drained, Segment, Pos
<1>2. IInv /\ WholeInv /\ DrainInv /\ [Next]_vars => WholeInv' /\ DrainInv'
  BY WholeStep, DrainStep
<1>3. DrainInv => DrainedAtExit
  BY DEF DrainInv, Drained, DrainedAtExit
<1> QED
  BY <1>1, <1>2, <1>3, Inductive, PTL DEF Spec
-----------------------------------------------------------------------------
(* The same machine: consumer and reader stand behind a whole record, or   *)
(* at the start of a segment.                                              *)
Boundary(p) ==
  p.offset = 0 \/ (p.offset \in DOMAIN data[p.segment] /\ data[p.segment][p.offset] # Part)

BoundaryInv == Boundary(rd) /\ Boundary(cp)

(* A write behind the end of a file leaves the boundaries in it. *)
LEMMA BoundaryKept ==
  ASSUME TypeOK, NEW p \in Position, p.segment \in Segment, Boundary(p), NEW u,
         data'[p.segment] = data[p.segment] \/ data'[p.segment] = Append(data[p.segment], u)
  PROVE  Boundary(p)'
<1> DEFINE q == data[p.segment]
<1>1. q \in Seq(Rec \cup {Part}) /\ p.offset \in Nat
  BY DEF TypeOK, LogTypeOK, Position
<1>2. CASE p.offset = 0
  BY <1>2 DEF Boundary
<1>3. CASE p.offset # 0
  <2>1. p.offset \in 1 .. Len(q) /\ q[p.offset] # Part
    BY <1>1, <1>3 DEF Boundary
  <2>2. CASE data'[p.segment] = q
    BY <2>1, <2>2 DEF Boundary
  <2>3. CASE data'[p.segment] = Append(q, u)
    <3>1. p.offset \in DOMAIN Append(q, u) /\ Append(q, u)[p.offset] = q[p.offset]
      BY <1>1, <2>1
    <3> QED
      BY <2>1, <2>3, <3>1 DEF Boundary
  <2> QED
    BY <2>2, <2>3
<1> QED
  BY <1>2, <1>3

(* Writes go behind every position, a rotation empties only a file nobody  *)
(* is in, and a repair cuts where the reader starts again.                 *)
LEMMA BoundaryStep ==
  ASSUME MaxCrash = 0, ~FileFault
  PROVE  IInv /\ WholeInv /\ BoundaryInv /\ [Next]_vars => BoundaryInv'
<1> SUFFICES ASSUME IInv, WholeInv, BoundaryInv, [Next]_vars PROVE BoundaryInv'
  OBVIOUS
<1> USE DEF IInv, TypeOK, LogTypeOK, Position, Goto, ResetReader, Pos
<1>1. CASE UNCHANGED <<data, rd, cp>>
  BY <1>1 DEF BoundaryInv, Boundary
<1>2. CASE AppendBegin \/ AppendRefused
  <2>1. /\ rd.segment \in segs /\ cp.segment \in segs
        /\ UNCHANGED <<rd, cp>>
    BY <1>2 DEF AppendBegin, BeginWrite, AppendRefused, RefuseWrite, StartWrite, LockInv, WholeInv,
                consumerVars, reader
  <2>2. ASSUME NEW s \in segs
        PROVE  data'[s] = data[s] \/ data'[s] = Append(data[s], Part)
    <3>1. s \in Segment
      OBVIOUS
    <3> QED
      BY <1>2, <3>1 DEF AppendBegin, BeginWrite, AppendRefused, RefuseWrite, StartWrite, Opened
  <2>3. ASSUME NEW p \in Position, p.segment \in segs, Boundary(p) PROVE Boundary(p)'
    <3>1. data'[p.segment] = data[p.segment] \/ data'[p.segment] = Append(data[p.segment], Part)
      BY <2>2, <2>3
    <3> QED
      BY <2>3, <3>1, BoundaryKept
  <2> QED
    BY <2>1, <2>3 DEF BoundaryInv, Boundary
<1>3. CASE AppendEnd
  <2>1. UNCHANGED <<rd, cp>> /\ data' = [data EXCEPT ![segment] = Append(data[segment], nrec)]
    BY <1>3 DEF AppendEnd, EndWrite, consumerVars, reader
  <2>2. rd.segment \in Segment /\ cp.segment \in Segment
    BY <1>3 DEF AppendEnd, EndWrite, LockInv, WholeInv
  <2>3. ASSUME NEW p \in Position, p.segment \in Segment, Boundary(p) PROVE Boundary(p)'
    <3>1. data'[p.segment] = data[p.segment] \/ data'[p.segment] = Append(data[p.segment], nrec)
      BY <2>1, <2>3
    <3> QED
      BY <2>3, <3>1, BoundaryKept
  <2> QED
    BY <2>1, <2>2, <2>3 DEF BoundaryInv, Boundary
<1>4. CASE AppendFail \/ Stop
  BY <1>1, <1>4 DEF AppendFail, FailWrite, Stop, consumerVars, reader, logVars
<1>5. CASE ReadRecord
  <2>1. UNCHANGED <<data, cp>> /\ WholeNext /\ rd' = [segment |-> rd.segment, offset |-> rd.offset + 2]
    BY <1>5 DEF ReadRecord, logVars
  <2>2. skew = 0 /\ rd.segment \in segs
    BY <1>5 DEF ReadRecord, WholeInv
  <2>3. data[rd.segment] \in Seq(Rec \cup {Part})
    BY <2>2
  <2>4. rd'.offset \in DOMAIN data[rd.segment] /\ data[rd.segment][rd'.offset] # Part
    BY <2>1, <2>2, <2>3 DEF WholeNext, FilePos
  <2> QED
    BY <2>1, <2>4 DEF BoundaryInv, Boundary
<1>6. CASE ReadTorn \/ ReadEnd \/ AdvanceEOF
  BY <1>1, <1>6 DEF ReadTorn, ReadEnd, AdvanceEOF, logVars, reader
<1>7. CASE AdvanceHop
  BY <1>7 DEF AdvanceHop, BoundaryInv, Boundary, logVars
<1>8. CASE TruncateBegin \/ TruncateRemove
  BY <1>1, <1>8 DEF TruncateBegin, TruncateRemove, RemoveSegment, consumerVars, reader
<1>9. CASE TruncateCut
  <2>1. /\ rd' = cp /\ cp' = cp /\ cp.segment \in Segment
        /\ data' = [data EXCEPT ![cp.segment] = CutTo(data[cp.segment], cp.offset)]
    BY <1>9 DEF TruncateCut, CutAt
  <2>2. data'[cp.segment] = CutTo(data[cp.segment], cp.offset)
    BY <2>1
  <2>3. data[cp.segment] \in Seq(Rec \cup {Part})
    BY <2>1
  <2>4. Boundary(cp)'
    BY <2>1, <2>2, <2>3 DEF BoundaryInv, Boundary, CutTo
  <2> QED
    BY <2>1, <2>4 DEF BoundaryInv, Boundary
<1>10. ~TruncateFail /\ ~ReopenFail /\ ~ReadFail /\ ~EnforceFail /\ ~Crash
  BY DEF TruncateFail, ReopenFail, ReadFail, WholeInv, EnforceFail, Crash
<1>11. CASE ExportOk
  BY <1>11 DEF ExportOk, BoundaryInv, Boundary, logVars, reader
<1>12. CASE Save \/ ReadStats \/ Resave \/ Report \/ Wake \/ Finish
  BY <1>1, <1>12 DEF Save, ReadStats, Resave, SaveCheckpoint, Report, Wake, Finish, logVars, reader
<1>13. CASE EnforceBegin \/ EnforceRemove
  BY <1>1, <1>13 DEF EnforceBegin, EnforceRemove, RemoveSegment, reader
<1>14. CASE EnforceEnd
  <2>1. CASE newCp = cp
    BY <1>1, <1>14, <2>1 DEF EnforceEnd, reader
  <2>2. CASE newCp # cp
    <3>1. newCp.offset = 0
      BY <1>14, <2>2 DEF EnforceEnd, NewCpInv
    <3> QED
      BY <1>14, <2>2, <3>1 DEF EnforceEnd, BoundaryInv, Boundary
  <2> QED
    BY <2>1, <2>2
<1>15. CASE ExportFail \/ Exited \/ UNCHANGED vars
  BY <1>1, <1>15 DEF ExportFail, Exited, vars, logVars, consumerVars, reader
<1> QED
  BY <1>2, <1>3, <1>4, <1>5, <1>6, <1>7, <1>8, <1>9, <1>10, <1>11, <1>12, <1>13, <1>14, <1>15
     DEF Next, Read, Repair, Pressure

(* When the process is not killed and file operations work, the reader     *)
(* reports corruption only where a partial record begins: drain never cuts *)
(* the log at a place its own repairs, retention or retries have led to.   *)
THEOREM CorruptionIsPartial ==
  ASSUME MaxCrash = 0, ~FileFault
  PROVE  Spec => CorruptionAtPartial
<1>1. Init => WholeInv /\ BoundaryInv
  BY SizeAssumption DEF Init, LogInit, WholeInv, Top, BoundaryInv, Boundary, Segment, Pos
<1>2. IInv /\ WholeInv /\ BoundaryInv /\ [Next]_vars => WholeInv' /\ BoundaryInv'
  BY WholeStep, BoundaryStep
<1>3. IInv /\ WholeInv /\ BoundaryInv /\ [Next]_vars
        => [pc = "read" /\ pc' = "damage" => TornAt(rd)]_vars
  <2> SUFFICES ASSUME IInv, WholeInv, BoundaryInv, [Next]_vars, pc = "read", pc' = "damage"
               PROVE  TornAt(rd)
    OBVIOUS
  <2>1. ReadTorn
    <3>1. CASE AppendBegin \/ AppendRefused \/ AppendEnd \/ AppendFail \/ Stop
      BY <3>1 DEF AppendBegin, AppendRefused, AppendEnd, AppendFail, Stop, consumerVars
    <3>2. CASE ReadRecord \/ ReadFail \/ ReadEnd \/ AdvanceHop \/ AdvanceEOF
      BY <3>2 DEF ReadRecord, ReadFail, ReadEnd, AdvanceHop, AdvanceEOF, Goto
    <3>3. CASE Repair
      BY <3>3 DEF Repair, TruncateBegin, TruncateRemove, TruncateCut, TruncateFail, ReopenFail
    <3>4. CASE Pressure
      BY <3>4 DEF Pressure, ReadStats, EnforceBegin, EnforceRemove, EnforceFail, EnforceEnd, Resave,
                  Report
    <3>5. CASE ExportFail \/ ExportOk \/ Save \/ Wake \/ Finish \/ Exited \/ Crash \/ UNCHANGED vars
      BY <3>5 DEF ExportFail, ExportOk, Save, Wake, Finish, Exited, Crash, vars, consumerVars
    <3> QED
      BY <3>1, <3>2, <3>3, <3>4, <3>5 DEF Next, Read
  <2>2. skew = 0 /\ rd.segment \in Segment /\ rd \in Position /\ Readable /\ ~WholeNext
    BY <2>1 DEF ReadTorn, WholeInv, IInv, TypeOK, LogTypeOK
  <2>3. data[rd.segment] \in Seq(Rec \cup {Part})
    BY <2>2 DEF IInv, TypeOK, LogTypeOK
  <2>4. rd.offset \in Nat /\ FilePos = rd.offset /\ rd.offset + 1 \in DOMAIN data[rd.segment]
    BY <2>2, <2>3 DEF Readable, FilePos, Position
  <2>5. data[rd.segment][rd.offset + 1] = Part
    <3> DEFINE i == rd.offset + 1
    <3>1. data[rd.segment][i] # Part => i > 1 /\ data[rd.segment][i - 1] = Part
      BY <2>2, <2>4 DEF IInv, LeadInv
    <3>2. i - 1 = rd.offset
      BY <2>4
    <3> QED
      BY <2>4, <3>1, <3>2 DEF BoundaryInv, Boundary
  <2>6. rd.offset + 2 \in DOMAIN data[rd.segment] => data[rd.segment][rd.offset + 2] = Part
    BY <2>2, <2>3, <2>4, <2>5 DEF WholeNext
  <2> QED
    BY <2>4, <2>5, <2>6 DEF TornAt
<1> QED
  BY <1>1, <1>2, <1>3, Inductive, PTL DEF Spec, CorruptionAtPartial
=============================================================================
