--------------------------------- MODULE Wal ---------------------------------
(***************************************************************************)
(* The segmented write-ahead log of internal/wal: the segment files, the   *)
(* checkpoint file, and the writer half of type WAL (Append, Truncate,     *)
(* EnforceMaxSize, Stats, Open).  The operators below are the operations;  *)
(* module WalConsumer drives them.                                         *)
(*                                                                         *)
(* Abstraction.  Records are numbered in the order Append is called.  A    *)
(* record occupies two units of a file: Part, which is its beginning, and  *)
(* then its number, which is the rest.  So an offset, SegmentSize and      *)
(* MaxSize are numbers of units, and a position may be inside a record.    *)
(* A Part that no number follows is what a short or unfinished write has   *)
(* left, or padding: whatever its bytes are, the reader's length and CRC   *)
(* checks reject it, as they do the rest of a record without its beginning *)
(* (record.go, reader.go).                                                 *)
(***************************************************************************)
EXTENDS Integers, Sequences, FiniteSets, FiniteSetsExt

CONSTANTS SegmentSize,  \* units per segment file
          MaxSize,      \* cap on the units of all segment files
          MaxRecord,    \* bound: number of Append calls
          MaxSegment    \* bound: highest segment number

ASSUME SizeAssumption ==
  /\ SegmentSize \in Nat \ {0}
  /\ MaxSize \in Nat \ {0}
  /\ MaxRecord \in Nat
  /\ MaxSegment \in Nat

Rec == 1 .. MaxRecord
Part == 0
Segment == 0 .. MaxSegment

(* wal.Checkpoint: a position in the log. *)
Position == [segment : Nat, offset : Nat]
Pos(s, o) == [segment |-> s, offset |-> o]

VARIABLES
  segs,     \* the segment files that exist in the directory
  data,     \* contents of each segment; an unlinked file keeps its contents
            \* for the handles that are still open on it
  ckpt,     \* contents of the checkpoint file
  segment,  \* w.segment, the segment w.active is open on
  offset,   \* w.offset, which a failed write does not advance
  mu        \* holder of w.mu: "free", "append" or "consumer"

logVars == <<segs, data, ckpt, segment, offset, mu>>

LogTypeOK ==
  /\ segs \in SUBSET Segment
  /\ data \in [Segment -> Seq(Rec \cup {Part})]
  /\ ckpt \in Position
  /\ segment \in Segment
  /\ offset \in Nat
  /\ mu \in {"free", "append", "consumer"}

LogInit ==
  /\ segs = {0}
  /\ data = [s \in Segment |-> << >>]
  /\ ckpt = Pos(0, 0)
  /\ segment = 0
  /\ offset = 0
  /\ mu = "free"

-----------------------------------------------------------------------------
(* Positions and contents. *)

PosLeq(p, q) ==
  \/ p.segment < q.segment
  \/ p.segment = q.segment /\ p.offset <= q.offset

(* The record that ends with unit i of segment s begins at or after p. *)
AtOrAfter(s, i, p) ==
  \/ s > p.segment
  \/ s = p.segment /\ i > p.offset + 1

(* The records of segment s that begin at offset o or later. *)
IdsFrom(s, o) == {data[s][i] : i \in {j \in DOMAIN data[s] : j > o + 1}} \ {Part}

(* The records a reader starting at p can still meet on disk. *)
Ahead(p) ==
  {r \in Rec : \E s \in segs : \E i \in DOMAIN data[s] :
                 data[s][i] = r /\ AtOrAfter(s, i, p)}

-----------------------------------------------------------------------------
(* WAL.Stats. *)

Total == MapThenSumSet(LAMBDA s : Len(data[s]), segs)

UnackedIn(s, p) ==
  IF s > p.segment THEN Len(data[s])
  ELSE IF s = p.segment /\ Len(data[s]) > p.offset THEN Len(data[s]) - p.offset
  ELSE 0

Unacked(p) == MapThenSumSet(LAMBDA s : UnackedIn(s, p), segs)

-----------------------------------------------------------------------------
(* WAL.Append.  The write of a record is two steps, so that a crash, a     *)
(* short write or a concurrent read can meet it half done.                 *)

MustRotate == offset > 0 /\ offset + 2 > SegmentSize

(* The segment Append writes to, and what openSegmentLocked finds in it. *)
Target == IF MustRotate THEN segment + 1 ELSE segment

Opened(s) == IF MustRotate /\ s \notin segs THEN << >> ELSE data[s]

(* Rotate when the segment is full; the file written to then holds q.  A   *)
(* rotation creates the next file with O_CREATE|O_APPEND and takes its     *)
(* size as the offset; without one, w.active stays what it was, be it an   *)
(* unlinked file.                                                          *)
StartWrite(q) ==
  /\ mu = "free"
  /\ Target \in Segment
  /\ segment' = Target
  /\ segs' = IF MustRotate THEN segs \cup {Target} ELSE segs
  /\ data' = [data EXCEPT ![Target] = q]
  /\ offset' = IF MustRotate THEN Len(Opened(Target)) ELSE offset
  /\ UNCHANGED ckpt

(* Take the lock and start to write. *)
BeginWrite == StartWrite(Append(Opened(Target), Part)) /\ mu' = "append"

(* Append fails before any byte is written: the write itself does, after a *)
(* rotation it may have made, or the sync or the opening for the rotation. *)
RefuseWrite ==
  /\ mu = "free"
  /\ StartWrite(Opened(Target)) \/ UNCHANGED <<segs, data, ckpt, segment, offset>>
  /\ UNCHANGED mu

(* The write completes: the rest of record r is in the file. *)
EndWrite(r) ==
  /\ mu = "append"
  /\ data' = [data EXCEPT ![segment] = Append(@, r)]
  /\ offset' = offset + 2
  /\ mu' = "free"
  /\ UNCHANGED <<segs, ckpt, segment>>

(* Mutant: a failed write takes back an offset it never advanced. *)
FailWriteRewinds ==
  /\ mu = "append"
  /\ offset' = offset - 1
  /\ mu' = "free"
  /\ UNCHANGED <<segs, data, ckpt, segment>>

(* The write fails: the partial record stays in the file, and w.offset is  *)
(* not advanced.                                                           *)
FailWrite ==
  /\ mu = "append"
  /\ mu' = "free"
  /\ UNCHANGED <<segs, data, ckpt, segment, offset>>

-----------------------------------------------------------------------------
(* os.Remove of one segment file by the consumer, under w.mu. *)
RemoveSegment(s) ==
  /\ mu = "consumer"
  /\ s \in segs
  /\ segs' = segs \ {s}
  /\ UNCHANGED <<data, ckpt, segment, offset, mu>>

(* The tail of Truncate(p): os.Truncate, which pads a file that is shorter *)
(* with zeros.  They would read as empty records, but lie before p, and a  *)
(* reader that starts over starts at p or later.                           *)
CutTo(q, n) == [i \in 1 .. n |-> IF i <= Len(q) THEN q[i] ELSE Part]

CutAt(p) ==
  /\ mu = "consumer"
  /\ p.segment \in segs
  /\ data' = [data EXCEPT ![p.segment] = CutTo(@, p.offset)]
  /\ mu' = "free"
  /\ UNCHANGED <<segs, ckpt>>

(* Then w.active is reopened on the checkpoint's segment, unless that is   *)
(* newer than the active one.                                              *)
Reopen(p) ==
  IF segment >= p.segment
  THEN segment' = p.segment /\ offset' = p.offset
  ELSE UNCHANGED <<segment, offset>>

(* EnforceMaxSize deletes s next: the log is over the cap and s is its     *)
(* first segment, but not the active one.                                  *)
MustDrop(s) ==
  /\ Total > MaxSize
  /\ s \in segs
  /\ \A t \in segs : s <= t
  /\ s # segment

(* Mutant: the checkpoint follows every deleted segment, acknowledged or not. *)
PassedOverAlways(p, s) == Pos(s + 1, 0)

(* The checkpoint EnforceMaxSize returns after deleting segment s. *)
PassedOver(p, s) == IF s = p.segment THEN Pos(s + 1, 0) ELSE p

SaveCheckpoint(p) == ckpt' = p /\ UNCHANGED <<segs, data, segment, offset, mu>>

(* Open on what is on disk: the last segment, or segment 0 when there is   *)
(* none.  The tail is not checked and no damage is repaired.               *)
Open ==
  \E s \in Segment :
    /\ IF segs = {} THEN s = 0 ELSE s \in segs /\ \A t \in segs : t <= s
    /\ segs' = segs \cup {s}
    /\ data' = IF s \in segs THEN data ELSE [data EXCEPT ![s] = << >>]
    /\ segment' = s
    /\ offset' = Len(data'[s])
    /\ mu' = "free"
    /\ UNCHANGED ckpt
=============================================================================
