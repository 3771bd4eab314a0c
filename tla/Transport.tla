------------------------------ MODULE Transport ------------------------------
(***************************************************************************)
(* The way of a batch from the exporter to the server: Exporter.ExportBatch*)
(* (pipeline/exporter.go), quic.Client (transport/quic/client.go) and the  *)
(* server's handleConnection and handleUniStream (server/main/             *)
(* quic_server.go), over the codec of module StreamCodec.                  *)
(*                                                                         *)
(* QUIC itself is external.  A stream is an ordered queue of frames; a     *)
(* connection is seen by each end on its own, so one end can be closed     *)
(* while the other has not noticed; what a closed server end has not read  *)
(* is gone.  Write returns once QUIC has taken the bytes.                  *)
(*                                                                         *)
(* The record numbers stand for the timestamps of their points.  acked is  *)
(* what ExportBatch returned nil for, received what the server decoded.    *)
(***************************************************************************)
EXTENDS StreamCodec

CONSTANTS MaxRecord,   \* bound: number of batches
          MaxRetries,  \* e.maxRetries
          MaxConn,     \* bound: number of connections
          MaxFault,    \* bound: number of failed dials, timeouts, lost connections
          Oversize     \* TRUE: a frame may be over the server's 10 MB limit

ASSUME TransportAssumption ==
  /\ {MaxRecord, MaxRetries, MaxConn, MaxFault} \subseteq Nat
  /\ MaxConn # 0
  /\ Oversize \in BOOLEAN

Rec == 1 .. MaxRecord
Conn == 1 .. MaxConn
None == 0

(* A batch: its points, no series twice, in the order flatten finds them. *)
Batch == {b \in BoundedSeq(Point, Cardinality(Series)) :
            /\ b # << >>
            /\ \A i, j \in DOMAIN b : b[i].series = b[j].series => i = j}

VARIABLES
  xpc,       \* where ExportBatch is
  attempt,   \* its loop counter
  rec,       \* the record being exported, None between records
  batch,     \* its points
  big,       \* its frame exceeds the server's limit
  frame,     \* the encoded frame of this attempt
  enc,       \* e.encoder.series
  conn,      \* c.conn, None for nil
  stream,    \* c.dataStream, its number on the connection, None for nil
  nconn,     \* connections dialled so far
  up,        \* the client's view: conn.Context().Err() = nil
  srv,       \* the server's end of each connection
  dec,       \* connState.decoder.series of each connection
  wire,      \* the streams of each connection: frames written and not yet read
  cut,       \* streams the server has cancelled reading
  faults,
  acked, received, resyncs

client == <<xpc, attempt, rec, batch, big, frame, enc, conn, stream>>
server == <<srv, dec, cut>>
history == <<acked, received, resyncs>>
vars == <<client, nconn, up, server, wire, faults, history>>

Frame == [rec : Rec, big : BOOLEAN,
          pts : Seq([series : Series, kind : {"number", "histogram"},
                     key : BOOLEAN, val : Int])]

TypeOK ==
  /\ xpc \in {"idle", "check", "dial", "handshake", "encode", "stream",
              "write", "blocked", "closed"}
  /\ attempt \in 0 .. MaxRetries
  /\ rec \in Rec \cup {None}
  /\ big \in BOOLEAN
  /\ enc \in [Series -> Rec \cup {Unseen}]
  /\ conn \in Conn \cup {None}
  /\ stream \in Nat
  /\ stream # None => conn # None /\ stream \in DOMAIN wire[conn]
  /\ nconn \in 0 .. MaxConn
  /\ up \in [Conn -> BOOLEAN]
  /\ srv \in [Conn -> {"none", "hello", "serving", "closed"}]
  /\ DOMAIN wire = Conn
  /\ \A c \in Conn : wire[c] \in Seq(Seq(Frame))
  /\ cut \in [Conn -> SUBSET Nat]
  /\ faults \in 0 .. MaxFault
  /\ acked \in SUBSET Rec

(* Core.Run dials once before the pipeline starts; the attempt may fail. *)
Init ==
  /\ xpc = "idle" /\ attempt = 0 /\ rec = None /\ batch = << >> /\ big = FALSE
  /\ frame = << >>
  /\ enc = Fresh
  /\ stream = None
  /\ \E dialled \in {0, 1} :
       /\ nconn = dialled
       /\ conn = dialled
       /\ up = [c \in Conn |-> c = dialled]
       /\ srv = [c \in Conn |-> IF c = dialled THEN "serving" ELSE "none"]
  /\ dec = [c \in Conn |-> Fresh]
  /\ wire = [c \in Conn |-> << >>]
  /\ cut = [c \in Conn |-> {}]
  /\ faults = 0
  /\ acked = {} /\ received = {} /\ resyncs = 0

Connected == conn # None /\ up[conn]

(* A fault of the network or of the other end, of which there are few. *)
Fault == faults < MaxFault /\ faults' = faults + 1

(* The client's end of its connection, if any, is closed. *)
Hangup == [c \in Conn |-> up[c] /\ c # conn]

-----------------------------------------------------------------------------
(* ExportBatch.  The caller passes the same record again after an error.   *)

ExportBegin ==
  /\ xpc = "idle"
  /\ IF rec = None
       THEN /\ Cardinality(acked) < MaxRecord
            /\ rec' = Cardinality(acked) + 1
            /\ batch' \in Batch
            /\ big' \in {FALSE, Oversize}
       ELSE UNCHANGED <<rec, batch, big>>
  /\ attempt' = 0
  /\ xpc' = "check"
  /\ UNCHANGED <<frame, enc, conn, stream, nconn, up, server, wire, faults, history>>

CheckConnected ==
  /\ xpc = "check"
  /\ xpc' = IF Connected THEN "encode" ELSE "dial"
  /\ UNCHANGED <<attempt, rec, batch, big, frame, enc, conn, stream, nconn, up,
                 server, wire, faults, history>>

(* continue: the next attempt, or the error after the last one. *)
NextAttempt ==
  /\ IF attempt < MaxRetries
       THEN attempt' = attempt + 1 /\ xpc' = "check"
       ELSE attempt' = 0 /\ xpc' = "idle"
  /\ frame' = << >>
  /\ UNCHANGED <<rec, batch, big>>

(* Mutant: c.dataStream survives the reconnect. *)
DialKeepsStream ==
  /\ xpc = "dial"
  /\ nconn < MaxConn
  /\ nconn' = nconn + 1
  /\ conn' = nconn + 1
  /\ up' = [up EXCEPT ![nconn + 1] = TRUE]
  /\ srv' = [srv EXCEPT ![nconn + 1] = "hello"]
  /\ xpc' = "handshake"
  /\ UNCHANGED <<attempt, rec, batch, big, frame, enc, stream, dec, cut, wire, faults,
                 history>>

(* Client.Connect: DialAddr succeeds; c.conn is replaced, c.dataStream     *)
(* cleared, and the handshake begins.                                      *)
Dial ==
  /\ xpc = "dial"
  /\ nconn < MaxConn
  /\ nconn' = nconn + 1
  /\ conn' = nconn + 1 /\ stream' = None
  /\ up' = [up EXCEPT ![nconn + 1] = TRUE]
  /\ srv' = [srv EXCEPT ![nconn + 1] = "hello"]
  /\ xpc' = "handshake"
  /\ UNCHANGED <<attempt, rec, batch, big, frame, enc, dec, cut, wire, faults, history>>

(* A failed dial leaves c.conn, which is dead, as it is. *)
DialFail ==
  /\ xpc = "dial"
  /\ Fault \/ (nconn = MaxConn /\ UNCHANGED faults)
  /\ NextAttempt
  /\ UNCHANGED <<enc, conn, stream, nconn, up, server, wire, history>>

(* Mutant: a new connection continues with the old encoder state. *)
HandshakeOkNoReset ==
  /\ xpc = "handshake"
  /\ up[conn] /\ srv[conn] = "serving"
  /\ xpc' = "encode"
  /\ UNCHANGED <<attempt, rec, batch, big, frame, enc, conn, stream, nconn, up,
                 server, wire, faults, history>>

(* The server's acceptance arrives; ExportBatch resets the encoder. *)
HandshakeOk ==
  /\ xpc = "handshake"
  /\ up[conn] /\ srv[conn] = "serving"
  /\ enc' = Fresh
  /\ xpc' = "encode"
  /\ UNCHANGED <<attempt, rec, batch, big, frame, conn, stream, nconn, up, server,
                 wire, faults, history>>

(* Mutant: no read deadline and no error from a dead connection. *)
HandshakeFailHangs ==
  /\ xpc = "handshake"
  /\ Fault
  /\ up' = Hangup
  /\ conn' = None
  /\ NextAttempt
  /\ UNCHANGED <<enc, stream, nconn, server, wire, history>>

(* A rejection, a lost connection or the read deadline: Connect closes the *)
(* connection and clears c.conn.                                           *)
HandshakeFail ==
  /\ xpc = "handshake"
  /\ Fault \/ (~up[conn] /\ UNCHANGED faults)
  /\ up' = Hangup
  /\ conn' = None
  /\ NextAttempt
  /\ UNCHANGED <<enc, stream, nconn, server, wire, history>>

(* encode against the current state, which advances. *)
Encode ==
  /\ xpc = "encode"
  /\ LET e == EncodeFrame(enc, batch, rec)
     IN enc' = e.enc /\ frame' = [rec |-> rec, big |-> big, pts |-> e.out]
  /\ xpc' = "stream"
  /\ UNCHANGED <<attempt, rec, batch, big, conn, stream, nconn, up, server, wire,
                 faults, history>>

(* getDataStream: the live stream, or a new one on the live connection. *)
Usable == stream # None /\ stream \notin cut[conn]

GetStream ==
  /\ xpc = "stream"
  /\ Connected
  /\ IF Usable
       THEN UNCHANGED <<stream, wire>>
       ELSE /\ stream' = Len(wire[conn]) + 1
            /\ wire' = [wire EXCEPT ![conn] = Append(@, << >>)]
  /\ xpc' = "write"
  /\ UNCHANGED <<attempt, rec, batch, big, frame, enc, conn, nconn, up, server,
                 faults, history>>

(* The frame is handed to QUIC.  A server end that is gone receives none. *)
Put == IF srv[conn] = "closed" \/ stream \in cut[conn] THEN wire
       ELSE [wire EXCEPT ![conn][stream] = Append(@, frame)]

(* Write returns nil, and so does ExportBatch. *)
WriteOk ==
  /\ xpc = "write"
  /\ ~frame.big
  /\ up[conn] /\ Usable
  /\ wire' = Put
  /\ acked' = acked \cup {rec}
  /\ xpc' = "idle" /\ attempt' = 0 /\ rec' = None /\ batch' = << >> /\ big' = FALSE
  /\ frame' = << >>
  /\ UNCHANGED <<enc, conn, stream, nconn, up, server, faults, received, resyncs>>

(* A frame larger than the flow-control window: Write waits for the server *)
(* to read.                                                                *)
WriteBlock ==
  /\ xpc = "write"
  /\ frame.big
  /\ wire' = Put
  /\ xpc' = "blocked"
  /\ UNCHANGED <<attempt, rec, batch, big, frame, enc, conn, stream, nconn, up,
                 server, faults, history>>

(* Mutant: the connection is kept after a failed write. *)
SendFailKeepsConn ==
  /\ xpc \in {"stream", "write", "blocked"}
  /\ ~up[conn] \/ (xpc # "stream" /\ ~Usable)
  /\ \/ UNCHANGED wire
     \/ xpc = "write" /\ ~frame.big /\ wire' = Put
  /\ stream' = None
  /\ enc' = Fresh
  /\ NextAttempt
  /\ UNCHANGED <<conn, up, nconn, server, faults, history>>

(* SendRaw fails, opening the stream or writing the frame, of which none,  *)
(* a part or all may have left; a part is never a frame to the server.     *)
(* The client closes stream and connection, the encoder is reset.          *)
SendFail ==
  /\ xpc \in {"stream", "write", "blocked"}
  /\ ~up[conn] \/ (xpc # "stream" /\ ~Usable)
  /\ \/ UNCHANGED wire
     \/ xpc = "write" /\ ~frame.big /\ wire' = Put
  /\ up' = Hangup
  /\ conn' = None /\ stream' = None
  /\ enc' = Fresh
  /\ NextAttempt
  /\ UNCHANGED <<nconn, server, faults, history>>

(* Core.Run closes the transport once the pipeline is drained. *)
AgentClose ==
  /\ xpc = "idle"
  /\ rec = None
  /\ up' = Hangup
  /\ conn' = None /\ stream' = None
  /\ xpc' = "closed"
  /\ UNCHANGED <<attempt, rec, batch, big, frame, enc, nconn, server, wire, faults, history>>

Closed == xpc = "closed" /\ UNCHANGED vars

-----------------------------------------------------------------------------
(* The server: handleConnection and one handleUniStream per stream.        *)

(* handleHandshake accepts; the connection gets a fresh decoder. *)
Accept(c) ==
  /\ srv[c] = "hello"
  /\ up[c]
  /\ srv' = [srv EXCEPT ![c] = "serving"]
  /\ dec' = [dec EXCEPT ![c] = Fresh]
  /\ UNCHANGED <<client, nconn, up, wire, cut, faults, history>>

Readable(c, k) == srv[c] = "serving" /\ k \notin cut[c] /\ wire[c][k] # << >>

(* Decode the next frame; an error closes the connection to force a resync. *)
HandleFrame(c, k) ==
  LET f == Head(wire[c][k])
      d == DecodeFrame(dec[c], f.pts)
  IN /\ Readable(c, k)
     /\ ~f.big
     /\ wire' = [wire EXCEPT ![c][k] = Tail(@)]
     /\ dec' = [dec EXCEPT ![c] = d.dec]
     /\ IF d.ok
          THEN /\ received' = received \cup {[rec |-> f.rec, pts |-> d.out]}
               /\ UNCHANGED <<srv, resyncs>>
          ELSE /\ srv' = [srv EXCEPT ![c] = "closed"]
               /\ resyncs' = resyncs + 1
               /\ UNCHANGED received
     /\ UNCHANGED <<client, nconn, up, cut, faults, acked>>

(* Mutant: the handler gives up on the frame and leaves the stream open. *)
HandleOversizeOpen(c, k) ==
  /\ Readable(c, k)
  /\ Head(wire[c][k]).big
  /\ wire' = [wire EXCEPT ![c][k] = << >>]
  /\ UNCHANGED <<client, nconn, up, server, faults, history>>

(* A length over the limit: the handler returns and cancels the stream. *)
HandleOversize(c, k) ==
  /\ Readable(c, k)
  /\ Head(wire[c][k]).big
  /\ cut' = [cut EXCEPT ![c] = @ \cup {k}]
  /\ wire' = [wire EXCEPT ![c][k] = << >>]
  /\ UNCHANGED <<client, nconn, up, srv, dec, faults, history>>

(* The server's end goes away: it learns that the client's is gone, or its *)
(* process or the network fails.  Unread frames go with it.                *)
ServerGone(c) ==
  /\ srv[c] \in {"hello", "serving"}
  /\ Fault \/ (~up[c] /\ UNCHANGED faults)
  /\ srv' = [srv EXCEPT ![c] = "closed"]
  /\ wire' = [wire EXCEPT ![c] = [k \in DOMAIN @ |-> << >>]]
  /\ UNCHANGED <<client, nconn, up, dec, cut, history>>

(* The client's end goes away: the idle timeout without a cause the server *)
(* knows of, or the news that the server's end is gone.                    *)
ClientLost(c) ==
  /\ up[c]
  /\ Fault
  /\ up' = [up EXCEPT ![c] = FALSE]
  /\ UNCHANGED <<client, nconn, server, wire, history>>

ClientNotices(c) ==
  /\ up[c]
  /\ srv[c] = "closed"
  /\ up' = [up EXCEPT ![c] = FALSE]
  /\ UNCHANGED <<client, nconn, server, wire, faults, history>>

Handle == \E c \in Conn : \E k \in DOMAIN wire[c] : HandleFrame(c, k) \/ HandleOversize(c, k)
Exporter == ExportBegin \/ CheckConnected \/ Dial \/ DialFail \/ HandshakeOk
              \/ HandshakeFail \/ Encode \/ GetStream \/ WriteOk \/ WriteBlock \/ SendFail

Next ==
  \/ Exporter
  \/ AgentClose \/ Closed
  \/ \E c \in Conn : Accept(c) \/ ServerGone(c) \/ ClientLost(c) \/ ClientNotices(c)
  \/ Handle

Spec == Init /\ [][Next]_vars

(* The exporter's goroutine and the server's keep running, and the client  *)
(* learns in the end that the server is gone (the idle timeout).           *)
FairSpec ==
  /\ Spec
  /\ WF_vars(Exporter)
  /\ WF_vars(Handle)
  /\ \A c \in Conn : WF_vars(Accept(c)) /\ WF_vars(ClientNotices(c))

-----------------------------------------------------------------------------
(* What the server decodes is what the agent sent: every point carries the *)
(* timestamp it was encoded from, over any number of reconnects, retries   *)
(* and lost frames. It holds at the cap on series too as long as no series *)
(* comes both as numbers and as histograms; one that does is coded raw by  *)
(* one kind and by difference by the other, from bases that drift apart.   *)
Faithful ==
  \A d \in received : \A i \in DOMAIN d.pts : d.pts[i].time = d.rec

(* The encoder's state belongs to the server's fresh decoder whenever a    *)
(* connection is established, so the server never meets a delta for a      *)
(* series it has not seen and never has to close a connection to resync.   *)
NoResync == resyncs = 0

(* Frames of one connection travel on one stream: the order in which the   *)
(* decoder applies them is the order in which they were encoded.           *)
SingleStream == \A c \in Conn : Len(wire[c]) <= 1

(* Every call of ExportBatch returns, whatever the network does.           *)
ExportReturns == xpc = "check" ~> xpc \in {"idle", "closed"}

(* A batch the server can take is exported in the end, by this call or by  *)
(* one of the caller's retries.                                            *)
EventuallyAcked == \A r \in Rec : (rec = r /\ ~big) ~> r \in acked

(* exporter.go: the WAL keeps the record until acked, so nothing is lost.  *)
(* An exported record has reached the server or is still on its way.       *)
NothingLost ==
  \A r \in acked :
    \/ \E d \in received : d.rec = r
    \/ \E c \in Conn : \E k \in DOMAIN wire[c] : \E i \in DOMAIN wire[c][k] :
         wire[c][k][i].rec = r
=============================================================================
