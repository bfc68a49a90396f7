------------------------------ MODULE AssetPipe ------------------------------
(***************************************************************************)
(* The asset server's Pipe (assetserver.go), through which a client's map   *)
(* reaches a joiner, or the hash dump of telemetry.go, without ever being   *)
(* whole in the server.  One HTTP request uploads, another one, or DumpMap, *)
(* reads; each runs in a goroutine of its own and they meet in two buffered *)
(* channels: info, with a description of the upload or its failure, and     *)
(* data, with the bytes.                                                    *)
(*                                                                         *)
(* A byte of the body is named by its position in it; a slice of the body   *)
(* by the positions it starts and ends at.  The Err of the PipeInfo that    *)
(* request r sends is err[r]: info carries a pointer to it, so it may change *)
(* after it has been sent.                                                  *)
(***************************************************************************)
EXTENDS Integers, Sequences

CONSTANTS
  Request,          \* HTTP requests, each served once
  Dumper,           \* the goroutine of DumpMap
  PipeQueueLength,  \* capacity of data
  BodySize,         \* Content-Length of the upload
  ChunkSize,        \* bound: bytes that io.Copy reads and writes at once
  ReadSize          \* bound: buffer that io.Copy reads the pipe into

ASSUME PipeAssumption ==
  /\ Dumper \notin Request
  /\ PipeQueueLength \in Nat \ {0}
  /\ BodySize \in Nat
  /\ ChunkSize \in Nat \ {0}
  /\ ReadSize \in Nat \ {0}

VARIABLES
  told,      \* ids in the URLs that MakePipe's caller sent to clients
  pipes,     \* ids that still lead to the pipe
  pos,       \* where each goroutine stands
  err,       \* requests whose PipeInfo has its Err set
  written,   \* written[r]: bytes of its body r has read and written
  info,      \* the channel of PipeInfos, as the requests that sent them
  data,      \* the channel of slices
  closed,    \* data has been closed
  readBuf,   \* the slice a Read has not handed out yet
  readErr,   \* a Read has returned an error
  received,  \* received[p]: what io.Copy has moved from the pipe to p's target
  eof        \* goroutines whose io.Copy ended without an error

assetVars == <<told, pipes, pos, err, written, info, data, closed, readBuf, readErr, received, eof>>

Process == Request \cup {Dumper}
Byte == 1..BodySize
Slice == [from : 1..(BodySize + 1), to : 0..BodySize]
NoBytes == [from |-> 1, to |-> 0]
Length(s) == s.to - s.from + 1

Uploading(r) == pos[r] \in {"announce", "upload", "fail", "close"}
Reading(p) == pos[p] \in {"read", "pump"}

TypeOK ==
  /\ told \subseteq {"in", "out"}
  /\ pipes \subseteq {"in", "out"}
  /\ pos \in [Process -> {"new", "refuse", "announce", "upload", "fail", "close", "wait", "read", "pump", "done"}]
  /\ err \subseteq Request
  /\ written \in [Request -> 0..BodySize]
  /\ info \in Seq(Request) /\ Len(info) <= 1
  /\ data \in Seq(Slice) /\ Len(data) <= PipeQueueLength
  /\ closed \in BOOLEAN
  /\ readBuf \in Slice
  /\ readErr \in BOOLEAN
  /\ received \in [Process -> Seq(Byte)]
  /\ eof \subseteq Process

AssetInit ==
  /\ told = {}
  /\ pipes = {}
  /\ pos = [p \in Process |-> "new"]
  /\ err = {}
  /\ written = [r \in Request |-> 0]
  /\ info = <<>>
  /\ data = <<>>
  /\ closed = FALSE
  /\ readBuf = NoBytes
  /\ readErr = FALSE
  /\ received = [p \in Process |-> <<>>]
  /\ eof = {}

Goto(p, from, to) ==
  /\ pos[p] = from
  /\ pos' = [pos EXCEPT ![p] = to]

-----------------------------------------------------------------------------
(* The table of pipes.                                                     *)

\* For a joiner both URLs are given out; for a hash dump DumpMap reads the pipe
\* and only the uploader is told.
MakePipe ==
  /\ told = {}
  /\ pipes' = {"in", "out"}
  /\ \/ told' = {"in", "out"} /\ UNCHANGED pos
     \/ told' = {"out"} /\ Goto(Dumper, "new", "wait")
  /\ UNCHANGED <<err, written, info, data, closed, readBuf, readErr, received, eof>>

\* Mutant: an id stays good.
ServeHTTPAgain(r) ==
  /\ \E i \in told, method \in {"GET", "POST"} :
       /\ i \in pipes
       /\ Goto(r, "new", IF method = "GET" THEN "wait" ELSE "announce")
  /\ UNCHANGED <<told, pipes, err, written, info, data, closed, readBuf, readErr, received, eof>>

\* Requests are tried again, come with the wrong method or the other one's URL,
\* and uploads without a Content-Length; an id is good for one request.
Handler(i, method, hasLength) ==
  IF method = "GET" /\ i = "in" THEN "wait"
  ELSE IF method # "POST" THEN "done"
  ELSE IF i = "out" /\ hasLength THEN "announce" ELSE "refuse"

ServeHTTP(r) ==
  /\ \E i \in told :
       /\ pipes' = pipes \ {i}
       /\ IF i \in pipes
          THEN \E method \in {"GET", "POST", "PUT"}, hasLength \in BOOLEAN :
                 /\ Goto(r, "new", Handler(i, method, hasLength))
                 /\ err' = IF pos'[r] = "refuse" THEN err \cup {r} ELSE err
          ELSE Goto(r, "new", "done") /\ UNCHANGED err
  /\ UNCHANGED <<told, written, info, data, closed, readBuf, readErr, received, eof>>

-----------------------------------------------------------------------------
(* pipeUpload.                                                             *)

SendInfo(r) ==
  /\ info = <<>>
  /\ info' = <<r>>

Refuse(r) ==
  /\ Goto(r, "refuse", "done")
  /\ SendInfo(r)
  /\ UNCHANGED <<told, pipes, err, written, data, closed, readBuf, readErr, received, eof>>

Announce(r) ==
  /\ Goto(r, "announce", "upload")
  /\ SendInfo(r)
  /\ UNCHANGED <<told, pipes, err, written, data, closed, readBuf, readErr, received, eof>>

\* io.Copy reads some bytes of the body and writes them to the pipe.
Write(r) ==
  /\ pos[r] = "upload"
  /\ Len(data) < PipeQueueLength
  /\ \E n \in 1..ChunkSize :
       /\ written[r] + n <= BodySize
       /\ written' = [written EXCEPT ![r] = @ + n]
       /\ data' = Append(data, [from |-> written[r] + 1, to |-> written[r] + n])
  /\ UNCHANGED <<told, pipes, pos, err, info, closed, readBuf, readErr, received, eof>>

UploadEnds(r) ==
  /\ Goto(r, "upload", "close")
  /\ written[r] = BodySize
  /\ UNCHANGED <<told, pipes, err, written, info, data, closed, readBuf, readErr, received, eof>>

\* Mutant: an upload that failed just returns.
UploadFailsSilently(r) ==
  /\ Goto(r, "upload", "done")
  /\ written[r] < BodySize
  /\ err' = err \cup {r}
  /\ UNCHANGED <<told, pipes, written, info, data, closed, readBuf, readErr, received, eof>>

\* The uploading client is lost before its last byte came.
UploadFails(r) ==
  /\ Goto(r, "upload", "fail")
  /\ written[r] < BodySize
  /\ err' = err \cup {r}
  /\ UNCHANGED <<told, pipes, written, info, data, closed, readBuf, readErr, received, eof>>

AnnounceFailure(r) ==
  /\ Goto(r, "fail", "close")
  /\ SendInfo(r)
  /\ UNCHANGED <<told, pipes, err, written, data, closed, readBuf, readErr, received, eof>>

Close(r) ==
  /\ Goto(r, "close", "done")
  /\ closed' = TRUE
  /\ UNCHANGED <<told, pipes, err, written, info, data, readBuf, readErr, received, eof>>

-----------------------------------------------------------------------------
(* pipeDownload and DumpMap.                                               *)

\* The first PipeInfo.  DumpMap only logs its error, and only pumps the bytes
\* away if it can create no file.
TakeInfo(p) ==
  /\ info # <<>>
  /\ info' = Tail(info)
  /\ IF p = Dumper
     THEN Goto(p, "wait", "read") \/ Goto(p, "wait", "pump")
     ELSE Goto(p, "wait", IF Head(info) \in err THEN "done" ELSE "read")
  /\ UNCHANGED <<told, pipes, err, written, data, closed, readBuf, readErr, received, eof>>

\* Mutant: what does not fit into the buffer is forgotten.
DeliverOnly(p, s, n) ==
  /\ received' = [received EXCEPT ![p] =
       IF pos[p] = "read" THEN @ \o [k \in 1..n |-> s.from + k - 1] ELSE @]
  /\ readBuf' = NoBytes

\* What io.Copy moves goes to p's target, or nowhere when p only pumps.
Deliver(p, s, n) ==
  /\ received' = [received EXCEPT ![p] =
       IF pos[p] = "read" THEN @ \o [k \in 1..n |-> s.from + k - 1] ELSE @]
  /\ readBuf' = IF n < Length(s) THEN [from |-> s.from + n, to |-> s.to] ELSE NoBytes

ReadBuffered(p) ==
  /\ Reading(p)
  /\ ~readErr
  /\ Length(readBuf) > 0
  /\ \E n \in 1..ReadSize : n <= Length(readBuf) /\ Deliver(p, readBuf, n)
  /\ UNCHANGED <<told, pipes, pos, err, written, info, data, closed, readErr, eof>>

ReadData(p) ==
  /\ Reading(p)
  /\ ~readErr
  /\ Length(readBuf) = 0
  /\ data # <<>>
  /\ data' = Tail(data)
  /\ \E n \in 1..ReadSize : n <= Length(Head(data)) /\ Deliver(p, Head(data), n)
  /\ UNCHANGED <<told, pipes, pos, err, written, info, closed, readErr, eof>>

\* The other case of Read's select, which may be taken while data is waiting.
ReadInfo(p) ==
  /\ Reading(p)
  /\ ~readErr
  /\ Length(readBuf) = 0
  /\ info # <<>>
  /\ info' = Tail(info)
  /\ readErr' = (Head(info) \in err)
  /\ UNCHANGED <<told, pipes, pos, err, written, data, closed, readBuf, received, eof>>

\* Mutant: nothing is deferred.
CopyEndsAll(p) == pos' = [pos EXCEPT ![p] = "done"]

\* DumpMap's deferred io.Copy pumps away what its first one left.
CopyEnds(p) ==
  pos' = [pos EXCEPT ![p] = IF p = Dumper /\ @ = "read" THEN "pump" ELSE "done"]

\* Mutant: the end of the upload is the end of the data.
ReadEndsAtClose(p) ==
  /\ Reading(p)
  /\ closed
  /\ eof' = IF pos[p] = "read" THEN eof \cup {p} ELSE eof
  /\ CopyEnds(p)
  /\ UNCHANGED <<told, pipes, err, written, info, data, closed, readBuf, readErr, received>>

ReadEnds(p) ==
  /\ Reading(p)
  /\ \/ readErr /\ UNCHANGED eof
     \/ /\ ~readErr /\ Length(readBuf) = 0 /\ data = <<>> /\ closed
        /\ eof' = IF pos[p] = "read" THEN eof \cup {p} ELSE eof
  /\ CopyEnds(p)
  /\ UNCHANGED <<told, pipes, err, written, info, data, closed, readBuf, readErr, received>>

\* The downloading client is gone, or the disk is full.
TargetFails(p) ==
  /\ pos[p] = "read"
  /\ CopyEnds(p)
  /\ UNCHANGED <<told, pipes, err, written, info, data, closed, readBuf, readErr, received, eof>>

-----------------------------------------------------------------------------

UploadStep(r) ==
  \/ Refuse(r)
  \/ Announce(r)
  \/ Write(r)
  \/ UploadEnds(r)
  \/ AnnounceFailure(r)
  \/ Close(r)

ReadStep(p) == TakeInfo(p) \/ ReadBuffered(p) \/ ReadData(p) \/ ReadInfo(p) \/ ReadEnds(p)

AssetNext ==
  \/ MakePipe
  \/ \E r \in Request : ServeHTTP(r) \/ UploadStep(r) \/ UploadFails(r)
  \/ \E p \in Process : ReadStep(p) \/ TargetFails(p)

AssetSpec == AssetInit /\ [][AssetNext]_assetVars

\* The goroutine of a request keeps running.  A client that uploads goes on
\* sending until it is lost, and one that downloads goes on reading until it is
\* lost; nobody has to be lost or to make a request.
AssetFairness ==
  /\ \A r \in Request : WF_assetVars(UploadStep(r))
  /\ \A p \in Process : WF_assetVars(ReadStep(p))

FairAssetSpec == AssetSpec /\ AssetFairness

-----------------------------------------------------------------------------
(* Properties.                                                             *)

\* However the body was cut into slices on its way in and out, a reader gets its
\* bytes from the first one on, in order, none missing and none twice.
InOrder ==
  \A p \in Process : \A k \in DOMAIN received[p] : received[p][k] = k

\* A reader that was told that the map ended has the whole map, unless the
\* upload failed, which may be told too late.
CompleteAtEnd ==
  \A p \in eof : err = {} => Len(received[p]) = BodySize

\* Nobody sends on or closes the closed data channel, which would panic.
NoUseAfterClose ==
  closed => \A r \in Request : ~Uploading(r)

\* Neither channel ever holds more than its capacity, and the data channel is not
\* used after it was closed, however requests repeat or mix up their URLs.
PipeSound == TypeOK /\ NoUseAfterClose

Ended(p) == pos[p] = "done"

\* DumpMap never leaves the uploader of a hash dump stuck on a full pipe,
\* whatever happens to its file.
DumpDrains ==
  \A r \in Request : pos[r] = "upload" /\ pos[Dumper] # "new" ~> Ended(r)

\* A reader whose upload has begun comes to an end with it, also when the upload
\* fails half way.
DownloadEnds ==
  \A p \in Process, r \in Request :
    pos[p] \in {"wait", "read", "pump"} /\ pos[r] \in {"announce", "upload"} ~> Ended(p)

=============================================================================
