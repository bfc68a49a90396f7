--------------------------- MODULE LockstepProofs ---------------------------
(***************************************************************************)
(* How a joiner gets the world and keeps it equal to those of the others,  *)
(* for every value of the constants.                                       *)
(*                                                                         *)
(* AssetPipe, which the map comes through: by UseInv the two ids admit one *)
(* uploader and one reader; by FlowInv what the reader has, what readBuf   *)
(* holds and what waits in data lie end to end in the body, up to the last *)
(* byte the uploader has written.                                          *)
(*                                                                         *)
(* Lockstep: what a client has read of the stream and what is still on its *)
(* way to it make up the stream; a world is a function of what was read.   *)
(***************************************************************************)
EXTENDS AssetPipe, Lockstep, SequenceTheorems, FiniteSetTheorems, NaturalsInduction, TLAPS

-----------------------------------------------------------------------------
(* The pipe hands over what was uploaded.                                  *)

Consuming(p) == pos[p] \in {"wait", "read", "pump"}

\* Nobody uploads or has uploaded.
Untouched == told = {} \/ "out" \in pipes

\* Nobody reads or has read.
Unstarted ==
  \/ told = {}
  \/ "in" \in pipes /\ pos[Dumper] = "new"
  \/ \E p \in Process : pos[p] = "wait"

Source(r) == Uploading(r) \/ written[r] > 0

UseInv ==
  /\ told = {} => pipes = {} /\ \A p \in Process : pos[p] = "new"
  /\ pos[Dumper] \in {"new", "wait", "read", "pump", "done"}
  /\ pos[Dumper] # "new" => told = {"out"}
  /\ \A p \in Request : Consuming(p) => "in" \in told /\ "in" \notin pipes
  /\ \A p, q \in Process : Consuming(p) /\ Consuming(q) => p = q
  /\ \A r \in Request : Source(r) => ~Untouched
  /\ \A r, s \in Request : Source(r) /\ Source(s) => r = s
  /\ closed => ~Untouched /\ \A r \in Request : ~Uploading(r)

Buffered == Length(readBuf) > 0

\* Byte n is the next one to be handed out.
Starts(n) ==
  /\ Buffered => readBuf.from = n
  /\ ~Buffered /\ data # <<>> => data[1].from = n
  /\ ~Buffered /\ data = <<>> =>
       /\ \A r \in Request : Source(r) => n = written[r] + 1
       /\ Untouched => n = 1

Chained ==
  /\ \A k \in 1..Len(data) : data[k].from <= data[k].to
  /\ \A k \in 1..(Len(data) - 1) : data[k + 1].from = data[k].to + 1
  /\ Buffered /\ data # <<>> => data[1].from = readBuf.to + 1
  /\ \A r \in Request : Source(r) =>
       /\ data # <<>> => data[Len(data)].to = written[r]
       /\ Buffered /\ data = <<>> => readBuf.to = written[r]

FlowInv ==
  /\ Chained
  /\ Untouched => data = <<>> /\ ~Buffered
  /\ \A p \in Process : pos[p] \in {"new", "wait"} => received[p] = <<>>
  /\ Unstarted => ~Buffered /\ Starts(1)
  /\ \A p \in Process : pos[p] = "read" => Starts(Len(received[p]) + 1)

EndInv ==
  /\ \A r \in Request : pos[r] = "fail" => r \in err
  /\ \A r \in Request : pos[r] = "close" => r \in err \/ written[r] = BodySize
  /\ closed => err # {} \/ \E r \in Request : written[r] = BodySize
  /\ \A p \in eof : pos[p] \in {"pump", "done"}

-----------------------------------------------------------------------------
(* Types.                                                                  *)

Position == {"new", "refuse", "announce", "upload", "fail", "close", "wait", "read", "pump", "done"}

\* Goto keeps positions positions, and moves nobody but p.
LEMMA GotoType ==
  ASSUME pos \in [Process -> Position],
         NEW p \in Process, NEW from, NEW to \in Position, Goto(p, from, to)
  PROVE  pos' \in [Process -> Position] /\ pos'[p] = to /\ pos[p] = from
         /\ \A q \in Process : q # p => pos'[q] = pos[q]
  BY DEF Goto

LEMMA HandlerType ==
  ASSUME NEW i \in {"in", "out"}, NEW m \in {"GET", "POST", "PUT"}, NEW h \in BOOLEAN
  PROVE  /\ Handler(i, m, h) \in {"wait", "announce", "refuse", "done"}
         /\ Handler(i, m, h) = "wait" => i = "in"
         /\ Handler(i, m, h) = "announce" => i = "out"
  BY DEF Handler

\* What is handed out of a slice are bytes of the body, and the rest is a slice.
LEMMA DeliverType ==
  ASSUME TypeOK, NEW p \in Process, NEW s \in Slice, NEW n \in 1..ReadSize,
         n <= Length(s), Deliver(p, s, n)
  PROVE  received' \in [Process -> Seq(Byte)] /\ readBuf' \in Slice
  <1>1. readBuf' \in Slice
    <2>1. s.from \in 1..(BodySize + 1) /\ s.to \in 0..BodySize /\ s = [from |-> s.from, to |-> s.to]
      BY DEF Slice
    <2>2. CASE n < Length(s)
      <3>1. readBuf' = [from |-> s.from + n, to |-> s.to]  BY <2>1, <2>2 DEF Deliver
      <3>2. s.from + n \in 1..(BodySize + 1)  BY <2>1, <2>2, PipeAssumption DEF Length
      <3>. QED  BY <2>1, <3>1, <3>2 DEF Slice
    <2>3. CASE ~(n < Length(s))
      <3>1. readBuf' = [from |-> 1, to |-> 0]  BY <2>3 DEF Deliver, NoBytes
      <3>2. 1 \in 1..(BodySize + 1) /\ 0 \in 0..BodySize  BY PipeAssumption, SMT
      <3>. QED  BY <3>1, <3>2 DEF Slice
    <2>. QED  BY <2>2, <2>3
  <1>2. received' \in [Process -> Seq(Byte)]
    <2> DEFINE part == [k \in 1..n |-> s.from + k - 1]
    <2>1. s.from \in 1..(BodySize + 1) /\ s.to \in 0..BodySize  BY DEF Slice
    <2>2. \A k \in 1..n : s.from + k - 1 \in Byte  BY <2>1, PipeAssumption DEF Length, Byte
    <2>3. part \in [1..n -> Byte]  BY <2>2
    <2>4. n \in Nat  BY PipeAssumption
    <2>5. part \in Seq(Byte)  BY <2>3, <2>4
    <2>6. received[p] \in Seq(Byte)  BY DEF TypeOK
    <2>7. received[p] \o part \in Seq(Byte)  BY <2>5, <2>6
    <2>. QED  BY <2>7 DEF Deliver, TypeOK
  <1>. QED  BY <1>1, <1>2

\* A slice of the body that is appended to data, or taken from it.
LEMMA DataType ==
  ASSUME TypeOK
  PROVE  /\ data # <<>> => Head(data) \in Slice /\ Tail(data) \in Seq(Slice) /\ Len(Tail(data)) <= PipeQueueLength
         /\ info # <<>> => Head(info) \in Request /\ Tail(info) \in Seq(Request) /\ Len(Tail(info)) <= 1
  <1>1. data \in Seq(Slice) /\ info \in Seq(Request)  BY DEF TypeOK
  <1>2. ASSUME data # <<>> PROVE Head(data) \in Slice /\ Tail(data) \in Seq(Slice) /\ Len(Tail(data)) = Len(data) - 1
    BY <1>1, <1>2
  <1>3. ASSUME info # <<>> PROVE Head(info) \in Request /\ Tail(info) \in Seq(Request) /\ Len(Tail(info)) = Len(info) - 1
    BY <1>1, <1>3
  <1>4. Len(data) \in Nat /\ Len(info) \in Nat  BY <1>1
  <1>. QED  BY <1>1, <1>2, <1>3, <1>4, PipeAssumption DEF TypeOK

LEMMA TypeInit == AssetInit => TypeOK
  <1> SUFFICES ASSUME AssetInit PROVE TypeOK  OBVIOUS
  <1>1. readBuf \in Slice
    <2>1. 1 \in 1..(BodySize + 1) /\ 0 \in 0..BodySize  BY PipeAssumption
    <2>2. [from |-> 1, to |-> 0] \in Slice  BY <2>1 DEF Slice
    <2>. QED  BY <2>2 DEF AssetInit, NoBytes
  <1>2. info \in Seq(Request) /\ Len(info) = 0 /\ data \in Seq(Slice) /\ Len(data) = 0
    BY DEF AssetInit
  <1>3. received \in [Process -> Seq(Byte)]  BY DEF AssetInit
  <1>4. written \in [Request -> 0..BodySize]  BY PipeAssumption DEF AssetInit
  <1>5. pos \in [Process -> Position]  BY DEF AssetInit, Position
  <1>6. Len(info) <= 1 /\ Len(data) <= PipeQueueLength  BY <1>2, PipeAssumption
  <1>7. /\ told \subseteq {"in", "out"} /\ pipes \subseteq {"in", "out"}
        /\ err \subseteq Request /\ eof \subseteq Process
        /\ closed \in BOOLEAN /\ readErr \in BOOLEAN
    BY DEF AssetInit
  <1>. QED  BY <1>1, <1>2, <1>3, <1>4, <1>5, <1>6, <1>7 DEF TypeOK, Position

LEMMA TypeNext == TypeOK /\ [AssetNext]_assetVars => TypeOK'
  <1> SUFFICES ASSUME TypeOK, [AssetNext]_assetVars PROVE TypeOK'  OBVIOUS
  <1>p. pos \in [Process -> Position]  BY DEF TypeOK, Position
  <1>r. Request \subseteq Process /\ Dumper \in Process  BY DEF Process
  <1>1. CASE MakePipe
    <2>1. pos' \in [Process -> Position]  BY <1>1, <1>p, <1>r, GotoType DEF MakePipe, Position
    <2>. QED  BY <1>1, <2>1 DEF MakePipe, TypeOK, Position
  <1>2. ASSUME NEW r \in Request, ServeHTTP(r) PROVE TypeOK'
    <2>1. PICK i \in told :
       /\ pipes' = pipes \ {i}
       /\ IF i \in pipes
          THEN \E method \in {"GET", "POST", "PUT"}, hasLength \in BOOLEAN :
                 /\ Goto(r, "new", Handler(i, method, hasLength))
                 /\ err' = IF pos'[r] = "refuse" THEN err \cup {r} ELSE err
          ELSE Goto(r, "new", "done") /\ UNCHANGED err
      BY <1>2 DEF ServeHTTP
    <2>2. i \in {"in", "out"}  BY DEF TypeOK
    <2>3. CASE i \in pipes
      <3>1. PICK m \in {"GET", "POST", "PUT"}, h \in BOOLEAN :
                 /\ Goto(r, "new", Handler(i, m, h))
                 /\ err' = IF pos'[r] = "refuse" THEN err \cup {r} ELSE err
        BY <2>1, <2>3
      <3>2. Handler(i, m, h) \in Position  BY <2>2, HandlerType DEF Position
      <3>3. pos' \in [Process -> Position]  BY <3>1, <3>2, <1>p, <1>r, GotoType
      <3>. QED  BY <1>2, <2>1, <3>1, <3>3 DEF ServeHTTP, TypeOK, Position
    <2>4. CASE i \notin pipes
      <3>1. pos' \in [Process -> Position]  BY <2>1, <2>4, <1>p, <1>r, GotoType DEF Position
      <3>. QED  BY <1>2, <2>1, <2>4, <3>1 DEF ServeHTTP, TypeOK, Position
    <2>. QED  BY <2>3, <2>4
  <1>3. ASSUME NEW r \in Request, SendInfo(r) PROVE info' \in Seq(Request) /\ Len(info') <= 1
    BY <1>3 DEF SendInfo
  <1>4. ASSUME NEW r \in Request, Refuse(r) \/ Announce(r) \/ AnnounceFailure(r) PROVE TypeOK'
    <2>1. pos' \in [Process -> Position]  BY <1>4, <1>p, <1>r, GotoType DEF Refuse, Announce, AnnounceFailure, Position
    <2>. QED  BY <1>3, <1>4, <2>1 DEF Refuse, Announce, AnnounceFailure, TypeOK, Position
  <1>5. ASSUME NEW r \in Request, Write(r) PROVE TypeOK'
    <2>1. PICK n \in 1..ChunkSize :
       /\ written[r] + n <= BodySize
       /\ written' = [written EXCEPT ![r] = @ + n]
       /\ data' = Append(data, [from |-> written[r] + 1, to |-> written[r] + n])
      BY <1>5 DEF Write
    <2>2. written[r] \in 0..BodySize  BY DEF TypeOK
    <2>3. written[r] + n \in 0..BodySize /\ written[r] + 1 \in 1..(BodySize + 1)  BY <2>1, <2>2, PipeAssumption
    <2>4. [from |-> written[r] + 1, to |-> written[r] + n] \in Slice  BY <2>3 DEF Slice
    <2>5. data \in Seq(Slice)  BY DEF TypeOK
    <2>6. data' \in Seq(Slice) /\ Len(data') = Len(data) + 1  BY <2>1, <2>4, <2>5
    <2>7. Len(data') <= PipeQueueLength  BY <1>5, <2>5, <2>6, PipeAssumption DEF Write
    <2>8. written' \in [Request -> 0..BodySize]  BY <2>1, <2>3 DEF TypeOK
    <2>. QED  BY <1>5, <2>6, <2>7, <2>8 DEF Write, TypeOK
  <1>6. ASSUME NEW r \in Request, UploadEnds(r) \/ UploadFails(r) \/ Close(r) PROVE TypeOK'
    <2>1. pos' \in [Process -> Position]  BY <1>6, <1>p, <1>r, GotoType DEF UploadEnds, UploadFails, Close, Position
    <2>. QED  BY <1>6, <2>1 DEF UploadEnds, UploadFails, Close, TypeOK, Position
  <1>7. ASSUME NEW p \in Process, TakeInfo(p) PROVE TypeOK'
    <2>1. pos' \in [Process -> Position]  BY <1>7, <1>p, <1>r, GotoType DEF TakeInfo, Position
    <2>. QED  BY <1>7, <2>1, DataType DEF TakeInfo, TypeOK, Position
  <1>8. ASSUME NEW p \in Process, ReadBuffered(p) \/ ReadData(p) PROVE TypeOK'
    <2>1. readBuf \in Slice  BY DEF TypeOK
    <2>2. received' \in [Process -> Seq(Byte)] /\ readBuf' \in Slice
      BY <1>8, <2>1, DataType, DeliverType DEF ReadBuffered, ReadData
    <2>3. data' \in Seq(Slice) /\ Len(data') <= PipeQueueLength
      BY <1>8, DataType DEF ReadBuffered, ReadData, TypeOK
    <2>. QED  BY <1>8, <2>2, <2>3 DEF ReadBuffered, ReadData, TypeOK
  <1>9. ASSUME NEW p \in Process, ReadInfo(p) PROVE TypeOK'
    BY <1>9, DataType DEF ReadInfo, TypeOK
  <1>10. ASSUME NEW p \in Process, CopyEnds(p) PROVE pos' \in [Process -> Position]
    BY <1>10, <1>p DEF CopyEnds, Position
  <1>11. ASSUME NEW p \in Process, ReadEnds(p) \/ TargetFails(p) PROVE TypeOK'
    <2>1. pos' \in [Process -> Position]  BY <1>10, <1>11 DEF ReadEnds, TargetFails
    <2>2. eof' \subseteq Process  BY <1>11 DEF ReadEnds, TargetFails, TypeOK
    <2>. QED  BY <1>11, <2>1, <2>2 DEF ReadEnds, TargetFails, TypeOK, Position
  <1>12. CASE UNCHANGED assetVars  BY <1>12 DEF assetVars, TypeOK
  <1>. QED  BY <1>1, <1>2, <1>4, <1>5, <1>6, <1>7, <1>8, <1>9, <1>11, <1>12 DEF AssetNext, UploadStep, ReadStep

\* Every reachable state of the pipe is well typed: no channel ever holds more
\* than its capacity.
THEOREM PipeTyped == AssetSpec => []TypeOK
  <1>1. AssetInit => TypeOK  BY TypeInit
  <1>2. TypeOK /\ [AssetNext]_assetVars => TypeOK'  BY TypeNext
  <1>. QED  BY <1>1, <1>2, PTL DEF AssetSpec

-----------------------------------------------------------------------------
(* One uploader and one reader.                                            *)

\* What a step of an upload does to the two ids' users.
LEMMA UploadMoves ==
  ASSUME TypeOK, NEW r \in Request, UploadStep(r) \/ UploadFails(r)
  PROVE  /\ told' = told /\ pipes' = pipes
         /\ \A q \in Process : q # r => pos'[q] = pos[q]
         /\ pos[r] \in {"refuse", "announce", "upload", "fail", "close"}
         /\ pos'[r] \in {"done", "upload", "fail", "close"}
         /\ \A s \in Request : (Uploading(s)' => Uploading(s)) /\ (Source(s)' => Source(s))
         /\ closed' => closed \/ (Uploading(r) /\ pos'[r] = "done")
  <1>p. pos \in [Process -> Position]  BY DEF TypeOK, Position
  <1>r. r \in Process  BY DEF Process
  <1>1. CASE Refuse(r) \/ Announce(r) \/ UploadEnds(r) \/ UploadFails(r) \/ AnnounceFailure(r) \/ Close(r)
    BY <1>1, <1>p, <1>r DEF Refuse, Announce, UploadEnds, UploadFails, AnnounceFailure, Close, Goto, Uploading, Source, Process
  <1>2. CASE Write(r)
    <2>1. \A s \in Request : s # r => written'[s] = written[s]  BY <1>2 DEF Write, TypeOK
    <2>. QED  BY <1>2, <2>1 DEF Write, Uploading, Source
  <1>. QED  BY <1>1, <1>2 DEF UploadStep

\* What a step of a reader does to them.
LEMMA ReadMoves ==
  ASSUME TypeOK, NEW p \in Process, ReadStep(p) \/ TargetFails(p)
  PROVE  /\ told' = told /\ pipes' = pipes /\ written' = written /\ closed' = closed
         /\ \A q \in Process : q # p => pos'[q] = pos[q]
         /\ Consuming(p)
         /\ pos'[p] \in {"read", "pump", "done"}
         /\ \A s \in Request : (Uploading(s)' <=> Uploading(s)) /\ (Source(s)' <=> Source(s))
  <1>p. pos \in [Process -> Position]  BY DEF TypeOK, Position
  <1>r. \A s \in Request : s \in Process  BY DEF Process
  <1>1. CASE TakeInfo(p)
    BY <1>1, <1>p, <1>r DEF TakeInfo, Goto, Consuming, Uploading, Source
  <1>2. CASE ReadBuffered(p) \/ ReadData(p) \/ ReadInfo(p)
    BY <1>2 DEF ReadBuffered, ReadData, ReadInfo, Reading, Consuming, Uploading, Source
  <1>3. CASE ReadEnds(p) \/ TargetFails(p)
    BY <1>3, <1>p, <1>r DEF ReadEnds, TargetFails, CopyEnds, Reading, Consuming, Uploading, Source
  <1>. QED  BY <1>1, <1>2, <1>3 DEF ReadStep

\* What a new request does to them.
LEMMA ServeMoves ==
  ASSUME TypeOK, NEW r \in Request, ServeHTTP(r)
  PROVE  \E i \in told :
           /\ told' = told /\ pipes' = pipes \ {i} /\ written' = written /\ closed' = closed
           /\ \A q \in Process : q # r => pos'[q] = pos[q]
           /\ pos[r] = "new" /\ pos'[r] \in {"refuse", "wait", "announce", "done"}
           /\ pos'[r] = "wait" => i = "in" /\ i \in pipes
           /\ pos'[r] = "announce" => i = "out" /\ i \in pipes
  <1>p. pos \in [Process -> Position]  BY DEF TypeOK, Position
  <1>r. r \in Process  BY DEF Process
  <1>1. PICK i \in told :
       /\ pipes' = pipes \ {i}
       /\ IF i \in pipes
          THEN \E method \in {"GET", "POST", "PUT"}, hasLength \in BOOLEAN :
                 /\ Goto(r, "new", Handler(i, method, hasLength))
                 /\ err' = IF pos'[r] = "refuse" THEN err \cup {r} ELSE err
          ELSE Goto(r, "new", "done") /\ UNCHANGED err
    BY DEF ServeHTTP
  <1>2. told' = told /\ written' = written /\ closed' = closed  BY DEF ServeHTTP
  <1>3. CASE i \in pipes
    <2>1. PICK m \in {"GET", "POST", "PUT"}, h \in BOOLEAN : Goto(r, "new", Handler(i, m, h))
      BY <1>1, <1>3
    <2>2. i \in {"in", "out"}  BY DEF TypeOK
    <2>3. /\ \A q \in Process : q # r => pos'[q] = pos[q]
          /\ pos[r] = "new" /\ pos'[r] = Handler(i, m, h)
      BY <2>1, <1>p, <1>r DEF Goto
    <2>. QED  BY <1>1, <1>2, <1>3, <2>2, <2>3, HandlerType
  <1>4. CASE i \notin pipes
    <2>1. /\ \A q \in Process : q # r => pos'[q] = pos[q]
          /\ pos[r] = "new" /\ pos'[r] = "done"
      BY <1>1, <1>4, <1>p, <1>r DEF Goto
    <2>. QED  BY <1>1, <1>2, <2>1
  <1>. QED  BY <1>3, <1>4

LEMMA UseInit == AssetInit => UseInv
  <1> SUFFICES ASSUME AssetInit PROVE UseInv  OBVIOUS
  <1>1. Dumper \in Process /\ Request \subseteq Process  BY DEF Process
  <1>2. \A r \in Request : ~Source(r)
    <2>1. SUFFICES ASSUME NEW r \in Request PROVE ~Source(r)  OBVIOUS
    <2>2. pos[r] = "new" /\ written[r] = 0  BY <1>1 DEF AssetInit
    <2>3. ~(written[r] > 0)  BY <2>2
    <2>4. ~Uploading(r)  BY <2>2 DEF Uploading
    <2>. QED  BY <2>3, <2>4 DEF Source
  <1>3. \A p \in Process : ~Consuming(p)  BY DEF AssetInit, Consuming
  <1>. QED  BY <1>1, <1>2, <1>3 DEF AssetInit, UseInv

LEMMA UseNext == TypeOK /\ UseInv /\ [AssetNext]_assetVars => UseInv'
  <1> SUFFICES ASSUME TypeOK, UseInv, [AssetNext]_assetVars PROVE UseInv'  OBVIOUS
  <1>d. Dumper \in Process /\ Request \subseteq Process /\ Dumper \notin Request
    BY PipeAssumption DEF Process
  <1>w. written \in [Request -> 0..BodySize]  BY DEF TypeOK
  <1>1. CASE MakePipe
    <2>1. told = {} /\ written' = written /\ closed' = closed /\ pipes' = {"in", "out"}  BY <1>1 DEF MakePipe
    <2>2. \A p \in Process : pos[p] = "new"  BY <2>1 DEF UseInv
    <2>3. \/ told' = {"in", "out"} /\ pos' = pos
          \/ told' = {"out"} /\ pos' = [pos EXCEPT ![Dumper] = "wait"]
      BY <1>1 DEF MakePipe, Goto
    <2>4. \A r \in Request : ~Source(r)  BY <2>1 DEF UseInv, Untouched
    <2>5. \A p \in Process : p # Dumper => pos'[p] = "new"  BY <2>2, <2>3 DEF TypeOK
    <2>6. pos'[Dumper] = "new" \/ (pos'[Dumper] = "wait" /\ told' = {"out"})
      BY <2>2, <2>3, <1>d DEF TypeOK
    <2>7. \A r \in Request : ~Source(r)'  BY <2>1, <2>4, <2>5, <1>d DEF Source, Uploading
    <2>8. ~closed  BY <2>1 DEF UseInv, Untouched
    <2>9. \A p \in Process : Consuming(p)' => p = Dumper  BY <2>5 DEF Consuming
    <2>10. told' # {}  BY <2>3
    <2>. QED  BY <2>1, <2>6, <2>7, <2>8, <2>9, <2>10, <1>d DEF UseInv
  <1>2. ASSUME NEW r \in Request, ServeHTTP(r) PROVE UseInv'
    <2>1. PICK i \in told :
           /\ told' = told /\ pipes' = pipes \ {i} /\ written' = written /\ closed' = closed
           /\ \A q \in Process : q # r => pos'[q] = pos[q]
           /\ pos[r] = "new" /\ pos'[r] \in {"refuse", "wait", "announce", "done"}
           /\ pos'[r] = "wait" => i = "in" /\ i \in pipes
           /\ pos'[r] = "announce" => i = "out" /\ i \in pipes
      BY <1>2, ServeMoves
    <2>2. told # {}  OBVIOUS
    <2>3. \A s \in Request : s # r => (Source(s)' <=> Source(s)) /\ (Uploading(s)' <=> Uploading(s))
      BY <2>1, <1>d DEF Source, Uploading
    <2>4. Source(r)' => Source(r) \/ pos'[r] = "announce"  BY <2>1 DEF Source, Uploading
    <2>5. Untouched' => Untouched  BY <2>1 DEF Untouched
    <2>6. pos'[r] = "announce" => Untouched /\ ~Untouched'  BY <2>1, <2>2 DEF Untouched
    <2>7. \A s \in Request : Source(s)' => ~Untouched'
      BY <2>3, <2>4, <2>5, <2>6 DEF UseInv
    <2>8. \A s, t \in Request : Source(s)' /\ Source(t)' => s = t
      BY <2>3, <2>4, <2>6 DEF UseInv
    <2>9. closed' => ~Untouched' /\ \A s \in Request : ~Uploading(s)'
      <3>1. Uploading(r)' => pos'[r] = "announce"  BY <2>1 DEF Uploading
      <3>. QED  BY <2>1, <2>3, <2>5, <2>6, <3>1 DEF UseInv
    <2>10. pos'[Dumper] = pos[Dumper]  BY <2>1, <1>d
    <2>11. \A p \in Process : p # r => (Consuming(p)' <=> Consuming(p))  BY <2>1 DEF Consuming
    <2>12. Consuming(r)' => pos'[r] = "wait"  BY <2>1 DEF Consuming
    <2>13. \A p \in Request : Consuming(p)' => "in" \in told' /\ "in" \notin pipes'
      BY <2>1, <2>11, <2>12, <1>d DEF UseInv
    <2>14. pos'[r] = "wait" => \A p \in Process : ~Consuming(p)
      <3>1. SUFFICES ASSUME pos'[r] = "wait" PROVE \A p \in Process : ~Consuming(p)  OBVIOUS
      <3>2. "in" \in pipes /\ "in" \in told  BY <2>1, <3>1
      <3>3. pos[Dumper] = "new"  BY <3>2 DEF UseInv
      <3>4. \A p \in Request : ~Consuming(p)  BY <3>2 DEF UseInv
      <3>. QED  BY <3>3, <3>4 DEF Process, Consuming
    <2>15. \A p, q \in Process : Consuming(p)' /\ Consuming(q)' => p = q
      BY <2>11, <2>12, <2>14 DEF UseInv
    <2>. QED  BY <2>1, <2>2, <2>7, <2>8, <2>9, <2>10, <2>13, <2>15 DEF UseInv
  <1>3. ASSUME NEW r \in Request, UploadStep(r) \/ UploadFails(r) PROVE UseInv'
    <2>1. /\ told' = told /\ pipes' = pipes
          /\ \A q \in Process : q # r => pos'[q] = pos[q]
          /\ pos[r] \in {"refuse", "announce", "upload", "fail", "close"}
          /\ pos'[r] \in {"done", "upload", "fail", "close"}
          /\ \A s \in Request : (Uploading(s)' => Uploading(s)) /\ (Source(s)' => Source(s))
          /\ closed' => closed \/ (Uploading(r) /\ pos'[r] = "done")
      BY <1>3, UploadMoves
    <2>2. \A p \in Process : (Consuming(p)' <=> Consuming(p))  BY <2>1 DEF Consuming
    <2>3. Untouched' <=> Untouched  BY <2>1 DEF Untouched
    <2>4. told # {}  BY <2>1, <1>d DEF UseInv
    <2>5. pos'[Dumper] = pos[Dumper]  BY <2>1, <1>d
    <2>6. closed' => ~Untouched /\ \A s \in Request : ~Uploading(s)'
      <3>1. ASSUME Uploading(r), pos'[r] = "done" PROVE ~Untouched /\ \A s \in Request : ~Uploading(s)'
        <4>1. Source(r)  BY <3>1 DEF Source
        <4>2. \A s \in Request : Uploading(s)' => s = r  BY <2>1, <4>1 DEF UseInv, Source
        <4>3. ~Uploading(r)'  BY <3>1 DEF Uploading
        <4>. QED  BY <4>1, <4>2, <4>3 DEF UseInv
      <3>2. ASSUME closed PROVE ~Untouched /\ \A s \in Request : ~Uploading(s)'
        BY <3>2, <2>1 DEF UseInv
      <3>. QED  BY <2>1, <3>1, <3>2
    <2>. QED  BY <2>1, <2>2, <2>3, <2>4, <2>5, <2>6, <1>d DEF UseInv
  <1>4. ASSUME NEW p \in Process, ReadStep(p) \/ TargetFails(p) PROVE UseInv'
    <2>1. /\ told' = told /\ pipes' = pipes /\ written' = written /\ closed' = closed
          /\ \A q \in Process : q # p => pos'[q] = pos[q]
          /\ Consuming(p)
          /\ pos'[p] \in {"read", "pump", "done"}
          /\ \A s \in Request : (Uploading(s)' <=> Uploading(s)) /\ (Source(s)' <=> Source(s))
      BY <1>4, ReadMoves
    <2>2. \A q \in Process : Consuming(q)' => Consuming(q)  BY <2>1 DEF Consuming
    <2>3. Untouched' <=> Untouched  BY <2>1 DEF Untouched
    <2>4. told # {}  BY <2>1 DEF UseInv, Consuming
    <2>5. pos'[Dumper] \in {"new", "wait", "read", "pump", "done"}  BY <2>1, <1>d DEF UseInv
    <2>6. pos'[Dumper] # "new" => pos[Dumper] # "new"  BY <2>1, <1>d DEF Consuming
    <2>. QED  BY <2>1, <2>2, <2>3, <2>4, <2>5, <2>6, <1>d DEF UseInv
  <1>5. CASE UNCHANGED assetVars
    BY <1>5 DEF assetVars, UseInv, Consuming, Source, Uploading, Untouched
  <1>. QED  BY <1>1, <1>2, <1>3, <1>4, <1>5 DEF AssetNext

\* The data channel is never used after it was closed, whatever requests come.
THEOREM NeverUsedAfterClose == AssetSpec => []NoUseAfterClose
  <1>1. AssetInit => TypeOK /\ UseInv  BY TypeInit, UseInit
  <1>2. TypeOK /\ UseInv /\ [AssetNext]_assetVars => (TypeOK /\ UseInv)'  BY TypeNext, UseNext
  <1>3. UseInv => NoUseAfterClose  BY DEF UseInv, NoUseAfterClose
  <1>. QED  BY <1>1, <1>2, <1>3, PTL DEF AssetSpec

-----------------------------------------------------------------------------
(* The flow of bytes.                                                      *)

\* Handing out the first n bytes of s, to which data is the continuation,
\* leaves a chain that starts n bytes later.
LEMMA HandOut ==
  ASSUME NEW p \in Process, NEW s \in Slice, NEW n \in 1..ReadSize,
         n <= Length(s), Deliver(p, s, n),
         data' # <<>> => data'[1].from = s.to + 1,
         data' = <<>> => \A r \in Request : Source(r)' => written'[r] = s.to,
         ~Untouched'
  PROVE  /\ Starts(s.from + n)'
         /\ Buffered' /\ data' # <<>> => data'[1].from = readBuf'.to + 1
         /\ Buffered' /\ data' = <<>> => \A r \in Request : Source(r)' => readBuf'.to = written'[r]
  <1>1. s.from \in Int /\ s.to \in Int /\ n \in Int /\ n > 0  BY PipeAssumption DEF Slice
  <1>2. CASE n < Length(s)
    <2>1. readBuf' = [from |-> s.from + n, to |-> s.to]  BY <1>2 DEF Deliver
    <2>2. readBuf'.from = s.from + n /\ readBuf'.to = s.to  BY <2>1
    <2>3. Buffered'  BY <1>1, <1>2, <2>2 DEF Buffered, Length
    <2>. QED  BY <2>2, <2>3 DEF Starts
  <1>3. CASE ~(n < Length(s))
    <2>1. readBuf' = [from |-> 1, to |-> 0]  BY <1>3 DEF Deliver, NoBytes
    <2>2. readBuf'.from = 1 /\ readBuf'.to = 0  BY <2>1
    <2>3. ~Buffered'  BY <2>2 DEF Buffered, Length
    <2>4. n = s.to - s.from + 1  BY <1>1, <1>3 DEF Length
    <2>5. s.from + n = s.to + 1  BY <1>1, <2>4
    <2>. QED  BY <2>3, <2>5 DEF Starts
  <1>. QED  BY <1>2, <1>3

\* A step that moves no bytes keeps the chain; a new uploader starts from
\* nothing.
LEMMA ChainKept ==
  ASSUME TypeOK, UseInv, FlowInv, UNCHANGED <<data, readBuf, written>>,
         Untouched' => Untouched,
         \A r \in Request : Source(r)' => Source(r) \/ Untouched
  PROVE  /\ Chained'
         /\ \A n : Starts(n) => Starts(n)'
         /\ Untouched' => data' = <<>> /\ ~Buffered'
  <1>1. Buffered' <=> Buffered  BY DEF Buffered, Length
  <1>2. ASSUME NEW r \in Request, Source(r)', ~Source(r) PROVE written[r] = 0 /\ data = <<>> /\ ~Buffered
    <2>1. written[r] \in Nat  BY PipeAssumption DEF TypeOK
    <2>2. ~(written[r] > 0)  BY <1>2 DEF Source
    <2>. QED  BY <1>2, <2>1, <2>2 DEF FlowInv
  <1>3. Chained'  BY <1>1, <1>2 DEF Chained, FlowInv
  <1>4. ASSUME NEW n, Starts(n) PROVE Starts(n)'
    <2>1. ASSUME NEW r \in Request, Source(r)', ~Buffered, data = <<>> PROVE n = written[r] + 1
      <3>1. CASE Source(r)  BY <1>4, <2>1, <3>1 DEF Starts
      <3>2. CASE ~Source(r)
        <4>1. n = 1  BY <1>4, <2>1, <3>2 DEF Starts
        <4>2. written[r] = 0  BY <1>2, <2>1, <3>2
        <4>. QED  BY <4>1, <4>2
      <3>. QED  BY <3>1, <3>2
    <2>. QED  BY <1>1, <1>4, <2>1 DEF Starts
  <1>5. Untouched' => data' = <<>> /\ ~Buffered'  BY <1>1 DEF FlowInv
  <1>. QED  BY <1>3, <1>4, <1>5

LEMMA FlowInit == AssetInit => FlowInv
  <1> SUFFICES ASSUME AssetInit PROVE FlowInv  OBVIOUS
  <1>1. readBuf.from = 1 /\ readBuf.to = 0  BY DEF AssetInit, NoBytes
  <1>2. ~Buffered  BY <1>1 DEF Buffered, Length
  <1>3. data = <<>> /\ Len(data) = 0  BY DEF AssetInit
  <1>4. \A r \in Request : ~Source(r)
    <2>1. SUFFICES ASSUME NEW r \in Request PROVE ~Source(r)  OBVIOUS
    <2>2. pos[r] = "new" /\ written[r] = 0  BY DEF AssetInit, Process
    <2>3. ~(written[r] > 0)  BY <2>2
    <2>4. ~Uploading(r)  BY <2>2 DEF Uploading
    <2>. QED  BY <2>3, <2>4 DEF Source
  <1>5. Chained  BY <1>2, <1>3, <1>4 DEF Chained
  <1>6. Starts(1)  BY <1>2, <1>3, <1>4 DEF Starts
  <1>7. \A p \in Process : received[p] = <<>> /\ pos[p] # "read"  BY DEF AssetInit
  <1>. QED  BY <1>2, <1>3, <1>5, <1>6, <1>7 DEF FlowInv

\* Writing appends the slice that follows the last byte written.
LEMMA WriteFlow ==
  ASSUME TypeOK, UseInv, FlowInv, NEW r \in Request, Write(r)
  PROVE  FlowInv'
  <1>1. PICK n \in 1..ChunkSize :
       /\ written[r] + n <= BodySize
       /\ written' = [written EXCEPT ![r] = @ + n]
       /\ data' = Append(data, [from |-> written[r] + 1, to |-> written[r] + n])
    BY DEF Write
  <1> DEFINE new == [from |-> written[r] + 1, to |-> written[r] + n]
  <1>2. written[r] \in Nat /\ n \in Nat /\ n > 0 /\ written'[r] = written[r] + n
    BY <1>1, PipeAssumption DEF TypeOK
  <1>3. UNCHANGED <<pos, told, pipes, readBuf, received>>  BY DEF Write
  <1>4. Source(r) /\ \A s \in Request : s # r => ~Source(s)
    BY DEF Write, Source, Uploading, UseInv
  <1>5. \A s \in Request : s # r => written'[s] = written[s]  BY <1>1 DEF TypeOK
  <1>6. \A s \in Request : Source(s)' => s = r  BY <1>3, <1>4, <1>5 DEF Source, Uploading
  <1>7. ~Untouched /\ ~Untouched'  BY <1>3, <1>4 DEF UseInv, Untouched
  <1>8. Buffered' <=> Buffered  BY <1>3 DEF Buffered, Length
  <1>9. data \in Seq(Slice)  BY DEF TypeOK
  <1>10. /\ Len(data') = Len(data) + 1 /\ data' # <<>> /\ Len(data) \in Nat
         /\ data'[Len(data')] = new
         /\ \A k \in 1..Len(data) : data'[k] = data[k]
    <2>1. new \in Slice
      <3>1. written[r] + 1 \in 1..(BodySize + 1) /\ written[r] + n \in 0..BodySize
        BY <1>1, <1>2, PipeAssumption
      <3>. QED  BY <3>1 DEF Slice
    <2>. QED  BY <1>1, <1>9, <2>1
  <1>11. data # <<>> => Len(data) >= 1 /\ data'[1] = data[1]  BY <1>9, <1>10
  <1>12. data = <<>> => Len(data) = 0 /\ data'[1] = new  BY <1>10
  <1>13. new.from = written[r] + 1 /\ new.to = written[r] + n  OBVIOUS
  <1>14. data # <<>> => data[Len(data)].to = written[r]  BY <1>4 DEF FlowInv, Chained
  <1>15. Buffered /\ data = <<>> => readBuf.to = written[r]  BY <1>4 DEF FlowInv, Chained
  <1>16. Chained'
    <2> HIDE DEF new
    <2>1. \A k \in 1..Len(data') : data'[k].from <= data'[k].to
      <3>1. SUFFICES ASSUME NEW k \in 1..Len(data') PROVE data'[k].from <= data'[k].to  OBVIOUS
      <3>2. CASE k \in 1..Len(data)  BY <1>10, <3>2 DEF FlowInv, Chained
      <3>3. CASE k = Len(data')  BY <1>2, <1>10, <1>13, <3>3
      <3>. QED  BY <1>10, <3>2, <3>3
    <2>2. \A k \in 1..(Len(data') - 1) : data'[k + 1].from = data'[k].to + 1
      <3>1. SUFFICES ASSUME NEW k \in 1..(Len(data') - 1) PROVE data'[k + 1].from = data'[k].to + 1  OBVIOUS
      <3>2. CASE k \in 1..(Len(data) - 1)
        <4>1. k \in 1..Len(data) /\ k + 1 \in 1..Len(data)  BY <1>10, <3>2
        <4>2. data[k + 1].from = data[k].to + 1  BY <3>2 DEF FlowInv, Chained
        <4>. QED  BY <1>10, <4>1, <4>2
      <3>3. CASE k = Len(data)
        <4>1. Len(data) # 0 /\ data # <<>> /\ k \in 1..Len(data)  BY <1>10, <1>12, <3>1, <3>3
        <4>2. data'[k + 1] = new /\ data'[k] = data[Len(data)]  BY <1>10, <3>3, <4>1
        <4>. QED  BY <1>13, <1>14, <4>1, <4>2
      <3>. QED  BY <1>10, <3>2, <3>3
    <2>3. Buffered' /\ data' # <<>> => data'[1].from = readBuf'.to + 1
      BY <1>3, <1>8, <1>11, <1>12, <1>13, <1>15 DEF FlowInv, Chained
    <2>4. data'[Len(data')].to = written'[r]  BY <1>2, <1>10, <1>13
    <2>. QED  BY <1>6, <1>10, <2>1, <2>2, <2>3, <2>4 DEF Chained
  <1>17. ASSUME NEW m, Starts(m) PROVE Starts(m)'
    <2> HIDE DEF new
    <2>. QED  BY <1>3, <1>4, <1>8, <1>10, <1>11, <1>12, <1>13, <1>17 DEF Starts
  <1>18. Unstarted' => Unstarted  BY <1>3 DEF Unstarted
  <1>. QED  BY <1>3, <1>7, <1>8, <1>16, <1>17, <1>18 DEF FlowInv

\* What a reader gets is appended to what it has, or thrown away.
LEMMA Delivered ==
  ASSUME TypeOK, NEW p \in Process, NEW s \in Slice, NEW n \in 1..ReadSize, Deliver(p, s, n)
  PROVE  /\ \A q \in Process : q # p \/ pos[q] # "read" => received'[q] = received[q]
         /\ pos[p] = "read" =>
              /\ Len(received'[p]) = Len(received[p]) + n
              /\ \A k \in 1..Len(received[p]) : received'[p][k] = received[p][k]
              /\ \A k \in 1..n : received'[p][Len(received[p]) + k] = s.from + k - 1
  <1>1. received \in [Process -> Seq(Byte)]  BY DEF TypeOK
  <1>2. \A q \in Process : q # p \/ pos[q] # "read" => received'[q] = received[q]
    BY <1>1 DEF Deliver
  <1>3. ASSUME pos[p] = "read"
        PROVE  /\ Len(received'[p]) = Len(received[p]) + n
               /\ \A k \in 1..Len(received[p]) : received'[p][k] = received[p][k]
               /\ \A k \in 1..n : received'[p][Len(received[p]) + k] = s.from + k - 1
    <2> DEFINE old == received[p]
               part == [k \in 1..n |-> s.from + k - 1]
    <2>1. received'[p] = old \o part  BY <1>1, <1>3 DEF Deliver
    <2>2. s.from \in Int /\ n \in Nat  BY PipeAssumption DEF Slice
    <2>3. part \in [1..n -> Int]  BY <2>2
    <2>4. part \in Seq(Int) /\ Len(part) = n  BY <2>2, <2>3
    <2>5. old \in Seq(Int)
      <3>1. old \in Seq(Byte)  BY <1>1
      <3>2. Len(old) \in Nat /\ old \in [1..Len(old) -> Byte]  BY <3>1
      <3>3. old \in [1..Len(old) -> Int]  BY <3>2 DEF Byte
      <3>. QED  BY <3>2, <3>3
    <2>6. \A k \in 1..n : part[k] = s.from + k - 1  OBVIOUS
    <2> HIDE DEF old, part
    <2>7. /\ Len(old \o part) = Len(old) + Len(part)
          /\ \A k \in 1..Len(old) : (old \o part)[k] = old[k]
          /\ \A k \in 1..Len(part) : (old \o part)[Len(old) + k] = part[k]
      BY <2>4, <2>5
    <2>. QED  BY <2>1, <2>4, <2>6, <2>7 DEF old
  <1>. QED  BY <1>2, <1>3

\* Handing out bytes keeps the flow: s, the slice they are taken from, is what
\* the pipe starts with, and data' continues it.
LEMMA ReadFlow ==
  ASSUME TypeOK, UseInv, FlowInv, NEW p \in Process, Reading(p),
         NEW s \in Slice, NEW n \in 1..ReadSize, n <= Length(s), Deliver(p, s, n),
         UNCHANGED <<told, pipes, pos, written>>,
         \A m : Starts(m) => s.from = m,
         data' # <<>> => data'[1].from = s.to + 1,
         data' = <<>> => \A r \in Request : Source(r)' => written'[r] = s.to,
         \A k \in 1..Len(data') : data'[k].from <= data'[k].to,
         \A k \in 1..(Len(data') - 1) : data'[k + 1].from = data'[k].to + 1,
         \A r \in Request : Source(r)' /\ data' # <<>> => data'[Len(data')].to = written'[r],
         ~Untouched
  PROVE  FlowInv'
  <1>1. ~Untouched'  BY DEF Untouched
  <1>2. /\ Starts(s.from + n)'
        /\ Buffered' /\ data' # <<>> => data'[1].from = readBuf'.to + 1
        /\ Buffered' /\ data' = <<>> => \A r \in Request : Source(r)' => readBuf'.to = written'[r]
    BY <1>1, HandOut
  <1>3. Chained'  BY <1>2 DEF Chained
  <1>4. Consuming(p) /\ pos[p] \in {"read", "pump"}  BY DEF Reading, Consuming
  <1>5. \A q \in Process : pos[q] = "read" \/ pos[q] = "wait" => q = p
    BY <1>4 DEF UseInv, Consuming
  <1>6. ~Unstarted'
    <2>1. told # {}  BY <1>4 DEF UseInv
    <2>2. p \in Request => "in" \notin pipes  BY <1>4 DEF UseInv
    <2>3. p = Dumper => pos[Dumper] # "new"  BY <1>4
    <2>4. \A q \in Process : pos[q] # "wait"  BY <1>4, <1>5
    <2>. QED  BY <2>1, <2>2, <2>3, <2>4 DEF Unstarted, Process
  <1>7. \A q \in Process : pos'[q] \in {"new", "wait"} => received'[q] = <<>>
    <2>1. \A q \in Process : q # p \/ pos[q] # "read" => received'[q] = received[q]  BY Delivered
    <2>. QED  BY <1>4, <2>1 DEF FlowInv
  <1>8. ASSUME pos[p] = "read" PROVE Starts(Len(received[p]) + 1)'
    <2>1. s.from = Len(received[p]) + 1  BY <1>8 DEF FlowInv
    <2>2. Len(received'[p]) = Len(received[p]) + n  BY <1>8, Delivered
    <2>3. received[p] \in Seq(Byte) /\ n \in Int  BY DEF TypeOK
    <2>4. Len(received[p]) \in Int  BY <2>3
    <2>5. Len(received'[p]) + 1 = s.from + n  BY <2>1, <2>2, <2>3, <2>4
    <2>. QED  BY <1>2, <2>5 DEF Starts
  <1>9. \A q \in Process : pos'[q] = "read" => Starts(Len(received[q]) + 1)'
    BY <1>5, <1>8
  <1>10. pos' = pos  OBVIOUS
  <1>. QED  BY <1>1, <1>3, <1>6, <1>7, <1>9, <1>10 DEF FlowInv

LEMMA ReadBufferedFlow ==
  ASSUME TypeOK, UseInv, FlowInv, NEW p \in Process, ReadBuffered(p)
  PROVE  FlowInv'
  <1>1. PICK n \in 1..ReadSize : n <= Length(readBuf) /\ Deliver(p, readBuf, n)
    BY DEF ReadBuffered
  <1>2. Reading(p) /\ Buffered /\ UNCHANGED <<told, pipes, pos, written, data>>
    BY DEF ReadBuffered, Buffered
  <1>3. readBuf \in Slice  BY DEF TypeOK
  <1>4. \A r \in Request : Source(r)' <=> Source(r)  BY <1>2 DEF Source, Uploading
  <1>5. \A m : Starts(m) => readBuf.from = m  BY <1>2 DEF Starts
  <1>6. ~Untouched  BY <1>2 DEF FlowInv
  <1>. QED  BY <1>1, <1>2, <1>3, <1>4, <1>5, <1>6, ReadFlow DEF FlowInv, Chained

LEMMA ReadDataFlow ==
  ASSUME TypeOK, UseInv, FlowInv, NEW p \in Process, ReadData(p)
  PROVE  FlowInv'
  <1>1. PICK n \in 1..ReadSize : n <= Length(Head(data)) /\ Deliver(p, Head(data), n)
    BY DEF ReadData
  <1>2. Reading(p) /\ ~Buffered /\ data # <<>> /\ data' = Tail(data) /\ UNCHANGED <<told, pipes, pos, written>>
    <2>1. readBuf.from \in Int /\ readBuf.to \in Int  BY DEF TypeOK, Slice
    <2>. QED  BY <2>1 DEF ReadData, Buffered, Length
  <1>3. data \in Seq(Slice)  BY DEF TypeOK
  <1>4. /\ Head(data) = data[1] /\ Head(data) \in Slice
        /\ Len(data) \in Nat /\ Len(data) >= 1 /\ Len(data') = Len(data) - 1
        /\ \A k \in 1..Len(data') : data'[k] = data[k + 1]
        /\ data' = <<>> <=> Len(data) = 1
    <2>1. Head(data) = data[1] /\ Head(data) \in Slice  BY <1>2, <1>3
    <2>2. Len(data) \in Nat /\ Len(data) # 0  BY <1>2, <1>3
    <2>3. Tail(data) \in Seq(Slice) /\ Len(Tail(data)) = Len(data) - 1  BY <1>2, <1>3
    <2>4. \A k \in 1..Len(Tail(data)) : Tail(data)[k] = data[k + 1]  BY <1>2, <1>3
    <2> DEFINE rest == Tail(data)
    <2>5. rest = <<>> <=> Len(rest) = 0
      <3>1. rest \in Seq(Slice)  BY <2>3
      <3>. HIDE DEF rest
      <3>. QED  BY <3>1
    <2>. QED  BY <1>2, <2>1, <2>2, <2>3, <2>4, <2>5
  <1>5. \A r \in Request : Source(r)' <=> Source(r)  BY <1>2 DEF Source, Uploading
  <1>6. \A m : Starts(m) => Head(data).from = m  BY <1>2, <1>4 DEF Starts
  <1>7. ~Untouched  BY <1>2 DEF FlowInv
  <1>8. data' # <<>> => data'[1].from = Head(data).to + 1
    <2>1. SUFFICES ASSUME data' # <<>> PROVE data'[1].from = Head(data).to + 1  OBVIOUS
    <2>2. 1 \in 1..(Len(data) - 1) /\ 1 \in 1..Len(data')  BY <1>4, <2>1
    <2>3. data[1 + 1].from = data[1].to + 1  BY <2>2 DEF FlowInv, Chained
    <2>4. data'[1] = data[1 + 1]  BY <1>4, <2>2
    <2>. QED  BY <1>4, <2>3, <2>4
  <1>9. data' = <<>> => \A r \in Request : Source(r)' => written'[r] = Head(data).to
    BY <1>2, <1>4, <1>5 DEF FlowInv, Chained
  <1>10. \A k \in 1..Len(data') : data'[k].from <= data'[k].to
    <2>1. SUFFICES ASSUME NEW k \in 1..Len(data') PROVE data'[k].from <= data'[k].to  OBVIOUS
    <2>2. k + 1 \in 1..Len(data)  BY <1>4, <2>1
    <2>3. data[k + 1].from <= data[k + 1].to  BY <2>2 DEF FlowInv, Chained
    <2>. QED  BY <1>4, <2>3
  <1>11. \A k \in 1..(Len(data') - 1) : data'[k + 1].from = data'[k].to + 1
    <2>1. SUFFICES ASSUME NEW k \in 1..(Len(data') - 1) PROVE data'[k + 1].from = data'[k].to + 1  OBVIOUS
    <2>2. k + 1 \in 1..(Len(data) - 1) /\ k \in 1..Len(data') /\ k + 1 \in 1..Len(data')  BY <1>4, <2>1
    <2>3. data[(k + 1) + 1].from = data[k + 1].to + 1  BY <2>2 DEF FlowInv, Chained
    <2>. QED  BY <1>4, <2>2, <2>3
  <1>12. \A r \in Request : Source(r)' /\ data' # <<>> => data'[Len(data')].to = written'[r]
    <2>1. data' # <<>> => data'[Len(data')] = data[Len(data)]
      <3>1. SUFFICES ASSUME data' # <<>> PROVE data'[Len(data')] = data[Len(data)]  OBVIOUS
      <3>2. Len(data') \in 1..Len(data') /\ Len(data') + 1 = Len(data)  BY <1>4, <3>1
      <3>. QED  BY <1>4, <3>2
    <2>. QED  BY <1>2, <1>5, <2>1 DEF FlowInv, Chained
  <1>. QED  BY <1>1, <1>2, <1>4, <1>6, <1>7, <1>8, <1>9, <1>10, <1>11, <1>12, ReadFlow

LEMMA FlowNext == TypeOK /\ UseInv /\ FlowInv /\ [AssetNext]_assetVars => FlowInv'
  <1> SUFFICES ASSUME TypeOK, UseInv, FlowInv, [AssetNext]_assetVars PROVE FlowInv'  OBVIOUS
  <1>d. Dumper \in Process /\ Request \subseteq Process /\ Dumper \notin Request
    BY PipeAssumption DEF Process
  \* Steps that hand out nothing differ in who may read from where.
  <1>k. ASSUME UNCHANGED <<data, readBuf, written, received>>,
               Untouched' => Untouched,
               \A r \in Request : Source(r)' => Source(r) \/ Untouched,
               Unstarted' => Unstarted,
               \A p \in Process : pos'[p] \in {"new", "wait"} => pos[p] \in {"new", "wait"},
               \A p \in Process : pos'[p] = "read" => pos[p] \in {"read", "wait"}
        PROVE  FlowInv'
    <2>1. /\ Chained'
          /\ \A n : Starts(n) => Starts(n)'
          /\ Untouched' => data' = <<>> /\ ~Buffered'
      BY <1>k, ChainKept
    <2>2. Buffered' <=> Buffered  BY <1>k DEF Buffered, Length
    <2>3. ASSUME NEW p \in Process, pos'[p] = "read" PROVE Starts(Len(received[p]) + 1)'
      <3>1. Starts(Len(received[p]) + 1)
        <4>1. CASE pos[p] = "read"  BY <4>1 DEF FlowInv
        <4>2. CASE pos[p] = "wait"
          <5>1. Starts(1) /\ received[p] = <<>>  BY <4>2 DEF FlowInv, Unstarted
          <5>2. Len(received[p]) + 1 = 1  BY <5>1
          <5>. QED  BY <5>1, <5>2
        <4>. QED  BY <1>k, <2>3, <4>1, <4>2
      <3>2. received' = received  BY <1>k
      <3> DEFINE m == Len(received[p]) + 1
      <3>3. m' = m  BY <3>2
      <3>4. (Starts(m))'
        <4>1. \A n : Starts(n) => Starts(n)'  BY <2>1
        <4>. QED  BY <3>1, <3>3, <4>1 DEF Starts
      <3>. QED  BY <3>4
    <2>4. \A p \in Process : pos'[p] \in {"new", "wait"} => received'[p] = <<>>
      BY <1>k DEF FlowInv
    <2>5. Unstarted' => ~Buffered' /\ Starts(1)'  BY <1>k, <2>1, <2>2 DEF FlowInv
    <2>. QED  BY <2>1, <2>3, <2>4, <2>5 DEF FlowInv
  <1>1. CASE MakePipe
    <2>1. told = {} /\ UNCHANGED <<data, readBuf, written, received>>  BY <1>1 DEF MakePipe
    <2>2. \A p \in Process : pos[p] = "new"  BY <2>1 DEF UseInv
    <2>3. \A p \in Process : pos'[p] \in {"new", "wait"}
      BY <1>1, <2>2, <1>d DEF MakePipe, Goto, TypeOK
    <2>. QED  BY <1>k, <2>1, <2>2, <2>3 DEF Untouched, Unstarted
  <1>2. ASSUME NEW r \in Request, ServeHTTP(r) PROVE FlowInv'
    <2>1. PICK i \in told :
           /\ told' = told /\ pipes' = pipes \ {i} /\ written' = written /\ closed' = closed
           /\ \A q \in Process : q # r => pos'[q] = pos[q]
           /\ pos[r] = "new" /\ pos'[r] \in {"refuse", "wait", "announce", "done"}
           /\ pos'[r] = "wait" => i = "in" /\ i \in pipes
           /\ pos'[r] = "announce" => i = "out" /\ i \in pipes
      BY <1>2, ServeMoves
    <2>2. UNCHANGED <<data, readBuf, written, received>>  BY <1>2 DEF ServeHTTP
    <2>3. Untouched' => Untouched  BY <2>1 DEF Untouched
    <2>4. \A s \in Request : Source(s)' => Source(s) \/ Untouched
      <3>1. \A s \in Request : s # r => (Source(s)' => Source(s))  BY <2>1, <1>d DEF Source, Uploading
      <3>2. Source(r)' => Source(r) \/ pos'[r] = "announce"  BY <2>1 DEF Source, Uploading
      <3>3. pos'[r] = "announce" => Untouched  BY <2>1 DEF Untouched
      <3>. QED  BY <3>1, <3>2, <3>3
    <2>5. Unstarted' => Unstarted
      <3>1. pos'[r] = "wait" => Unstarted
        <4>1. pos'[r] = "wait" => "in" \in told /\ "in" \in pipes  BY <2>1
        <4>2. "in" \in told => pos[Dumper] = "new"  BY DEF UseInv
        <4>. QED  BY <4>1, <4>2 DEF Unstarted
      <3>. QED  BY <2>1, <3>1, <1>d DEF Unstarted
    <2>6. \A p \in Process : pos'[p] = "read" => pos[p] = "read"  BY <2>1
    <2>7. \A p \in Process : pos'[p] \in {"new", "wait"} => pos[p] \in {"new", "wait"}  BY <2>1
    <2>. QED  BY <1>k, <2>2, <2>3, <2>4, <2>5, <2>6, <2>7
  <1>3. ASSUME NEW r \in Request, UploadStep(r) \/ UploadFails(r), ~Write(r) PROVE FlowInv'
    <2>1. UNCHANGED <<data, readBuf, written, received>>
      BY <1>3 DEF UploadStep, Refuse, Announce, UploadEnds, UploadFails, AnnounceFailure, Close
    <2>2. /\ told' = told /\ pipes' = pipes
          /\ \A q \in Process : q # r => pos'[q] = pos[q]
          /\ pos'[r] \in {"done", "upload", "fail", "close"}
          /\ \A s \in Request : Source(s)' => Source(s)
      BY <1>3, UploadMoves
    <2>3. Untouched' => Untouched  BY <2>2 DEF Untouched
    <2>4. Unstarted' => Unstarted  BY <2>2, <1>d DEF Unstarted
    <2>5. \A p \in Process : pos'[p] = "read" => pos[p] = "read"  BY <2>2
    <2>6. \A p \in Process : pos'[p] \in {"new", "wait"} => pos[p] \in {"new", "wait"}  BY <2>2
    <2>. QED  BY <1>k, <2>1, <2>2, <2>3, <2>4, <2>5, <2>6
  <1>4. ASSUME NEW p \in Process, ReadStep(p) \/ TargetFails(p), ~ReadBuffered(p), ~ReadData(p) PROVE FlowInv'
    <2>1. UNCHANGED <<data, readBuf, written, received>>
      BY <1>4 DEF ReadStep, TakeInfo, ReadInfo, ReadEnds, TargetFails
    <2>2. /\ told' = told /\ pipes' = pipes
          /\ \A q \in Process : q # p => pos'[q] = pos[q]
          /\ Consuming(p)
          /\ pos'[p] \in {"read", "pump", "done"}
          /\ \A s \in Request : Source(s)' => Source(s)
      BY <1>4, ReadMoves
    <2>3. Untouched' => Untouched  BY <2>2 DEF Untouched
    <2>4. Unstarted' => Unstarted  BY <2>2, <1>d DEF Unstarted, Consuming
    <2>5. pos'[p] = "read" => pos[p] \in {"read", "wait"}
      BY <1>4 DEF ReadStep, TakeInfo, ReadInfo, ReadEnds, TargetFails, Goto, CopyEnds, Reading, TypeOK
    <2>6. \A q \in Process : pos'[q] = "read" => pos[q] \in {"read", "wait"}  BY <2>2, <2>5
    <2>7. \A q \in Process : pos'[q] \in {"new", "wait"} => pos[q] \in {"new", "wait"}  BY <2>2
    <2>. QED  BY <1>k, <2>1, <2>2, <2>3, <2>4, <2>6, <2>7
  <1>5. CASE UNCHANGED assetVars
    BY <1>5, <1>k DEF assetVars, Untouched, Source, Uploading, Unstarted
  <1>. QED  BY <1>1, <1>2, <1>3, <1>4, <1>5, WriteFlow, ReadBufferedFlow, ReadDataFlow DEF AssetNext, UploadStep, ReadStep

\* What a reader has is the beginning of the body.
LEMMA OrderNext == TypeOK /\ UseInv /\ FlowInv /\ InOrder /\ [AssetNext]_assetVars => InOrder'
  <1> SUFFICES ASSUME TypeOK, UseInv, FlowInv, InOrder, [AssetNext]_assetVars PROVE InOrder'  OBVIOUS
  <1>1. ASSUME NEW p \in Process, NEW s \in Slice, NEW n \in 1..ReadSize, Deliver(p, s, n),
               \A m : Starts(m) => s.from = m
        PROVE  InOrder'
    <2>1. SUFFICES ASSUME NEW q \in Process, NEW k \in DOMAIN received'[q] PROVE received'[q][k] = k
      BY DEF InOrder
    <2>2. CASE q # p \/ pos[q] # "read"
      <3>1. received'[q] = received[q]  BY <1>1, <2>2, Delivered
      <3>. QED  BY <3>1, <2>1 DEF InOrder
    <2>3. CASE q = p /\ pos[p] = "read"
      <3>1. /\ Len(received'[p]) = Len(received[p]) + n
            /\ \A j \in 1..Len(received[p]) : received'[p][j] = received[p][j]
            /\ \A j \in 1..n : received'[p][Len(received[p]) + j] = s.from + j - 1
        BY <1>1, <2>3, Delivered
      <3>2. s.from = Len(received[p]) + 1  BY <1>1, <2>3 DEF FlowInv
      <3>3. received[p] \in Seq(Byte)  BY DEF TypeOK
      <3>4. Len(received[p]) \in Nat /\ DOMAIN received[p] = 1..Len(received[p])  BY <3>3
      <3>5. received'[p] \in Seq(Byte)
        <4>1. TypeOK'  BY TypeNext
        <4>. QED  BY <4>1 DEF TypeOK
      <3>6. k \in 1..(Len(received[p]) + n)  BY <2>1, <2>3, <3>1, <3>5
      <3>7. n \in Nat  BY PipeAssumption
      <3>8. CASE k \in 1..Len(received[p])  BY <2>3, <3>1, <3>4, <3>8 DEF InOrder
      <3>9. CASE k \notin 1..Len(received[p])
        <4> DEFINE j == k - Len(received[p])
        <4>1. j \in 1..n /\ k = Len(received[p]) + j  BY <3>4, <3>6, <3>7, <3>9
        <4>2. received'[p][k] = s.from + j - 1  BY <3>1, <4>1
        <4>. QED  BY <2>3, <3>2, <3>4, <4>1, <4>2
      <3>. QED  BY <3>8, <3>9
    <2>. QED  BY <2>2, <2>3
  <1>2. ASSUME NEW p \in Process, ReadBuffered(p) PROVE InOrder'
    <2>1. PICK n \in 1..ReadSize : Deliver(p, readBuf, n)  BY <1>2 DEF ReadBuffered
    <2>2. readBuf \in Slice  BY DEF TypeOK
    <2>3. \A m : Starts(m) => readBuf.from = m  BY <1>2 DEF ReadBuffered, Starts, Buffered
    <2>. QED  BY <1>1, <2>1, <2>2, <2>3
  <1>3. ASSUME NEW p \in Process, ReadData(p) PROVE InOrder'
    <2>1. PICK n \in 1..ReadSize : Deliver(p, Head(data), n)  BY <1>3 DEF ReadData
    <2>2. data # <<>> /\ Head(data) \in Slice  BY <1>3, DataType DEF ReadData
    <2>3. ~Buffered
      <3>1. Length(readBuf) = 0  BY <1>3 DEF ReadData
      <3>. QED  BY <3>1 DEF Buffered
    <2>4. Head(data) = data[1]
      <3>1. data \in Seq(Slice)  BY DEF TypeOK
      <3>. QED  BY <2>2, <3>1
    <2>5. \A m : Starts(m) => Head(data).from = m  BY <2>2, <2>3, <2>4 DEF Starts
    <2>. QED  BY <1>1, <2>1, <2>2, <2>5
  <1>4. CASE UNCHANGED received  BY <1>4 DEF InOrder
  <1>. QED
    BY <1>2, <1>3, <1>4
    DEF AssetNext, assetVars, MakePipe, ServeHTTP, UploadStep, ReadStep, Refuse, Announce, Write, UploadEnds,
        UploadFails, AnnounceFailure, Close, TakeInfo, ReadInfo, ReadEnds, TargetFails

\* For every body, however it is cut into slices and whoever fails: a reader has
\* a beginning of the body and nothing else.
THEOREM BytesInOrder == AssetSpec => []InOrder
  <1>1. AssetInit => TypeOK /\ UseInv /\ FlowInv /\ InOrder
    <2>1. AssetInit => InOrder  BY DEF AssetInit, InOrder
    <2>. QED  BY <2>1, TypeInit, UseInit, FlowInit
  <1>2. TypeOK /\ UseInv /\ FlowInv /\ InOrder /\ [AssetNext]_assetVars => (TypeOK /\ UseInv /\ FlowInv /\ InOrder)'
    BY TypeNext, UseNext, FlowNext, OrderNext
  <1>. QED  BY <1>1, <1>2, PTL DEF AssetSpec

LEMMA EndInit == AssetInit => EndInv /\ CompleteAtEnd
  BY DEF AssetInit, EndInv, CompleteAtEnd, Process

LEMMA EndNext ==
  TypeOK /\ UseInv /\ FlowInv /\ EndInv /\ CompleteAtEnd /\ [AssetNext]_assetVars => (EndInv /\ CompleteAtEnd)'
  <1> SUFFICES ASSUME TypeOK, UseInv, FlowInv, EndInv, CompleteAtEnd, [AssetNext]_assetVars
               PROVE  (EndInv /\ CompleteAtEnd)'
    OBVIOUS
  <1>d. Request \subseteq Process /\ Dumper \notin Request  BY PipeAssumption DEF Process
  <1>e. TypeOK'  BY TypeNext
  <1>k. ASSUME err \subseteq err', eof' = eof, UNCHANGED received,
               \A p \in eof : pos'[p] \in {"pump", "done"}
        PROVE  CompleteAtEnd' /\ \A p \in eof' : pos'[p] \in {"pump", "done"}
    BY <1>k DEF CompleteAtEnd
  <1>1. CASE MakePipe
    <2>1. told = {} /\ \A p \in Process : pos[p] = "new"  BY <1>1 DEF MakePipe, UseInv
    <2>2. eof = {} /\ ~closed
      <3>1. \A p \in eof : p \in Process /\ pos[p] = "new"  BY <2>1 DEF TypeOK
      <3>2. eof = {}  BY <3>1 DEF EndInv
      <3>. QED  BY <2>1, <3>2 DEF UseInv, Untouched
    <2>3. \A p \in Request : pos'[p] = "new"  BY <1>1, <2>1, <1>d DEF MakePipe, Goto, TypeOK
    <2>4. UNCHANGED <<err, eof, closed, received, written>>  BY <1>1 DEF MakePipe
    <2>. QED  BY <2>2, <2>3, <2>4 DEF EndInv, CompleteAtEnd
  <1>2. ASSUME NEW r \in Request, ServeHTTP(r) PROVE (EndInv /\ CompleteAtEnd)'
    <2>1. /\ \A q \in Process : q # r => pos'[q] = pos[q]
          /\ pos[r] = "new" /\ pos'[r] \in {"refuse", "wait", "announce", "done"}
      BY <1>2, ServeMoves
    <2>2. UNCHANGED <<eof, closed, received, written>>  BY <1>2 DEF ServeHTTP
    <2>3. err \subseteq err'  BY <1>2 DEF ServeHTTP
    <2>4. \A p \in eof : pos'[p] \in {"pump", "done"}
      <3>1. r \notin eof  BY <2>1 DEF EndInv
      <3>2. eof \subseteq Process  BY DEF TypeOK
      <3>. QED  BY <2>1, <3>1, <3>2 DEF EndInv
    <2>5. CompleteAtEnd'  BY <1>k, <2>2, <2>3, <2>4
    <2>6. \A s \in Request : pos'[s] \in {"close", "fail"} => pos'[s] = pos[s]  BY <2>1, <1>d
    <2>. QED  BY <2>2, <2>3, <2>4, <2>5, <2>6 DEF EndInv
  <1>3. ASSUME NEW r \in Request, UploadStep(r) \/ UploadFails(r) PROVE (EndInv /\ CompleteAtEnd)'
    <2>1. /\ \A q \in Process : q # r => pos'[q] = pos[q]
          /\ pos[r] \in {"refuse", "announce", "upload", "fail", "close"}
      BY <1>3, UploadMoves
    <2>2. UNCHANGED <<eof, received>> /\ err \subseteq err'
      BY <1>3 DEF UploadStep, Refuse, Announce, Write, UploadEnds, UploadFails, AnnounceFailure, Close
    <2>3. \A p \in eof : pos'[p] \in {"pump", "done"}
      <3>1. r \notin eof  BY <2>1 DEF EndInv
      <3>2. eof \subseteq Process  BY DEF TypeOK
      <3>. QED  BY <2>1, <3>1, <3>2 DEF EndInv
    <2>4. CompleteAtEnd'  BY <1>k, <2>2, <2>3
    <2>5. CASE Write(r)
      <3>1. pos' = pos /\ closed' = closed /\ err' = err  BY <2>5 DEF Write
      <3>2. \A s \in Request : s # r => written'[s] = written[s]  BY <2>5 DEF Write, TypeOK
      <3>3. pos[r] = "upload"  BY <2>5 DEF Write
      <3>4. ~closed  BY <3>3 DEF UseInv, Uploading
      <3>. QED  BY <2>2, <2>3, <2>4, <3>1, <3>2, <3>3, <3>4 DEF EndInv
    <2>6. CASE Refuse(r) \/ Announce(r)
      <3>1. UNCHANGED <<closed, written, err>> /\ pos'[r] \notin {"close", "fail"}
        BY <2>6, <1>d DEF Refuse, Announce, Goto, TypeOK
      <3>. QED  BY <2>1, <2>2, <2>3, <2>4, <3>1, <1>d DEF EndInv
    <2>7. CASE UploadEnds(r)
      <3>1. UNCHANGED <<closed, written, err>> /\ written[r] = BodySize /\ pos'[r] = "close"
        BY <2>7, <1>d DEF UploadEnds, Goto, TypeOK
      <3>. QED  BY <2>1, <2>2, <2>3, <2>4, <3>1, <1>d DEF EndInv
    <2>8. CASE UploadFails(r)
      <3>1. UNCHANGED <<closed, written>> /\ r \in err'  BY <2>8 DEF UploadFails
      <3>. QED  BY <2>1, <2>2, <2>3, <2>4, <3>1, <1>d DEF EndInv
    <2>9. CASE AnnounceFailure(r) \/ Close(r)
      <3>1. UNCHANGED <<written, err>>  BY <2>9 DEF AnnounceFailure, Close
      <3>2. CASE Close(r)
        <4>1. pos[r] = "close" /\ pos'[r] = "done"  BY <3>2, <1>d DEF Close, Goto, TypeOK
        <4>2. r \in err \/ written[r] = BodySize  BY <4>1 DEF EndInv
        <4>3. err' # {} \/ \E s \in Request : written'[s] = BodySize  BY <3>1, <4>2
        <4>. QED  BY <2>1, <2>2, <2>3, <2>4, <3>1, <4>1, <4>3, <1>d DEF EndInv
      <3>3. CASE AnnounceFailure(r)
        <4>1. pos[r] = "fail" /\ pos'[r] = "close" /\ closed' = closed
          BY <3>3, <1>d DEF AnnounceFailure, Goto, TypeOK
        <4>2. r \in err  BY <4>1 DEF EndInv
        <4>. QED  BY <2>1, <2>2, <2>3, <2>4, <3>1, <4>1, <4>2, <1>d DEF EndInv
      <3>. QED  BY <2>9, <3>2, <3>3
    <2>. QED  BY <1>3, <2>5, <2>6, <2>7, <2>8, <2>9 DEF UploadStep
  <1>4. ASSUME NEW p \in Process, ReadStep(p) \/ TargetFails(p) PROVE (EndInv /\ CompleteAtEnd)'
    <2>1. /\ \A q \in Process : q # p => pos'[q] = pos[q]
          /\ Consuming(p) /\ pos'[p] \in {"read", "pump", "done"}
          /\ written' = written /\ closed' = closed
      BY <1>4, ReadMoves
    <2>2. err' = err
      BY <1>4 DEF ReadStep, TakeInfo, ReadBuffered, ReadData, ReadInfo, ReadEnds, TargetFails
    <2>3. \A s \in Request : pos'[s] \in {"close", "fail"} => pos'[s] = pos[s]  BY <2>1, <1>d
    <2>4. pos[p] = "pump" => pos'[p] \in {"pump", "done"}
      BY <1>4 DEF ReadStep, TakeInfo, ReadBuffered, ReadData, ReadInfo, ReadEnds, TargetFails, Goto, CopyEnds, TypeOK
    <2>5. p \in eof => pos[p] = "pump"  BY <2>1 DEF EndInv, Consuming
    <2>6. \A q \in eof : pos'[q] \in {"pump", "done"} /\ pos[q] # "read"
      BY <2>1, <2>4, <2>5 DEF EndInv, TypeOK
    <2>7. \A q \in eof : received'[q] = received[q]
      <3>1. CASE ReadBuffered(p)
        <4>1. PICK n \in 1..ReadSize : Deliver(p, readBuf, n)  BY <3>1 DEF ReadBuffered
        <4>. QED  BY <2>6, <4>1, Delivered DEF TypeOK
      <3>2. CASE ReadData(p)
        <4>1. PICK n \in 1..ReadSize : Deliver(p, Head(data), n)  BY <3>2 DEF ReadData
        <4>2. Head(data) \in Slice  BY <3>2, DataType DEF ReadData
        <4>. QED  BY <2>6, <4>1, <4>2, Delivered DEF TypeOK
      <3>. QED  BY <1>4, <3>1, <3>2 DEF ReadStep, TakeInfo, ReadInfo, ReadEnds, TargetFails
    <2>8. CASE eof' = eof
      <3>1. CompleteAtEnd'  BY <2>2, <2>7, <2>8 DEF CompleteAtEnd
      <3>. QED  BY <2>1, <2>2, <2>3, <2>6, <2>8, <3>1 DEF EndInv
    <2>9. CASE eof' # eof
      <3>1. ReadEnds(p)
        BY <1>4, <2>9 DEF ReadStep, TakeInfo, ReadBuffered, ReadData, ReadInfo, TargetFails
      <3>2. /\ pos[p] = "read" /\ eof' = eof \cup {p} /\ received' = received
            /\ Length(readBuf) = 0 /\ data = <<>> /\ closed
        BY <2>9, <3>1 DEF ReadEnds
      <3>3. pos'[p] \in {"pump", "done"}  BY <3>1, <3>2 DEF ReadEnds, CopyEnds, TypeOK
      <3>4. ~Buffered  BY <3>2 DEF Buffered
      <3>5. Starts(Len(received[p]) + 1)  BY <3>2 DEF FlowInv
      <3>6. received[p] \in Seq(Byte)  BY DEF TypeOK
      <3>7. ASSUME err = {} PROVE Len(received[p]) = BodySize
        <4>1. PICK r \in Request : written[r] = BodySize  BY <3>2, <3>7 DEF EndInv
        <4>2. Len(received[p]) \in Nat  BY <3>6
        <4>3. CASE BodySize > 0
          <5>1. Source(r)  BY <4>1, <4>3 DEF Source
          <5>2. Len(received[p]) + 1 = written[r] + 1  BY <3>2, <3>4, <3>5, <5>1 DEF Starts
          <5>. QED  BY <4>1, <4>2, <5>2, PipeAssumption
        <4>4. CASE BodySize = 0
          <5>1. \A k \in 1..Len(received[p]) : received[p][k] \in 1..0  BY <3>6, <4>4 DEF Byte
          <5>2. ~(Len(received[p]) >= 1)
            <6>1. SUFFICES ASSUME Len(received[p]) >= 1 PROVE FALSE  OBVIOUS
            <6>2. 1 \in 1..Len(received[p])  BY <4>2, <6>1
            <6>3. received[p][1] \in 1..0  BY <5>1, <6>2
            <6>. QED  BY <6>3
          <5>. QED  BY <4>2, <4>4, <5>2
        <4>. QED  BY <4>3, <4>4, PipeAssumption
      <3>8. CompleteAtEnd'  BY <2>2, <3>2, <3>7 DEF CompleteAtEnd
      <3>9. \A q \in eof' : pos'[q] \in {"pump", "done"}  BY <2>6, <3>2, <3>3
      <3>. QED  BY <2>1, <2>2, <2>3, <3>8, <3>9 DEF EndInv
    <2>. QED  BY <2>8, <2>9
  <1>5. CASE UNCHANGED assetVars  BY <1>5 DEF assetVars, EndInv, CompleteAtEnd
  <1>. QED  BY <1>1, <1>2, <1>3, <1>4, <1>5 DEF AssetNext

\* A reader that reaches the end of an upload that did not fail has every byte
\* of the body.
THEOREM WholeAtEnd == AssetSpec => []CompleteAtEnd
  <1>1. AssetInit => TypeOK /\ UseInv /\ FlowInv /\ EndInv /\ CompleteAtEnd
    BY TypeInit, UseInit, FlowInit, EndInit
  <1>2. TypeOK /\ UseInv /\ FlowInv /\ EndInv /\ CompleteAtEnd /\ [AssetNext]_assetVars
          => (TypeOK /\ UseInv /\ FlowInv /\ EndInv /\ CompleteAtEnd)'
    BY TypeNext, UseNext, FlowNext, EndNext
  <1>. QED  BY <1>1, <1>2, PTL DEF AssetSpec

\* The channels of a pipe keep their bounds and are not used after a close.
THEOREM PipeIsSound == AssetSpec => []PipeSound
  <1>1. TypeOK /\ NoUseAfterClose => PipeSound  BY DEF PipeSound
  <1>. QED  BY <1>1, PipeTyped, NeverUsedAfterClose, PTL


-----------------------------------------------------------------------------
(* Induction on a set of numbers, in the place of the library's induction on *)
(* an operator: the least number outside the set would have to be a          *)
(* successor of one in it.                                                   *)
LEMMA SetInduction ==
  ASSUME NEW S, 0 \in S, \A n \in Nat : n \in S => n + 1 \in S
  PROVE  Nat \subseteq S
<1>1. SUFFICES ASSUME Nat \ S # {} PROVE FALSE
  OBVIOUS
<1>2. PICK x \in Nat \ S : \A y \in Nat \ S : <<y, x>> \notin OpToRel(<, Nat)
  BY <1>1, WFMin, NatLessThanWellFounded, Zenon
<1>3. \A y \in Nat \ S : ~(y < x)
  BY <1>2, Zenon DEF OpToRel
<1>4. x \in Nat /\ x \notin S
  OBVIOUS
<1>5. x # 0
  BY <1>4
<1>6. x - 1 \in Nat /\ x - 1 < x /\ (x - 1) + 1 = x
  BY <1>4, <1>5
<1>7. x - 1 \in S
  BY <1>3, <1>6
<1> QED BY <1>4, <1>6, <1>7

-----------------------------------------------------------------------------
(* A tick, run message by message. *)

RunTo(w, ms, f, k) ==
  f = [n \in 0..k |-> IF n = 0 THEN StartTick(w) ELSE ProcessMessage(f[n - 1], ms[n])]

\* There is such a run for messages of any number.
LEMMA RunExists ==
  ASSUME NEW w, NEW ms, NEW k \in Nat
  PROVE  \E f : RunTo(w, ms, f, k)
<1> DEFINE S == {n \in Nat : \E f : RunTo(w, ms, f, n)}
<1>1. 0 \in S
  <2> DEFINE f == [n \in 0..0 |-> StartTick(w)]
  <2>1. f = [n \in 0..0 |-> IF n = 0 THEN StartTick(w) ELSE ProcessMessage(f[n - 1], ms[n])]
    OBVIOUS
  <2> QED BY <2>1 DEF RunTo
<1>2. ASSUME NEW n \in Nat, n \in S PROVE n + 1 \in S
  <2>1. PICK f : RunTo(w, ms, f, n)
    BY <1>2
  <2> DEFINE g == [i \in 0..(n + 1) |-> IF i <= n THEN f[i] ELSE ProcessMessage(f[n], ms[n + 1])]
  <2>2. ASSUME NEW i \in 0..(n + 1)
        PROVE  g[i] = IF i = 0 THEN StartTick(w) ELSE ProcessMessage(g[i - 1], ms[i])
    <3>1. CASE i = 0
      BY <2>1, <3>1 DEF RunTo
    <3>2. CASE i \in 1..n
      <4>1. g[i] = f[i] /\ g[i - 1] = f[i - 1]
        BY <3>2
      <4>2. f[i] = ProcessMessage(f[i - 1], ms[i])
        BY <2>1, <3>2 DEF RunTo
      <4> QED BY <3>2, <4>1, <4>2
    <3>3. CASE i = n + 1
      <4>1. g[i] = ProcessMessage(f[n], ms[n + 1]) /\ g[i - 1] = f[n] /\ i # 0
        BY <3>3
      <4> QED BY <3>3, <4>1
    <3> QED BY <3>1, <3>2, <3>3
  <2>3. RunTo(w, ms, g, n + 1)
    <3>1. g = [i \in 0..(n + 1) |-> g[i]]
      OBVIOUS
    <3> HIDE DEF g
    <3> QED BY <2>2, <3>1 DEF RunTo
  <2> QED BY <2>3
<1>3. Nat \subseteq S
  <2> HIDE DEF S
  <2> QED BY <1>1, <1>2, SetInduction
<1> QED BY <1>3

LEMMA RunSteps ==
  ASSUME NEW w, NEW ms \in Seq(PlayerMessages)
  PROVE  /\ Run(w, ms)[0] = StartTick(w)
         /\ \A n \in 1..Len(ms) : Run(w, ms)[n] = ProcessMessage(Run(w, ms)[n - 1], ms[n])
<1>1. RunTo(w, ms, Run(w, ms), Len(ms))
  <2>1. \E f : RunTo(w, ms, f, Len(ms))
    BY RunExists, LenProperties
  <2> QED BY <2>1 DEF Run, RunTo
<1>2. Len(ms) \in Nat
  BY LenProperties
<1> QED BY <1>1, <1>2 DEF RunTo

\* Generators are where the numbers drawn have left them.
Regular(w) == w \in Worlds /\ w.generator = [seed |-> w.seed, taken |-> w.calls]

\* What is compared of a world: all of it but a test of the hash checks, and,
\* where a fire may have been lost with a save, neither the fire nor what it
\* has left of the plasma, which nothing else depends on.
View(b, w) == IF b THEN [w EXCEPT !.unsync = None, !.plasma = 0, !.fire = FALSE] ELSE [w EXCEPT !.unsync = None]

LEMMA ViewSame ==
  ASSUME NEW w \in Worlds, w.unsync = None
  PROVE  View(FALSE, w) = w
BY DEF View, Worlds

\* Worlds that are equal with their fires are equal without.
LEMMA ViewCoarser ==
  ASSUME NEW v \in Worlds, NEW w \in Worlds, NEW b \in BOOLEAN, NEW d \in BOOLEAN, b => d, View(b, v) = View(b, w)
  PROVE  View(d, v) = View(d, w)
<1>1. CASE b = d
  BY <1>1
<1>2. CASE b = FALSE /\ d = TRUE
  <2>1. [v EXCEPT !.unsync = None] = [w EXCEPT !.unsync = None]
    BY <1>2 DEF View
  <2>2. \A u \in Worlds : [u EXCEPT !.unsync = None, !.plasma = 0, !.fire = FALSE]
                             = [[u EXCEPT !.unsync = None] EXCEPT !.plasma = 0, !.fire = FALSE]
    BY DEF Worlds
  <2>3. View(TRUE, v) = View(TRUE, w)
    BY <2>1, <2>2 DEF View
  <2> QED BY <1>2, <2>3
<1> QED BY <1>1, <1>2

\* What a view shows, whatever it leaves out.
LEMMA ViewFields ==
  ASSUME NEW w \in Worlds, NEW b \in BOOLEAN
  PROVE  /\ View(b, w) \in Worlds
         /\ View(b, w).tick = w.tick /\ View(b, w).players = w.players /\ View(b, w).seed = w.seed
         /\ View(b, w).calls = w.calls /\ View(b, w).generator = w.generator /\ View(b, w).steps = w.steps
         /\ View(b, w).welding = w.welding /\ View(b, w).unsync = None
BY DEF View, Worlds

LEMMA PlayerMessageKinds ==
  ASSUME NEW m \in PlayerMessages
  PROVE  /\ m \in StreamMessages /\ m # Tick /\ m.id \in Logins
         /\ m = OfPlayer(m.type, m.id)
         /\ m.type \in {"NEW_CLIENT", "ORDINARY", "MOUSE_CLICK"}
BY DEF PlayerMessages, StreamMessages, OfPlayer, Tick, Acts

\* What is left out of a view is not touched by a number that is drawn.
LEMMA GenerateOrder ==
  ASSUME NEW w \in Worlds, NEW n, NEW g, NEW t
  PROVE  /\ [[w EXCEPT !.calls = n, !.generator = g, !.steps = t] EXCEPT !.unsync = None]
              = [[w EXCEPT !.unsync = None] EXCEPT !.calls = n, !.generator = g, !.steps = t]
         /\ [[w EXCEPT !.calls = n, !.generator = g, !.steps = t] EXCEPT !.unsync = None, !.plasma = 0, !.fire = FALSE]
              = [[w EXCEPT !.unsync = None, !.plasma = 0, !.fire = FALSE] EXCEPT !.calls = n, !.generator = g, !.steps = t]
BY DEF Worlds

LEMMA GenerateWorld ==
  ASSUME NEW w \in Worlds, Regular(w), NEW m \in StreamMessages, NEW b \in BOOLEAN
  PROVE  /\ Regular(Generate(w, m))
         /\ Generate(w, m).tick = w.tick /\ Generate(w, m).players = w.players /\ Generate(w, m).unsync = w.unsync
         /\ Generate(View(b, w), m) = View(b, Generate(w, m))
<1> DEFINE s == [step |-> m, drew |-> w.generator]
<1>1. s \in [step : StreamMessages, drew : Generators \cup {None}]
  BY DEF Worlds
<1>2. Append(w.steps, s) \in Seq([step : StreamMessages, drew : Generators \cup {None}])
  BY <1>1, AppendProperties DEF Worlds
<1> HIDE DEF s
<1>3. Generate(w, m) = [w EXCEPT !.calls = @ + 1, !.generator.taken = @ + 1, !.steps = Append(@, s)]
  BY DEF Generate, s
<1>4. Regular(Generate(w, m))
  <2>1. w.generator \in Generators /\ w.calls + 1 \in Nat /\ w.generator.taken + 1 \in Nat
    BY DEF Worlds, Generators
  <2> DEFINE g == [w.generator EXCEPT !.taken = @ + 1]
  <2>2. g \in Generators
    BY <2>1 DEF Generators
  <2>3. g = [seed |-> w.seed, taken |-> w.calls + 1]
    BY <2>1 DEF Regular
  <2>4. Generate(w, m) = [w EXCEPT !.calls = @ + 1, !.generator = g, !.steps = Append(@, s)]
    BY <1>3 DEF Worlds
  <2> HIDE DEF g
  <2>5. Generate(w, m) \in Worlds
    BY <1>2, <2>1, <2>2, <2>4 DEF Worlds
  <2> QED BY <2>3, <2>4, <2>5 DEF Regular, Worlds
<1>5. Generate(View(b, w), m) = View(b, Generate(w, m))
  <2>1. PICK n, g, t : /\ n = w.calls + 1 /\ g = [w.generator EXCEPT !.taken = @ + 1] /\ t = Append(w.steps, s)
    OBVIOUS
  <2>2. \A u \in Worlds : u.calls = w.calls /\ u.generator = w.generator /\ u.steps = w.steps
                          => Generate(u, m) = [u EXCEPT !.calls = n, !.generator = g, !.steps = t]
    BY <2>1 DEF Generate, Worlds, s
  <2>3. Generate(w, m) = [w EXCEPT !.calls = n, !.generator = g, !.steps = t]
    BY <2>2
  <2>4. Generate(View(b, w), m) = [View(b, w) EXCEPT !.calls = n, !.generator = g, !.steps = t]
    BY <2>2, ViewFields
  <2>5. View(b, [w EXCEPT !.calls = n, !.generator = g, !.steps = t])
          = [View(b, w) EXCEPT !.calls = n, !.generator = g, !.steps = t]
    <3>1. CASE b = TRUE
      BY <3>1, Zenon, GenerateOrder DEF View
    <3>2. CASE b = FALSE
      BY <3>2, Zenon, GenerateOrder DEF View
    <3> QED BY <3>1, <3>2
  <2> QED BY <2>3, <2>4, <2>5
<1>8. Generate(w, m).tick = w.tick /\ Generate(w, m).players = w.players /\ Generate(w, m).unsync = w.unsync
  BY <1>3 DEF Worlds
<1> QED BY <1>4, <1>5, <1>8

\* A test of the hash checks changes nothing a fire or a tool does.
LEMMA ExceptOrder ==
  ASSUME NEW w \in Worlds, NEW f, NEW p
  PROVE  /\ [[w EXCEPT !.unsync = None] EXCEPT !.fire = f, !.plasma = p]
              = [[w EXCEPT !.fire = f, !.plasma = p] EXCEPT !.unsync = None]
         /\ [[w EXCEPT !.unsync = None] EXCEPT !.fire = f] = [[w EXCEPT !.fire = f] EXCEPT !.unsync = None]
         /\ [[w EXCEPT !.unsync = None] EXCEPT !.welding = f] = [[w EXCEPT !.welding = f] EXCEPT !.unsync = None]
BY DEF Worlds

LEMMA QuenchedWorld ==
  ASSUME NEW w \in Worlds, ~(w.fire \/ (w.welding /\ w.tick % 2 = 0)) \/ ~(w.plasma > 0)
  PROVE  Burnt(w) = [w EXCEPT !.fire = FALSE]
BY DEF Burnt, Worlds

LEMMA BurntWorld ==
  ASSUME NEW w \in Worlds, Regular(w), NEW b \in BOOLEAN
  PROVE  /\ Regular(Burnt(w))
         /\ Burnt(w).tick = w.tick /\ Burnt(w).players = w.players /\ Burnt(w).unsync = w.unsync
         /\ Burnt(View(b, w)) = View(b, Burnt(w))
<1> DEFINE lit == w.fire \/ (w.welding /\ w.tick % 2 = 0)
<1>1. CASE lit /\ w.plasma > 0
  <2>1. Burnt(w) = [w EXCEPT !.fire = TRUE, !.plasma = w.plasma - 1]
    BY <1>1 DEF Burnt, Worlds
  <2>2. w.plasma - 1 \in Nat
    BY <1>1 DEF Worlds
  <2>3. Regular(Burnt(w)) /\ Burnt(w).tick = w.tick /\ Burnt(w).players = w.players /\ Burnt(w).unsync = w.unsync
    BY <2>1, <2>2 DEF Regular, Worlds
  <2>4. CASE b = TRUE
    <3>1. View(b, w).plasma = 0 /\ View(b, w).fire = FALSE /\ View(b, w) \in Worlds
      BY <2>4, ViewFields DEF View, Worlds
    <3>2. Burnt(View(b, w)) = View(b, w)
      <4>1. ~(View(b, w).plasma > 0)
        BY <3>1
      <4>2. Burnt(View(b, w)) = [View(b, w) EXCEPT !.fire = FALSE]
        BY <3>1, <4>1, QuenchedWorld
      <4>3. \A u \in Worlds : u.fire = FALSE => [u EXCEPT !.fire = FALSE] = u
        BY DEF Worlds
      <4> QED BY <3>1, <4>2, <4>3
    <3>3. View(b, Burnt(w)) = View(b, w)
      BY <2>1, <2>4 DEF View, Worlds
    <3> QED BY <2>3, <3>2, <3>3
  <2>5. CASE b = FALSE
    <3>1. View(b, w) = [w EXCEPT !.unsync = None]
      BY <2>5 DEF View
    <3>2. /\ View(b, w).fire = w.fire /\ View(b, w).plasma = w.plasma /\ View(b, w).welding = w.welding
          /\ View(b, w).tick = w.tick
      BY <3>1 DEF Worlds
    <3>3. Burnt(View(b, w)) = [View(b, w) EXCEPT !.fire = TRUE, !.plasma = w.plasma - 1]
      BY <1>1, <3>2 DEF Burnt
    <3>4. View(b, Burnt(w)) = [Burnt(w) EXCEPT !.unsync = None]
      BY <2>5 DEF View
    <3>5. Burnt(View(b, w)) = View(b, Burnt(w))
      <4>1. Burnt(View(b, w)) = [[w EXCEPT !.unsync = None] EXCEPT !.fire = TRUE, !.plasma = w.plasma - 1]
        BY <3>1, <3>3
      <4>2. View(b, Burnt(w)) = [[w EXCEPT !.fire = TRUE, !.plasma = w.plasma - 1] EXCEPT !.unsync = None]
        BY <2>1, <3>4
      <4> QED BY <4>1, <4>2, ExceptOrder, Zenon
    <3> QED BY <2>3, <3>5
  <2> QED BY <2>4, <2>5
<1>2. CASE ~(lit /\ w.plasma > 0)
  <2>1. Burnt(w) = [w EXCEPT !.fire = FALSE]
    BY <1>2 DEF Burnt, Worlds
  <2>3. Regular(Burnt(w)) /\ Burnt(w).tick = w.tick /\ Burnt(w).players = w.players /\ Burnt(w).unsync = w.unsync
    BY <2>1 DEF Regular, Worlds
  <2>4. CASE b = TRUE
    <3>1. View(b, w).plasma = 0 /\ View(b, w).fire = FALSE /\ View(b, w) \in Worlds
      BY <2>4, ViewFields DEF View, Worlds
    <3>2. Burnt(View(b, w)) = View(b, w)
      <4>1. ~(View(b, w).plasma > 0)
        BY <3>1
      <4>2. Burnt(View(b, w)) = [View(b, w) EXCEPT !.fire = FALSE]
        BY <3>1, <4>1, QuenchedWorld
      <4>3. \A u \in Worlds : u.fire = FALSE => [u EXCEPT !.fire = FALSE] = u
        BY DEF Worlds
      <4> QED BY <3>1, <4>2, <4>3
    <3>3. View(b, Burnt(w)) = View(b, w)
      BY <2>1, <2>4 DEF View, Worlds
    <3> QED BY <2>3, <3>2, <3>3
  <2>5. CASE b = FALSE
    <3>1. View(b, w) = [w EXCEPT !.unsync = None]
      BY <2>5 DEF View
    <3>2. /\ View(b, w).fire = w.fire /\ View(b, w).plasma = w.plasma /\ View(b, w).welding = w.welding
          /\ View(b, w).tick = w.tick /\ View(b, w) \in Worlds
      BY <3>1, ViewFields DEF Worlds
    <3>3. Burnt(View(b, w)) = [View(b, w) EXCEPT !.fire = FALSE]
      BY <1>2, <3>2 DEF Burnt, Worlds
    <3>4. View(b, Burnt(w)) = [Burnt(w) EXCEPT !.unsync = None]
      BY <2>5 DEF View
    <3>5. Burnt(View(b, w)) = View(b, Burnt(w))
      <4>1. Burnt(View(b, w)) = [[w EXCEPT !.unsync = None] EXCEPT !.fire = FALSE]
        BY <3>1, <3>3
      <4>2. View(b, Burnt(w)) = [[w EXCEPT !.fire = FALSE] EXCEPT !.unsync = None]
        BY <2>1, <3>4
      <4> QED BY <4>1, <4>2, ExceptOrder, Zenon
    <3> QED BY <2>3, <3>5
  <2> QED BY <2>4, <2>5
<1> QED BY <1>1, <1>2

LEMMA SwitchedWorld ==
  ASSUME NEW w \in Worlds, Regular(w), NEW b \in BOOLEAN
  PROVE  /\ Regular(Switched(w))
         /\ Switched(w).tick = w.tick /\ Switched(w).players = w.players /\ Switched(w).unsync = w.unsync
         /\ Switched(View(b, w)) = View(b, Switched(w))
<1>1. Switched(w) = [w EXCEPT !.welding = ~w.welding] /\ (~w.welding) \in BOOLEAN
  <2>1. Switched(w) = [w EXCEPT !.welding = ~w.welding]
    BY DEF Switched
  <2>2. (~w.welding) \in BOOLEAN
    <3>1. w.welding \in BOOLEAN
      BY DEF Worlds
    <3>2. CASE w.welding = TRUE
      BY <3>2
    <3>3. CASE w.welding = FALSE
      BY <3>3
    <3> QED BY <3>1, <3>2, <3>3
  <2> QED BY <2>1, <2>2
<1>2. Switched(View(b, w)) = [View(b, w) EXCEPT !.welding = ~w.welding]
  BY ViewFields DEF Switched, Worlds
<1>3. Switched(View(b, w)) = View(b, Switched(w))
  <2>1. PICK f : f = ~w.welding
    OBVIOUS
  <2>2. View(b, [w EXCEPT !.welding = f]) = [View(b, w) EXCEPT !.welding = f]
    <3>1. CASE b = TRUE
      BY <3>1 DEF View, Worlds
    <3>2. CASE b = FALSE
      BY <3>2, Zenon, ExceptOrder DEF View
    <3> QED BY <3>1, <3>2
  <2> QED BY <1>1, <1>2, <2>1, <2>2, Zenon
<1>5. Regular(Switched(w)) /\ Switched(w).tick = w.tick /\ Switched(w).players = w.players /\ Switched(w).unsync = w.unsync
  BY <1>1 DEF Regular, Worlds
<1> QED BY <1>3, <1>5

LEMMA StartTickWorld ==
  ASSUME NEW w \in Worlds, Regular(w), NEW b \in BOOLEAN
  PROVE  /\ Regular(StartTick(w))
         /\ StartTick(w).tick = w.tick + 1 /\ StartTick(w).players = w.players /\ StartTick(w).unsync = w.unsync
         /\ StartTick(View(b, w)) = View(b, StartTick(w))
<1> DEFINE v == [w EXCEPT !.tick = @ + 1]
<1>1. v \in Worlds /\ Regular(v) /\ v.tick = w.tick + 1 /\ v.players = w.players /\ v.unsync = w.unsync
  BY DEF Worlds, Regular
<1>2. View(b, v) = [View(b, w) EXCEPT !.tick = @ + 1]
  <2>1. CASE b = TRUE
    BY <2>1 DEF Worlds, View
  <2>2. CASE b = FALSE
    BY <2>2 DEF Worlds, View
  <2> QED BY <2>1, <2>2
<1>3. Tick \in StreamMessages
  BY DEF StreamMessages
<1> HIDE DEF v
<1> DEFINE u == Generate(v, Tick)
<1>4. StartTick(w) = Burnt(u) /\ StartTick(View(b, w)) = Burnt(Generate(View(b, v), Tick))
  BY <1>2 DEF StartTick, v
<1>5. /\ Regular(u) /\ u.tick = v.tick /\ u.players = v.players /\ u.unsync = v.unsync
      /\ Generate(View(b, v), Tick) = View(b, u)
  BY <1>1, <1>3, GenerateWorld
<1> HIDE DEF u
<1>6. u \in Worlds
  BY <1>5 DEF Regular
<1>7. /\ Regular(Burnt(u)) /\ Burnt(u).tick = u.tick /\ Burnt(u).players = u.players /\ Burnt(u).unsync = u.unsync
      /\ Burnt(View(b, u)) = View(b, Burnt(u))
  BY <1>5, <1>6, BurntWorld
<1> QED BY <1>1, <1>4, <1>5, <1>7

LEMMA ProcessMessageWorld ==
  ASSUME NEW w \in Worlds, Regular(w), NEW m \in PlayerMessages, NEW b \in BOOLEAN
  PROVE  /\ Regular(ProcessMessage(w, m))
         /\ ProcessMessage(w, m).tick = w.tick /\ ProcessMessage(w, m).unsync = w.unsync
         /\ w.players \subseteq ProcessMessage(w, m).players
         /\ m.type = "NEW_CLIENT" => m.id \in ProcessMessage(w, m).players
         /\ ProcessMessage(View(b, w), m) = View(b, ProcessMessage(w, m))
<1>1. m \in StreamMessages /\ m.id \in Logins
  BY PlayerMessageKinds
<1>2. CASE m.type \notin {"NEW_CLIENT", "MOUSE_CLICK"}
  BY <1>1, <1>2, GenerateWorld DEF ProcessMessage
<1>a. CASE m.type = "MOUSE_CLICK"
  <2> DEFINE u == Generate(w, m)
  <2>1. /\ Regular(u) /\ u.tick = w.tick /\ u.players = w.players /\ u.unsync = w.unsync
        /\ Generate(View(b, w), m) = View(b, u)
    BY <1>1, GenerateWorld
  <2>2. ProcessMessage(w, m) = Switched(u) /\ ProcessMessage(View(b, w), m) = Switched(Generate(View(b, w), m))
    BY <1>a DEF ProcessMessage
  <2> HIDE DEF u
  <2>3. u \in Worlds
    BY <2>1 DEF Regular
  <2>4. /\ Regular(Switched(u)) /\ Switched(u).tick = u.tick /\ Switched(u).players = u.players
        /\ Switched(u).unsync = u.unsync /\ Switched(View(b, u)) = View(b, Switched(u))
    BY <2>1, <2>3, SwitchedWorld
  <2> QED BY <1>a, <2>1, <2>2, <2>4
<1>3. CASE m.type = "NEW_CLIENT" /\ m.id \in w.players
  <2>1. View(b, w).players = w.players
    BY ViewFields
  <2> QED BY <1>3, <2>1 DEF ProcessMessage
<1>4. CASE m.type = "NEW_CLIENT" /\ m.id \notin w.players
  <2> DEFINE s == [step |-> m, drew |-> None]
             v == [w EXCEPT !.players = @ \cup {m.id}, !.steps = Append(@, s)]
  <2>1. s \in [step : StreamMessages, drew : Generators \cup {None}]
    BY <1>1
  <2>2. Append(w.steps, s) \in Seq([step : StreamMessages, drew : Generators \cup {None}])
    BY <2>1, AppendProperties DEF Worlds
  <2> HIDE DEF s
  <2>3. Regular(v) /\ v.tick = w.tick /\ v.players = w.players \cup {m.id} /\ v.unsync = w.unsync
    BY <1>1, <2>2 DEF Regular, Worlds, Generators
  <2>4. View(b, w).players = w.players
    BY ViewFields
  <2>5. ProcessMessage(w, m) = v
    BY <1>4 DEF ProcessMessage, s
  <2>6. ProcessMessage(View(b, w), m) = [View(b, w) EXCEPT !.players = @ \cup {m.id}, !.steps = Append(@, s)]
    BY <1>4, <2>4 DEF ProcessMessage, s
  <2>7. [View(b, w) EXCEPT !.players = @ \cup {m.id}, !.steps = Append(@, s)] = View(b, v)
    <3>1. CASE b = TRUE
      BY <3>1 DEF View, Worlds
    <3>2. CASE b = FALSE
      BY <3>2 DEF View, Worlds
    <3> QED BY <3>1, <3>2
  <2> QED BY <1>4, <2>3, <2>5, <2>6, <2>7
<1> QED BY <1>2, <1>3, <1>4, <1>a

\* What a tick does to a world, whatever messages came before it.
LEMMA RunWorld ==
  ASSUME NEW w \in Worlds, Regular(w), NEW ms \in Seq(PlayerMessages), NEW n \in 0..Len(ms),
         NEW b \in BOOLEAN
  PROVE  /\ Regular(Run(w, ms)[n])
         /\ Run(w, ms)[n].tick = w.tick + 1 /\ Run(w, ms)[n].unsync = w.unsync
         /\ w.players \subseteq Run(w, ms)[n].players
         /\ \A i \in 1..n : ms[i].type = "NEW_CLIENT" => ms[i].id \in Run(w, ms)[n].players
         /\ Run(View(b, w), ms)[n] = View(b, Run(w, ms)[n])
<1> DEFINE r == Run(w, ms)
           q == Run(View(b, w), ms)
           Good(k) == /\ Regular(r[k]) /\ r[k].tick = w.tick + 1 /\ r[k].unsync = w.unsync /\ w.players \subseteq r[k].players
                      /\ \A i \in 1..k : ms[i].type = "NEW_CLIENT" => ms[i].id \in r[k].players
                      /\ q[k] = View(b, r[k])
           S == {k \in Nat : k <= Len(ms) => Good(k)}
<1>1. Good(0)
  BY RunSteps, StartTickWorld
<1>2. ASSUME NEW k \in Nat, k + 1 <= Len(ms), Good(k) PROVE Good(k + 1)
  <2>1. k + 1 \in 1..Len(ms) /\ (k + 1) - 1 = k
    BY <1>2, LenProperties
  <2>2. ms[k + 1] \in PlayerMessages
    BY <2>1, ElementOfSeq
  <2>3. r[k + 1] = ProcessMessage(r[k], ms[k + 1]) /\ q[k + 1] = ProcessMessage(q[k], ms[k + 1])
    BY <2>1, RunSteps
  <2> HIDE DEF r, q
  <2>4. r[k] \in Worlds /\ Regular(r[k])
    BY <1>2 DEF Regular
  <2>5. /\ Regular(r[k + 1]) /\ r[k + 1].tick = r[k].tick /\ r[k + 1].unsync = r[k].unsync /\ r[k].players \subseteq r[k + 1].players
        /\ ms[k + 1].type = "NEW_CLIENT" => ms[k + 1].id \in r[k + 1].players
        /\ ProcessMessage(View(b, r[k]), ms[k + 1]) = View(b, r[k + 1])
    BY <2>2, <2>3, <2>4, ProcessMessageWorld
  <2>6. \A i \in 1..(k + 1) : ms[i].type = "NEW_CLIENT" => ms[i].id \in r[k + 1].players
    <3> TAKE i \in 1..(k + 1)
    <3> QED BY <1>2, <2>5
  <2> QED BY <1>2, <2>3, <2>5, <2>6
<1>3. \A k \in Nat : k \in S => k + 1 \in S
  <2> TAKE k \in Nat
  <2> HAVE k \in S
  <2>1. Len(ms) \in Nat
    BY LenProperties
  <2> HIDE DEF Good
  <2> QED BY <1>2, <2>1
<1>4. Nat \subseteq S
  <2>1. 0 \in S
    BY <1>1
  <2> HIDE DEF S
  <2> QED BY <1>3, <2>1, SetInduction
<1>5. n \in Nat /\ n <= Len(ms)
  BY LenProperties
<1>6. Good(n)
  <2> HIDE DEF Good
  <2> QED BY <1>4, <1>5
<1> QED BY <1>6

LEMMA TickedWorld ==
  ASSUME NEW w \in Worlds, Regular(w), NEW ms \in Seq(PlayerMessages), NEW b \in BOOLEAN
  PROVE  /\ Regular(Ticked(w, ms))
         /\ Ticked(w, ms).tick = w.tick + 1 /\ Ticked(w, ms).unsync = w.unsync
         /\ w.players \subseteq Ticked(w, ms).players
         /\ \A i \in 1..Len(ms) : ms[i].type = "NEW_CLIENT" => ms[i].id \in Ticked(w, ms).players
         /\ Ticked(View(b, w), ms) = View(b, Ticked(w, ms))
<1>1. Len(ms) \in 0..Len(ms)
  BY LenProperties
<1> QED BY <1>1, RunWorld, Zenon DEF Ticked

-----------------------------------------------------------------------------
(* The invariant. *)

Queued == StreamMessages \cup [type : {"MAP_UPLOAD"}, url : Clients] \cup [type : {"REQUEST_HASH"}, tick : Nat]
Successes == [type : {"SUCCESS_CONNECTION"}, map : Clients \cup {NoMap}]
Saves == [tick : Nat, players : SUBSET Logins, seed : Clients, calls : Nat,
          steps : Seq([step : StreamMessages, drew : Generators \cup {None}]),
          unsync : Clients \cup {None}, welding : BOOLEAN, plasma : Nat]
Posts == [url : Clients, data : Saves]

\* What lies before a client: what it queued, and what comes behind the
\* message that opens the connection.
Coming(c) == IF socket[c] = "first" /\ wire[c] # <<>> THEN Tail(wire[c]) ELSE wire[c]
Unread(c) == queue[c] \o Coming(c)

TypeInv ==
  /\ LockstepTypeOK
  /\ stream \in Seq(StreamMessages) /\ truth \in Seq([world : Worlds, pending : Seq(PlayerMessages)])
  /\ queue \in [Clients -> Seq(Queued)] /\ wire \in [Clients -> Seq(Queued \cup Successes)]
  /\ \A c \in Clients : Coming(c) \in Seq(Queued)
  /\ world \in [Clients -> Worlds \cup {None}] /\ pending \in [Clients -> Seq(PlayerMessages)]
  /\ outgoing \in [Clients -> Seq(Posts)]
  /\ stored \in [Clients -> Saves \cup {None}]

\* A client takes part once: it is told which map to load first of all, and
\* there is nothing of it before.
MapOf(c) == IF c = founder THEN NoMap ELSE c
Online(c) == c \in members /\ socket[c] # "closed"
Connecting(c) ==
  /\ c \in members => socket[c] # "off"
  /\ c \in Range(waiting) => c # founder /\ socket[c] \in {"first", "closed"} /\ wire[c] = <<>>
  /\ socket[c] = "first" => c \in members \cup Range(waiting)
  /\ socket[c] \in {"off", "first"} \/ c \in Range(waiting) => map[c] = None /\ queue[c] = <<>>
  /\ socket[c] = "first" /\ c \in members => wire[c] # <<>> /\ Head(wire[c]) = Success(MapOf(c))
  /\ socket[c] = "open" => c \in members
  /\ socket[c] \in {"off", "closed"} => wire[c] = <<>>
  /\ socket[c] = "off" => c # founder
  /\ map[c] \in {None, MapOf(c)}
  /\ map[c] = None => world[c] = None

ConnInv ==
  /\ members # {} => master \in members
  /\ \A c \in Clients : Connecting(c)

\* The history is what the stream makes of the first world.
HistoryInv ==
  /\ Len(truth) = Len(stream) + 1
  /\ truth[1] = [world |-> Generated(founder), pending |-> <<>>]
  /\ \A n \in 1..Len(stream) : truth[n + 1] = After(truth[n], stream[n])
  /\ \A n \in 1..Len(truth) : Regular(truth[n].world) /\ truth[n].world.unsync = None
  /\ truth[Len(truth)].world.tick = Count("NEW_TICK", stream)

\* Worlds that a client could not tell apart, whether its own came from a save
\* made in a fire or not.
Alike(c, v, w) == View(c \in doused, v) = View(c \in doused, w)

\* A world is the one of the history at the place its client has read to.
WorldInv ==
  \A c \in Clients :
     /\ world[c] = None => pending[c] = <<>> /\ (c = founder => read[c] = 0)
     /\ world[c] # None => /\ truth[read[c] + 1].pending = pending[c]
                           /\ Alike(c, truth[read[c] + 1].world, world[c])

\* A message is met at the place of the stream it was sent at, and a request
\* right after a tick.
AtTick(p) == p \in 1..Len(stream) /\ stream[p] = Tick
Told(d) == socket[d] # "off" /\ d \notin Range(waiting)
Fits(m, p) ==
  /\ m \in StreamMessages => p > 0 /\ m = stream[p]
  /\ m.type = "MAP_UPLOAD" => AtTick(p) /\ Told(m.url) /\ (world[m.url] = None => read[m.url] = p)
  /\ m.type = "REQUEST_HASH" => AtTick(p) /\ truth[p + 1].world.tick = m.tick
Weight(m) == IF m \in StreamMessages THEN 1 ELSE 0

Placed(c, at) ==
  /\ at \in [0..Len(Unread(c)) -> 0..Len(stream)]
  /\ at[0] = read[c]
  /\ \A i \in 1..Len(Unread(c)) : at[i] = at[i - 1] + Weight(Unread(c)[i]) /\ Fits(Unread(c)[i], at[i])
  /\ Online(c) => at[Len(Unread(c))] = Len(stream)

PlaceInv == \A c \in Clients : \E at : Placed(c, at)

\* A save for a joiner is of the place the joiner will read on from.
SavedFor(d, s) ==
  /\ Told(d)
  /\ world[d] = None => AtTick(read[d]) /\ Alike(d, truth[read[d] + 1].world, Load(s))

SaveInv ==
  \A c \in Clients : /\ \A i \in 1..Len(outgoing[c]) : SavedFor(outgoing[c][i].url, outgoing[c][i].data)
                     /\ stored[c] # None => SavedFor(c, stored[c])

\* An answer is the hash of a world like the one of the history at its tick.
AnswerFits(a) ==
  /\ a.asked = a.tick /\ a.from \in Clients
  /\ \E w \in Worlds, n \in 1..Len(stream) :
        /\ a.hash = Hashed(w)
        /\ stream[n] = Tick /\ truth[n + 1].world.tick = a.tick
        /\ Alike(a.from, truth[n + 1].world, w)

AnswerInv == \A a \in answers : AnswerFits(a)

\* A player is announced in the stream before any message of it.
NewClient(l) == OfPlayer("NEW_CLIENT", l)
Known(l, n) == l = LoginOf[founder] \/ \E i \in 1..n : stream[i] = NewClient(l)
Awaited(l, ms, k) == \E j \in 1..k : ms[j] = NewClient(l)
KnownIn(r) ==
  \A i \in 1..Len(r.pending) :
     r.pending[i].type # "NEW_CLIENT" => r.pending[i].id \in r.world.players \/ Awaited(r.pending[i].id, r.pending, i - 1)

PlayerInv ==
  /\ \A n \in 0..Len(stream) :
        /\ KnownIn(truth[n + 1])
        /\ \A l \in Logins : Known(l, n) => \/ l \in truth[n + 1].world.players
                                            \/ Awaited(l, truth[n + 1].pending, Len(truth[n + 1].pending))
  /\ \A c \in Clients : /\ c \in members \cup Range(waiting) => Known(LoginOf[c], Len(stream))
                        /\ c \in members \/ map[c] # None => Known(LoginOf[c], read[c])
  /\ troubles = {}

Running == ConnInv /\ HistoryInv /\ WorldInv /\ PlaceInv /\ SaveInv /\ AnswerInv /\ PlayerInv

LockstepInv ==
  /\ TypeInv
  /\ founder = None => Init
  /\ founder # None => Running

-----------------------------------------------------------------------------
(* The stream grows, and with it the history. *)

LEMMA AfterState ==
  ASSUME NEW r \in [world : Worlds, pending : Seq(PlayerMessages)], Regular(r.world), NEW m \in StreamMessages
  PROVE  /\ After(r, m) \in [world : Worlds, pending : Seq(PlayerMessages)]
         /\ Regular(After(r, m).world) /\ After(r, m).world.unsync = r.world.unsync
         /\ After(r, m).world.tick = r.world.tick + (IF m = Tick THEN 1 ELSE 0)
<1>1. CASE m = Tick
  <2>1. Regular(Ticked(r.world, r.pending))
    BY TickedWorld
  <2>3. Ticked(r.world, r.pending).unsync = r.world.unsync
    BY TickedWorld
  <2>4. <<>> \in Seq(PlayerMessages)
    BY EmptySeq
  <2>5. Ticked(r.world, r.pending).tick = r.world.tick + 1
    BY TickedWorld
  <2> QED BY <1>1, <2>1, <2>3, <2>4, <2>5 DEF After, Regular
<1>2. CASE m # Tick
  <2>1. m \in PlayerMessages
    BY <1>2 DEF StreamMessages
  <2>2. Append(r.pending, m) \in Seq(PlayerMessages)
    BY <2>1, AppendProperties
  <2>3. r.world.tick + 0 = r.world.tick
    BY DEF Worlds
  <2> QED BY <1>2, <2>2, <2>3 DEF After
<1> QED BY <1>1, <1>2

LEMMA CountAppend ==
  ASSUME NEW s \in Seq(StreamMessages), NEW m \in StreamMessages
  PROVE  /\ Count("NEW_TICK", s) \in Nat
         /\ Count("NEW_TICK", Append(s, m)) = Count("NEW_TICK", s) + (IF m = Tick THEN 1 ELSE 0)
<1> DEFINE a == Append(s, m)
           C == {i \in DOMAIN s : s[i].type = "NEW_TICK"}
           D == {i \in DOMAIN a : a[i].type = "NEW_TICK"}
           n == Len(s) + 1
<1>1. /\ DOMAIN s = 1..Len(s) /\ Len(s) \in Nat /\ DOMAIN a = 1..n
      /\ a[n] = m /\ \A i \in 1..Len(s) : a[i] = s[i]
  BY AppendProperties, LenProperties
<1>2. IsFiniteSet(C)
  <2>1. IsFiniteSet(1..Len(s)) /\ C \subseteq 1..Len(s)
    BY <1>1, FS_Interval
  <2> QED BY <2>1, FS_Subset
<1>3. m.type = "NEW_TICK" <=> m = Tick
  BY DEF StreamMessages, PlayerMessages, Acts, OfPlayer, Tick
<1>4. n \notin C
  BY <1>1
<1>5. CASE m = Tick
  <2>1. D = C \cup {n}
    BY <1>1, <1>3, <1>5
  <2>2. Cardinality(C \cup {n}) = Cardinality(C) + 1
    BY <1>2, <1>4, FS_AddElement
  <2> QED BY <1>2, <1>5, <2>1, <2>2, FS_CardinalityType DEF Count
<1>6. CASE m # Tick
  <2>1. D = C
    BY <1>1, <1>3, <1>6
  <2>2. Cardinality(C) \in Nat
    BY <1>2, FS_CardinalityType
  <2>3. Count("NEW_TICK", s) = Cardinality(C) /\ Count("NEW_TICK", a) = Cardinality(D)
    BY DEF Count
  <2> HIDE DEF C, D
  <2> QED BY <1>6, <2>1, <2>2, <2>3
<1> QED BY <1>5, <1>6

\* The stream and the history are only ever added to.
Extends ==
  /\ Len(stream) <= Len(stream') /\ founder' = founder
  /\ \A i \in 1..Len(stream) : stream'[i] = stream[i]
  /\ \A i \in 1..(Len(stream) + 1) : truth'[i] = truth[i]

LEMMA TruthRead ==
  ASSUME TypeInv, Extends, NEW d \in Clients
  PROVE  truth'[read[d] + 1] = truth[read[d] + 1]
<1>1. read[d] \in 0..Len(stream) /\ Len(stream) \in Nat
  BY LenProperties DEF TypeInv, LockstepTypeOK
<1>2. read[d] + 1 \in 1..(Len(stream) + 1)
  BY <1>1
<1> QED BY <1>2 DEF Extends

LEMMA StreamsHistory ==
  ASSUME TypeInv, HistoryInv, founder' = founder, NEW ms, Streams(ms),
         ms = <<>> \/ \E m \in StreamMessages : ms = <<m>>
  PROVE  /\ stream' \in Seq(StreamMessages) /\ truth' \in Seq([world : Worlds, pending : Seq(PlayerMessages)])
         /\ HistoryInv' /\ Extends
         /\ Len(stream') = Len(stream) + Len(ms)
         /\ ms # <<>> => stream'[Len(stream) + 1] = ms[1] /\ truth'[Len(stream) + 2] = After(truth[Len(stream) + 1], ms[1])
<1> DEFINE States == [world : Worlds, pending : Seq(PlayerMessages)]
<1>0. stream \in Seq(StreamMessages) /\ truth \in Seq(States) /\ Len(stream) \in Nat /\ Len(truth) = Len(stream) + 1
  BY LenProperties DEF TypeInv, HistoryInv
<1>1. CASE ms = <<>>
  <2>1. stream' = stream /\ truth' = truth
    BY <1>0, <1>1 DEF Streams
  <2> QED BY <1>0, <1>1, <2>1 DEF HistoryInv, Extends
<1>2. CASE ms # <<>>
  <2>0. PICK m \in StreamMessages : ms = <<m>>
    BY <1>2
  <2> DEFINE n == Len(stream)
             r == After(truth[n + 1], m)
  <2>1. stream' = Append(stream, m) /\ truth' = Append(truth, r) /\ ms[1] = m /\ Len(ms) = 1
    BY <1>0, <1>2, <2>0 DEF Streams
  <2>2. truth[n + 1] \in States /\ Regular(truth[n + 1].world) /\ truth[n + 1].world.unsync = None
    <3>1. n + 1 \in 1..Len(truth)
      BY <1>0
    <3>2. truth[n + 1] \in States
      <4> HIDE DEF States, n
      <4> QED BY <1>0, <3>1, ElementOfSeq
    <3> QED BY <3>1, <3>2 DEF HistoryInv
  <2>3. r \in States /\ Regular(r.world) /\ r.world.unsync = None
    BY <2>2, AfterState
  <2> HIDE DEF r, States
  <2>4. /\ stream' \in Seq(StreamMessages) /\ Len(stream') = n + 1 /\ stream'[n + 1] = m
        /\ \A i \in 1..n : stream'[i] = stream[i]
    BY <1>0, <2>1, AppendProperties
  <2>5. /\ truth' \in Seq(States) /\ Len(truth') = n + 2 /\ truth'[n + 2] = r
        /\ \A i \in 1..(n + 1) : truth'[i] = truth[i]
    BY <1>0, <2>1, <2>3, AppendProperties
  <2>6. Extends
    BY <1>0, <2>4, <2>5 DEF Extends
  <2>7. HistoryInv'
    <3>1. truth'[1] = [world |-> Generated(founder'), pending |-> <<>>]
      BY <1>0, <2>5 DEF HistoryInv
    <3>2. ASSUME NEW i \in 1..Len(stream') PROVE truth'[i + 1] = After(truth'[i], stream'[i])
      <4>1. CASE i = n + 1
        BY <1>0, <2>4, <2>5, <4>1 DEF r
      <4>2. CASE i \in 1..n
        <5>1. truth[i + 1] = After(truth[i], stream[i])
          BY <4>2 DEF HistoryInv
        <5> QED BY <1>0, <2>4, <2>5, <4>2, <5>1
      <4> QED BY <1>0, <2>4, <4>1, <4>2
    <3>3. ASSUME NEW i \in 1..Len(truth') PROVE Regular(truth'[i].world) /\ truth'[i].world.unsync = None
      <4>1. CASE i = n + 2
        BY <1>0, <2>3, <2>5, <4>1
      <4>2. CASE i \in 1..(n + 1)
        BY <1>0, <2>5, <4>2 DEF HistoryInv
      <4> QED BY <1>0, <2>5, <4>1, <4>2
    <3>4. Len(truth') = Len(stream') + 1
      BY <1>0, <2>4, <2>5
    <3>5. truth'[Len(truth')].world.tick = Count("NEW_TICK", stream')
      <4>1. r.world.tick = truth[n + 1].world.tick + (IF m = Tick THEN 1 ELSE 0)
        BY <2>2, AfterState DEF r, States
      <4>2. truth[n + 1].world.tick = Count("NEW_TICK", stream)
        BY <1>0 DEF HistoryInv
      <4>3. Count("NEW_TICK", stream') = Count("NEW_TICK", stream) + (IF m = Tick THEN 1 ELSE 0)
        BY <1>0, <2>1, CountAppend
      <4> QED BY <2>5, <4>1, <4>2, <4>3
    <3> QED BY <3>1, <3>2, <3>3, <3>4, <3>5, Zenon DEF HistoryInv
  <2> QED BY <1>0, <2>1, <2>4, <2>5, <2>6, <2>7 DEF r, States
<1> QED BY <1>1, <1>2

-----------------------------------------------------------------------------
(* What lies before the clients. *)

\* A client that was told to take part is not told again, and the place a map
\* was asked for stays the one its joiner will read on from.
Steady ==
  /\ \A d \in Clients : Told(d) => Told(d)' /\ (world'[d] = None => world[d] = None /\ read'[d] = read[d])
  /\ doused \subseteq doused'

LEMMA AlikeStays ==
  ASSUME doused \subseteq doused', NEW c, NEW v \in Worlds, NEW w \in Worlds, Alike(c, v, w)
  PROVE  Alike(c, v, w)'
<1>1. PICK b \in BOOLEAN : b <=> c \in doused
  OBVIOUS
<1>2. PICK d \in BOOLEAN : d <=> c \in doused'
  OBVIOUS
<1>3. View(b, v) = View(b, w)
  BY <1>1 DEF Alike, View
<1>4. View(d, v) = View(d, w)
  BY <1>1, <1>2, <1>3, ViewCoarser
<1> QED BY <1>2, <1>4 DEF Alike, View

LEMMA FitsStays ==
  ASSUME TypeInv, HistoryInv, Extends, Steady, NEW m \in Queued, NEW p \in 0..Len(stream), Fits(m, p)
  PROVE  Fits(m, p)'
<1>0. Len(stream) \in Nat /\ Len(stream') \in Int /\ Len(stream) <= Len(stream')
  BY LenProperties DEF TypeInv, Extends
<1>1. p > 0 => stream'[p] = stream[p]
  BY <1>0 DEF Extends
<1>2. p + 1 \in 1..(Len(stream) + 1) /\ truth'[p + 1] = truth[p + 1]
  BY <1>0 DEF Extends
<1>3. AtTick(p) => AtTick(p)'
  BY <1>0, <1>1 DEF AtTick
<1>4. m.type = "MAP_UPLOAD" => m.url \in Clients
  BY DEF Queued, StreamMessages, PlayerMessages, Acts, Tick, OfPlayer
<1>5. m \in StreamMessages => p > 0 /\ m = stream'[p]
  BY <1>1 DEF Fits
<1>6. m.type = "MAP_UPLOAD" => AtTick(p)' /\ Told(m.url)' /\ (world'[m.url] = None => read'[m.url] = p)
  BY <1>3, <1>4 DEF Fits, Steady
<1>7. m.type = "REQUEST_HASH" => AtTick(p)' /\ truth'[p + 1].world.tick = m.tick
  BY <1>2, <1>3 DEF Fits
<1> QED BY <1>5, <1>6, <1>7 DEF Fits

LEMMA LoadWorld ==
  ASSUME NEW s \in Saves
  PROVE  Load(s) \in Worlds /\ Regular(Load(s))
<1>1. [seed |-> s.seed, taken |-> s.calls] \in Generators
  BY DEF Saves, Generators
<1>2. Load(s) \in Worlds
  BY <1>1 DEF Saves, Load, Restored, Worlds
<1> QED BY <1>2 DEF Load, Restored, Regular

\* A save brings back the world it is of, but for a fire.
LEMMA SaveWorldSaves ==
  ASSUME NEW w \in Worlds, Regular(w)
  PROVE  /\ Save(w) \in Saves
         /\ Load(Save(w)) = [w EXCEPT !.fire = FALSE]
         /\ View(TRUE, Load(Save(w))) = View(TRUE, w)
<1>1. Save(w) \in Saves
  BY DEF Worlds, Save, Saves
<1>2. Load(Save(w)) = [w EXCEPT !.fire = FALSE]
  <2>1. Load(Save(w)) = [tick |-> w.tick, players |-> w.players, seed |-> w.seed, calls |-> w.calls,
                         generator |-> w.generator, steps |-> w.steps, unsync |-> w.unsync,
                         welding |-> w.welding, plasma |-> w.plasma, fire |-> FALSE]
    BY DEF Save, Load, Restored, Regular
  <2>2. \A f : [w EXCEPT !.fire = f] = [tick |-> w.tick, players |-> w.players, seed |-> w.seed, calls |-> w.calls,
                         generator |-> w.generator, steps |-> w.steps, unsync |-> w.unsync,
                         welding |-> w.welding, plasma |-> w.plasma, fire |-> f]
    BY DEF Worlds
  <2> QED BY <2>1, <2>2, Zenon
<1> QED BY <1>1, <1>2 DEF View, Worlds

LEMMA AlikeFields ==
  ASSUME NEW c, NEW v \in Worlds, NEW w \in Worlds, Alike(c, v, w)
  PROVE  /\ v.tick = w.tick /\ v.players = w.players /\ v.seed = w.seed /\ v.calls = w.calls
         /\ v.generator = w.generator
<1>1. PICK b \in BOOLEAN : b <=> c \in doused
  OBVIOUS
<1>2. View(b, v) = View(b, w)
  BY <1>1 DEF Alike, View
<1> QED BY <1>2, ViewFields

LEMMA ReadBounds ==
  ASSUME TypeInv, Running, NEW c \in Clients
  PROVE  read[c] \in Nat /\ read[c] + 1 \in 1..Len(truth)
<1>1. read[c] \in 0..Len(stream) /\ Len(stream) \in Nat
  BY LenProperties DEF TypeInv, LockstepTypeOK
<1>2. Len(truth) = Len(stream) + 1
  BY DEF Running, HistoryInv
<1> QED BY <1>1, <1>2

LEMMA WorldRegular ==
  ASSUME TypeInv, Running, NEW c \in Clients, world[c] # None
  PROVE  /\ world[c] \in Worlds /\ Regular(world[c])
         /\ truth[read[c] + 1].world \in Worlds /\ Alike(c, truth[read[c] + 1].world, world[c])
<1>1. read[c] + 1 \in 1..Len(truth)
  BY ReadBounds
<1>2. Regular(truth[read[c] + 1].world)
  BY <1>1 DEF Running, HistoryInv
<1>3. world[c] \in Worlds /\ Alike(c, truth[read[c] + 1].world, world[c])
  BY DEF TypeInv, Running, WorldInv
<1>4. truth[read[c] + 1].world \in Worlds
  BY <1>2 DEF Regular
<1>5. Regular(world[c])
  <2>1. PICK v, w : v = truth[read[c] + 1].world /\ w = world[c]
    OBVIOUS
  <2>2. v.seed = w.seed /\ v.calls = w.calls /\ v.generator = w.generator
    BY <1>3, <1>4, <2>1, AlikeFields
  <2> QED BY <1>2, <1>3, <2>1, <2>2 DEF Regular
<1> QED BY <1>3, <1>4, <1>5

LEMMA SavedForStays ==
  ASSUME TypeInv, HistoryInv, Extends, Steady, NEW d \in Clients, NEW s \in Saves, SavedFor(d, s)
  PROVE  SavedFor(d, s)'
<1>0. Len(stream) \in Nat /\ Len(stream') \in Int /\ Len(stream) <= Len(stream') /\ read[d] \in 0..Len(stream)
  BY LenProperties DEF TypeInv, Extends, LockstepTypeOK
<1>1. CASE world'[d] = None
  <2>1. world[d] = None /\ read'[d] = read[d]
    BY <1>1 DEF SavedFor, Steady
  <2>2. truth'[read[d] + 1] = truth[read[d] + 1]
    BY <1>0 DEF Extends
  <2>3. AtTick(read[d])'
    <3>1. read[d] \in 1..Len(stream) /\ stream[read[d]] = Tick
      BY <2>1 DEF SavedFor, AtTick
    <3> QED BY <1>0, <2>1, <3>1 DEF Extends, AtTick
  <2>4. PICK v, w : v = truth[read[d] + 1].world /\ w = Load(s)
    OBVIOUS
  <2>5. v \in Worlds /\ w \in Worlds
    <3>1. read[d] + 1 \in 1..Len(truth)
      BY <1>0 DEF HistoryInv
    <3> QED BY <2>4, <3>1, LoadWorld DEF HistoryInv, Regular
  <2>6. Alike(d, v, w)
    BY <2>1, <2>4 DEF SavedFor
  <2>7. Alike(d, v, w)'
    BY <2>5, <2>6, AlikeStays DEF Steady
  <2>8. View(d \in doused', truth'[read'[d] + 1].world) = View(d \in doused', Load(s))
    BY <2>1, <2>2, <2>4, <2>7 DEF Alike
  <2> QED BY <2>1, <2>3, <2>8 DEF SavedFor, Steady, Alike
<1>2. CASE world'[d] # None
  BY <1>2 DEF SavedFor, Steady
<1> QED BY <1>1, <1>2

\* A save that waits, or was posted, is as good after the step.
LEMMA SavesGoOn ==
  ASSUME TypeInv, HistoryInv, Extends, Steady, SaveInv
  PROVE  /\ \A d \in Clients : \A s \in Saves : SavedFor(d, s) => SavedFor(d, s)'
         /\ \A c \in Clients : \A i \in 1..Len(outgoing[c]) :
               \E d \in Clients : \E s : d = outgoing[c][i].url /\ s = outgoing[c][i].data /\ SavedFor(d, s)'
         /\ \A c \in Clients : stored[c] # None => \E s : s = stored[c] /\ SavedFor(c, s)'
<1>1. \A d \in Clients : \A s \in Saves : SavedFor(d, s) => SavedFor(d, s)'
  BY SavedForStays
<1>2. ASSUME NEW c \in Clients, NEW i \in 1..Len(outgoing[c])
      PROVE  \E d \in Clients : \E s : d = outgoing[c][i].url /\ s = outgoing[c][i].data /\ SavedFor(d, s)'
  <2>1. outgoing[c][i] \in Posts
    BY ElementOfSeq DEF TypeInv
  <2>2. PICK d, s : d = outgoing[c][i].url /\ s = outgoing[c][i].data
    OBVIOUS
  <2>3. d \in Clients /\ s \in Saves /\ SavedFor(d, s)
    BY <2>1, <2>2 DEF Posts, SaveInv
  <2> QED BY <1>1, <2>2, <2>3
<1>3. ASSUME NEW c \in Clients, stored[c] # None PROVE \E s : s = stored[c] /\ SavedFor(c, s)'
  <2>1. PICK s : s = stored[c]
    OBVIOUS
  <2>2. s \in Saves /\ SavedFor(c, s)
    BY <1>3, <2>1 DEF SaveInv, TypeInv
  <2> QED BY <1>1, <2>1, <2>2
<1> QED BY <1>1, <1>2, <1>3

LEMMA SavesStay ==
  ASSUME TypeInv, HistoryInv, Extends, Steady, SaveInv, UNCHANGED <<outgoing, stored>>
  PROVE  SaveInv'
BY SavesGoOn DEF SaveInv

\* What lies before a client stays where it was, for one or other of the ways
\* in which it changes.
LEMMA UnreadType ==
  ASSUME TypeInv, NEW c \in Clients
  PROVE  Unread(c) \in Seq(Queued) /\ Len(Unread(c)) \in Nat
BY ConcatProperties, LenProperties DEF TypeInv, Unread

LEMMA UnreadTypeNext ==
  ASSUME TypeInv, TypeInv', Extends, NEW c \in Clients
  PROVE  /\ Unread(c)' \in Seq(Queued) /\ Len(Unread(c)') \in Nat
         /\ Unread(c) \in Seq(Queued) /\ Len(Unread(c)) \in Nat
         /\ Len(stream) \in Nat /\ Len(stream') \in Nat /\ Len(stream) <= Len(stream')
BY UnreadType, ConcatProperties, LenProperties DEF TypeInv, Unread, Extends

\* Nothing new, though some may have been lost with the connection.
LEMMA PlacedCut ==
  ASSUME TypeInv, HistoryInv, Extends, Steady, NEW c \in Clients, \E at : Placed(c, at),
         TypeInv', Len(Unread(c)') <= Len(Unread(c)),
         \A i \in 1..Len(Unread(c)') : Unread(c)'[i] = Unread(c)[i],
         read'[c] = read[c],
         Online(c)' => Online(c) /\ Len(stream') = Len(stream) /\ Len(Unread(c)') = Len(Unread(c))
  PROVE  \E at : Placed(c, at)'
<1>1. PICK at : Placed(c, at)
  OBVIOUS
<1> DEFINE u == Unread(c)
           v == Unread(c)'
<1>2. /\ Len(stream) \in Nat /\ Len(stream') \in Nat /\ Len(u) \in Nat /\ Len(v) \in Nat
      /\ Len(stream) <= Len(stream') /\ u \in Seq(Queued) /\ Len(v) <= Len(u)
  BY UnreadTypeNext
<1>3. \A i \in 0..Len(u) : at[i] \in 0..Len(stream)
  BY <1>1 DEF Placed
<1>a. PICK to : to = [i \in 0..Len(v) |-> at[i]]
  OBVIOUS
<1>4. to \in [0..Len(v) -> 0..Len(stream')]
  <2> HIDE DEF u, v
  <2> QED BY <1>2, <1>3, <1>a
<1>5. to[0] = read'[c]
  BY <1>1, <1>2, <1>a DEF Placed
<1>6. ASSUME NEW i \in 1..Len(v)
      PROVE  \E m, p : to[i] = to[i - 1] + Weight(v[i]) /\ m = v[i] /\ p = to[i] /\ Fits(m, p)'
  <2>1. i \in 1..Len(u) /\ v[i] = u[i] /\ to[i] = at[i] /\ to[i - 1] = at[i - 1]
    BY <1>2, <1>a
  <2>2. at[i] = at[i - 1] + Weight(u[i]) /\ Fits(u[i], at[i])
    BY <1>1, <2>1 DEF Placed
  <2>3. PICK m, p : m = u[i] /\ p = at[i]
    OBVIOUS
  <2>4. m \in Queued /\ p \in 0..Len(stream)
    <3> HIDE DEF u, v
    <3> QED BY <1>2, <1>3, <2>1, <2>3, ElementOfSeq
  <2>5. Fits(m, p)
    BY <2>2, <2>3
  <2>6. Fits(m, p)'
    BY <2>4, <2>5, FitsStays
  <2>7. v[i] = m /\ to[i] = p
    BY <2>1, <2>3
  <2> QED BY <2>1, <2>2, <2>6, <2>7
<1>7. Online(c)' => to[Len(v)] = Len(stream')
  BY <1>1, <1>2, <1>a DEF Placed
<1>8. Placed(c, to)'
  BY <1>4, <1>5, <1>6, <1>7 DEF Placed
<1> QED BY <1>8

\* The stream and what goes with it is sent to a client: a message of the
\* stream, and requests behind it.
LEMMA PlacedLonger ==
  ASSUME TypeInv, HistoryInv, Extends, Steady, NEW c \in Clients, \E at : Placed(c, at), Online(c),
         TypeInv', Len(stream') = Len(stream) + 1,
         NEW ms \in Seq(Queued), ms # <<>>, Unread(c)' = Unread(c) \o ms, read'[c] = read[c],
         ms[1] \in StreamMessages, ms[1] = stream'[Len(stream) + 1],
         \A i \in 2..Len(ms) : ms[i] \notin StreamMessages /\ Fits(ms[i], Len(stream))'
  PROVE  \E at : Placed(c, at)'
<1>1. PICK at : Placed(c, at)
  OBVIOUS
<1> DEFINE u == Unread(c)
           v == Unread(c)'
           n == Len(stream)
<1>2. /\ n \in Nat /\ Len(stream') = n + 1 /\ Len(u) \in Nat /\ Len(v) \in Nat
      /\ u \in Seq(Queued) /\ Len(v) = Len(u) + Len(ms) /\ Len(ms) \in Nat /\ Len(ms) >= 1
      /\ \A i \in 1..Len(u) : v[i] = u[i]
      /\ \A i \in 1..Len(ms) : v[Len(u) + i] = ms[i]
  BY UnreadTypeNext, ConcatProperties, LenProperties, EmptySeq
<1>3. \A i \in 0..Len(u) : at[i] \in 0..n
  BY <1>1 DEF Placed
<1>4. at[Len(u)] = n
  BY <1>1 DEF Placed
<1>5. PICK to : to = [i \in 0..Len(v) |-> IF i <= Len(u) THEN at[i] ELSE n + 1]
  OBVIOUS
<1>6. to \in [0..Len(v) -> 0..Len(stream')]
  <2> HIDE DEF u, v, n
  <2> QED BY <1>2, <1>3, <1>5
<1>7. to[0] = read'[c]
  BY <1>1, <1>2, <1>5 DEF Placed
<1>8. ASSUME NEW i \in 1..Len(v)
      PROVE  \E m, p : to[i] = to[i - 1] + Weight(v[i]) /\ m = v[i] /\ p = to[i] /\ Fits(m, p)'
  <2>1. CASE i \in 1..Len(u)
    <3>1. v[i] = u[i] /\ to[i] = at[i] /\ to[i - 1] = at[i - 1]
      BY <1>2, <1>5, <2>1
    <3>2. at[i] = at[i - 1] + Weight(u[i]) /\ Fits(u[i], at[i])
      BY <1>1, <2>1 DEF Placed
    <3>3. PICK m, p : m = u[i] /\ p = at[i]
      OBVIOUS
    <3>4. m \in Queued /\ p \in 0..n
      <4> HIDE DEF u, v, n
      <4> QED BY <1>2, <1>3, <2>1, <3>3, ElementOfSeq
    <3>5. Fits(m, p)
      BY <3>2, <3>3
    <3>6. Fits(m, p)'
      BY <3>4, <3>5, FitsStays
    <3> QED BY <3>1, <3>2, <3>3, <3>6
  <2>2. CASE i = Len(u) + 1
    <3>1. v[i] = ms[1] /\ to[i] = n + 1 /\ to[i - 1] = n
      BY <1>2, <1>4, <1>5, <2>2
    <3>2. PICK m, p : m = ms[1] /\ p = n + 1
      OBVIOUS
    <3>3. m \in StreamMessages /\ m = stream'[p] /\ p > 0
      BY <1>2, <3>2
    <3>4. m.type \notin {"MAP_UPLOAD", "REQUEST_HASH"}
      BY <3>3 DEF StreamMessages, PlayerMessages, Acts, OfPlayer, Tick
    <3>5. Fits(m, p)'
      BY <3>3, <3>4 DEF Fits
    <3>6. Weight(m) = 1
      BY <3>3 DEF Weight
    <3> QED BY <1>2, <3>1, <3>2, <3>5, <3>6
  <2>3. CASE i \in (Len(u) + 2)..Len(v)
    <3>1. PICK k \in 2..Len(ms) : i = Len(u) + k
      <4>1. i - Len(u) \in 2..Len(ms)
        BY <1>2, <2>3
      <4> QED BY <1>2, <4>1
    <3>2. v[i] = ms[k] /\ to[i] = n + 1 /\ to[i - 1] = n + 1
      BY <1>2, <1>5, <3>1
    <3>3. PICK m, p : m = ms[k] /\ p = Len(stream')
      OBVIOUS
    <3>4. m \notin StreamMessages /\ Fits(m, p)'
      BY <3>3
    <3>5. Weight(m) = 0
      BY <3>4 DEF Weight
    <3> QED BY <1>2, <3>2, <3>3, <3>4, <3>5
  <2> QED BY <1>2, <2>1, <2>2, <2>3
<1>9. to[Len(v)] = Len(stream')
  BY <1>2, <1>5
<1>10. Placed(c, to)'
  BY <1>6, <1>7, <1>8, <1>9 DEF Placed
<1> QED BY <1>10

\* The first message is taken off the queue.
LEMMA PlacedTaken ==
  ASSUME TypeInv, HistoryInv, Extends, Steady, NEW c \in Clients, NEW at, Placed(c, at),
         TypeInv', Len(stream') = Len(stream), Unread(c) # <<>>, Unread(c)' = Tail(Unread(c)),
         read'[c] = at[1], Online(c)' => Online(c)
  PROVE  \E to : Placed(c, to)'
<1> DEFINE u == Unread(c)
           v == Unread(c)'
           n == Len(stream)
<1>2. /\ n \in Nat /\ Len(stream') = n /\ Len(u) \in Nat /\ Len(v) = Len(u) - 1
      /\ u \in Seq(Queued) /\ Len(u) >= 1
      /\ \A i \in 1..Len(v) : v[i] = u[i + 1]
  BY UnreadTypeNext, HeadTailProperties, LenProperties, EmptySeq
<1>3. \A i \in 0..Len(u) : at[i] \in 0..n
  BY DEF Placed
<1>5. PICK to : to = [i \in 0..Len(v) |-> at[i + 1]]
  OBVIOUS
<1>6. to \in [0..Len(v) -> 0..Len(stream')]
  <2> HIDE DEF u, v, n
  <2> QED BY <1>2, <1>3, <1>5
<1>7. to[0] = read'[c]
  BY <1>2, <1>5
<1>8. ASSUME NEW i \in 1..Len(v)
      PROVE  \E m, p : to[i] = to[i - 1] + Weight(v[i]) /\ m = v[i] /\ p = to[i] /\ Fits(m, p)'
  <2>1. i + 1 \in 1..Len(u) /\ v[i] = u[i + 1] /\ to[i] = at[i + 1] /\ to[i - 1] = at[(i + 1) - 1]
    BY <1>2, <1>5
  <2>2. at[i + 1] = at[(i + 1) - 1] + Weight(u[i + 1]) /\ Fits(u[i + 1], at[i + 1])
    BY <2>1, Zenon DEF Placed
  <2>3. PICK m, p : m = u[i + 1] /\ p = at[i + 1]
    OBVIOUS
  <2>4. m \in Queued /\ p \in 0..n
    <3> HIDE DEF u, v, n
    <3> QED BY <1>2, <1>3, <2>1, <2>3, ElementOfSeq
  <2>5. Fits(m, p)
    BY <2>2, <2>3
  <2>6. Fits(m, p)'
    BY <2>4, <2>5, FitsStays
  <2> QED BY <2>1, <2>2, <2>3, <2>6
<1>9. Online(c)' => to[Len(v)] = Len(stream')
  BY <1>2, <1>5 DEF Placed
<1>10. Placed(c, to)'
  BY <1>6, <1>7, <1>8, <1>9 DEF Placed
<1> QED BY <1>10

\* A client that has just been told to take part has nothing before it.
LEMMA PlacedNothing ==
  ASSUME NEW c \in Clients, Unread(c)' = <<>>, Len(stream') \in Nat,
         read'[c] \in 0..Len(stream'), Online(c)' => read'[c] = Len(stream')
  PROVE  \E at : Placed(c, at)'
<1>1. PICK to : to = [i \in 0..0 |-> read'[c]]
  OBVIOUS
<1>2. Len(Unread(c)') = 0
  BY EmptySeq
<1>3. Placed(c, to)'
  BY <1>1, <1>2 DEF Placed
<1> QED BY <1>3

-----------------------------------------------------------------------------
(* What a step leaves alone. *)

LEMMA StreamStays ==
  ASSUME TypeInv, HistoryInv, UNCHANGED <<stream, truth, founder>>
  PROVE  HistoryInv' /\ Extends
BY LenProperties DEF HistoryInv, Extends, TypeInv

LEMMA PlacedStays ==
  ASSUME TypeInv, HistoryInv, TypeInv', Steady, UNCHANGED <<stream, truth, founder, members>>, NEW d \in Clients,
         queue'[d] = queue[d], wire'[d] = wire[d], socket'[d] = socket[d], read'[d] = read[d],
         \E at : Placed(d, at)
  PROVE  \E at : Placed(d, at)'
<1>1. Unread(d)' = Unread(d)
  BY DEF Unread, Coming
<1>2. Extends
  BY StreamStays
<1>3. Online(d)' => Online(d)
  BY DEF Online
<1>4. Len(Unread(d)) \in Nat
  BY UnreadType
<1>5. \A i \in 1..Len(Unread(d)') : Unread(d)'[i] = Unread(d)[i]
  BY <1>1
<1>6. Len(Unread(d)') <= Len(Unread(d)) /\ Len(Unread(d)') = Len(Unread(d))
  BY <1>1, <1>4
<1> QED BY <1>2, <1>3, <1>5, <1>6, PlacedCut

LEMMA AnswersStay ==
  ASSUME TypeInv, HistoryInv, Extends, Steady, AnswerInv, NEW a \in answers
  PROVE  AnswerFits(a)'
<1>1. PICK w \in Worlds, n \in 1..Len(stream) :
         /\ a.hash = Hashed(w)
         /\ stream[n] = Tick /\ truth[n + 1].world.tick = a.tick
         /\ Alike(a.from, truth[n + 1].world, w)
  BY DEF AnswerInv, AnswerFits
<1>2. Len(stream) \in Nat /\ Len(stream) <= Len(stream')
  BY LenProperties DEF TypeInv, Extends
<1>3. stream'[n] = stream[n] /\ truth'[n + 1] = truth[n + 1]
  BY <1>2 DEF Extends
<1>4. n \in 1..Len(stream')
  BY <1>2, LenProperties DEF Extends
<1>5. PICK c, v : c = a.from /\ v = truth[n + 1].world
  OBVIOUS
<1>6. v \in Worlds
  <2>1. n + 1 \in 1..Len(truth)
    BY <1>2 DEF HistoryInv
  <2> QED BY <1>5, <2>1 DEF HistoryInv, Regular
<1>7. Alike(c, v, w)'
  BY <1>1, <1>5, <1>6, AlikeStays DEF Steady
<1>8. a.asked = a.tick /\ a.from \in Clients
  BY DEF AnswerInv, AnswerFits
<1>9. View(a.from \in doused', truth'[n + 1].world) = View(a.from \in doused', w)
  BY <1>3, <1>5, <1>7 DEF Alike
<1> QED BY <1>1, <1>3, <1>4, <1>8, <1>9 DEF AnswerFits, Alike

\* The history and its players when the stream does not grow.
StreamPlayers ==
  \A n \in 0..Len(stream) :
     /\ KnownIn(truth[n + 1])
     /\ \A l \in Logins : Known(l, n) => \/ l \in truth[n + 1].world.players
                                         \/ Awaited(l, truth[n + 1].pending, Len(truth[n + 1].pending))

LEMMA PlayersStay ==
  ASSUME StreamPlayers, UNCHANGED <<stream, truth, founder>>
  PROVE  StreamPlayers' /\ \A l, n : Known(l, n) => Known(l, n)'
<1>1. \A l, n : Known(l, n)' <=> Known(l, n)
  BY DEF Known
<1>2. \A n \in 0..Len(stream) : KnownIn(truth[n + 1])
  BY DEF StreamPlayers
<1>3. \A n \in 0..Len(stream) : KnownIn(truth[n + 1])'
  BY <1>2 DEF KnownIn, Awaited, NewClient, OfPlayer
<1> QED BY <1>1, <1>3 DEF StreamPlayers, Awaited, NewClient, OfPlayer

\* The registry does nothing, and no client loses or gets a connection.
LEMMA RegistryStays ==
  ASSUME TypeInv, Running, UNCHANGED registry,
         \A d \in Clients : socket'[d] = "off" <=> socket[d] = "off",
         \A d \in Clients : world'[d] = None => world[d] = None /\ read'[d] = read[d],
         doused \subseteq doused'
  PROVE  HistoryInv' /\ Extends /\ Steady /\ StreamPlayers' /\ \A l, n : Known(l, n) => Known(l, n)'
<1>1. StreamPlayers
  BY DEF Running, PlayerInv, StreamPlayers
<1>2. UNCHANGED <<stream, truth, founder, waiting>>
  BY DEF registry
<1> QED BY <1>1, <1>2, StreamStays, PlayersStay DEF Running, Steady, Told

\* A sequence from which the head moves to the end of the one before it.
LEMMA HeadMoves ==
  ASSUME NEW S, NEW q \in Seq(S), NEW w \in Seq(S), w # <<>>
  PROVE  q \o w = Append(q, Head(w)) \o Tail(w)
<1>1. /\ Head(w) \in S /\ Head(w) = w[1] /\ Tail(w) \in Seq(S) /\ 1 \in 1..Len(w) /\ Len(w) \in 1..Len(w)
  BY HeadTailProperties, EmptySeq, LenProperties
<1>2. SubSeq(w, 1, Len(w)) = <<w[1]>> \o SubSeq(w, 1 + 1, Len(w))
  BY <1>1, SubSeqRecursiveFirst
<1>3. w = <<Head(w)>> \o Tail(w)
  BY <1>1, <1>2, SubSeqFull, TailIsSubSeq
<1>4. <<Head(w)>> \in Seq(S)
  BY <1>1
<1>5. q \o w = (q \o <<Head(w)>>) \o Tail(w)
  BY <1>1, <1>3, <1>4, ConcatAssociative
<1> QED BY <1>1, <1>5, AppendIsConcat

-----------------------------------------------------------------------------
(* The steps of a client. *)

\* What a message taken off the queue says.
LEMMA HeadFits ==
  ASSUME TypeInv, Running, NEW c \in Clients, queue[c] # <<>>
  PROVE  \E at, m : /\ Placed(c, at) /\ m = Head(queue[c]) /\ m \in Queued
                    /\ at[1] = read[c] + Weight(m) /\ at[1] \in 0..Len(stream) /\ Fits(m, at[1])
                    /\ Unread(c) # <<>> /\ Tail(queue[c]) \in Seq(Queued)
                    /\ Tail(Unread(c)) = Tail(queue[c]) \o Coming(c)
<1>1. PICK at : Placed(c, at)
  BY DEF Running, PlaceInv
<1>2. queue[c] \in Seq(Queued) /\ Coming(c) \in Seq(Queued)
  BY DEF TypeInv
<1>3. PICK q, w : q = queue[c] /\ w = Coming(c)
  OBVIOUS
<1>4. /\ Head(q) \in Queued /\ Tail(q) \in Seq(Queued) /\ Len(q) \in Nat /\ Len(q) >= 1 /\ Head(q) = q[1]
  BY <1>2, <1>3, HeadTailProperties, EmptySeq, LenProperties
<1>5. q = <<Head(q)>> \o Tail(q)
  <2>1. 1 \in 1..Len(q) /\ Len(q) \in 1..Len(q)
    BY <1>4
  <2>2. SubSeq(q, 1, Len(q)) = <<q[1]>> \o SubSeq(q, 1 + 1, Len(q))
    BY <1>2, <1>3, <2>1, SubSeqRecursiveFirst
  <2> QED BY <1>2, <1>3, <1>4, <2>2, SubSeqFull, TailIsSubSeq
<1>6. <<Head(q)>> \in Seq(Queued)
  BY <1>4
<1>7. q \o w = <<Head(q)>> \o (Tail(q) \o w)
  <2>1. ASSUME NEW h \in Seq(Queued), NEW t \in Seq(Queued) PROVE (h \o t) \o w = h \o (t \o w)
    BY <1>2, <1>3, ConcatAssociative
  <2> QED BY <1>4, <1>5, <1>6, <2>1
<1> DEFINE t == Tail(q) \o w
<1>8. t \in Seq(Queued)
  BY <1>2, <1>3, <1>4, ConcatProperties
<1>9. /\ <<Head(q)>> \o t \in Seq(Queued) /\ (<<Head(q)>> \o t)[1] = Head(q)
      /\ Len(<<Head(q)>> \o t) = 1 + Len(t) /\ Len(t) \in Nat
      /\ <<Head(q)>> \o t # <<>>
  <2> HIDE DEF t
  <2> QED BY <1>4, <1>6, <1>8, ConcatProperties, LenProperties, EmptySeq
<1>10. Tail(<<Head(q)>> \o t) = t
  <2> HIDE DEF t
  <2>1. \A i \in 1..Len(t) : (<<Head(q)>> \o t)[i + 1] = t[i]
    BY <1>4, <1>6, <1>8, <1>9, ConcatProperties
  <2> QED BY <1>8, <1>9, <2>1, HeadTailProperties, SeqEqual
<1>11. Unread(c) = <<Head(q)>> \o t
  BY <1>3, <1>7 DEF Unread
<1>12. Len(Unread(c)) >= 1 /\ Unread(c)[1] = Head(q)
  BY <1>9, <1>11
<1>13. at[1] = at[0] + Weight(Unread(c)[1]) /\ Fits(Unread(c)[1], at[1])
  <2>1. 1 \in 1..Len(Unread(c)) /\ 1 - 1 = 0
    BY <1>12, UnreadType
  <2> QED BY <1>1, <2>1, Zenon DEF Placed
<1>14. at[0] = read[c] /\ at[1] \in 0..Len(stream)
  BY <1>1, <1>12, UnreadType DEF Placed
<1>15. PICK m : m = Head(q)
  OBVIOUS
<1> QED BY <1>1, <1>3, <1>4, <1>9, <1>10, <1>11, <1>12, <1>13, <1>14, <1>15

\* A step of a client that reads, or takes a request off its queue.
LEMMA PlacesAfterTaking ==
  ASSUME TypeInv, Running, TypeInv', Steady, NEW c \in Clients, queue[c] # <<>>,
         UNCHANGED <<registry, wire, socket>>, queue' = [queue EXCEPT ![c] = Tail(@)],
         read'[c] = read[c] + Weight(Head(queue[c])), \A d \in Clients \ {c} : read'[d] = read[d]
  PROVE  PlaceInv'
<1>1. PICK at, m : /\ Placed(c, at) /\ m = Head(queue[c]) /\ at[1] = read[c] + Weight(m) /\ Unread(c) # <<>>
                   /\ Tail(Unread(c)) = Tail(queue[c]) \o Coming(c)
  BY HeadFits
<1>2. HistoryInv /\ Extends
  BY StreamStays DEF Running, registry
<1>3. \E to : Placed(c, to)'
  <2>1. Unread(c)' = Tail(Unread(c))
    BY <1>1 DEF Unread, Coming, TypeInv
  <2>2. read'[c] = at[1] /\ Len(stream') = Len(stream)
    BY <1>1 DEF registry
  <2>3. Online(c)' => Online(c)
    BY DEF Online, registry
  <2> QED BY <1>1, <1>2, <2>1, <2>2, <2>3, PlacedTaken
<1>4. ASSUME NEW d \in Clients, d # c PROVE \E to : Placed(d, to)'
  <2>1. \E to : Placed(d, to)
    BY DEF Running, PlaceInv
  <2>2. queue'[d] = queue[d] /\ wire'[d] = wire[d] /\ socket'[d] = socket[d] /\ read'[d] = read[d]
    BY <1>4 DEF TypeInv
  <2> QED BY <1>2, <2>1, <2>2, PlacedStays DEF registry
<1> QED BY <1>3, <1>4 DEF PlaceInv

LEMMA HashKeeps ==
  ASSUME TypeInv, Running, NEW c \in Clients, Hash(c)
  PROVE  TypeInv' /\ Running'
<1> DEFINE a == [from |-> c, asked |-> Head(queue[c]).tick, tick |-> world[c].tick, hash |-> Hashed(world[c])]
<1>0. /\ world[c] # None /\ queue[c] # <<>> /\ Head(queue[c]).type = "REQUEST_HASH"
      /\ queue' = [queue EXCEPT ![c] = Tail(@)]
      /\ answers' = answers \cup {a}
      /\ UNCHANGED <<registry, wire, socket, read, faults, map, world, pending, outgoing, stored, troubles, doused>>
  BY DEF Hash, Pops, Popped
<1> HIDE DEF a
<1>1. PICK at, m : /\ m = Head(queue[c]) /\ m \in Queued
                   /\ at[1] = read[c] + Weight(m) /\ Fits(m, at[1]) /\ Tail(queue[c]) \in Seq(Queued)
  BY <1>0, HeadFits
<1>2. m \notin StreamMessages /\ Weight(m) = 0
  BY <1>0, <1>1 DEF Weight, StreamMessages, PlayerMessages, Acts, Tick, OfPlayer
<1>3. TypeInv'
  BY <1>0, <1>1 DEF TypeInv, LockstepTypeOK, registry, Coming
<1>4. HistoryInv' /\ Extends /\ Steady /\ StreamPlayers' /\ \A l, n : Known(l, n) => Known(l, n)'
  BY <1>0, RegistryStays
<1>5. ConnInv'
  BY <1>0, EmptySeq DEF Running, ConnInv, Connecting, MapOf, registry, TypeInv
<1>6. WorldInv'
  BY <1>0 DEF Running, WorldInv, Alike, registry
<1>7. PlaceInv'
  <2>1. read[c] \in Nat
    BY DEF TypeInv, LockstepTypeOK
  <2>2. read'[c] = read[c] + Weight(Head(queue[c]))
    BY <1>0, <1>1, <1>2, <2>1
  <2> QED BY <1>0, <1>3, <1>4, <2>2, PlacesAfterTaking
<1>8. SaveInv'
  BY <1>0, <1>4, SavesStay DEF Running
<1>9. AnswerInv'
  <2>1. \A b \in answers : AnswerFits(b)'
    BY <1>4, AnswersStay DEF Running
  <2>2. ASSUME NEW b, b = a PROVE AnswerFits(b)'
    <3>1. read[c] \in Nat /\ at[1] = read[c]
      BY <1>1, <1>2 DEF TypeInv, LockstepTypeOK
    <3>2. AtTick(read[c]) /\ truth[read[c] + 1].world.tick = m.tick
      BY <1>0, <1>1, <3>1 DEF Fits
    <3>3. Alike(c, truth[read[c] + 1].world, world[c]) /\ world[c] \in Worlds
      BY <1>0 DEF Running, WorldInv, TypeInv
    <3>4. truth[read[c] + 1].world.tick = world[c].tick
      <4>1. truth[read[c] + 1].world \in Worlds
        <5>1. read[c] + 1 \in 1..Len(truth)
          BY ReadBounds
        <5> QED BY <5>1 DEF Running, HistoryInv, Regular
      <4> QED BY <3>3, <4>1, AlikeFields
    <3>5. b.from = c /\ b.asked = m.tick /\ b.tick = world[c].tick /\ b.hash = Hashed(world[c])
      BY <1>1, <2>2 DEF a
    <3>6. read[c] \in 1..Len(stream') /\ stream'[read[c]] = Tick /\ truth'[read[c] + 1] = truth[read[c] + 1]
      BY <1>0, <3>2 DEF AtTick, registry
    <3>7. View(c \in doused', truth'[read[c] + 1].world) = View(c \in doused', world[c])
      BY <1>0, <3>3, <3>6 DEF Alike
    <3>8. PICK w, n : w = world[c] /\ n = read[c]
      OBVIOUS
    <3>9. w \in Worlds /\ n \in 1..Len(stream') /\ b.hash = Hashed(w) /\ stream'[n] = Tick
          /\ truth'[n + 1].world.tick = b.tick
          /\ View(b.from \in doused', truth'[n + 1].world) = View(b.from \in doused', w)
      BY <3>3, <3>4, <3>5, <3>6, <3>7, <3>8
    <3>10. b.asked = b.tick /\ b.from \in Clients
      BY <3>2, <3>4, <3>5
    <3> QED BY <3>9, <3>10 DEF AnswerFits, Alike
  <2>3. ASSUME NEW b \in answers' PROVE AnswerFits(b)'
    BY <1>0, <2>1, <2>2, <2>3
  <2> QED BY <2>3 DEF AnswerInv
<1>10. PlayerInv'
  BY <1>0, <1>4 DEF Running, PlayerInv, StreamPlayers, registry
<1> QED BY <1>3, <1>4, <1>5, <1>6, <1>7, <1>8, <1>9, <1>10 DEF Running

LEMMA SaveWorldKeeps ==
  ASSUME TypeInv, Running, NEW c \in Clients, SaveWorld(c)
  PROVE  TypeInv' /\ Running'
<1> DEFINE e == [url |-> Head(queue[c]).url, data |-> Save(world[c])]
<1>0. /\ world[c] # None /\ queue[c] # <<>> /\ Head(queue[c]).type = "MAP_UPLOAD"
      /\ queue' = [queue EXCEPT ![c] = Tail(@)]
      /\ outgoing' = [outgoing EXCEPT ![c] = @ \o <<e>>]
      /\ UNCHANGED <<registry, wire, socket, read, faults, map, world, pending, stored, answers, troubles>>
      /\ doused' = IF world[c].fire \/ c \in doused THEN doused \cup {Head(queue[c]).url} ELSE doused
      /\ doused \subseteq doused'
  BY DEF SaveWorld, Pops, Popped, Upload
<1> HIDE DEF e
<1>1. PICK at, m : /\ m = Head(queue[c]) /\ m \in Queued
                   /\ at[1] = read[c] + Weight(m) /\ Fits(m, at[1]) /\ Tail(queue[c]) \in Seq(Queued)
  BY <1>0, HeadFits
<1>2. m \notin StreamMessages /\ Weight(m) = 0 /\ m.url \in Clients /\ e.url = m.url /\ e.data = Save(world[c])
  BY <1>0, <1>1 DEF Weight, Queued, StreamMessages, PlayerMessages, Acts, Tick, OfPlayer, e
<1>3. world[c] \in Worlds /\ Regular(world[c]) /\ Save(world[c]) \in Saves
  BY <1>0, WorldRegular, SaveWorldSaves
<1>4. e \in Posts
  BY <1>1, <1>2, <1>3 DEF Posts, e
<1>5. /\ outgoing[c] \o <<e>> \in Seq(Posts)
      /\ Len(outgoing[c] \o <<e>>) = Len(outgoing[c]) + 1 /\ Len(outgoing[c]) \in Nat
      /\ \A i \in 1..Len(outgoing[c]) : (outgoing[c] \o <<e>>)[i] = outgoing[c][i]
      /\ (outgoing[c] \o <<e>>)[Len(outgoing[c]) + 1] = e
  <2>1. outgoing[c] \in Seq(Posts)
    BY DEF TypeInv
  <2> QED BY <1>4, <2>1, AppendIsConcat, AppendProperties, LenProperties
<1>6. TypeInv'
  BY <1>0, <1>1, <1>2, <1>5 DEF TypeInv, LockstepTypeOK, registry, Coming
<1>7. HistoryInv' /\ Extends /\ Steady /\ StreamPlayers' /\ \A l, n : Known(l, n) => Known(l, n)'
  BY <1>0, RegistryStays
<1>8. ConnInv'
  BY <1>0, EmptySeq DEF Running, ConnInv, Connecting, MapOf, registry, TypeInv
<1>9. WorldInv'
  <2>1. ASSUME NEW d \in Clients, world[d] # None
        PROVE  View(d \in doused', truth[read[d] + 1].world) = View(d \in doused', world[d])
    <3>1. PICK v, w : v = truth[read[d] + 1].world /\ w = world[d]
      OBVIOUS
    <3>2. v \in Worlds /\ w \in Worlds /\ Alike(d, v, w)
      BY <2>1, <3>1, WorldRegular
    <3>3. Alike(d, v, w)'
      BY <1>0, <3>2, AlikeStays
    <3> QED BY <3>1, <3>3 DEF Alike
  <2> QED BY <1>0, <2>1 DEF Running, WorldInv, Alike, registry
<1>10. PlaceInv'
  <2>1. read[c] \in Nat
    BY DEF TypeInv, LockstepTypeOK
  <2>2. read'[c] = read[c] + Weight(Head(queue[c]))
    BY <1>0, <1>1, <1>2, <2>1
  <2> QED BY <1>0, <1>6, <1>7, <2>2, PlacesAfterTaking
<1>11. SaveInv'
  <2>1. /\ \A d \in Clients : \A s \in Saves : SavedFor(d, s) => SavedFor(d, s)'
        /\ \A b \in Clients : \A i \in 1..Len(outgoing[b]) :
              \E d \in Clients : \E s : d = outgoing[b][i].url /\ s = outgoing[b][i].data /\ SavedFor(d, s)'
        /\ \A b \in Clients : stored[b] # None => \E s : s = stored[b] /\ SavedFor(b, s)'
    BY <1>7, SavesGoOn DEF Running
  <2>4. \E d \in Clients : \E s : d = e.url /\ s = e.data /\ SavedFor(d, s)'
    <3>1. read[c] \in Nat /\ at[1] = read[c]
      BY <1>1, <1>2 DEF TypeInv, LockstepTypeOK
    <3>2. AtTick(read[c]) /\ Told(m.url) /\ (world[m.url] = None => read[m.url] = read[c])
      BY <1>0, <1>1, <3>1 DEF Fits
    <3>3. PICK d, s, v, w : d = m.url /\ s = Save(world[c]) /\ v = truth[read[c] + 1].world /\ w = world[c]
      OBVIOUS
    <3>4. /\ v \in Worlds /\ w \in Worlds /\ Regular(w) /\ Alike(c, v, w) /\ s \in Saves /\ d \in Clients
          /\ Load(s) = [w EXCEPT !.fire = FALSE] /\ View(TRUE, Load(s)) = View(TRUE, w) /\ Load(s) \in Worlds
      BY <1>0, <1>2, <1>3, <3>3, WorldRegular, SaveWorldSaves, LoadWorld
    <3>5. View(d \in doused', v) = View(d \in doused', Load(s))
      <4>1. PICK b \in BOOLEAN : b <=> d \in doused'
        OBVIOUS
      <4>2. PICK f \in BOOLEAN : f <=> c \in doused
        OBVIOUS
      <4>3. View(f, v) = View(f, w)
        BY <3>4, <4>2 DEF Alike, View
      <4>4. CASE w.fire \/ c \in doused
        <5>1. b = TRUE
          BY <1>0, <1>1, <3>3, <4>1, <4>4
        <5>2. View(TRUE, v) = View(TRUE, w)
          BY <3>4, <4>3, ViewCoarser
        <5> QED BY <3>4, <4>1, <5>1, <5>2 DEF View
      <4>5. CASE ~(w.fire \/ c \in doused)
        <5>1. Load(s) = w
          BY <3>4, <4>5 DEF Worlds
        <5>2. View(b, v) = View(b, w)
          BY <3>4, <4>2, <4>3, <4>5, ViewCoarser
        <5> QED BY <4>1, <5>1, <5>2 DEF View
      <4> QED BY <4>4, <4>5
    <3>6. SavedFor(d, s)'
      <4>1. truth'[read'[d] + 1] = truth[read[d] + 1] /\ world'[d] = world[d] /\ read'[d] = read[d]
        BY <1>0 DEF registry
      <4>2. Told(d)' /\ (AtTick(read[c]) => AtTick(read[c])')
        BY <1>0, <3>2, <3>3 DEF registry, Told, AtTick
      <4>3. world[d] = None => read[d] = read[c]
        BY <3>2, <3>3
      <4>4. world'[d] = None => AtTick(read[c])' /\ read'[d] = read[c]
        BY <3>2, <4>1, <4>2, <4>3
      <4>5. world'[d] = None => View(d \in doused', truth'[read'[d] + 1].world) = View(d \in doused', Load(s))
        BY <3>3, <3>5, <4>1, <4>3
      <4>6. world'[d] = None => read'[d] \in 1..Len(stream') /\ stream'[read'[d]] = Tick
        BY <1>0, <3>2, <4>1, <4>3 DEF AtTick, registry
      <4> QED BY <4>2, <4>5, <4>6 DEF SavedFor, Alike, AtTick
    <3> QED BY <1>2, <3>3, <3>6
  <2>5. ASSUME NEW b \in Clients, NEW i \in 1..Len(outgoing'[b])
        PROVE  \E d \in Clients : \E s : d = outgoing'[b][i].url /\ s = outgoing'[b][i].data /\ SavedFor(d, s)'
    <3>1. CASE b # c
      BY <1>0, <2>1, <3>1 DEF TypeInv
    <3>2. CASE b = c
      <4>1. outgoing'[b] = outgoing[c] \o <<e>>
        BY <1>0, <3>2 DEF TypeInv
      <4>2. CASE i \in 1..Len(outgoing[c])
        <5>1. outgoing'[b][i] = outgoing[c][i]
          BY <1>5, <4>1, <4>2
        <5> QED BY <2>1, <4>2, <5>1
      <4>3. CASE i = Len(outgoing[c]) + 1
        BY <1>5, <2>4, <4>1, <4>3
      <4> QED BY <1>5, <4>1, <4>2, <4>3
    <3> QED BY <3>1, <3>2
  <2> QED BY <1>0, <2>1, <2>5 DEF SaveInv
<1>12. AnswerInv'
  BY <1>0, <1>7, AnswersStay DEF Running, AnswerInv
<1>13. PlayerInv'
  BY <1>0, <1>7 DEF Running, PlayerInv, StreamPlayers, registry
<1> QED BY <1>6, <1>7, <1>8, <1>9, <1>10, <1>11, <1>12, <1>13 DEF Running

\* A step that moves nothing towards a client.
LEMMA PlacesStay ==
  ASSUME TypeInv, Running, TypeInv', Steady, UNCHANGED <<registry, wire, socket, read, queue>>
  PROVE  PlaceInv'
<1>1. ASSUME NEW d \in Clients PROVE \E to : Placed(d, to)'
  <2>1. \E to : Placed(d, to)
    BY DEF Running, PlaceInv
  <2> QED BY <2>1, PlacedStays DEF registry, Running
<1> QED BY <1>1 DEF PlaceInv

LEMMA PerformUnsyncKeeps ==
  ASSUME TypeInv, Running, NEW c \in Clients, PerformUnsync(c)
  PROVE  TypeInv' /\ Running'
<1>0. /\ world[c] # None
      /\ world' = [world EXCEPT ![c].unsync = c]
      /\ UNCHANGED <<registry, wire, socket, read, queue, map, pending, outgoing, stored, answers, troubles, doused>>
  BY DEF PerformUnsync
<1>1. world[c] \in Worlds /\ world'[c] = [world[c] EXCEPT !.unsync = c] /\ \A d \in Clients \ {c} : world'[d] = world[d]
  BY <1>0 DEF TypeInv
<1>2. world'[c] \in Worlds /\ \A b \in BOOLEAN : View(b, world'[c]) = View(b, world[c])
  BY <1>1 DEF Worlds, View
<1>3. world'[c] # None /\ world' \in [Clients -> Worlds \cup {None}]
  BY <1>0, <1>2, LockstepAssumption DEF TypeInv
<1>6. TypeInv'
  BY <1>0, <1>3 DEF TypeInv, LockstepTypeOK, registry, Coming
<1>7. HistoryInv' /\ Extends /\ Steady /\ StreamPlayers' /\ \A l, n : Known(l, n) => Known(l, n)'
  <2>1. \A d \in Clients : world'[d] = None => world[d] = None /\ read'[d] = read[d]
    BY <1>0, <1>1, <1>3
  <2> QED BY <1>0, <2>1, RegistryStays
<1>8. ConnInv'
  BY <1>0, <1>1 DEF Running, ConnInv, Connecting, MapOf, registry, TypeInv
<1>9. WorldInv'
  <2>1. \A d \in Clients : world[d] # None => /\ truth[read[d] + 1].pending = pending[d]
                                              /\ Alike(d, truth[read[d] + 1].world, world[d])
    BY DEF Running, WorldInv
  <2>2. View(c \in doused, world'[c]) = View(c \in doused, world[c])
    <3>1. PICK b \in BOOLEAN : b <=> c \in doused
      OBVIOUS
    <3>2. View(b, world'[c]) = View(b, world[c])
      BY <1>2
    <3> QED BY <3>1, <3>2 DEF View
  <2>3. \A d \in Clients : world'[d] # None => /\ truth[read[d] + 1].pending = pending[d]
                                               /\ View(d \in doused, truth[read[d] + 1].world)
                                                    = View(d \in doused, world'[d])
    BY <1>0, <1>1, <2>1, <2>2 DEF Alike
  <2>4. \A d \in Clients : world'[d] = None => world[d] = None
    BY <1>1, <1>3
  <2> QED BY <1>0, <2>3, <2>4 DEF Running, WorldInv, Alike, registry
<1>10. PlaceInv'
  BY <1>0, <1>6, <1>7, PlacesStay
<1>11. SaveInv'
  BY <1>0, <1>7, SavesStay DEF Running
<1>12. AnswerInv'
  BY <1>0, <1>7, AnswersStay DEF Running, AnswerInv
<1>13. PlayerInv'
  BY <1>0, <1>7 DEF Running, PlayerInv, StreamPlayers, registry
<1> QED BY <1>6, <1>7, <1>8, <1>9, <1>10, <1>11, <1>12, <1>13 DEF Running

LEMMA sendMapKeeps ==
  ASSUME TypeInv, Running, NEW c \in Clients, sendMap(c)
  PROVE  TypeInv' /\ Running'
<1>0. /\ outgoing[c] # <<>>
      /\ stored' = [stored EXCEPT ![Head(outgoing[c]).url] = Head(outgoing[c]).data]
      /\ outgoing' = [outgoing EXCEPT ![c] = Tail(@)]
      /\ UNCHANGED <<registry, wire, socket, read, faults, queue, map, world, pending, answers, troubles, doused>>
  BY DEF sendMap
<1>1. PICK e : e = Head(outgoing[c])
  OBVIOUS
<1>2. /\ e \in Posts /\ e = outgoing[c][1] /\ 1 \in 1..Len(outgoing[c])
      /\ Tail(outgoing[c]) \in Seq(Posts)
      /\ \A i \in 1..Len(Tail(outgoing[c])) : Tail(outgoing[c])[i] = outgoing[c][i + 1] /\ i + 1 \in 1..Len(outgoing[c])
  <2>1. PICK q : q = outgoing[c]
    OBVIOUS
  <2>2. q \in Seq(Posts) /\ q # <<>>
    BY <1>0, <2>1 DEF TypeInv
  <2>3. /\ Head(q) \in Posts /\ Head(q) = q[1] /\ Len(q) \in Nat \ {0}
        /\ Tail(q) \in Seq(Posts) /\ Len(Tail(q)) = Len(q) - 1
        /\ \A i \in 1..Len(Tail(q)) : Tail(q)[i] = q[i + 1]
    BY <2>2, HeadTailProperties, EmptySeq, LenProperties
  <2>4. \A i \in 1..Len(Tail(q)) : i + 1 \in 1..Len(q)
    BY <2>3
  <2> QED BY <1>1, <2>1, <2>3, <2>4
<1>6. TypeInv'
  BY <1>0, <1>1, <1>2 DEF Posts, TypeInv, LockstepTypeOK, registry, Coming
<1>7. HistoryInv' /\ Extends /\ Steady /\ StreamPlayers' /\ \A l, n : Known(l, n) => Known(l, n)'
  BY <1>0, RegistryStays
<1>8. ConnInv'
  BY <1>0 DEF Running, ConnInv, Connecting, MapOf, registry, TypeInv
<1>9. WorldInv'
  BY <1>0 DEF Running, WorldInv, Alike, registry
<1>10. PlaceInv'
  BY <1>0, <1>6, <1>7, PlacesStay
<1>11. SaveInv'
  <2>2. /\ \A b \in Clients : \A i \in 1..Len(outgoing[b]) :
              \E d \in Clients : \E s : d = outgoing[b][i].url /\ s = outgoing[b][i].data /\ SavedFor(d, s)'
        /\ \A b \in Clients : stored[b] # None => \E s : s = stored[b] /\ SavedFor(b, s)'
    BY <1>7, SavesGoOn DEF Running
  <2>3. ASSUME NEW b \in Clients, stored'[b] # None PROVE \E s : s = stored'[b] /\ SavedFor(b, s)'
    <3>1. CASE b # e.url
      <4>1. stored'[b] = stored[b]
        BY <1>0, <1>1, <3>1 DEF TypeInv
      <4> QED BY <2>2, <2>3, <4>1
    <3>2. CASE b = e.url
      <4>1. stored'[b] = e.data
        BY <1>0, <1>1, <1>2, <3>2 DEF TypeInv
      <4> QED BY <1>1, <1>2, <2>2, <3>2, <4>1
    <3> QED BY <3>1, <3>2
  <2>4. ASSUME NEW b \in Clients, NEW i \in 1..Len(outgoing'[b])
        PROVE  \E d \in Clients : \E s : d = outgoing'[b][i].url /\ s = outgoing'[b][i].data /\ SavedFor(d, s)'
    <3>1. CASE b # c
      BY <1>0, <2>2, <3>1 DEF TypeInv
    <3>2. CASE b = c
      <4>1. outgoing'[b] = Tail(outgoing[c])
        BY <1>0, <3>2 DEF TypeInv
      <4>2. i + 1 \in 1..Len(outgoing[c]) /\ outgoing'[b][i] = outgoing[c][i + 1]
        BY <1>2, <4>1
      <4> QED BY <2>2, <4>2
    <3> QED BY <3>1, <3>2
  <2> QED BY <2>3, <2>4 DEF SaveInv
<1>12. AnswerInv'
  BY <1>0, <1>7, AnswersStay DEF Running, AnswerInv
<1>13. PlayerInv'
  BY <1>0, <1>7 DEF Running, PlayerInv, StreamPlayers, registry
<1> QED BY <1>6, <1>7, <1>8, <1>9, <1>10, <1>11, <1>12, <1>13 DEF Running

LEMMA QueueMessageKeeps ==
  ASSUME TypeInv, Running, NEW c \in Clients, QueueMessage(c)
  PROVE  TypeInv' /\ Running'
<1>0. /\ world[c] # None /\ queue[c] # <<>> /\ Head(queue[c]).type \in {"ORDINARY", "MOUSE_CLICK", "NEW_CLIENT"}
      /\ queue' = [queue EXCEPT ![c] = Tail(@)]
      /\ pending' = [pending EXCEPT ![c] = Append(@, Head(queue[c]))]
      /\ read' = [read EXCEPT ![c] = @ + 1]
      /\ UNCHANGED <<registry, wire, socket, faults, map, world, outgoing, stored, answers, troubles, doused>>
  BY DEF QueueMessage, Pops, Popped, Acts
<1>1. PICK at, m : /\ m = Head(queue[c]) /\ m \in Queued /\ at[1] \in 0..Len(stream)
                   /\ at[1] = read[c] + Weight(m) /\ Fits(m, at[1]) /\ Tail(queue[c]) \in Seq(Queued)
  BY <1>0, HeadFits
<1>2. m \in StreamMessages /\ m \in PlayerMessages /\ Weight(m) = 1 /\ m # Tick
  BY <1>0, <1>1 DEF Weight, Queued, StreamMessages, Tick
<1>3. read[c] \in Nat /\ read[c] + 1 \in 1..Len(stream) /\ m = stream[read[c] + 1] /\ Len(stream) \in Nat
  <2>1. read[c] \in Nat /\ Len(stream) \in Nat
    BY LenProperties DEF TypeInv, LockstepTypeOK
  <2>2. at[1] = read[c] + 1
    BY <1>1, <1>2
  <2>3. m = stream[at[1]]
    BY <1>1, <1>2 DEF Fits
  <2> QED BY <1>1, <2>1, <2>2, <2>3
<1>4. Append(pending[c], m) \in Seq(PlayerMessages)
  BY <1>2, AppendProperties DEF TypeInv
<1>6. TypeInv'
  <2>1. read' \in [Clients -> 0..Len(stream)]
    BY <1>0, <1>3 DEF TypeInv, LockstepTypeOK
  <2>2. LockstepTypeOK'
    BY <1>0, <2>1 DEF TypeInv, LockstepTypeOK, registry
  <2> QED BY <1>0, <1>1, <1>4, <2>2 DEF TypeInv, registry, Coming
<1>7. HistoryInv' /\ Extends /\ Steady /\ StreamPlayers' /\ \A l, n : Known(l, n) => Known(l, n)'
  <2>1. \A d \in Clients : world'[d] = None => world[d] = None /\ read'[d] = read[d]
    BY <1>0 DEF TypeInv, LockstepTypeOK
  <2> QED BY <1>0, <2>1, RegistryStays
<1>8. ConnInv'
  BY <1>0, EmptySeq DEF Running, ConnInv, Connecting, MapOf, registry, TypeInv
<1>9. WorldInv'
  <2>0. truth[read[c] + 1] \in [world : Worlds, pending : Seq(PlayerMessages)]
    <3>1. read[c] + 1 \in 1..Len(truth)
      BY <1>3 DEF Running, HistoryInv
    <3> QED BY <3>1, ElementOfSeq DEF TypeInv
  <2>1. truth[read[c] + 1].pending = pending[c] /\ Alike(c, truth[read[c] + 1].world, world[c])
    BY <1>0 DEF Running, WorldInv
  <2>2. truth[(read[c] + 1) + 1] = After(truth[read[c] + 1], m)
    BY <1>3 DEF Running, HistoryInv
  <2>3. /\ truth[(read[c] + 1) + 1].world = truth[read[c] + 1].world
        /\ truth[(read[c] + 1) + 1].pending = Append(pending[c], m)
    BY <1>2, <2>0, <2>1, <2>2 DEF After
  <2>4. ASSUME NEW d \in Clients
        PROVE  /\ world[d] = None => pending'[d] = <<>> /\ (d = founder => read'[d] = 0)
               /\ world[d] # None => /\ truth[read'[d] + 1].pending = pending'[d]
                                     /\ View(d \in doused, truth[read'[d] + 1].world) = View(d \in doused, world[d])
    <3>1. CASE d = c
      <4>1. read'[c] = read[c] + 1 /\ pending'[c] = Append(pending[c], m)
        BY <1>0, <1>1 DEF TypeInv, LockstepTypeOK
      <4> QED BY <1>0, <2>1, <2>3, <3>1, <4>1 DEF Alike
    <3>2. CASE d # c
      <4>1. read'[d] = read[d] /\ pending'[d] = pending[d]
        BY <1>0, <3>2 DEF TypeInv, LockstepTypeOK
      <4> QED BY <4>1 DEF Running, WorldInv, Alike
    <3> QED BY <3>1, <3>2
  <2> QED BY <1>0, <2>4 DEF WorldInv, Alike, registry
<1>10. PlaceInv'
  <2>1. read'[c] = read[c] + Weight(Head(queue[c])) /\ \A d \in Clients \ {c} : read'[d] = read[d]
    BY <1>0, <1>1, <1>2 DEF TypeInv, LockstepTypeOK
  <2> QED BY <1>0, <1>6, <1>7, <2>1, PlacesAfterTaking
<1>11. SaveInv'
  BY <1>0, <1>7, SavesStay DEF Running
<1>12. AnswerInv'
  BY <1>0, <1>7, AnswersStay DEF Running, AnswerInv
<1>13. PlayerInv'
  <2>1. ASSUME NEW d \in Clients
        PROVE  /\ d \in members \cup Range(waiting) => Known(LoginOf[d], Len(stream))
               /\ d \in members \/ map[d] # None => \E n : n = read'[d] /\ Known(LoginOf[d], n)
    <3>1. read'[d] = read[d] \/ read'[d] = read[d] + 1
      BY <1>0 DEF TypeInv, LockstepTypeOK
    <3>2. read[d] \in Nat
      BY DEF TypeInv, LockstepTypeOK
    <3> QED BY <3>1, <3>2 DEF Running, PlayerInv, Known
  <2> QED BY <1>0, <1>7, <2>1 DEF Running, PlayerInv, StreamPlayers, registry
<1> QED BY <1>6, <1>7, <1>8, <1>9, <1>10, <1>11, <1>12, <1>13 DEF Running

LEMMA ProcessTickKeeps ==
  ASSUME TypeInv, Running, NEW c \in Clients, ProcessTick(c)
  PROVE  TypeInv' /\ Running'
<1> DEFINE w == Ticked(world[c], pending[c])
           unknown == {i \in 1..Len(pending[c]) :
                         /\ pending[c][i].type # "NEW_CLIENT"
                         /\ \A j \in 1..(i - 1) : pending[c][j] # OfPlayer("NEW_CLIENT", pending[c][i].id)
                         /\ pending[c][i].id \notin world[c].players}
<1>0. /\ world[c] # None /\ queue[c] # <<>> /\ Head(queue[c]).type = "NEW_TICK"
      /\ queue' = [queue EXCEPT ![c] = Tail(@)]
      /\ world' = [world EXCEPT ![c] = w]
      /\ pending' = [pending EXCEPT ![c] = <<>>]
      /\ read' = [read EXCEPT ![c] = @ + 1]
      /\ troubles' = IF unknown = {} /\ LoginOf[c] \in w.players THEN troubles ELSE troubles \cup {c}
      /\ UNCHANGED <<registry, wire, socket, faults, map, outgoing, stored, answers, doused>>
  BY DEF ProcessTick, Pops, Popped
<1>1. PICK at, m : /\ m = Head(queue[c]) /\ m \in Queued /\ at[1] \in 0..Len(stream)
                   /\ at[1] = read[c] + Weight(m) /\ Fits(m, at[1]) /\ Tail(queue[c]) \in Seq(Queued)
  BY <1>0, HeadFits
<1>2. m \in StreamMessages /\ Weight(m) = 1 /\ m = Tick
  BY <1>0, <1>1 DEF Weight, Queued, StreamMessages, PlayerMessages, Acts, OfPlayer
<1>3. read[c] \in Nat /\ read[c] + 1 \in 1..Len(stream) /\ m = stream[read[c] + 1] /\ Len(stream) \in Nat
  <2>1. read[c] \in Nat /\ Len(stream) \in Nat
    BY LenProperties DEF TypeInv, LockstepTypeOK
  <2>2. at[1] = read[c] + 1
    BY <1>1, <1>2
  <2>3. m = stream[at[1]]
    BY <1>1, <1>2 DEF Fits
  <2> QED BY <1>1, <2>1, <2>2, <2>3
<1>4. /\ truth[read[c] + 1].pending = pending[c] /\ Alike(c, truth[read[c] + 1].world, world[c])
      /\ pending[c] \in Seq(PlayerMessages) /\ world[c] \in Worlds /\ Regular(world[c])
      /\ truth[read[c] + 1].world \in Worlds /\ Regular(truth[read[c] + 1].world)
  <2>1. read[c] + 1 \in 1..Len(truth)
    BY <1>3 DEF Running, HistoryInv
  <2> QED BY <1>0, <2>1, WorldRegular DEF Running, WorldInv, HistoryInv, TypeInv
<1>6. /\ w \in Worlds /\ w # None /\ world[c].players \subseteq w.players
      /\ \A i \in 1..Len(pending[c]) : pending[c][i].type = "NEW_CLIENT" => pending[c][i].id \in w.players
  BY <1>4, TickedWorld, LockstepAssumption DEF Regular
<1>b. View(c \in doused, Ticked(truth[read[c] + 1].world, pending[c])) = View(c \in doused, w)
  <2>1. PICK b \in BOOLEAN : b <=> c \in doused
    OBVIOUS
  <2>2. PICK v : v = truth[read[c] + 1].world
    OBVIOUS
  <2>3. View(b, v) = View(b, world[c])
    BY <1>4, <2>1, <2>2 DEF Alike, View
  <2>4. Ticked(View(b, v), pending[c]) = View(b, Ticked(v, pending[c]))
    BY <1>4, <2>2, TickedWorld
  <2>5. Ticked(View(b, world[c]), pending[c]) = View(b, w)
    BY <1>4, TickedWorld
  <2>6. View(b, Ticked(v, pending[c])) = View(b, w)
    BY <2>3, <2>4, <2>5
  <2> QED BY <2>1, <2>2, <2>6 DEF View
<1> HIDE DEF w
<1>a. TypeInv'
  <2>1. read' \in [Clients -> 0..Len(stream)]
    BY <1>0, <1>3 DEF TypeInv, LockstepTypeOK
  <2>2. troubles' \subseteq Clients
    BY <1>0 DEF TypeInv, LockstepTypeOK
  <2>3. LockstepTypeOK'
    BY <1>0, <2>1, <2>2 DEF TypeInv, LockstepTypeOK, registry
  <2> QED BY <1>0, <1>1, <1>6, <2>3, EmptySeq DEF TypeInv, registry, Coming
<1>7. HistoryInv' /\ Extends /\ Steady /\ StreamPlayers' /\ \A l, n : Known(l, n) => Known(l, n)'
  <2>1. \A d \in Clients : world'[d] = None => world[d] = None /\ read'[d] = read[d]
    BY <1>0, <1>6 DEF TypeInv, LockstepTypeOK
  <2> QED BY <1>0, <2>1, RegistryStays
<1>8. ConnInv'
  BY <1>0, EmptySeq DEF Running, ConnInv, Connecting, MapOf, registry, TypeInv
<1>9. WorldInv'
  <2>1. truth[(read[c] + 1) + 1] = After(truth[read[c] + 1], m)
    BY <1>3 DEF Running, HistoryInv
  <2>2. /\ truth[(read[c] + 1) + 1].world = Ticked(truth[read[c] + 1].world, pending[c])
        /\ truth[(read[c] + 1) + 1].pending = <<>>
    BY <1>2, <1>4, <2>1 DEF After
  <2>3. ASSUME NEW d \in Clients
        PROVE  /\ world'[d] = None => pending'[d] = <<>> /\ (d = founder => read'[d] = 0)
               /\ world'[d] # None => /\ truth[read'[d] + 1].pending = pending'[d]
                                      /\ View(d \in doused, truth[read'[d] + 1].world) = View(d \in doused, world'[d])
    <3>1. CASE d = c
      <4>1. read'[c] = read[c] + 1 /\ pending'[c] = <<>> /\ world'[c] = w
        BY <1>0, <1>1 DEF TypeInv, LockstepTypeOK
      <4> QED BY <1>6, <1>b, <2>2, <3>1, <4>1
    <3>2. CASE d # c
      <4>1. read'[d] = read[d] /\ pending'[d] = pending[d] /\ world'[d] = world[d]
        BY <1>0, <3>2 DEF TypeInv, LockstepTypeOK
      <4> QED BY <4>1 DEF Running, WorldInv, Alike
    <3> QED BY <3>1, <3>2
  <2> QED BY <1>0, <2>3 DEF WorldInv, Alike, registry
<1>10. PlaceInv'
  <2>1. read'[c] = read[c] + Weight(Head(queue[c])) /\ \A d \in Clients \ {c} : read'[d] = read[d]
    BY <1>0, <1>1, <1>2 DEF TypeInv, LockstepTypeOK
  <2> QED BY <1>0, <1>7, <1>a, <2>1, PlacesAfterTaking
<1>11. SaveInv'
  BY <1>0, <1>7, SavesStay DEF Running
<1>12. AnswerInv'
  BY <1>0, <1>7, AnswersStay DEF Running, AnswerInv
<1>13. PlayerInv'
  <2>1. ASSUME NEW d \in Clients
        PROVE  /\ d \in members \cup Range(waiting) => Known(LoginOf[d], Len(stream))
               /\ d \in members \/ map[d] # None => \E n : n = read'[d] /\ Known(LoginOf[d], n)
    <3>1. read'[d] = read[d] \/ read'[d] = read[d] + 1
      BY <1>0 DEF TypeInv, LockstepTypeOK
    <3>2. read[d] \in Nat
      BY DEF TypeInv, LockstepTypeOK
    <3> QED BY <3>1, <3>2 DEF Running, PlayerInv, Known
  <2>2. read[c] \in 0..Len(stream) /\ truth[read[c] + 1].world.players = world[c].players
    BY <1>4, AlikeFields DEF TypeInv, LockstepTypeOK
  <2>3. unknown = {}
    <3> SUFFICES ASSUME NEW i \in 1..Len(pending[c]), pending[c][i].type # "NEW_CLIENT"
                 PROVE  \/ \E j \in 1..(i - 1) : pending[c][j] = OfPlayer("NEW_CLIENT", pending[c][i].id)
                        \/ pending[c][i].id \in world[c].players
      OBVIOUS
    <3>2. KnownIn(truth[read[c] + 1])
      BY <2>2 DEF Running, PlayerInv
    <3> QED BY <1>4, <2>2, <3>2 DEF KnownIn, Awaited, NewClient
  <2>4. LoginOf[c] \in w.players
    <3>1. Known(LoginOf[c], read[c]) /\ LoginOf[c] \in Logins
      BY <1>0, LockstepAssumption DEF Running, PlayerInv, ConnInv, Connecting
    <3>2. \/ LoginOf[c] \in truth[read[c] + 1].world.players
          \/ Awaited(LoginOf[c], truth[read[c] + 1].pending, Len(truth[read[c] + 1].pending))
      BY <2>2, <3>1 DEF Running, PlayerInv
    <3>3. LoginOf[c] \in world[c].players \/ Awaited(LoginOf[c], pending[c], Len(pending[c]))
      BY <1>4, <2>2, <3>2
    <3> QED BY <1>6, <3>3 DEF Awaited, NewClient, OfPlayer
  <2>5. troubles' = troubles
    BY <1>0, <2>3, <2>4
  <2> QED BY <1>0, <1>7, <2>1, <2>5 DEF Running, PlayerInv, StreamPlayers, registry
<1> QED BY <1>7, <1>8, <1>9, <1>10, <1>11, <1>12, <1>13, <1>a DEF Running

LEMMA GeneratedWorld ==
  ASSUME NEW c \in Clients
  PROVE  Generated(c) \in Worlds /\ Regular(Generated(c))
<1>1. <<>> \in Seq([step : StreamMessages, drew : Generators \cup {None}])
  BY EmptySeq
<1>2. {LoginOf[c]} \in SUBSET Logins /\ Plasma \in Nat
  BY LockstepAssumption
<1>3. [seed |-> c, taken |-> 0] \in Generators
  BY DEF Generators
<1>4. Generated(c) \in Worlds
  BY <1>1, <1>2, <1>3 DEF Generated, Worlds
<1> QED BY <1>4 DEF Generated, Regular

LEMMA InitWorldKeeps ==
  ASSUME TypeInv, Running, NEW c \in Clients, InitWorld(c)
  PROVE  TypeInv' /\ Running'
<1>0. /\ world[c] = None /\ map[c] # None
      /\ UNCHANGED <<registry, wire, socket, read, faults, queue, map, pending, outgoing, stored, answers, troubles, doused>>
  BY DEF InitWorld
<1>1. map[c] = MapOf(c) /\ read[c] \in 0..Len(stream) /\ pending[c] = <<>> /\ Len(stream) \in Nat
  BY <1>0, LenProperties DEF Running, ConnInv, Connecting, WorldInv, TypeInv, LockstepTypeOK
<1>2. \E w \in Worlds : /\ world' = [world EXCEPT ![c] = w]
                        /\ truth[read[c] + 1].pending = <<>>
                        /\ View(c \in doused, truth[read[c] + 1].world) = View(c \in doused, w)
  <2>1. CASE map[c] = NoMap
    <3>1. c = founder
      BY <1>1, <2>1, LockstepAssumption DEF MapOf
    <3>2. read[c] = 0 /\ truth[1] = [world |-> Generated(c), pending |-> <<>>]
      BY <1>0, <3>1 DEF Running, WorldInv, HistoryInv
    <3>3. Generated(c) \in Worlds
      BY GeneratedWorld
    <3>4. world' = [world EXCEPT ![c] = Generated(c)]
      BY <2>1 DEF InitWorld
    <3>5. truth[read[c] + 1] = [world |-> Generated(c), pending |-> <<>>]
      <4>1. read[c] + 1 = 1
        BY <3>2
      <4> QED BY <3>2, <4>1
    <3>6. PICK g : g = Generated(c)
      OBVIOUS
    <3>7. world' = [world EXCEPT ![c] = g] /\ g \in Worlds
      BY <3>3, <3>4, <3>6
    <3>8. truth[read[c] + 1].pending = <<>> /\ truth[read[c] + 1].world = g
      BY <3>5, <3>6
    <3> QED BY <3>7, <3>8
  <2>2. CASE map[c] # NoMap
    <3>1. map[c] = c
      BY <1>1, <2>2 DEF MapOf
    <3>2. stored[c] # None /\ world' = [world EXCEPT ![c] = Load(stored[c])]
      BY <2>2, <3>1 DEF InitWorld
    <3>3. PICK s : s = stored[c]
      OBVIOUS
    <3>4. s \in Saves /\ AtTick(read[c]) /\ Alike(c, truth[read[c] + 1].world, Load(s))
      BY <1>0, <3>2, <3>3 DEF Running, SaveInv, SavedFor, TypeInv
    <3>5. Load(s) \in Worlds
      BY <3>4, LoadWorld
    <3>7. truth[read[c] + 1].pending = <<>>
      <4>1. read[c] \in 1..Len(stream) /\ stream[read[c]] = Tick
        BY <3>4 DEF AtTick
      <4>2. truth[read[c] + 1] = After(truth[read[c]], Tick)
        BY <4>1 DEF Running, HistoryInv
      <4> QED BY <4>2 DEF After
    <3>8. PICK w : w = Load(s)
      OBVIOUS
    <3> QED BY <3>2, <3>3, <3>4, <3>5, <3>7, <3>8 DEF Alike
  <2> QED BY <2>1, <2>2
<1>3. PICK w \in Worlds : /\ world' = [world EXCEPT ![c] = w]
                          /\ truth[read[c] + 1].pending = <<>>
                          /\ View(c \in doused, truth[read[c] + 1].world) = View(c \in doused, w)
  BY <1>2
<1>4. w # None /\ world' \in [Clients -> Worlds \cup {None}]
  BY <1>3, LockstepAssumption DEF TypeInv
<1>6. TypeInv'
  BY <1>0, <1>4 DEF TypeInv, LockstepTypeOK, registry, Coming
<1>7. HistoryInv' /\ Extends /\ Steady /\ StreamPlayers' /\ \A l, n : Known(l, n) => Known(l, n)'
  <2>1. \A d \in Clients : world'[d] = None => world[d] = None /\ read'[d] = read[d]
    BY <1>0, <1>3, <1>4 DEF TypeInv
  <2> QED BY <1>0, <2>1, RegistryStays
<1>8. ConnInv'
  BY <1>0, <1>3 DEF Running, ConnInv, Connecting, MapOf, registry, TypeInv
<1>9. WorldInv'
  <2>1. ASSUME NEW d \in Clients
        PROVE  /\ world'[d] = None => pending[d] = <<>> /\ (d = founder => read[d] = 0)
               /\ world'[d] # None => /\ truth[read[d] + 1].pending = pending[d]
                                      /\ View(d \in doused, truth[read[d] + 1].world) = View(d \in doused, world'[d])
    <3>1. CASE d = c
      BY <1>1, <1>3, <1>4, <3>1 DEF TypeInv
    <3>2. CASE d # c
      BY <1>3, <3>2 DEF Running, WorldInv, TypeInv, Alike
    <3> QED BY <3>1, <3>2
  <2> QED BY <1>0, <2>1 DEF WorldInv, Alike, registry
<1>10. PlaceInv'
  BY <1>0, <1>6, <1>7, PlacesStay
<1>11. SaveInv'
  BY <1>0, <1>7, SavesStay DEF Running
<1>12. AnswerInv'
  BY <1>0, <1>7, AnswersStay DEF Running, AnswerInv
<1>13. PlayerInv'
  BY <1>0, <1>7 DEF Running, PlayerInv, StreamPlayers, registry
<1> QED BY <1>6, <1>7, <1>8, <1>9, <1>10, <1>11, <1>12, <1>13 DEF Running

LEMMA HandleBodyKeeps ==
  ASSUME TypeInv, Running, NEW c \in Clients, HandleBody(c)
  PROVE  TypeInv' /\ Running'
<1>0. /\ wire[c] # <<>> /\ wire' = [wire EXCEPT ![c] = Tail(@)]
      /\ UNCHANGED <<registry, read, faults, world, pending, outgoing, stored, answers, troubles, doused>>
  BY DEF HandleBody
<1>1. wire[c] \in Seq(Queued \cup Successes) /\ Tail(wire[c]) \in Seq(Queued \cup Successes)
  <2>1. PICK q : q = wire[c]
    OBVIOUS
  <2>2. q \in Seq(Queued \cup Successes) /\ q # <<>>
    BY <1>0, <2>1 DEF TypeInv
  <2> QED BY <2>1, <2>2, HeadTailProperties
<1>2. \A d \in Clients \ {c} : wire'[d] = wire[d]
  BY <1>0 DEF TypeInv
<1>3. /\ TypeInv' /\ ConnInv' /\ Unread(c)' = Unread(c)
      /\ \A d \in Clients : socket'[d] = "off" <=> socket[d] = "off"
      /\ \A d \in Clients : socket'[d] = "closed" <=> socket[d] = "closed"
      /\ \A d \in Clients \ {c} : socket'[d] = socket[d] /\ queue'[d] = queue[d]
      /\ \A d \in Clients : map'[d] # None => map[d] # None \/ d \in members
  <2>1. CASE /\ socket[c] = "first" /\ map' = [map EXCEPT ![c] = Head(wire[c]).map]
             /\ socket' = [socket EXCEPT ![c] = "open"] /\ UNCHANGED queue
    <3>1. c \in members /\ c \notin Range(waiting) /\ Head(wire[c]) = Success(MapOf(c))
      BY <1>0, <2>1 DEF Running, ConnInv, Connecting
    <3>2. Head(wire[c]).map = MapOf(c) /\ MapOf(c) \in Clients \cup {NoMap} /\ MapOf(c) \in Clients \cup {None, NoMap}
      BY <3>1 DEF Success, MapOf
    <3>3. map'[c] = MapOf(c) /\ socket'[c] = "open" /\ wire'[c] = Tail(wire[c])
      BY <1>0, <2>1, <3>2 DEF TypeInv, LockstepTypeOK
    <3>4. Coming(c)' = Coming(c) /\ \A d \in Clients \ {c} : Coming(d)' = Coming(d)
      BY <1>0, <1>2, <2>1, <3>3 DEF Coming, TypeInv, LockstepTypeOK
    <3>5. TypeInv'
      <4>1. LockstepTypeOK'
        BY <1>0, <2>1, <3>2 DEF TypeInv, LockstepTypeOK, registry
      <4>2. wire' \in [Clients -> Seq(Queued \cup Successes)]
        BY <1>0, <1>1 DEF TypeInv
      <4> QED BY <1>0, <2>1, <3>4, <4>1, <4>2 DEF TypeInv, registry
    <3>6. ConnInv'
      <4>1. ASSUME NEW d \in Clients PROVE Connecting(d)'
        <5>1. CASE d # c
          <6>1. map'[d] = map[d] /\ socket'[d] = socket[d] /\ wire'[d] = wire[d] /\ queue'[d] = queue[d] /\ world'[d] = world[d]
            BY <1>0, <1>2, <2>1, <5>1 DEF TypeInv, LockstepTypeOK
          <6>2. UNCHANGED <<members, waiting, founder>>
            BY <1>0 DEF registry
          <6>3. Connecting(d)
            BY DEF Running, ConnInv
          <6> QED BY <6>1, <6>2, <6>3 DEF Connecting, MapOf
        <5>2. CASE d = c
          <6>1. Connecting(c)
            BY DEF Running, ConnInv
          <6>2. UNCHANGED <<members, waiting, founder, queue, world>>
            BY <1>0, <2>1 DEF registry
          <6> QED BY <2>1, <3>1, <3>3, <5>2, <6>1, <6>2 DEF Connecting, MapOf
        <5> QED BY <5>1, <5>2
      <4> QED BY <1>0, <4>1 DEF Running, ConnInv, registry
    <3>7. Unread(c)' = Unread(c)
      BY <2>1, <3>4 DEF Unread
    <3> QED BY <2>1, <3>1, <3>5, <3>6, <3>7 DEF TypeInv, LockstepTypeOK
  <2>2. CASE /\ socket[c] = "open" /\ queue' = [queue EXCEPT ![c] = Append(@, Head(wire[c]))]
             /\ UNCHANGED <<map, socket>>
    <3>1. Coming(c) = wire[c] /\ Coming(c) \in Seq(Queued) /\ queue[c] \in Seq(Queued)
      BY <2>2 DEF Coming, TypeInv
    <3>2. PICK q, w : q = queue[c] /\ w = wire[c]
      OBVIOUS
    <3>3. /\ Head(w) \in Queued /\ Tail(w) \in Seq(Queued) /\ Append(q, Head(w)) \in Seq(Queued) /\ Append(q, Head(w)) # <<>>
          /\ q \o w = Append(q, Head(w)) \o Tail(w)
      <4>1. q \in Seq(Queued) /\ w \in Seq(Queued) /\ w # <<>>
        BY <1>0, <3>1, <3>2
      <4> QED BY <4>1, HeadMoves, HeadTailProperties, AppendProperties
    <3>4. queue'[c] = Append(q, Head(w)) /\ wire'[c] = Tail(w) /\ socket'[c] = "open"
      BY <1>0, <2>2, <3>2 DEF TypeInv, LockstepTypeOK
    <3>5. Coming(c)' = Tail(w) /\ \A d \in Clients \ {c} : Coming(d)' = Coming(d)
      BY <1>2, <2>2, <3>4 DEF Coming
    <3>6. TypeInv'
      <4>1. LockstepTypeOK'
        BY <1>0, <2>2 DEF TypeInv, LockstepTypeOK, registry
      <4>2. wire' \in [Clients -> Seq(Queued \cup Successes)] /\ queue' \in [Clients -> Seq(Queued)]
        BY <1>0, <1>1, <2>2, <3>2, <3>3 DEF TypeInv
      <4> QED BY <1>0, <3>3, <3>5, <4>1, <4>2 DEF TypeInv, registry
    <3>7. ConnInv'
      <4>1. ASSUME NEW d \in Clients PROVE Connecting(d)'
        <5>1. UNCHANGED <<members, waiting, founder, world, map, socket>>
          BY <1>0, <2>2 DEF registry
        <5>2. Connecting(d)
          BY DEF Running, ConnInv
        <5>3. CASE d # c
          <6>1. wire'[d] = wire[d] /\ queue'[d] = queue[d]
            BY <1>2, <2>2, <5>3 DEF TypeInv
          <6> QED BY <5>1, <5>2, <6>1 DEF Connecting, MapOf
        <5>4. CASE d = c
          BY <2>2, <1>0, <5>1, <5>2, <5>4 DEF Connecting, MapOf
        <5> QED BY <5>3, <5>4
      <4> QED BY <1>0, <4>1 DEF Running, ConnInv, registry
    <3>8. Unread(c)' = Unread(c)
      BY <3>1, <3>2, <3>3, <3>4, <3>5 DEF Unread
    <3> QED BY <2>2, <3>6, <3>7, <3>8 DEF TypeInv
  <2> QED BY <2>1, <2>2 DEF HandleBody
<1>7. HistoryInv' /\ Extends /\ Steady /\ StreamPlayers' /\ \A l, n : Known(l, n) => Known(l, n)'
  BY <1>0, <1>3, RegistryStays
<1>9. WorldInv'
  BY <1>0 DEF Running, WorldInv, Alike, registry
<1>10. PlaceInv'
  <2>1. ASSUME NEW d \in Clients, d # c PROVE \E to : Placed(d, to)'
    <3>1. \E to : Placed(d, to)
      BY DEF Running, PlaceInv
    <3>2. queue'[d] = queue[d] /\ wire'[d] = wire[d] /\ socket'[d] = socket[d] /\ read'[d] = read[d]
      BY <1>0, <1>2, <1>3, <2>1
    <3> QED BY <1>0, <1>3, <1>7, <3>1, <3>2, PlacedStays DEF registry, Running
  <2>2. \E to : Placed(c, to)'
    <3>1. \E to : Placed(c, to)
      BY DEF Running, PlaceInv
    <3>2. Online(c)' => Online(c)
      BY <1>0, <1>3 DEF Online, registry
    <3>3. Len(Unread(c)') <= Len(Unread(c)) /\ Len(Unread(c)') = Len(Unread(c)) /\ Len(stream') = Len(stream)
      BY <1>0, <1>3, UnreadType DEF registry
    <3>4. \A i \in 1..Len(Unread(c)') : Unread(c)'[i] = Unread(c)[i]
      BY <1>3
    <3> QED BY <1>0, <1>3, <1>7, <3>1, <3>2, <3>3, <3>4, PlacedCut DEF Running
  <2> QED BY <2>1, <2>2 DEF PlaceInv
<1>11. SaveInv'
  BY <1>0, <1>7, SavesStay DEF Running
<1>12. AnswerInv'
  BY <1>0, <1>7, AnswersStay DEF Running, AnswerInv
<1>13. PlayerInv'
  BY <1>0, <1>3, <1>7 DEF Running, PlayerInv, StreamPlayers, registry
<1> QED BY <1>3, <1>7, <1>9, <1>10, <1>11, <1>12, <1>13 DEF Running

-----------------------------------------------------------------------------
(* The steps of the registry. *)

\* The stream grows by a message of a player that is known, or announces one.
LEMMA PlayersGrow ==
  ASSUME TypeInv, HistoryInv, StreamPlayers, HistoryInv', Extends,
         NEW m \in StreamMessages, m.type \in Acts => Known(m.id, Len(stream)),
         Len(stream') = Len(stream) + 1, stream'[Len(stream) + 1] = m,
         truth'[Len(stream) + 2] = After(truth[Len(stream) + 1], m)
  PROVE  /\ StreamPlayers'
         /\ \A l, n : n \in 0..Len(stream) /\ Known(l, n) => Known(l, n)' /\ Known(l, n + 1)'
<1>b. PICK N : N = Len(stream)
  OBVIOUS
<1>c. PICK r : r = truth[N + 1]
  OBVIOUS
<1>0. /\ N = Len(stream) /\ N \in Nat /\ Len(truth) = N + 1 /\ founder' = founder
      /\ Len(stream') = N + 1 /\ stream'[N + 1] = m /\ truth'[N + 2] = After(r, m)
  BY <1>b, <1>c, LenProperties DEF TypeInv, HistoryInv, Extends
<1>1. ASSUME NEW l, NEW n \in 0..N PROVE Known(l, n)' <=> Known(l, n)
  BY <1>0 DEF Known, Extends, NewClient, OfPlayer
<1>2. ASSUME NEW l PROVE Known(l, N + 1)' <=> Known(l, N) \/ m = NewClient(l)
  <2>1. \A i \in 1..(N + 1) : i \in 1..N \/ i = N + 1
    BY <1>0
  <2>2. \A i \in 1..N : stream'[i] = stream[i]
    BY <1>0 DEF Extends
  <2> QED BY <1>0, <2>1, <2>2 DEF Known, NewClient, OfPlayer
<1>3. r \in [world : Worlds, pending : Seq(PlayerMessages)] /\ Regular(r.world)
  <2>1. N + 1 \in 1..Len(truth)
    BY <1>0
  <2>2. \A i \in 1..Len(truth) : truth[i] \in [world : Worlds, pending : Seq(PlayerMessages)]
    BY ElementOfSeq DEF TypeInv
  <2> QED BY <1>c, <2>1, <2>2 DEF HistoryInv
<1>4. PICK s : s = After(r, m)
  OBVIOUS
<1>5. /\ KnownIn(r)
      /\ \A l \in Logins : Known(l, N) => l \in r.world.players \/ Awaited(l, r.pending, Len(r.pending))
  BY <1>0, <1>c DEF StreamPlayers
<1>6. KnownIn(s) /\ \A l \in Logins : Known(l, N) \/ m = NewClient(l) =>
                        l \in s.world.players \/ Awaited(l, s.pending, Len(s.pending))
  <2>1. CASE m = Tick
    <3>1. s = [world |-> Ticked(r.world, r.pending), pending |-> <<>>]
      BY <1>4, <2>1 DEF After
    <3>2. KnownIn(s)
      BY <3>1, EmptySeq DEF KnownIn
    <3>3. ASSUME NEW l \in Logins, Known(l, N) \/ m = NewClient(l) PROVE l \in Ticked(r.world, r.pending).players
      <4>1. Known(l, N)
        BY <2>1, <3>3 DEF NewClient, OfPlayer, Tick
      <4>2. l \in r.world.players \/ Awaited(l, r.pending, Len(r.pending))
        BY <1>5, <4>1
      <4>3. /\ r.world.players \subseteq Ticked(r.world, r.pending).players
            /\ \A i \in 1..Len(r.pending) : r.pending[i].type = "NEW_CLIENT" =>
                  r.pending[i].id \in Ticked(r.world, r.pending).players
        BY <1>3, TickedWorld
      <4> QED BY <4>2, <4>3 DEF Awaited, NewClient, OfPlayer
    <3> QED BY <3>1, <3>2, <3>3
  <2>2. CASE m # Tick
    <3>1. m \in PlayerMessages
      BY <2>2 DEF StreamMessages
    <3>2. s.world = r.world /\ s.pending = Append(r.pending, m)
      BY <1>3, <1>4, <2>2 DEF After
    <3>3. /\ Len(s.pending) = Len(r.pending) + 1 /\ Len(r.pending) \in Nat
          /\ s.pending[Len(r.pending) + 1] = m
          /\ \A i \in 1..Len(r.pending) : s.pending[i] = r.pending[i]
      BY <1>3, <3>1, <3>2, AppendProperties, LenProperties
    <3>4. ASSUME NEW l, NEW k \in 0..Len(r.pending), Awaited(l, r.pending, k)
          PROVE  Awaited(l, s.pending, k)
      BY <3>3, <3>4 DEF Awaited
    <3>5. ASSUME NEW i \in 1..Len(s.pending), s.pending[i].type # "NEW_CLIENT"
          PROVE  s.pending[i].id \in s.world.players \/ Awaited(s.pending[i].id, s.pending, i - 1)
      <4>1. CASE i \in 1..Len(r.pending)
        <5>1. r.pending[i].id \in r.world.players \/ Awaited(r.pending[i].id, r.pending, i - 1)
          BY <1>5, <3>3, <3>5, <4>1 DEF KnownIn
        <5>2. i - 1 \in 0..Len(r.pending) /\ s.pending[i] = r.pending[i]
          BY <3>3, <4>1
        <5> QED BY <3>2, <3>4, <5>1, <5>2
      <4>2. CASE i = Len(r.pending) + 1
        <5>1. m.id \in Logins /\ Known(m.id, N) /\ s.pending[i] = m /\ i - 1 = Len(r.pending)
          <6>1. s.pending[i] = m /\ i - 1 = Len(r.pending)
            BY <3>3, <4>2
          <6> QED BY <1>0, <3>1, <3>5, <6>1, PlayerMessageKinds DEF Acts
        <5>2. m.id \in r.world.players \/ Awaited(m.id, r.pending, Len(r.pending))
          BY <1>5, <5>1
        <5>3. Len(r.pending) \in 0..Len(r.pending)
          BY <3>3
        <5> QED BY <3>2, <3>4, <5>1, <5>2, <5>3
      <4> QED BY <3>3, <4>1, <4>2
    <3>6. ASSUME NEW l \in Logins, Known(l, N) \/ m = NewClient(l)
          PROVE  l \in s.world.players \/ Awaited(l, s.pending, Len(s.pending))
      <4>1. CASE Known(l, N)
        <5>1. l \in r.world.players \/ Awaited(l, r.pending, Len(r.pending))
          BY <1>5, <4>1
        <5> QED BY <3>2, <3>3, <5>1 DEF Awaited
      <4>2. CASE m = NewClient(l)
        <5>1. Len(r.pending) + 1 \in 1..Len(s.pending)
          BY <3>3
        <5> QED BY <3>3, <4>2, <5>1 DEF Awaited
      <4> QED BY <3>6, <4>1, <4>2
    <3> QED BY <3>5, <3>6 DEF KnownIn
  <2> QED BY <2>1, <2>2
<1>7. ASSUME NEW n \in 0..Len(stream')
      PROVE  \E t : /\ t = truth'[n + 1] /\ KnownIn(t)
                    /\ \A l \in Logins : Known(l, n)' => l \in t.world.players \/ Awaited(l, t.pending, Len(t.pending))
  <2>1. CASE n = N + 1
    <3>1. s = truth'[n + 1] /\ \A l : Known(l, n)' <=> Known(l, N) \/ m = NewClient(l)
      BY <1>0, <1>2, <1>4, <2>1
    <3> QED BY <1>6, <3>1
  <2>2. CASE n \in 0..N
    <3>1. truth'[n + 1] = truth[n + 1] /\ \A l : Known(l, n)' <=> Known(l, n)
      BY <1>0, <1>1, <2>2 DEF Extends
    <3>2. /\ KnownIn(truth[n + 1])
          /\ \A l \in Logins : Known(l, n) => \/ l \in truth[n + 1].world.players
                                              \/ Awaited(l, truth[n + 1].pending, Len(truth[n + 1].pending))
      BY <1>0, <2>2 DEF StreamPlayers
    <3>3. PICK t : t = truth[n + 1]
      OBVIOUS
    <3> QED BY <3>1, <3>2, <3>3
  <2> QED BY <1>0, <2>1, <2>2
<1>8. StreamPlayers'
  <2>1. ASSUME NEW n \in 0..Len(stream')
        PROVE  /\ KnownIn(truth[n + 1])'
               /\ \A l \in Logins : Known(l, n)' => \/ l \in truth'[n + 1].world.players
                                                    \/ Awaited(l, truth[n + 1].pending, Len(truth[n + 1].pending))'
    <3>1. PICK t : /\ t = truth'[n + 1] /\ KnownIn(t)
                   /\ \A l \in Logins : Known(l, n)' => l \in t.world.players \/ Awaited(l, t.pending, Len(t.pending))
      BY <1>7
    <3> QED BY <3>1 DEF KnownIn, Awaited, NewClient, OfPlayer
  <2> QED BY <2>1 DEF StreamPlayers
<1>9. ASSUME NEW l, NEW n \in 0..N, Known(l, n) PROVE Known(l, n)' /\ Known(l, n + 1)'
  <2>1. Known(l, n)'
    BY <1>1, <1>9
  <2> QED BY <1>0, <2>1 DEF Known
<1> QED BY <1>0, <1>8, <1>9

\* What is sent to a client comes behind what lies before it.
LEMMA SentBehind ==
  ASSUME TypeInv, Running, NEW d \in Clients, d \in members, socket[d] # "closed",
         socket'[d] = socket[d], queue'[d] = queue[d],
         NEW ms \in Seq(Queued), wire'[d] = wire[d] \o ms
  PROVE  /\ Unread(d)' = Unread(d) \o ms /\ Coming(d)' \in Seq(Queued)
         /\ wire'[d] \in Seq(Queued \cup Successes)
         /\ socket[d] = "first" => wire'[d] # <<>> /\ Head(wire'[d]) = Head(wire[d])
<1>1. PICK w, q : w = wire[d] /\ q = queue[d]
  OBVIOUS
<1>2. w \in Seq(Queued \cup Successes) /\ q \in Seq(Queued) /\ Coming(d) \in Seq(Queued)
  BY <1>1 DEF TypeInv
<1>3. ms \in Seq(Queued \cup Successes)
  BY SeqMonotonic
<1>4. w \o ms \in Seq(Queued \cup Successes) /\ Len(w \o ms) = Len(w) + Len(ms)
  BY <1>2, <1>3, ConcatProperties
<1>5. Coming(d)' = Coming(d) \o ms /\ (socket[d] = "first" => w \o ms # <<>> /\ Head(w \o ms) = Head(w))
  <2>1. CASE socket[d] = "first"
    <3>1. w # <<>>
      BY <1>1, <2>1 DEF Running, ConnInv, Connecting
    <3>2. /\ Tail(w) \in Seq(Queued \cup Successes) /\ Len(Tail(w)) = Len(w) - 1 /\ Len(w) \in Nat \ {0}
          /\ \A i \in 1..Len(Tail(w)) : Tail(w)[i] = w[i + 1]
          /\ Len(ms) \in Nat
      BY <1>2, <1>3, <3>1, HeadTailProperties, EmptySeq, LenProperties
    <3>3. w \o ms # <<>>
      BY <1>2, <1>3, <3>1, ConcatEqualIffEmpty
    <3>4. /\ Tail(w \o ms) \in Seq(Queued \cup Successes) /\ Len(Tail(w \o ms)) = Len(w) + Len(ms) - 1
          /\ \A i \in 1..Len(Tail(w \o ms)) : Tail(w \o ms)[i] = (w \o ms)[i + 1]
      BY <1>4, <3>3, HeadTailProperties
    <3>5. Tail(w) \o ms \in Seq(Queued \cup Successes) /\ Len(Tail(w) \o ms) = Len(w) + Len(ms) - 1
      BY <1>3, <3>2, ConcatProperties
    <3>6. ASSUME NEW i \in 1..(Len(w) + Len(ms) - 1) PROVE Tail(w \o ms)[i] = (Tail(w) \o ms)[i]
      <4>1. Tail(w \o ms)[i] = (w \o ms)[i + 1] /\ i + 1 \in 1..(Len(w) + Len(ms))
        BY <3>2, <3>4
      <4>2. (w \o ms)[i + 1] = IF i + 1 <= Len(w) THEN w[i + 1] ELSE ms[i + 1 - Len(w)]
        BY <1>2, <1>3, <4>1, ConcatProperties
      <4>3. (Tail(w) \o ms)[i] = IF i <= Len(w) - 1 THEN Tail(w)[i] ELSE ms[i - (Len(w) - 1)]
        BY <1>3, <3>2, ConcatProperties
      <4>4. i + 1 - Len(w) = i - (Len(w) - 1) /\ (i + 1 <= Len(w) <=> i <= Len(w) - 1)
        BY <3>2
      <4>5. i <= Len(w) - 1 => Tail(w)[i] = w[i + 1]
        BY <3>2
      <4> QED BY <4>1, <4>2, <4>3, <4>4, <4>5
    <3>7. Tail(w \o ms) = Tail(w) \o ms
      BY <3>4, <3>5, <3>6, SeqEqual
    <3>8. Head(w \o ms) = Head(w)
      <4>1. Head(w \o ms) = (w \o ms)[1] /\ Head(w) = w[1] /\ 1 \in 1..(Len(w) + Len(ms)) /\ 1 <= Len(w)
        BY <1>2, <1>4, <3>1, <3>2, <3>3
      <4> QED BY <1>2, <1>3, <4>1, ConcatProperties
    <3> QED BY <1>1, <2>1, <3>1, <3>3, <3>7, <3>8 DEF Coming
  <2>2. CASE socket[d] # "first"
    BY <2>2 DEF Coming
  <2> QED BY <2>1, <2>2
<1>6. PICK t : t = Coming(d)
  OBVIOUS
<1>7. t \o ms \in Seq(Queued) /\ (q \o t) \o ms = q \o (t \o ms)
  BY <1>2, <1>6, ConcatProperties, ConcatAssociative
<1> QED BY <1>1, <1>4, <1>5, <1>6, <1>7 DEF Unread

\* A client that nothing is sent to, and perhaps loses what was on its way.
LEMMA PlacedSilent ==
  ASSUME TypeInv, Running, TypeInv', Extends, Steady, NEW d \in Clients,
         queue'[d] = queue[d], read'[d] = read[d],
         (wire'[d] = wire[d] /\ socket'[d] = socket[d]) \/ wire'[d] = <<>>,
         Online(d)' => Online(d) /\ Len(stream') = Len(stream) /\ wire'[d] = wire[d] /\ socket'[d] = socket[d]
  PROVE  \E at : Placed(d, at)'
<1>1. \E at : Placed(d, at)
  BY DEF Running, PlaceInv
<1>2. PICK q, t : q = queue[d] /\ t = Coming(d)
  OBVIOUS
<1>3. q \in Seq(Queued) /\ t \in Seq(Queued) /\ Len(q) \in Nat /\ Len(t) \in Nat
  BY <1>2, LenProperties DEF TypeInv
<1>4. Coming(d)' = <<>> \/ Coming(d)' = t
  BY <1>2, EmptySeq DEF Coming
<1>5. Unread(d) = q \o t /\ (Unread(d)' = q \/ Unread(d)' = q \o t)
  BY <1>2, <1>3, <1>4, ConcatEmptySeq DEF Unread
<1>6. Len(q \o t) = Len(q) + Len(t) /\ \A i \in 1..Len(q) : (q \o t)[i] = q[i]
  BY <1>3, ConcatProperties
<1>7. Len(Unread(d)') <= Len(Unread(d)) /\ \A i \in 1..Len(Unread(d)') : Unread(d)'[i] = Unread(d)[i]
  BY <1>3, <1>5, <1>6
<1>8. Online(d)' => Len(Unread(d)') = Len(Unread(d))
  <2>1. Online(d)' => Unread(d)' = Unread(d)
    BY DEF Unread, Coming
  <2> QED BY <2>1
<1>9. HistoryInv
  BY DEF Running
<1> QED BY <1>1, <1>7, <1>8, <1>9, PlacedCut

LEMMA errorSocketKeeps ==
  ASSUME TypeInv, Running, NEW c \in Clients, errorSocket(c)
  PROVE  TypeInv' /\ Running'
<1>0. /\ socket[c] \in {"first", "open"}
      /\ socket' = [socket EXCEPT ![c] = "closed"] /\ wire' = [wire EXCEPT ![c] = <<>>]
      /\ UNCHANGED <<registry, read, threads>>
  BY DEF errorSocket
<1>1. /\ socket'[c] = "closed" /\ wire'[c] = <<>>
      /\ \A d \in Clients \ {c} : socket'[d] = socket[d] /\ wire'[d] = wire[d]
  BY <1>0 DEF TypeInv, LockstepTypeOK
<1>2. /\ UNCHANGED registry
      /\ UNCHANGED <<queue, map, world, pending, outgoing, stored, answers, troubles, doused>>
      /\ UNCHANGED <<stream, truth, members, waiting, master, founder>>
  BY <1>0 DEF threads, registry
<1>3. TypeInv'
  <2>1. LockstepTypeOK'
    BY <1>0, <1>2 DEF TypeInv, LockstepTypeOK
  <2>2. <<>> \in Seq(Queued \cup Successes) /\ <<>> \in Seq(Queued)
    BY EmptySeq
  <2>3. \A d \in Clients : Coming(d)' \in Seq(Queued)
    BY <1>1, <2>2 DEF TypeInv, Coming
  <2> QED BY <1>0, <1>2, <2>1, <2>2, <2>3 DEF TypeInv
<1>7. HistoryInv' /\ Extends /\ Steady /\ StreamPlayers' /\ \A l, n : Known(l, n) => Known(l, n)'
  <2>1. \A d \in Clients : socket'[d] = "off" <=> socket[d] = "off"
    BY <1>0, <1>1
  <2> QED BY <1>0, <1>2, <2>1, RegistryStays
<1>8. ConnInv'
  <2>1. ASSUME NEW d \in Clients PROVE Connecting(d)'
    <3>1. Connecting(d)
      BY DEF Running, ConnInv
    <3> QED BY <1>0, <1>1, <1>2, <3>1 DEF Connecting, MapOf
  <2> QED BY <1>2, <2>1 DEF Running, ConnInv
<1>9. WorldInv'
  BY <1>0, <1>2 DEF Running, WorldInv, Alike
<1>10. PlaceInv'
  <2>1. ASSUME NEW d \in Clients PROVE \E to : Placed(d, to)'
    <3>1. Online(d)' => Online(d) /\ Len(stream') = Len(stream) /\ wire'[d] = wire[d] /\ socket'[d] = socket[d]
      BY <1>1, <1>2 DEF Online
    <3>2. (wire'[d] = wire[d] /\ socket'[d] = socket[d]) \/ wire'[d] = <<>>
      BY <1>1
    <3> QED BY <1>0, <1>2, <1>3, <1>7, <3>1, <3>2, PlacedSilent
  <2> QED BY <2>1 DEF PlaceInv
<1>11. SaveInv'
  BY <1>2, <1>7, SavesStay DEF Running
<1>12. AnswerInv'
  BY <1>2, <1>7, AnswersStay DEF Running, AnswerInv
<1>13. PlayerInv'
  BY <1>0, <1>2, <1>7 DEF Running, PlayerInv, StreamPlayers
<1> QED BY <1>3, <1>7, <1>8, <1>9, <1>10, <1>11, <1>12, <1>13 DEF Running

LEMMA RemovePlayerKeeps ==
  ASSUME TypeInv, Running, NEW c \in Clients, RemovePlayer(c)
  PROVE  TypeInv' /\ Running'
<1>0. /\ socket[c] = "closed" /\ c \in members
      /\ members' = members \ {c}
      /\ IF members' = {} THEN master' = None
         ELSE IF master = c THEN master' \in members' ELSE UNCHANGED master
      /\ waiting' = IF members' = {} THEN <<>> ELSE waiting
      /\ socket' = [d \in Clients |-> IF members' = {} /\ d \in Range(waiting) THEN "closed" ELSE socket[d]]
      /\ UNCHANGED <<stream, truth, founder, uploader, wire, read, faults, threads>>
  BY DEF RemovePlayer
<1>1. /\ UNCHANGED <<queue, map, world, pending, outgoing, stored, answers, troubles, doused>>
      /\ UNCHANGED <<stream, truth, founder, wire, read>>
  BY <1>0 DEF threads
<1>2. Range(waiting') \subseteq Range(waiting) /\ (members' # {} => waiting' = waiting) /\ (members' = {} => Range(waiting') = {})
  <2>1. Range(<<>>) = {}
    BY DEF Range
  <2> QED BY <1>0, <2>1
<1>3. \A d \in Clients : d \in Range(waiting) => wire[d] = <<>> /\ socket[d] \in {"first", "closed"} /\ d \notin members
  <2>1. \A d \in Range(waiting) : d \in Clients \ members
    BY RangeOfSeq DEF TypeInv, LockstepTypeOK
  <2> QED BY <2>1 DEF Running, ConnInv, Connecting
<1>4. TypeInv'
  <2>1. waiting' \in Seq(Clients \ members')
    <3>1. waiting \in Seq(Clients \ members) /\ Clients \ members \subseteq Clients \ members' /\ <<>> \in Seq(Clients \ members')
      BY <1>0, EmptySeq DEF TypeInv, LockstepTypeOK
    <3> QED BY <1>0, <3>1, SeqMonotonic
  <2>2. LockstepTypeOK'
    BY <1>0, <1>1, <2>1 DEF TypeInv, LockstepTypeOK
  <2>3. \A d \in Clients : Coming(d)' \in Seq(Queued)
    BY <1>0, <1>1, <1>3 DEF TypeInv, Coming
  <2> QED BY <1>1, <2>2, <2>3 DEF TypeInv
<1>5. \A d \in Clients : socket'[d] = "off" <=> socket[d] = "off"
  BY <1>0, <1>3
<1>7. HistoryInv' /\ Extends /\ Steady /\ StreamPlayers' /\ \A l, n : Known(l, n) => Known(l, n)'
  <2>1. HistoryInv' /\ Extends
    BY <1>1, StreamStays DEF Running
  <2>2. Steady
    BY <1>1, <1>2, <1>5 DEF Steady, Told
  <2>3. StreamPlayers
    BY DEF Running, PlayerInv, StreamPlayers
  <2> QED BY <1>1, <2>1, <2>2, <2>3, PlayersStay
<1>8. ConnInv'
  <2>1. ASSUME NEW d \in Clients PROVE Connecting(d)'
    <3>1. Connecting(d)
      BY DEF Running, ConnInv
    <3>2. socket'[d] = IF members' = {} /\ d \in Range(waiting) THEN "closed" ELSE socket[d]
      BY <1>0
    <3> QED BY <1>0, <1>1, <1>2, <1>3, <3>1, <3>2 DEF Connecting, MapOf
  <2>2. members' # {} => master' \in members'
    BY <1>0 DEF Running, ConnInv
  <2> QED BY <2>1, <2>2 DEF ConnInv
<1>9. WorldInv'
  BY <1>1 DEF Running, WorldInv, Alike
<1>10. PlaceInv'
  <2>1. ASSUME NEW d \in Clients PROVE \E to : Placed(d, to)'
    <3>1. Online(d)' => Online(d) /\ Len(stream') = Len(stream) /\ wire'[d] = wire[d] /\ socket'[d] = socket[d]
      BY <1>0, <1>1, <1>3 DEF Online
    <3>2. (wire'[d] = wire[d] /\ socket'[d] = socket[d]) \/ wire'[d] = <<>>
      BY <1>0, <1>1, <1>3
    <3> QED BY <1>1, <1>4, <1>7, <3>1, <3>2, PlacedSilent
  <2> QED BY <2>1 DEF PlaceInv
<1>11. SaveInv'
  BY <1>1, <1>7, SavesStay DEF Running
<1>12. AnswerInv'
  BY <1>1, <1>7, AnswersStay DEF Running, AnswerInv
<1>13. PlayerInv'
  BY <1>0, <1>1, <1>2, <1>7 DEF Running, PlayerInv, StreamPlayers
<1> QED BY <1>4, <1>7, <1>8, <1>9, <1>10, <1>11, <1>12, <1>13 DEF Running

\* The server sends one message of the stream to all its clients, and the
\* connections of some of them may be closed first.
LEMMA StreamSent ==
  ASSUME TypeInv, Running, TypeInv', HistoryInv', Extends, Steady, UNCHANGED <<queue, read>>,
         NEW m \in StreamMessages, stream' = Append(stream, m),
         \A d \in Clients :
            \/ d \in members /\ socket[d] # "closed" /\ wire'[d] = wire[d] \o <<m>> /\ socket'[d] = socket[d]
            \/ ~Online(d)' /\ ((wire'[d] = wire[d] /\ socket'[d] = socket[d]) \/ wire'[d] = <<>>)
  PROVE  PlaceInv'
<1>1. /\ Len(stream') = Len(stream) + 1 /\ stream'[Len(stream) + 1] = m
  BY AppendProperties DEF TypeInv
<1>2. PICK ms : ms = <<m>>
  OBVIOUS
<1>3. /\ ms \in Seq(Queued) /\ Len(ms) = 1 /\ ms[1] = m /\ ms # <<>>
  <2>1. m \in Queued
    BY DEF Queued
  <2> QED BY <1>2, <2>1
<1>4. ASSUME NEW d \in Clients PROVE \E at : Placed(d, at)'
  <2>1. CASE d \in members /\ socket[d] # "closed" /\ wire'[d] = wire[d] \o <<m>> /\ socket'[d] = socket[d]
    <3>1. Unread(d)' = Unread(d) \o ms
      BY <1>2, <1>3, <2>1, SentBehind
    <3>2. Online(d) /\ \E at : Placed(d, at)
      BY <2>1 DEF Running, PlaceInv, Online
    <3>3. \A i \in 2..Len(ms) : ms[i] \notin StreamMessages /\ Fits(ms[i], Len(stream))'
      BY <1>3
    <3>4. HistoryInv
      BY DEF Running
    <3> QED BY <1>1, <1>3, <3>1, <3>2, <3>3, <3>4, PlacedLonger
  <2>2. CASE ~Online(d)' /\ ((wire'[d] = wire[d] /\ socket'[d] = socket[d]) \/ wire'[d] = <<>>)
    BY <2>2, PlacedSilent
  <2> QED BY <2>1, <2>2
<1> QED BY <1>4 DEF PlaceInv

LEMMA ForwardKeeps ==
  ASSUME TypeInv, Running, NEW c \in Clients, NEW type \in Acts, Forward(c, type)
  PROVE  TypeInv' /\ Running'
<1> DEFINE m == OfPlayer(type, LoginOf[c])
<1>0. /\ c \in members /\ Streams(<<m>>)
      /\ wire' = SentAll(<<m>>)
      /\ UNCHANGED <<members, waiting, master, founder, uploader, socket, read, faults, threads>>
  BY DEF Forward
<1>1. /\ UNCHANGED <<queue, map, world, pending, outgoing, stored, answers, troubles, doused>>
      /\ UNCHANGED <<members, waiting, master, founder, socket, read>>
  BY <1>0 DEF threads
<1>2. m \in StreamMessages /\ m.id = LoginOf[c]
  BY LockstepAssumption DEF OfPlayer, StreamMessages, PlayerMessages, Acts
<1> HIDE DEF m
<1>3. PICK s : s = <<m>>
  OBVIOUS
<1>4. s # <<>> /\ Len(s) = 1 /\ s[1] = m /\ Streams(s) /\ \E x \in StreamMessages : s = <<x>>
  BY <1>0, <1>2, <1>3
<1>5. /\ stream' \in Seq(StreamMessages) /\ truth' \in Seq([world : Worlds, pending : Seq(PlayerMessages)])
      /\ HistoryInv' /\ Extends
      /\ Len(stream') = Len(stream) + 1 /\ Len(stream) \in Nat
      /\ stream'[Len(stream) + 1] = m /\ truth'[Len(stream) + 2] = After(truth[Len(stream) + 1], m)
  BY <1>1, <1>4, StreamsHistory, LenProperties DEF Running, TypeInv
<1>6. stream' = Append(stream, m)
  BY <1>0, AppendIsConcat, <1>2 DEF Streams, TypeInv
<1>7. ASSUME NEW d \in Clients
      PROVE  \/ d \in members /\ socket[d] # "closed" /\ wire'[d] = wire[d] \o <<m>>
             \/ ~Online(d) /\ wire'[d] = wire[d]
  BY <1>0 DEF SentAll, Sent, Online
<1>8. <<m>> \in Seq(Queued)
  BY <1>2 DEF Queued
<1>9. ASSUME NEW d \in Clients
      PROVE  /\ Coming(d)' \in Seq(Queued) /\ wire'[d] \in Seq(Queued \cup Successes)
             /\ socket[d] = "first" /\ d \in members => wire'[d] # <<>> /\ Head(wire'[d]) = Head(wire[d])
  <2>1. CASE d \in members /\ socket[d] # "closed" /\ wire'[d] = wire[d] \o <<m>>
    BY <1>1, <1>3, <1>8, <2>1, SentBehind
  <2>2. CASE wire'[d] = wire[d]
    BY <1>1, <2>2 DEF Coming, TypeInv, Running, ConnInv, Connecting
  <2> QED BY <1>7, <2>1, <2>2
<1>10. TypeInv'
  <2>1. read' \in [Clients -> 0..Len(stream')]
    BY <1>1, <1>5 DEF TypeInv, LockstepTypeOK
  <2>2. LockstepTypeOK'
    BY <1>1, <2>1 DEF TypeInv, LockstepTypeOK
  <2>3. wire' \in [Clients -> Seq(Queued \cup Successes)]
    BY <1>0, <1>9 DEF SentAll
  <2> QED BY <1>1, <1>5, <1>9, <2>2, <2>3 DEF TypeInv
<1>11. Steady
  BY <1>1 DEF Steady, Told
<1>12. ConnInv'
  <2>1. ASSUME NEW d \in Clients PROVE Connecting(d)'
    <3>1. Connecting(d)
      BY DEF Running, ConnInv
    <3>2. d \in Range(waiting) => d \notin members
      BY RangeOfSeq DEF TypeInv, LockstepTypeOK
    <3>3. wire[d] = <<>> /\ (d \notin members \/ socket[d] = "closed") => wire'[d] = <<>>
      BY <1>7
    <3>4. Success(MapOf(d))' = Success(MapOf(d))
      BY <1>1 DEF Success, MapOf
    <3> QED BY <1>1, <1>9, <3>1, <3>2, <3>3, <3>4 DEF Connecting, MapOf
  <2> QED BY <1>1, <2>1 DEF Running, ConnInv
<1>13. WorldInv'
  <2>1. \A d \in Clients : truth'[read[d] + 1] = truth[read[d] + 1]
    BY <1>5, TruthRead
  <2> QED BY <1>1, <2>1 DEF Running, WorldInv, Alike
<1>14. PlaceInv'
  <2>1. ASSUME NEW d \in Clients
        PROVE  \/ d \in members /\ socket[d] # "closed" /\ wire'[d] = wire[d] \o <<m>> /\ socket'[d] = socket[d]
               \/ ~Online(d)' /\ ((wire'[d] = wire[d] /\ socket'[d] = socket[d]) \/ wire'[d] = <<>>)
    BY <1>1, <1>7 DEF Online
  <2> QED BY <1>1, <1>2, <1>5, <1>6, <1>10, <1>11, <2>1, StreamSent
<1>15. SaveInv'
  BY <1>1, <1>5, <1>11, SavesStay DEF Running
<1>16. AnswerInv'
  BY <1>1, <1>5, <1>11, AnswersStay DEF Running, AnswerInv
<1>17. PlayerInv'
  <2>1. StreamPlayers /\ Known(LoginOf[c], Len(stream)) /\ HistoryInv
    BY <1>0 DEF Running, PlayerInv, StreamPlayers
  <2>2. /\ StreamPlayers'
        /\ \A l, n : n \in 0..Len(stream) /\ Known(l, n) => Known(l, n)' /\ Known(l, n + 1)'
    BY <1>2, <1>5, <2>1, PlayersGrow
  <2>3. ASSUME NEW d \in Clients
        PROVE  /\ d \in members \cup Range(waiting) => Known(LoginOf[d], Len(stream))'
               /\ d \in members \/ map[d] # None => Known(LoginOf[d], read[d])'
    <3>1. PICK n, k : n = Len(stream) /\ k = read[d]
      OBVIOUS
    <3>2. n \in 0..Len(stream) /\ k \in 0..Len(stream) /\ n + 1 = Len(stream') /\ k = read'[d]
      BY <1>1, <1>5, <3>1 DEF TypeInv, LockstepTypeOK
    <3>3. /\ d \in members \cup Range(waiting) => Known(LoginOf[d], n)
          /\ d \in members \/ map[d] # None => Known(LoginOf[d], k)
      BY <3>1 DEF Running, PlayerInv
    <3>4. /\ d \in members \cup Range(waiting) => Known(LoginOf[d], n + 1)'
          /\ d \in members \/ map[d] # None => Known(LoginOf[d], k)'
      BY <2>2, <3>2, <3>3
    <3> QED BY <3>2, <3>4 DEF Known
  <2> QED BY <1>1, <2>2, <2>3 DEF Running, PlayerInv, StreamPlayers
<1> QED BY <1>5, <1>10, <1>12, <1>13, <1>14, <1>15, <1>16, <1>17 DEF Running

LEMMA OneOrNone ==
  ASSUME NEW S, NEW m \in S, NEW s, s = <<>> \/ s = <<m>>
  PROVE  s \in Seq(S) /\ Len(s) \in Nat
<1>1. CASE s = <<>>
  BY <1>1, EmptySeq
<1>2. CASE s = <<m>>
  BY <1>2
<1> QED BY <1>1, <1>2

LEMMA RangeAppend ==
  ASSUME NEW S, NEW w \in Seq(S), NEW c \in S
  PROVE  Range(Append(w, c)) = Range(w) \cup {c}
<1> DEFINE v == Append(w, c)
<1>1. /\ v \in Seq(S) /\ Len(v) = Len(w) + 1 /\ Len(w) \in Nat /\ v[Len(w) + 1] = c
      /\ \A i \in 1..Len(w) : v[i] = w[i]
  BY AppendProperties, LenProperties
<1> HIDE DEF v
<1>2. Range(v) = {v[i] : i \in 1..Len(v)} /\ Range(w) = {w[i] : i \in 1..Len(w)}
  BY <1>1, RangeEquality
<1>3. \A i \in 1..Len(v) : i \in 1..Len(w) \/ i = Len(w) + 1
  BY <1>1
<1>4. \A i \in 1..Len(w) : i \in 1..Len(v) /\ v[i] = w[i]
  BY <1>1
<1>5. Len(w) + 1 \in 1..Len(v)
  BY <1>1
<1>6. Range(v) \subseteq Range(w) \cup {c}
  BY <1>1, <1>2, <1>3
<1>7. Range(w) \cup {c} \subseteq Range(v)
  BY <1>1, <1>2, <1>4, <1>5
<1> QED BY <1>6, <1>7 DEF v

LEMMA AnnouncedKinds ==
  ASSUME NEW c \in Clients
  PROVE  \/ Announced(c) = <<>> /\ Known(LoginOf[c], Len(stream))
         \/ Announced(c) = <<NewClient(LoginOf[c])>>
BY DEF Announced, Known, NewClient

LEMMA RegisterKeeps ==
  ASSUME TypeInv, Running, NEW c \in Clients, Register(c)
  PROVE  TypeInv' /\ Running'
<1> DEFINE old == {d \in members : LoginOf[d] = LoginOf[c]}
           m == NewClient(LoginOf[c])
<1>0. /\ socket[c] = "off" /\ founder # None
      /\ members \ old # {}
      /\ members' = members \ old
      /\ waiting' = Append(waiting, c)
      /\ IF master \in old THEN master' \in members' ELSE UNCHANGED master
      /\ Streams(Announced(c))
      /\ wire' = [d \in Clients |-> IF d \in old THEN <<>> ELSE SentAll(Announced(c))[d]]
      /\ socket' = [d \in Clients |-> IF d \in old THEN "closed" ELSE IF d = c THEN "first" ELSE socket[d]]
      /\ UNCHANGED <<founder, uploader, read, faults, threads>>
  BY DEF Register
<1>1. /\ UNCHANGED <<queue, map, world, pending, outgoing, stored, answers, troubles, doused>>
      /\ UNCHANGED <<founder, read>>
  BY <1>0 DEF threads
<1>2. m \in StreamMessages /\ m.type = "NEW_CLIENT" /\ m.id = LoginOf[c]
  BY LockstepAssumption DEF NewClient, OfPlayer, StreamMessages, PlayerMessages, Acts
<1>a. \/ Announced(c) = <<>> /\ Known(LoginOf[c], Len(stream))
      \/ Announced(c) = <<m>>
  BY AnnouncedKinds
<1> HIDE DEF m
<1>3. /\ Connecting(c) /\ c \notin members /\ c \notin Range(waiting) /\ c # founder
      /\ wire[c] = <<>> /\ queue[c] = <<>> /\ map[c] = None /\ world[c] = None
  BY <1>0 DEF Running, ConnInv, Connecting
<1>4. PICK s : s = Announced(c)
  OBVIOUS
<1>b. s \in Seq(Queued) /\ s \in Seq(Queued \cup Successes) /\ Len(s) \in Nat
  <2>1. m \in Queued /\ m \in Queued \cup Successes /\ (s = <<>> \/ s = <<m>>)
    BY <1>2, <1>4, <1>a DEF Queued
  <2> QED BY <2>1, OneOrNone
<1>5. /\ stream' \in Seq(StreamMessages) /\ truth' \in Seq([world : Worlds, pending : Seq(PlayerMessages)])
      /\ HistoryInv' /\ Extends
      /\ Len(stream') = Len(stream) + Len(s) /\ Len(stream) \in Nat
      /\ s # <<>> => stream'[Len(stream) + 1] = s[1] /\ truth'[Len(stream) + 2] = After(truth[Len(stream) + 1], s[1])
  <2>1. Streams(s) /\ (s = <<>> \/ \E x \in StreamMessages : s = <<x>>)
    BY <1>0, <1>2, <1>4, <1>a
  <2>2. Len(stream) \in Nat
    BY LenProperties DEF TypeInv
  <2>3. HistoryInv
    BY DEF Running
  <2> QED BY <1>1, <2>1, <2>2, <2>3, StreamsHistory
<1>6. Range(waiting') = Range(waiting) \cup {c}
  <2>1. waiting \in Seq(Clients)
    BY SeqMonotonic DEF TypeInv, LockstepTypeOK
  <2> QED BY <1>0, <2>1, RangeAppend
<1>7. ASSUME NEW d \in Clients
      PROVE  /\ d \in old => wire'[d] = <<>> /\ socket'[d] = "closed" /\ d \notin members' /\ socket[d] # "off"
             /\ d \notin old /\ d # c => socket'[d] = socket[d] /\ (d \in members' <=> d \in members)
             /\ d \in members' /\ socket[d] # "closed" => wire'[d] = wire[d] \o s
             /\ d \notin old /\ (d \notin members' \/ socket[d] = "closed") => wire'[d] = wire[d]
  <2>1. d \in members => socket[d] # "off"
    BY DEF Running, ConnInv, Connecting
  <2> QED BY <1>0, <1>3, <1>4, <2>1 DEF SentAll, Sent
<1>8. socket'[c] = "first" /\ wire'[c] = <<>> /\ c \notin members' /\ c \notin old
  BY <1>0, <1>3, <1>7
<1>9. ASSUME NEW d \in Clients
      PROVE  /\ Coming(d)' \in Seq(Queued) /\ wire'[d] \in Seq(Queued \cup Successes)
             /\ socket[d] = "first" /\ d \in members' => wire'[d] # <<>> /\ Head(wire'[d]) = Head(wire[d])
  <2>1. CASE d \in members' /\ socket[d] # "closed"
    <3>2. d \in members /\ socket'[d] = socket[d] /\ wire'[d] = wire[d] \o s /\ queue'[d] = queue[d]
      BY <1>0, <1>1, <1>3, <1>7, <2>1
    <3> QED BY <1>b, <2>1, <3>2, SentBehind
  <2>2. CASE wire'[d] = <<>>
    <3>1. <<>> \in Seq(Queued) /\ <<>> \in Seq(Queued \cup Successes)
      BY EmptySeq
    <3>2. ~(socket[d] = "first" /\ d \in members')
      <4>1. CASE d \in members' /\ socket[d] = "first"
        <5>1. d \in members /\ wire[d] # <<>> /\ wire'[d] = wire[d] \o s
          BY <1>0, <1>7, <4>1 DEF Running, ConnInv, Connecting
        <5>2. wire[d] \in Seq(Queued \cup Successes)
          BY DEF TypeInv
        <5>3. Len(wire[d] \o s) = Len(wire[d]) + Len(s) /\ Len(wire[d]) \in Nat /\ Len(wire[d]) # 0
          BY <1>b, <5>1, <5>2, ConcatProperties, LenProperties, EmptySeq
        <5> QED BY <1>b, <2>2, <5>1, <5>3, EmptySeq
      <4> QED BY <4>1
    <3> QED BY <2>2, <3>1, <3>2 DEF Coming
  <2>3. CASE d \notin old /\ d # c /\ (d \notin members' \/ socket[d] = "closed")
    <3>1. wire'[d] = wire[d] /\ socket'[d] = socket[d]
      BY <1>7, <2>3
    <3>2. ~(socket[d] = "first" /\ d \in members')
      BY <2>3
    <3> QED BY <3>1, <3>2 DEF Coming, TypeInv
  <2> QED BY <1>7, <1>8, <2>1, <2>2, <2>3
<1>10. TypeInv'
  <2>1. read' \in [Clients -> 0..Len(stream')]
    BY <1>1, <1>5, <1>b DEF TypeInv, LockstepTypeOK
  <2>2. waiting' \in Seq(Clients \ members')
    <3>1. waiting \in Seq(Clients \ members')
      BY <1>0, SeqMonotonic DEF TypeInv, LockstepTypeOK
    <3> QED BY <1>0, <1>8, <3>1, AppendProperties
  <2>3. /\ members' \subseteq Clients /\ master' \in Clients \cup {None}
        /\ socket' \in [Clients -> {"off", "first", "open", "closed"}]
    BY <1>0 DEF TypeInv, LockstepTypeOK
  <2>4. LockstepTypeOK'
    BY <1>1, <2>1, <2>2, <2>3 DEF TypeInv, LockstepTypeOK
  <2>5. wire' \in [Clients -> Seq(Queued \cup Successes)]
    BY <1>0, <1>9
  <2> QED BY <1>1, <1>5, <1>9, <2>4, <2>5 DEF TypeInv
<1>11. Steady
  <2>1. ASSUME NEW d \in Clients, Told(d) PROVE Told(d)'
    <3>1. d # c
      BY <1>0, <2>1 DEF Told
    <3> QED BY <1>6, <1>7, <2>1, <3>1 DEF Told
  <2> QED BY <1>1, <2>1 DEF Steady
<1>12. ConnInv'
  <2>1. ASSUME NEW d \in Clients, d # c PROVE Connecting(d)'
    <3>1. Connecting(d)
      BY DEF Running, ConnInv
    <3>2. d \in Range(waiting) => d \notin members
      BY RangeOfSeq DEF TypeInv, LockstepTypeOK
    <3>3. Success(MapOf(d))' = Success(MapOf(d))
      BY <1>1 DEF Success, MapOf
    <3>4. CASE d \in old
      BY <1>1, <1>6, <1>7, <2>1, <3>1, <3>2, <3>4 DEF Connecting, MapOf
    <3>5. CASE d \notin old
      BY <1>1, <1>6, <1>7, <1>9, <2>1, <3>1, <3>2, <3>3, <3>5 DEF Connecting, MapOf
    <3> QED BY <3>4, <3>5
  <2>2. Connecting(c)'
    BY <1>1, <1>3, <1>6, <1>8 DEF Connecting, MapOf
  <2>3. master' \in members'
    <3>1. members # {}
      BY <1>0
    <3> QED BY <1>0, <3>1 DEF Running, ConnInv
  <2> QED BY <2>1, <2>2, <2>3 DEF ConnInv
<1>13. WorldInv'
  <2>1. \A d \in Clients : truth'[read[d] + 1] = truth[read[d] + 1]
    BY <1>5, TruthRead
  <2> QED BY <1>1, <2>1 DEF Running, WorldInv, Alike
<1>14. PlaceInv'
  <2>1. CASE s = <<>>
    <3>1. Len(stream') = Len(stream)
      BY <1>5, <2>1, EmptySeq
    <3>2. ASSUME NEW d \in Clients PROVE \E at : Placed(d, at)'
      <4>1. wire[d] \o <<>> = wire[d]
        BY ConcatEmptySeq DEF TypeInv
      <4>2. \/ wire'[d] = wire[d] /\ socket'[d] = socket[d]
            \/ wire'[d] = <<>> /\ d \notin members'
        BY <1>7, <1>8, <2>1, <4>1
      <4>3. Online(d)' => Online(d) /\ wire'[d] = wire[d] /\ socket'[d] = socket[d]
        BY <1>0, <4>2 DEF Online
      <4> QED BY <1>1, <1>5, <1>10, <1>11, <3>1, <4>2, <4>3, PlacedSilent
    <3> QED BY <3>2 DEF PlaceInv
  <2>2. CASE s = <<m>>
    <3>1. stream' = Append(stream, m)
      BY <1>0, <1>2, <1>4, <2>2, AppendIsConcat DEF Streams, TypeInv
    <3>2. ASSUME NEW d \in Clients
          PROVE  \/ d \in members /\ socket[d] # "closed" /\ wire'[d] = wire[d] \o <<m>> /\ socket'[d] = socket[d]
                 \/ ~Online(d)' /\ ((wire'[d] = wire[d] /\ socket'[d] = socket[d]) \/ wire'[d] = <<>>)
      BY <1>0, <1>7, <1>8, <2>2 DEF Online
    <3> QED BY <1>1, <1>2, <1>5, <1>10, <1>11, <3>1, <3>2, StreamSent
  <2> QED BY <1>4, <1>a, <2>1, <2>2
<1>15. SaveInv'
  BY <1>1, <1>5, <1>11, SavesStay DEF Running
<1>16. AnswerInv'
  BY <1>1, <1>5, <1>11, AnswersStay DEF Running, AnswerInv
<1>17. PlayerInv'
  <2>1. StreamPlayers /\ HistoryInv
    BY DEF Running, PlayerInv, StreamPlayers
  <2>2. PICK N : N = Len(stream)
    OBVIOUS
  <2>3. /\ StreamPlayers'
        /\ \A l, n : n \in 0..N /\ Known(l, n) => Known(l, n)'
        /\ \A l, n : n = Len(stream') /\ Known(l, N) => Known(l, n)'
        /\ \A n : n = Len(stream') => Known(LoginOf[c], n)'
    <3>1. CASE s = <<>>
      <4>1. UNCHANGED <<stream, truth, founder>> /\ Known(LoginOf[c], N)
        <5>1. Streams(<<>>) /\ Announced(c) = <<>>
          BY <1>0, <1>4, <3>1
        <5>2. stream \o <<>> = stream
          BY ConcatEmptySeq DEF TypeInv
        <5>3. <<>> # <<m>>
          OBVIOUS
        <5> QED BY <1>1, <1>a, <2>2, <5>1, <5>2, <5>3 DEF Streams
      <4> QED BY <2>1, <2>2, <4>1, PlayersStay
    <3>2. CASE s = <<m>>
      <4>1. Len(stream') = Len(stream) + 1 /\ stream'[Len(stream) + 1] = m
            /\ truth'[Len(stream) + 2] = After(truth[Len(stream) + 1], m)
        BY <1>5, <3>2
      <4>2. /\ StreamPlayers'
            /\ \A l, n : n \in 0..Len(stream) /\ Known(l, n) => Known(l, n)' /\ Known(l, n + 1)'
        BY <1>2, <1>5, <2>1, <4>1, PlayersGrow DEF Acts
      <4>3. N \in 0..N
        BY <1>5, <2>2
      <4>4. N + 1 \in 1..(N + 1) /\ stream'[N + 1] = NewClient(LoginOf[c])
        BY <1>5, <2>2, <4>1 DEF m
      <4>5. Known(LoginOf[c], N + 1)'
        BY <4>4 DEF Known, NewClient, OfPlayer
      <4> QED BY <2>2, <4>1, <4>2, <4>3, <4>5
    <3> QED BY <1>4, <1>a, <3>1, <3>2
  <2>4. ASSUME NEW d \in Clients
        PROVE  /\ d \in members' \cup Range(waiting') => Known(LoginOf[d], Len(stream))'
               /\ d \in members' \/ map'[d] # None => Known(LoginOf[d], read[d])'
    <3>1. PICK n, k : n = Len(stream') /\ k = read[d]
      OBVIOUS
    <3>2. k \in 0..N /\ k = read'[d]
      BY <1>1, <2>2, <3>1 DEF TypeInv, LockstepTypeOK
    <3>3. /\ d \in members' \cup Range(waiting') => Known(LoginOf[d], N) \/ d = c
          /\ d \in members' \/ map'[d] # None => Known(LoginOf[d], k)
      BY <1>0, <1>1, <1>6, <2>2, <3>1 DEF Running, PlayerInv
    <3>4. /\ d \in members' \cup Range(waiting') => Known(LoginOf[d], n)'
          /\ d \in members' \/ map'[d] # None => Known(LoginOf[d], k)'
      BY <2>3, <3>1, <3>2, <3>3
    <3> QED BY <3>1, <3>2, <3>4 DEF Known
  <2> QED BY <1>1, <2>3, <2>4 DEF Running, PlayerInv, StreamPlayers
<1> QED BY <1>5, <1>10, <1>12, <1>13, <1>14, <1>15, <1>16, <1>17 DEF Running

\* What a tick sends: the tick itself, and requests behind it.
TickSent(ms, tick) ==
  /\ ms \in Seq(Queued) /\ ms # <<>> /\ ms[1] = Tick /\ Len(ms) \in Nat \ {0}
  /\ \A i \in 2..Len(ms) : ms[i] = RequestHash(tick) \/ \E d \in Range(waiting) : ms[i] = MapUpload(d)

LEMMA TickSends ==
  ASSUME NEW tick \in Nat, waiting \in Seq(Clients)
  PROVE  TickSent(TickMessages(tick), tick) /\ TickSent(TickMessages(tick) \o MapRequests, tick)
<1>1. Tick \in Queued /\ RequestHash(tick) \in Queued /\ \A d \in Clients : MapUpload(d) \in Queued
  BY DEF Queued, StreamMessages, RequestHash, MapUpload
<1>2. PICK t, h, w : t = Tick /\ h = RequestHash(tick) /\ w = waiting
  OBVIOUS
<1>3. TickMessages(tick) = <<t>> \/ TickMessages(tick) = <<t>> \o <<h>>
  <2>1. <<t>> \o <<>> = <<t>>
    BY <1>1, <1>2, ConcatEmptySeq
  <2> QED BY <1>2, <2>1 DEF TickMessages, HashesDue
<1>4. /\ TickMessages(tick) \in Seq(Queued) /\ TickMessages(tick)[1] = t
      /\ Len(TickMessages(tick)) \in {1, 2}
      /\ \A i \in 2..Len(TickMessages(tick)) : TickMessages(tick)[i] = h
  <2>1. ASSUME NEW S, NEW x \in S, NEW y \in S
        PROVE  /\ <<x>> \in Seq(S) /\ <<x>>[1] = x /\ Len(<<x>>) = 1
               /\ <<x>> \o <<y>> \in Seq(S) /\ (<<x>> \o <<y>>)[1] = x /\ (<<x>> \o <<y>>)[2] = y /\ Len(<<x>> \o <<y>>) = 2
    OBVIOUS
  <2>2. t \in Queued /\ h \in Queued
    BY <1>1, <1>2
  <2>3. CASE TickMessages(tick) = <<t>>
    BY <2>1, <2>2, <2>3
  <2>4. CASE TickMessages(tick) = <<t>> \o <<h>>
    <3>1. \A i \in 2..2 : i = 2
      OBVIOUS
    <3> QED BY <2>1, <2>2, <2>4, <3>1
  <2> QED BY <1>3, <2>3, <2>4
<1>5. /\ MapRequests \in Seq(Queued) /\ Len(MapRequests) = Len(w) /\ Len(w) \in Nat
      /\ \A i \in 1..Len(w) : w[i] \in Range(w) /\ MapRequests[i] = MapUpload(w[i])
  <2>1. Len(w) \in Nat /\ \A i \in 1..Len(w) : w[i] \in Clients /\ w[i] \in Range(w)
    BY <1>2, LenProperties, ElementOfSeq, RangeEquality
  <2>2. \A i \in 1..Len(w) : MapUpload(w[i]) \in Queued
    BY <1>1, <2>1
  <2>3. MapRequests = [i \in 1..Len(w) |-> MapUpload(w[i])]
    BY <1>2 DEF MapRequests
  <2> QED BY <2>1, <2>2, <2>3
<1>6. PICK a, b : a = TickMessages(tick) /\ b = MapRequests
  OBVIOUS
<1>7. TickSent(a, tick)
  BY <1>2, <1>4, <1>6, EmptySeq DEF TickSent
<1>8. /\ a \o b \in Seq(Queued) /\ Len(a \o b) = Len(a) + Len(b) /\ (a \o b)[1] = t
      /\ \A i \in 1..Len(a) : (a \o b)[i] = a[i]
      /\ \A i \in (Len(a) + 1)..(Len(a) + Len(b)) : (a \o b)[i] = b[i - Len(a)]
  <2>1. a \in Seq(Queued) /\ b \in Seq(Queued) /\ Len(a) \in {1, 2} /\ Len(b) \in Nat /\ a[1] = t
    BY <1>4, <1>5, <1>6
  <2>2. /\ a \o b \in Seq(Queued) /\ Len(a \o b) = Len(a) + Len(b)
        /\ \A i \in 1..(Len(a) + Len(b)) : (a \o b)[i] = IF i <= Len(a) THEN a[i] ELSE b[i - Len(a)]
    BY <2>1, ConcatProperties
  <2> QED BY <2>1, <2>2
<1>9. TickSent(a \o b, tick)
  <2>1. ASSUME NEW i \in 2..Len(a \o b)
        PROVE  (a \o b)[i] = RequestHash(tick) \/ \E d \in Range(waiting) : (a \o b)[i] = MapUpload(d)
    <3>1. CASE i \in 2..Len(a)
      <4>1. (a \o b)[i] = a[i] /\ a[i] = h
        BY <1>4, <1>6, <1>8, <3>1
      <4> QED BY <1>2, <4>1
    <3>2. CASE i \in (Len(a) + 1)..(Len(a) + Len(b))
      <4>1. (a \o b)[i] = b[i - Len(a)] /\ i - Len(a) \in 1..Len(w)
        BY <1>4, <1>5, <1>6, <1>8, <3>2
      <4> QED BY <1>2, <1>5, <1>6, <4>1
    <3> QED BY <1>4, <1>5, <1>6, <1>8, <3>1, <3>2
  <2>2. Len(a \o b) \in Nat \ {0} /\ a \o b # <<>>
    BY <1>4, <1>5, <1>6, <1>8, EmptySeq
  <2> QED BY <1>2, <1>8, <2>1, <2>2 DEF TickSent
<1> QED BY <1>6, <1>7, <1>9

LEMMA NewTickKeeps ==
  ASSUME TypeInv, Running, NewTick
  PROVE  TypeInv' /\ Running'
<1> DEFINE tick == Count("NEW_TICK", stream) + 1
<1>0. PICK k, late : k = tick /\ late = Range(waiting)
  OBVIOUS
<1>1. /\ members # {} /\ Streams(<<Tick>>)
      /\ wire' = [c \in Clients |->
                    IF c \in late THEN Sent(c, <<Success(c)>>)
                    ELSE IF c = master THEN Sent(c, TickMessages(k) \o MapRequests)
                    ELSE SentAll(TickMessages(k))[c]]
      /\ read' = [c \in Clients |-> IF c \in late THEN Len(stream) + 1 ELSE read[c]]
      /\ members' = members \cup late /\ waiting' = <<>>
      /\ UNCHANGED <<master, founder, socket, faults, threads>>
  BY <1>0 DEF NewTick
<1>2. /\ UNCHANGED <<queue, map, world, pending, outgoing, stored, answers, troubles, doused>>
      /\ UNCHANGED <<master, founder, socket>>
  BY <1>1 DEF threads
<1>3. Range(waiting') = {}
  BY <1>1 DEF Range
<1>4. /\ waiting \in Seq(Clients) /\ late \subseteq Clients
      /\ \A d \in late : /\ d \in Clients \ members /\ d # founder /\ socket[d] \in {"first", "closed"}
                         /\ wire[d] = <<>> /\ map[d] = None /\ queue[d] = <<>> /\ world[d] = None /\ pending[d] = <<>>
  <2>1. waiting \in Seq(Clients) /\ late \subseteq Clients \ members
    BY <1>0, SeqMonotonic, RangeOfSeq DEF TypeInv, LockstepTypeOK
  <2>2. ASSUME NEW d \in late
        PROVE  /\ d # founder /\ socket[d] \in {"first", "closed"}
               /\ wire[d] = <<>> /\ map[d] = None /\ queue[d] = <<>> /\ world[d] = None /\ pending[d] = <<>>
    <3>1. d \in Clients /\ d \in Range(waiting)
      BY <1>0, <2>1
    <3>2. Connecting(d)
      BY <3>1 DEF Running, ConnInv
    <3>3. map[d] = None /\ queue[d] = <<>> /\ world[d] = None
      BY <3>1, <3>2 DEF Connecting
    <3> QED BY <3>1, <3>2, <3>3 DEF Connecting, Running, WorldInv
  <2> QED BY <2>1, <2>2
<1>5. stream \in Seq(StreamMessages) /\ k \in Nat /\ Tick \in StreamMessages
  <2>1. Tick \in StreamMessages
    BY DEF StreamMessages
  <2> QED BY <1>0, <2>1, CountAppend DEF TypeInv
<1>6. PICK s : s = <<Tick>>
  OBVIOUS
<1>7. s # <<>> /\ Len(s) = 1 /\ s[1] = Tick /\ Streams(s) /\ \E x \in StreamMessages : s = <<x>>
  BY <1>1, <1>5, <1>6
<1>8. /\ stream' \in Seq(StreamMessages) /\ truth' \in Seq([world : Worlds, pending : Seq(PlayerMessages)])
      /\ HistoryInv' /\ Extends
      /\ Len(stream') = Len(stream) + 1 /\ Len(stream) \in Nat
      /\ stream'[Len(stream) + 1] = Tick /\ truth'[Len(stream) + 2] = After(truth[Len(stream) + 1], Tick)
  BY <1>2, <1>7, StreamsHistory, LenProperties DEF Running, TypeInv
<1>9. PICK N : N = Len(stream) + 1
  OBVIOUS
<1>10. /\ N \in Nat /\ N = Len(stream') /\ N > 0 /\ AtTick(N)'
       /\ truth'[N + 1].world.tick = k
  <2>1. N \in Nat /\ N = Len(stream') /\ N > 0 /\ AtTick(N)'
    BY <1>8, <1>9 DEF AtTick
  <2>2. /\ Len(truth') = Len(stream') + 1
        /\ truth'[Len(truth')].world.tick = Count("NEW_TICK", stream')
    BY <1>8 DEF HistoryInv
  <2>3. stream' = Append(stream, Tick)
    BY <1>1, <1>5, AppendIsConcat DEF Streams
  <2>4. Count("NEW_TICK", stream') = k
    BY <1>0, <1>5, <2>3, CountAppend
  <2> QED BY <2>1, <2>2, <2>4
<1>11. PICK a, b : a = TickMessages(k) /\ b = TickMessages(k) \o MapRequests
  OBVIOUS
<1>12. TickSent(a, k) /\ TickSent(b, k)
  BY <1>4, <1>5, <1>11, TickSends
<1>13. ASSUME NEW d \in Clients
       PROVE  \/ d \in late /\ socket[d] = "first" /\ wire'[d] = <<Success(d)>>
              \/ d \in late /\ socket[d] = "closed" /\ wire'[d] = <<>>
              \/ /\ d \in members /\ d \notin late /\ socket[d] # "closed"
                 /\ \E ms : TickSent(ms, k) /\ wire'[d] = wire[d] \o ms
              \/ d \notin late /\ ~Online(d) /\ wire'[d] = wire[d]
  <2>1. CASE d \in late
    <3>1. wire'[d] = IF socket[d] = "closed" THEN wire[d] ELSE wire[d] \o <<Success(d)>>
      BY <1>1, <2>1 DEF Sent
    <3>2. <<>> \o <<Success(d)>> = <<Success(d)>>
      <4>1. ASSUME NEW x PROVE <<>> \o <<x>> = <<x>>
        BY ConcatEmptySeq
      <4> QED BY <4>1
    <3> QED BY <1>4, <2>1, <3>1, <3>2
  <2>2. CASE d \notin late /\ Online(d)
    <3>1. wire'[d] = wire[d] \o a \/ wire'[d] = wire[d] \o b
      BY <1>1, <1>11, <2>2 DEF Sent, SentAll, Online
    <3> QED BY <1>12, <2>2, <3>1 DEF Online
  <2>3. CASE d \notin late /\ ~Online(d)
    <3>1. master \in members
      BY <1>1 DEF Running, ConnInv
    <3> QED BY <1>1, <2>3, <3>1 DEF Sent, SentAll, Online
  <2> QED BY <2>1, <2>2, <2>3
<1>14. ASSUME NEW d \in Clients
       PROVE  /\ Coming(d)' \in Seq(Queued) /\ wire'[d] \in Seq(Queued \cup Successes)
              /\ d \in late => Coming(d)' = <<>>
              /\ socket[d] = "first" /\ d \in members => wire'[d] # <<>> /\ Head(wire'[d]) = Head(wire[d])
  <2>1. CASE d \in late /\ socket[d] = "first" /\ wire'[d] = <<Success(d)>>
    <3>1. Success(d) \in Queued \cup Successes
      BY DEF Success, Successes
    <3>2. PICK e : e = Success(d)
      OBVIOUS
    <3>3. wire'[d] = <<e>> /\ wire'[d] \in Seq(Queued \cup Successes) /\ Tail(wire'[d]) = <<>>
      BY <2>1, <3>1, <3>2
    <3>4. Coming(d)' = <<>>
      BY <1>2, <2>1, <3>3 DEF Coming
    <3> QED BY <1>4, <2>1, <3>3, <3>4, EmptySeq
  <2>2. CASE d \in late /\ socket[d] = "closed" /\ wire'[d] = <<>>
    BY <1>2, <2>2, EmptySeq DEF Coming
  <2>3. CASE /\ d \in members /\ d \notin late /\ socket[d] # "closed"
             /\ \E ms : TickSent(ms, k) /\ wire'[d] = wire[d] \o ms
    BY <1>2, <2>3, SentBehind DEF TickSent
  <2>4. CASE d \notin late /\ ~Online(d) /\ wire'[d] = wire[d]
    BY <1>2, <2>4 DEF Coming, TypeInv, Online
  <2> QED BY <1>13, <2>1, <2>2, <2>3, <2>4
<1>15. TypeInv'
  <2>1. read' \in [Clients -> 0..Len(stream')]
    <3>1. PICK n : n = Len(stream) /\ n \in Nat /\ n + 1 = Len(stream')
      BY <1>8
    <3>2. \A d \in Clients : read[d] \in 0..n
      BY <3>1 DEF TypeInv, LockstepTypeOK
    <3>3. \A d \in Clients : read[d] \in 0..(n + 1) /\ n + 1 \in 0..(n + 1)
      BY <3>1, <3>2
    <3>4. read' = [d \in Clients |-> IF d \in late THEN n + 1 ELSE read[d]]
      BY <1>1, <3>1
    <3>5. read' \in [Clients -> 0..(n + 1)]
      BY <3>3, <3>4
    <3> QED BY <3>1, <3>5
  <2>2. waiting' \in Seq(Clients \ members')
    BY <1>1, EmptySeq
  <2>3. LockstepTypeOK'
    BY <1>1, <1>2, <1>4, <2>1, <2>2 DEF TypeInv, LockstepTypeOK
  <2>4. wire' \in [Clients -> Seq(Queued \cup Successes)]
    BY <1>1, <1>14
  <2> QED BY <1>2, <1>8, <1>14, <2>3, <2>4 DEF TypeInv
<1>16. Steady
  <2>1. ASSUME NEW d \in Clients, Told(d) PROVE d \notin late /\ Told(d)' /\ read'[d] = read[d]
    BY <1>0, <1>1, <1>2, <1>3, <2>1 DEF Told
  <2> QED BY <1>2, <2>1 DEF Steady
<1>17. ConnInv'
  <2>1. ASSUME NEW d \in Clients PROVE Connecting(d)'
    <3>1. Connecting(d)
      BY DEF Running, ConnInv
    <3>2. Success(MapOf(d))' = Success(MapOf(d))
      BY <1>2 DEF Success, MapOf
    <3>3. CASE d \notin late
      <4>1. (d \in members' <=> d \in members) /\ d \notin Range(waiting)
        BY <1>0, <1>1, <3>3
      <4>2. wire'[d] = wire[d] \/ (d \in members /\ socket[d] # "closed")
        BY <1>13, <3>3
      <4> QED BY <1>2, <1>3, <1>14, <3>1, <3>2, <4>1, <4>2 DEF Connecting, MapOf
    <3>4. CASE d \in late
      <4>1. MapOf(d)' = d /\ d # founder'
        BY <1>2, <1>4, <3>4 DEF MapOf
      <4>2. socket[d] = "first" => wire'[d] # <<>> /\ Head(wire'[d]) = Success(d)
        BY <1>13, <3>4
      <4>3. socket[d] = "closed" => wire'[d] = <<>>
        BY <1>13, <3>4
      <4>4. /\ socket'[d] \in {"first", "closed"} /\ d \in members' /\ d \notin Range(waiting')
            /\ map'[d] = None /\ queue'[d] = <<>> /\ world'[d] = None
        BY <1>1, <1>2, <1>3, <1>4, <3>4
      <4> QED BY <1>2, <4>1, <4>2, <4>3, <4>4 DEF Connecting, Success
    <3> QED BY <3>3, <3>4
  <2> QED BY <1>1, <1>2, <2>1 DEF Running, ConnInv
<1>18. WorldInv'
  <2>1. \A d \in Clients : truth'[read[d] + 1] = truth[read[d] + 1]
    BY <1>8, TruthRead
  <2>2. \A d \in Clients : d \notin late => read'[d] = read[d]
    BY <1>1
  <2> QED BY <1>2, <1>4, <2>1, <2>2 DEF Running, WorldInv, Alike
<1>19. PlaceInv'
  <2>1. ASSUME NEW d \in Clients PROVE \E at : Placed(d, at)'
    <3>1. CASE d \in late
      <4>1. queue'[d] = <<>> /\ Coming(d)' = <<>>
        BY <1>2, <1>4, <1>14, <3>1
      <4>2. Unread(d)' = <<>>
        <5>1. <<>> \o <<>> = <<>>
          BY ConcatEmptySeq, EmptySeq
        <5> QED BY <4>1, <5>1 DEF Unread
      <4>3. read'[d] = Len(stream') /\ Len(stream') \in Nat
        BY <1>1, <1>8, <3>1
      <4>4. read'[d] \in 0..Len(stream')
        BY <4>3
      <4> QED BY <4>2, <4>3, <4>4, PlacedNothing
    <3>2. CASE /\ d \in members /\ d \notin late /\ socket[d] # "closed"
               /\ \E ms : TickSent(ms, k) /\ wire'[d] = wire[d] \o ms
      <4>1. PICK ms : TickSent(ms, k) /\ wire'[d] = wire[d] \o ms
        BY <3>2
      <4>2. ms \in Seq(Queued) /\ ms # <<>> /\ ms[1] = Tick
        BY <4>1 DEF TickSent
      <4>3. Unread(d)' = Unread(d) \o ms
        BY <1>2, <3>2, <4>1, <4>2, SentBehind
      <4>4. Online(d) /\ (\E at : Placed(d, at)) /\ HistoryInv /\ read'[d] = read[d]
        BY <1>1, <3>2 DEF Running, PlaceInv, Online
      <4>5. ASSUME NEW i \in 2..Len(ms)
            PROVE  \E x, p : x = ms[i] /\ x \notin StreamMessages /\ p = Len(stream') /\ Fits(x, p)'
        <5>1. ms[i] = RequestHash(k) \/ \E e \in late : ms[i] = MapUpload(e)
          BY <1>0, <4>1 DEF TickSent
        <5>2. CASE ms[i] = RequestHash(k)
          <6>1. PICK x : x = RequestHash(k)
            OBVIOUS
          <6>a. x.type = "REQUEST_HASH" /\ x.tick = k
            BY <6>1 DEF RequestHash
          <6>2. x.type = "REQUEST_HASH" /\ x.tick = k /\ x \notin StreamMessages
            BY <6>a DEF StreamMessages, PlayerMessages, Acts, Tick, OfPlayer
          <6>3. Fits(x, N)'
            BY <1>10, <6>2 DEF Fits
          <6> QED BY <1>10, <5>2, <6>1, <6>2, <6>3
        <5>3. ASSUME NEW e \in late, ms[i] = MapUpload(e)
              PROVE  \E x, p : x = ms[i] /\ x \notin StreamMessages /\ p = Len(stream') /\ Fits(x, p)'
          <6>1. PICK x : x = MapUpload(e)
            OBVIOUS
          <6>a. x.type = "MAP_UPLOAD" /\ x.url = e
            BY <6>1 DEF MapUpload
          <6>2. x.type = "MAP_UPLOAD" /\ x.url = e /\ x \notin StreamMessages
            BY <6>a DEF StreamMessages, PlayerMessages, Acts, Tick, OfPlayer
          <6>3. Told(e)' /\ read'[e] = N
            BY <1>1, <1>2, <1>3, <1>4, <1>9 DEF Told
          <6>4. Fits(x, N)'
            BY <1>10, <6>2, <6>3 DEF Fits
          <6> QED BY <1>10, <5>3, <6>1, <6>2, <6>4
        <5> QED BY <5>1, <5>2, <5>3
      <4>6. \A i \in 2..Len(ms) : ms[i] \notin StreamMessages /\ Fits(ms[i], Len(stream))'
        BY <4>5
      <4>7. ms[1] \in StreamMessages /\ ms[1] = stream'[Len(stream) + 1] /\ Len(stream') = Len(stream) + 1
        BY <1>5, <1>8, <4>2
      <4> QED BY <1>8, <1>15, <1>16, <4>2, <4>3, <4>4, <4>6, <4>7, PlacedLonger
    <3>3. CASE d \notin late /\ ~Online(d) /\ wire'[d] = wire[d]
      <4>1. ~Online(d)' /\ socket'[d] = socket[d] /\ queue'[d] = queue[d] /\ read'[d] = read[d]
        BY <1>1, <1>2, <3>3 DEF Online
      <4> QED BY <1>8, <1>15, <1>16, <3>3, <4>1, PlacedSilent
    <3> QED BY <1>13, <3>1, <3>2, <3>3
  <2> QED BY <2>1 DEF PlaceInv
<1>20. SaveInv'
  BY <1>2, <1>8, <1>16, SavesStay DEF Running
<1>21. AnswerInv'
  BY <1>2, <1>8, <1>16, AnswersStay DEF Running, AnswerInv
<1>22. PlayerInv'
  <2>1. StreamPlayers /\ HistoryInv /\ Tick.type \notin Acts
    BY DEF Running, PlayerInv, StreamPlayers, Tick, Acts
  <2>2. /\ StreamPlayers'
        /\ \A l, n : n \in 0..Len(stream) /\ Known(l, n) => Known(l, n)' /\ Known(l, n + 1)'
    BY <1>5, <1>8, <2>1, PlayersGrow
  <2>3. ASSUME NEW d \in Clients
        PROVE  /\ d \in members' \cup Range(waiting') => Known(LoginOf[d], Len(stream))'
               /\ d \in members' \/ map'[d] # None => Known(LoginOf[d], read[d])'
    <3>1. PICK n, j, i : n = Len(stream) /\ j = read[d] /\ i = read'[d]
      OBVIOUS
    <3>2. /\ n \in 0..Len(stream) /\ j \in 0..Len(stream) /\ n + 1 = N
          /\ d \in late => i = n + 1
          /\ d \notin late => i = j
      BY <1>1, <1>8, <1>9, <3>1 DEF TypeInv, LockstepTypeOK
    <3>3. /\ d \in members \cup late => Known(LoginOf[d], n)
          /\ d \in members \/ map[d] # None => Known(LoginOf[d], j)
      BY <1>0, <3>1 DEF Running, PlayerInv
    <3>4. /\ d \in members \cup late => Known(LoginOf[d], N)'
          /\ d \in late => Known(LoginOf[d], i)'
          /\ d \notin late /\ (d \in members \/ map[d] # None) => Known(LoginOf[d], i)'
      BY <2>2, <3>2, <3>3
    <3>5. d \in members' \cup Range(waiting') => d \in members \cup late
      BY <1>1, <1>3
    <3>6. d \in members' \/ map'[d] # None => d \in late \/ d \in members \/ map[d] # None
      BY <1>1, <1>2
    <3> QED BY <1>10, <3>1, <3>4, <3>5, <3>6 DEF Known
  <2> QED BY <1>2, <2>2, <2>3 DEF Running, PlayerInv, StreamPlayers
<1> QED BY <1>8, <1>15, <1>17, <1>18, <1>19, <1>20, <1>21, <1>22 DEF Running

LEMMA RegisterFirstKeeps ==
  ASSUME TypeInv, Init, NEW c \in Clients, RegisterFirst(c)
  PROVE  TypeInv' /\ Running'
<1>1. /\ stream = <<>> /\ members = {} /\ waiting = <<>> /\ wire = [d \in Clients |-> <<>>] /\ socket = [d \in Clients |-> "off"]
      /\ queue = [d \in Clients |-> <<>>] /\ map = [d \in Clients |-> None]
      /\ world = [d \in Clients |-> None] /\ pending = [d \in Clients |-> <<>>]
      /\ outgoing = [d \in Clients |-> <<>>] /\ stored = [d \in Clients |-> None]
      /\ answers = {} /\ troubles = {} /\ doused = {} /\ read = [d \in Clients |-> 0]
  BY DEF Init
<1>2. PICK r, e : r = [world |-> Generated(c), pending |-> <<>>] /\ e = Success(NoMap)
  OBVIOUS
<1>3. /\ founder' = c /\ master' = c /\ members' = {c} /\ truth' = <<r>>
      /\ wire' = [wire EXCEPT ![c] = <<e>>] /\ socket' = [socket EXCEPT ![c] = "first"]
      /\ UNCHANGED <<stream, waiting, uploader, read, queue, map, world, pending, outgoing, stored, answers, troubles, doused>>
  BY <1>2 DEF RegisterFirst, threads
<1>4. /\ Regular(r.world) /\ r.world.unsync = None /\ r.world.tick = 0 /\ r.pending = <<>>
      /\ r \in [world : Worlds, pending : Seq(PlayerMessages)]
      /\ r.world.players = {LoginOf[c]}
  <2>1. Generated(c) \in Worlds
    BY GeneratedWorld
  <2>2. <<>> \in Seq(PlayerMessages)
    BY EmptySeq
  <2> QED BY <1>2, <2>1, <2>2 DEF Generated, Regular
<1>5. /\ <<e>> \in Seq(Queued \cup Successes) /\ <<e>> # <<>> /\ Head(<<e>>) = e /\ Tail(<<e>>) = <<>>
      /\ <<r>> \in Seq([world : Worlds, pending : Seq(PlayerMessages)]) /\ Len(<<r>>) = 1 /\ <<r>>[1] = r
  <2>1. ASSUME NEW S, NEW x \in S
        PROVE  /\ <<x>> \in Seq(S) /\ <<x>> # <<>> /\ Head(<<x>>) = x /\ Tail(<<x>>) = <<>>
               /\ Len(<<x>>) = 1 /\ <<x>>[1] = x
    OBVIOUS
  <2>2. e \in Queued \cup Successes
    BY <1>2 DEF Success, Successes
  <2> QED BY <1>4, <2>1, <2>2
<1>6. /\ socket'[c] = "first" /\ wire'[c] = <<e>>
      /\ \A d \in Clients \ {c} : socket'[d] = "off" /\ wire'[d] = <<>>
      /\ \A d \in Clients : /\ Coming(d)' = <<>> /\ Unread(d)' = <<>> /\ read'[d] = 0
                            /\ queue'[d] = <<>> /\ map'[d] = None /\ world'[d] = None /\ pending'[d] = <<>>
                            /\ outgoing'[d] = <<>> /\ stored'[d] = None
  <2>1. /\ socket'[c] = "first" /\ wire'[c] = <<e>>
        /\ \A d \in Clients \ {c} : socket'[d] = "off" /\ wire'[d] = <<>>
        /\ \A d \in Clients : /\ queue'[d] = <<>> /\ map'[d] = None /\ world'[d] = None /\ pending'[d] = <<>>
                              /\ outgoing'[d] = <<>> /\ stored'[d] = None /\ read'[d] = 0
    BY <1>1, <1>3
  <2>2. <<>> \o <<>> = <<>>
    BY ConcatEmptySeq, EmptySeq
  <2>3. \A d \in Clients : Coming(d)' = <<>>
    BY <1>5, <2>1 DEF Coming
  <2> QED BY <2>1, <2>2, <2>3 DEF Unread
<1>7. stream' = <<>> /\ Len(stream') = 0 /\ Range(waiting') = {} /\ waiting' = <<>>
  BY <1>1, <1>3, EmptySeq DEF Range
<1>8. TypeInv'
  <2>1. LockstepTypeOK'
    <3>1. waiting' \in Seq(Clients \ members')
      BY <1>7, EmptySeq
    <3> QED BY <1>1, <1>3, <1>7, <3>1 DEF LockstepTypeOK
  <2>2. \A S : <<>> \in Seq(S)
    BY EmptySeq
  <2>3. wire' \in [Clients -> Seq(Queued \cup Successes)]
    BY <1>1, <1>3, <1>5, <2>2
  <2> QED BY <1>1, <1>3, <1>5, <1>6, <1>7, <2>1, <2>2, <2>3 DEF TypeInv
<1>9. ConnInv'
  <2>1. ASSUME NEW d \in Clients PROVE Connecting(d)'
    <3>1. CASE d = c
      BY <1>2, <1>3, <1>5, <1>6, <1>7, <3>1 DEF Connecting, MapOf, Success
    <3>2. CASE d # c
      BY <1>3, <1>6, <1>7, <3>2 DEF Connecting, MapOf
    <3> QED BY <3>1, <3>2
  <2> QED BY <1>3, <2>1 DEF ConnInv
<1>10. HistoryInv'
  <2>1. Count("NEW_TICK", stream') = 0
    BY <1>7, FS_EmptySet DEF Count
  <2>2. Len(truth') = 1 /\ truth'[1] = r
    BY <1>3, <1>5
  <2>3. r = [world |-> Generated(founder'), pending |-> <<>>]
    BY <1>2, <1>3
  <2> QED BY <1>4, <1>7, <2>1, <2>2, <2>3 DEF HistoryInv
<1>11. WorldInv'
  BY <1>6 DEF WorldInv
<1>12. PlaceInv'
  BY <1>6, <1>7, PlacedNothing DEF PlaceInv
<1>13. SaveInv'
  <2>1. Len(<<>>) = 0
    BY EmptySeq
  <2> QED BY <1>6, <2>1 DEF SaveInv
<1>14. AnswerInv'
  BY <1>1, <1>3 DEF AnswerInv
<1>15. PlayerInv'
  <2>1. truth'[0 + 1] = r
    BY <1>3, <1>5
  <2>2. KnownIn(r)'
    BY <1>4, EmptySeq DEF KnownIn
  <2>3. \A l, n : n = 0 => (Known(l, n)' <=> l = LoginOf[c])
    BY <1>3 DEF Known
  <2>4. LoginOf[c] \in r.world.players
    BY <1>4
  <2>5. ASSUME NEW n \in 0..Len(stream')
        PROVE  /\ KnownIn(truth[n + 1])'
               /\ \A l \in Logins : Known(l, n)' => \/ l \in truth'[n + 1].world.players
                                                    \/ Awaited(l, truth[n + 1].pending, Len(truth[n + 1].pending))'
    <3>1. n = 0
      BY <1>7
    <3> QED BY <2>1, <2>2, <2>3, <2>4, <3>1 DEF KnownIn
  <2>6. ASSUME NEW d \in Clients
        PROVE  /\ d \in members' \cup Range(waiting') => Known(LoginOf[d], Len(stream))'
               /\ d \in members' \/ map'[d] # None => Known(LoginOf[d], read[d])'
    BY <1>3, <1>6, <1>7 DEF Known
  <2> QED BY <1>1, <1>3, <2>5, <2>6 DEF PlayerInv
<1> QED BY <1>8, <1>9, <1>10, <1>11, <1>12, <1>13, <1>14, <1>15 DEF Running

-----------------------------------------------------------------------------
(* The theorems. *)

\* Before the first client nothing happens.
LEMMA BeforeTheGame ==
  ASSUME Init, Next
  PROVE  \E c \in Clients : RegisterFirst(c)
<1>1. \A c \in Clients : ~Register(c) /\ (\A type \in Acts : ~Forward(c, type)) /\ ~errorSocket(c) /\ ~RemovePlayer(c)
  BY DEF Init, Register, Forward, errorSocket, RemovePlayer
<1>2. \A c \in Clients : ~HandleBody(c) /\ ~MainThread(c)
  BY DEF Init, HandleBody, MainThread, InitWorld, sendMap
<1>3. \A c \in Clients : ~ProcessInputMessages(c) /\ ~PerformUnsync(c)
  BY DEF Init, ProcessInputMessages, ProcessTick, QueueMessage, SaveWorld, Hash, Pops, PerformUnsync
<1>4. ~NewTick
  BY DEF Init, NewTick
<1> QED BY <1>1, <1>2, <1>3, <1>4 DEF Next

LEMMA InvInit == Init => LockstepInv
<1> SUFFICES ASSUME Init PROVE TypeInv /\ founder = None
  BY DEF LockstepInv
<1>1. \A S : <<>> \in Seq(S)
  BY EmptySeq
<1>2. LockstepTypeOK
  BY <1>1, EmptySeq DEF Init, LockstepTypeOK
<1>3. \A c \in Clients : Coming(c) = <<>>
  BY DEF Init, Coming
<1> QED BY <1>1, <1>2, <1>3 DEF Init, TypeInv

LEMMA InvNext == LockstepInv /\ [Next]_vars => LockstepInv'
<1> SUFFICES ASSUME LockstepInv, [Next]_vars PROVE LockstepInv'
  OBVIOUS
<1>1. CASE UNCHANGED vars
  <2>1. TypeInv'
    BY <1>1 DEF LockstepInv, TypeInv, LockstepTypeOK, Coming, vars, registry, threads
  <2>2. Init' <=> Init
    BY <1>1 DEF Init, vars, registry, threads
  <2>3. founder # None => Running'
    <3> HAVE founder # None
    <3>1. TypeInv /\ Running
      BY DEF LockstepInv
    <3>2. /\ UNCHANGED <<stream, truth, members, waiting, master, founder>>
          /\ UNCHANGED <<queue, map, world, pending, outgoing, stored, answers, troubles, doused, wire, socket, read>>
          /\ UNCHANGED registry
      BY <1>1 DEF vars, registry, threads
    <3>3. HistoryInv' /\ Extends /\ Steady /\ StreamPlayers' /\ \A l, n : Known(l, n) => Known(l, n)'
      BY <3>1, <3>2, RegistryStays
    <3>4. ConnInv' /\ WorldInv'
      BY <3>1, <3>2 DEF Running, ConnInv, Connecting, MapOf, Success, WorldInv, Alike
    <3>5. PlaceInv'
      BY <2>1, <3>1, <3>2, <3>3, PlacesStay
    <3>6. SaveInv' /\ AnswerInv'
      BY <3>1, <3>2, <3>3, SavesStay, AnswersStay DEF Running, AnswerInv
    <3>7. PlayerInv'
      BY <3>1, <3>2, <3>3 DEF Running, PlayerInv, StreamPlayers
    <3> QED BY <3>3, <3>4, <3>5, <3>6, <3>7 DEF Running
  <2> QED BY <1>1, <2>1, <2>2, <2>3 DEF LockstepInv, vars, registry
<1>2. CASE Next /\ founder = None
  <2>1. TypeInv /\ Init
    BY <1>2 DEF LockstepInv
  <2>2. PICK c \in Clients : RegisterFirst(c)
    BY <1>2, <2>1, BeforeTheGame
  <2>3. founder' # None
    BY <2>2, LockstepAssumption DEF RegisterFirst
  <2> QED BY <2>1, <2>2, <2>3, RegisterFirstKeeps DEF LockstepInv
<1>3. CASE Next /\ founder # None
  <2>1. TypeInv /\ Running
    BY <1>3 DEF LockstepInv
  <2>2. \A c \in Clients : ~RegisterFirst(c)
    BY <1>3 DEF RegisterFirst
  <2>3. founder' = founder
    BY <1>3, <2>2 DEF Next, NewTick, Register, Forward, errorSocket, RemovePlayer, HandleBody, MainThread,
                      InitWorld, sendMap, ProcessInputMessages, ProcessTick, QueueMessage, SaveWorld, Hash,
                      PerformUnsync, registry
  <2>4. TypeInv' /\ Running'
    <3>1. CASE NewTick
      BY <2>1, <3>1, NewTickKeeps
    <3>2. ASSUME NEW c \in Clients, Register(c) PROVE TypeInv' /\ Running'
      BY <2>1, <3>2, RegisterKeeps
    <3>3. ASSUME NEW c \in Clients, NEW type \in Acts, Forward(c, type) PROVE TypeInv' /\ Running'
      BY <2>1, <3>3, ForwardKeeps
    <3>4. ASSUME NEW c \in Clients, errorSocket(c) PROVE TypeInv' /\ Running'
      BY <2>1, <3>4, errorSocketKeeps
    <3>5. ASSUME NEW c \in Clients, RemovePlayer(c) PROVE TypeInv' /\ Running'
      BY <2>1, <3>5, RemovePlayerKeeps
    <3>6. ASSUME NEW c \in Clients, HandleBody(c) PROVE TypeInv' /\ Running'
      BY <2>1, <3>6, HandleBodyKeeps
    <3>7. ASSUME NEW c \in Clients, MainThread(c) PROVE TypeInv' /\ Running'
      BY <2>1, <3>7, InitWorldKeeps, sendMapKeeps DEF MainThread
    <3>8. ASSUME NEW c \in Clients, ProcessInputMessages(c) PROVE TypeInv' /\ Running'
      BY <2>1, <3>8, ProcessTickKeeps, QueueMessageKeeps, SaveWorldKeeps, HashKeeps DEF ProcessInputMessages
    <3>9. ASSUME NEW c \in Clients, PerformUnsync(c) PROVE TypeInv' /\ Running'
      BY <2>1, <3>9, PerformUnsyncKeeps
    <3> QED BY <1>3, <2>2, <3>1, <3>2, <3>3, <3>4, <3>5, <3>6, <3>7, <3>8, <3>9 DEF Next
  <2> QED BY <1>3, <2>3, <2>4 DEF LockstepInv
<1> QED BY <1>1, <1>2, <1>3

LEMMA InvAlways == Spec => []LockstepInv
BY InvInit, InvNext, PTL DEF Spec

\* Whatever the clients, their logins and the length of the game, and however
\* ticks, joins, losses and the three threads of each client interleave, two
\* worlds that have taken the same part of the stream are one and the same,
\* the founder's and a loaded one alike, unless one was loaded from a save made
\* in a fire or comes from such a one (Game.cpp, WorldLoaderSaver.cpp).
THEOREM WorldsStayEqual == Spec => []WorldsAgree
<1>1. LockstepInv => WorldsAgree
  <2> SUFFICES ASSUME LockstepInv PROVE WorldsAgree
    OBVIOUS
  <2>1. LockstepTypeOK
    BY DEF LockstepInv, TypeInv
  <2>2. ASSUME NEW c \in Clients \ doused, world[c] # None, world[c].unsync = None
        PROVE  truth[read[c] + 1] = [world |-> world[c], pending |-> pending[c]]
    <3>1. TypeInv /\ Running
      BY <2>2 DEF LockstepInv, Init
    <3>2. PICK r, w : r = truth[read[c] + 1] /\ w = world[c]
      OBVIOUS
    <3>3. read[c] + 1 \in 1..Len(truth)
      BY <3>1, ReadBounds
    <3>4. r \in [world : Worlds, pending : Seq(PlayerMessages)] /\ r.world.unsync = None
      BY <3>1, <3>2, <3>3, ElementOfSeq DEF TypeInv, Running, HistoryInv
    <3>5. w \in Worlds /\ w.unsync = None
      BY <2>2, <3>1, <3>2 DEF TypeInv
    <3>6. r.pending = pending[c] /\ View(FALSE, r.world) = View(FALSE, w)
      BY <2>2, <3>1, <3>2 DEF Running, WorldInv, Alike, View
    <3>7. r.world = w
      BY <3>4, <3>5, <3>6, ViewSame
    <3> QED BY <3>2, <3>4, <3>6, <3>7
  <2> QED BY <2>1, <2>2 DEF WorldsAgree
<1> QED BY <1>1, InvAlways, PTL

\* Every hash the server compares is of the tick it asked for, because what a
\* client has yet to read lies before it in the order of the stream, and it is
\* the hash of the history's world, if nobody has unsynced the client and its
\* world does not come from a save made in a fire.
THEOREM HashesAreOfTheTick == Spec => []HashesOfTick
<1>1. LockstepInv => HashesOfTick
  <2> SUFFICES ASSUME LockstepInv, NEW a \in answers
               PROVE  /\ a.asked = a.tick
                      /\ a.hash.saved.unsync = None /\ a.from \notin doused =>
                           \E n \in 1..Len(stream) : /\ stream[n] = Tick /\ truth[n + 1].world.tick = a.tick
                                                     /\ a.hash = Hashed(truth[n + 1].world)
    BY DEF HashesOfTick
  <2>1. TypeInv /\ Running
    BY DEF LockstepInv, Init
  <2>2. PICK w \in Worlds, n \in 1..Len(stream) :
           /\ a.asked = a.tick /\ a.hash = Hashed(w)
           /\ stream[n] = Tick /\ truth[n + 1].world.tick = a.tick
           /\ Alike(a.from, truth[n + 1].world, w)
    BY <2>1 DEF Running, AnswerInv, AnswerFits
  <2>3. ASSUME a.hash.saved.unsync = None, a.from \notin doused PROVE a.hash = Hashed(truth[n + 1].world)
    <3>1. PICK v : v = truth[n + 1].world
      OBVIOUS
    <3>2. n + 1 \in 1..Len(truth)
      BY <2>1, LenProperties DEF Running, HistoryInv, TypeInv
    <3>3. v \in Worlds /\ v.unsync = None
      BY <2>1, <3>1, <3>2 DEF Running, HistoryInv, Regular
    <3>4. w.unsync = None
      BY <2>2, <2>3 DEF Hashed, Save
    <3>5. View(FALSE, v) = View(FALSE, w)
      BY <2>2, <2>3, <3>1 DEF Alike, View
    <3>6. v = w
      BY <3>3, <3>4, <3>5, ViewSame
    <3> QED BY <2>2, <3>1, <3>6
  <2> QED BY <2>2, <2>3
<1> QED BY <1>1, InvAlways, PTL

\* No client ever runs a message of a player its world does not know, nor
\* looks at a world without a mob of its own: players are announced in the
\* stream before they speak (CoreImplementation.cpp).
THEOREM NobodyIsUnknown == Spec => []PlayersKnown
<1>1. LockstepInv => PlayersKnown
  BY DEF LockstepInv, Init, Running, PlayerInv, PlayersKnown
<1> QED BY <1>1, InvAlways, PTL

=============================================================================
