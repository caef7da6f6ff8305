--------------------------- MODULE RecorderProofs ---------------------------
(***************************************************************************)
(* Theorems about Recorder for any number of producers, records and        *)
(* recordings and any size of a batch.                                     *)
(***************************************************************************)
EXTENDS Recorder, SequenceTheorems, TLAPS

-----------------------------------------------------------------------------
(* The inductive invariant.                                                *)

(* The queue and the histories, the recorder, the replayer.                *)
QueueTypes ==
  /\ queue \in Seq(Updates) /\ pushed \in Seq(Updates) /\ erased \in Seq(Updates)
  /\ file \in Seq(Updates)
  /\ out \in [{Writer} -> Updates \union {NoUpdate}] /\ sawEmpty \subseteq {Writer}
  /\ producer \in [Producers -> [pc : {"idle", "push"}, calls : Nat]]
  /\ \A p \in Producers : producer[p].pc = "push" => producer[p].calls > 0

RecorderTypes ==
  /\ format \in Formats
  /\ owner \in {"idle", "open", "spawn", "join", "close"} /\ starts \in 0 .. MaxStarts
  /\ writer \in [pc : {"none", "loop", "pop", "write", "count", "drain", "writeRest", "flush", "ended"},
                 batch : 0 .. FlushEvery - 1]
  /\ flushed \in Nat /\ total \in Nat /\ bytes \in Nat /\ promised \in Nat

Flags == recording \in BOOLEAN /\ up \in BOOLEAN

Replayers ==
  [pc : {"closed", "open", "replaying", "stuck"}, format : {"BINARY", "other"},
   stream : {"good", "end", "failed"}, pos : Nat,
   place : {"aligned", "lost", "sought"}]

ReplayTypes ==
  /\ disk \in [size : Nat, torn : BOOLEAN] /\ replayer \in Replayers
  /\ delivered \in Seq(Records \union {Torn})

(* Where the owner stands, where the writer may stand.                     *)
Closing == (owner = "idle" /\ ~recording) \/ owner = "open"

OwnerAndWriter ==
  /\ owner \in {"open", "spawn"} => recording
  /\ owner = "open" => starts < MaxStarts
  /\ owner \in {"join", "close"} => ~recording
  /\ owner # "join" => writer.pc \in {"none", "loop", "pop", "write", "count"}
  /\ owner = "idle" => (recording <=> writer.pc # "none")
  /\ owner \in {"open", "spawn", "close"} => writer.pc = "none"
  /\ owner = "join" => writer.pc # "none"
  /\ owner \in {"spawn", "join", "close"} \/ writer.pc # "none" => starts > 0

(* The update in hand, and the pop that found nothing.                     *)
HandSound ==
  /\ writer.pc \in {"write", "writeRest"} => out[Writer] \in Updates
  /\ sawEmpty # {} => writer.pc \in {"pop", "drain"}

(* What was queued before stop is written when the drain has found the     *)
(* queue empty.                                                            *)
Drained ==
  \/ owner = "join" /\ writer.pc \in {"flush", "ended"}
  \/ owner = "join" /\ writer.pc = "drain" /\ sawEmpty # {}
  \/ owner = "close"
  \/ Closing

PromiseKept ==
  /\ promised <= Len(pushed)
  /\ Drained => promised <= Len(erased) + Len(file)
  /\ Closing /\ starts > 0 => flushed = Len(file) + 1

(* What is on the disk.                                                    *)
DiskSound ==
  /\ disk.size <= Len(pushed) + 1
  /\ up /\ Closing /\ starts > 0 => disk.size = Len(file) + 1
  /\ up => ~disk.torn
  /\ ~up => flushed <= disk.size /\ disk.size <= Len(file) + 1
  /\ disk.torn => disk.size <= Len(file)

(* The replayer reads a file that nobody writes.                           *)
DeliveredSound ==
  /\ replayer.format = "BINARY" => format = "BINARY" /\ disk.size > 0
  /\ replayer.format # "BINARY" => delivered = <<>>
  /\ \A i \in DOMAIN delivered :
       /\ delivered[i] = Torn => i = Len(delivered)
       /\ \/ i < disk.size /\ delivered[i] = Decoded(file[i])
          \/ i = disk.size /\ delivered[i] = Torn /\ disk.torn

PlaceSound ==
  /\ replayer.place = "aligned" =>
       /\ Len(delivered) = replayer.pos
       /\ replayer.stream # "failed"
       /\ replayer.stream = "end" => Len(delivered) + 1 >= disk.size
       /\ replayer.stream = "good" =>
            \A i \in DOMAIN delivered : i < disk.size /\ delivered[i] # Torn
  /\ replayer.place = "lost" =>
       /\ Len(delivered) \in DOMAIN delivered /\ Len(delivered) < disk.size
       /\ delivered[Len(delivered)] = Torn

ReplaySound ==
  replayer.pc # "closed" => Readable /\ DeliveredSound /\ PlaceSound

Inv ==
  /\ QueueTypes /\ RecorderTypes /\ Flags /\ ReplayTypes
  /\ OwnerAndWriter /\ HandSound /\ CountersSound /\ PromiseKept /\ DiskSound
  /\ ReplaySound /\ WrittenInOrder

-----------------------------------------------------------------------------
(* Updates that move through the queue, the hand and the files.            *)

LEMMA TakenFromTheFront ==
  ASSUME NEW S, NEW x \in Seq(S), NEW q \in Seq(S), q # <<>>
  PROVE  x \o <<>> \o q = x \o <<Head(q)>> \o Tail(q)
<1>1. Head(q) \in S /\ Tail(q) \in Seq(S) /\ <<Head(q)>> \in Seq(S)
  BY HeadTailProperties
<1>2. q = <<Head(q)>> \o Tail(q)
  BY HeadTailProperties, ConcatProperties, SeqEqual, <1>1
<1>3. x \o <<>> = x
  BY ConcatEmptySeq
<1> QED BY <1>1, <1>2, <1>3, ConcatAssociative

LEMMA PutInTheFile ==
  ASSUME NEW S, NEW b \in Seq(S), NEW f \in Seq(S), NEW q \in Seq(S), NEW u \in S
  PROVE  b \o f \o <<u>> \o q = b \o (f \o <<u>>) \o <<>> \o q
<1>1. <<u>> \in Seq(S) /\ b \o f \in Seq(S) /\ f \o <<u>> \in Seq(S)
  BY ConcatProperties
<1>2. b \o (f \o <<u>>) = b \o f \o <<u>>
  BY <1>1, ConcatAssociative
<1>3. (b \o (f \o <<u>>)) \o <<>> = b \o (f \o <<u>>)
  BY <1>1, ConcatEmptySeq, ConcatProperties
<1> QED BY <1>2, <1>3

LEMMA FileIsOld ==
  ASSUME NEW S, NEW b \in Seq(S), NEW f \in Seq(S)
  PROVE  (b \o f) \o <<>> = b \o f
BY ConcatEmptySeq, ConcatProperties

(* How much is queued, and where.                                          *)
LEMMA QueuedLengths ==
  ASSUME QueueTypes, WrittenInOrder, HandSound
  PROVE  /\ InHand \in Seq(Updates) /\ erased \o file \in Seq(Updates)
         /\ erased \o file \o InHand \in Seq(Updates)
         /\ Len(erased) \in Nat /\ Len(file) \in Nat /\ Len(queue) \in Nat /\ Len(pushed) \in Nat
         /\ Len(pushed) = Len(erased) + Len(file) + Len(InHand) + Len(queue)
         /\ Len(InHand) \in Nat
<1>1. InHand \in Seq(Updates)
  BY DEF InHand, HandSound
<1>2. /\ erased \in Seq(Updates) /\ file \in Seq(Updates) /\ queue \in Seq(Updates)
      /\ pushed \in Seq(Updates)
  BY DEF QueueTypes
<1>3. erased \o file \in Seq(Updates) /\ Len(erased \o file) = Len(erased) + Len(file)
  BY <1>2, ConcatProperties
<1>4. /\ erased \o file \o InHand \in Seq(Updates)
      /\ Len(erased \o file \o InHand) = Len(erased) + Len(file) + Len(InHand)
  BY <1>1, <1>3, ConcatProperties
<1>5. Len(pushed) = Len(erased) + Len(file) + Len(InHand) + Len(queue)
  BY <1>2, <1>4, ConcatProperties DEF WrittenInOrder
<1> QED BY <1>1, <1>2, <1>3, <1>4, <1>5, LenProperties

LEMMA InvInitially == Init => Inv
<1> SUFFICES ASSUME Init PROVE Inv
  OBVIOUS
<1> USE DEF Init, Q!CInit
<1>1. <<>> \in Seq(Updates) /\ <<>> \in Seq(Records \union {Torn}) /\ Len(<<>>) = 0
  OBVIOUS
<1>2. QueueTypes
  BY <1>1 DEF QueueTypes
<1>3. RecorderTypes
  BY RecorderAssumption DEF RecorderTypes
<1>4. Flags
  BY DEF Flags
<1>5. ReplayTypes
  BY <1>1 DEF ReplayTypes, Replayers, Closed
<1>6. OwnerAndWriter /\ HandSound
  BY DEF OwnerAndWriter, HandSound
<1>7. CountersSound /\ PromiseKept /\ DiskSound
  BY <1>1 DEF CountersSound, PromiseKept, DiskSound, Closing, Drained
<1>8. ReplaySound
  BY DEF ReplaySound, DeliveredSound, PlaceSound, Closed
<1>9. WrittenInOrder
  BY DEF WrittenInOrder, InHand
<1> QED BY <1>2, <1>3, <1>4, <1>5, <1>6, <1>7, <1>8, <1>9 DEF Inv

-----------------------------------------------------------------------------
(* The producers.                                                          *)

LEMMA RecordKeeps ==
  ASSUME Inv, up, UNCHANGED up, NEW p \in Producers, record(p)
  PROVE  Inv'
<1> USE DEF Inv, recorder, fifo, replay, history
<1>1. QueueTypes'
  BY DEF record, QueueTypes
<1>2. RecorderTypes' /\ OwnerAndWriter' /\ HandSound' /\ CountersSound'
  BY DEF record, RecorderTypes, OwnerAndWriter, HandSound, CountersSound
<1>3. Flags' /\ ReplayTypes'
  BY DEF record, Flags, ReplayTypes
<1>4. PromiseKept' /\ DiskSound' /\ ReplaySound'
  BY DEF record, PromiseKept, Drained, Closing, DiskSound, ReplaySound, DeliveredSound, PlaceSound, Readable
<1>5. WrittenInOrder'
  BY DEF record, WrittenInOrder, InHand
<1> QED BY <1>1, <1>2, <1>3, <1>4, <1>5

LEMMA PushKeeps ==
  ASSUME Inv, up, UNCHANGED up, NEW p \in Producers, Push(p)
  PROVE  Inv'
<1> DEFINE update == <<p, producer[p].calls>>
<1> USE DEF Inv
<1>1. producer[p].pc = "push" /\ producer[p].calls \in Nat \ {0}
  BY DEF Push, QueueTypes
<1>2. update \in Updates
  BY <1>1 DEF Updates
<1>3. /\ queue' = Append(queue, update) /\ pushed' = Append(pushed, update)
      /\ UNCHANGED <<sawEmpty, out, recorder, disk, replay, erased, promised>>
      /\ producer' = [producer EXCEPT ![p].pc = "idle"]
  BY DEF Push, Q!CPush
<1> HIDE DEF update
<1>4. /\ UNCHANGED <<recording, format, owner, starts, writer, file, flushed, total, bytes>>
      /\ UNCHANGED <<sawEmpty, out, disk, replayer, delivered, erased, promised>>
  BY <1>3 DEF recorder, replay
<1>5. QueueTypes'
  <2>1. queue' \in Seq(Updates) /\ pushed' \in Seq(Updates)
    BY <1>2, <1>3, AppendProperties DEF QueueTypes
  <2> QED BY <1>3, <1>4, <2>1 DEF QueueTypes
<1>6. RecorderTypes' /\ OwnerAndWriter' /\ HandSound' /\ CountersSound'
  BY <1>4 DEF RecorderTypes, OwnerAndWriter, HandSound, CountersSound
<1>7. Flags' /\ ReplayTypes'
  BY <1>4 DEF Flags, ReplayTypes
<1>8. PromiseKept' /\ DiskSound' /\ ReplaySound'
  <2>1. Len(pushed') = Len(pushed) + 1 /\ Len(pushed) \in Nat
    BY <1>2, <1>3, AppendProperties, LenProperties DEF QueueTypes
  <2>2. ReplaySound'
    BY <1>4 DEF ReplaySound, DeliveredSound, PlaceSound, Readable
  <2>3. PromiseKept'
    BY <1>4, <2>1 DEF PromiseKept, Drained, Closing, RecorderTypes
  <2>4. DiskSound'
    BY <1>4, <2>1 DEF DiskSound, Closing, ReplayTypes
  <2> QED BY <2>2, <2>3, <2>4
<1>9. WrittenInOrder'
  <2>1. InHand' = InHand
    BY <1>4 DEF InHand
  <2>2. queue' = queue \o <<update>> /\ pushed' = pushed \o <<update>> /\ <<update>> \in Seq(Updates)
    BY <1>2, <1>3, AppendIsConcat DEF QueueTypes
  <2>3. (erased \o file \o InHand \o queue) \o <<update>>
          = erased \o file \o InHand \o (queue \o <<update>>)
    <3> DEFINE written == erased \o file \o InHand
    <3>1. written \in Seq(Updates) /\ queue \in Seq(Updates)
      BY QueuedLengths DEF QueueTypes
    <3> HIDE DEF written
    <3>2. (written \o queue) \o <<update>> = written \o (queue \o <<update>>)
      BY <2>2, <3>1, ConcatAssociative
    <3> QED BY <3>2, Zenon DEF written
  <2> QED BY <1>4, <2>1, <2>2, <2>3 DEF WrittenInOrder
<1> QED BY <1>5, <1>6, <1>7, <1>8, <1>9

-----------------------------------------------------------------------------
(* The owner.                                                              *)

LEMMA StartKeeps ==
  ASSUME Inv, up, UNCHANGED up, start
  PROVE  Inv'
<1> USE DEF Inv, fifo, replay, history
<1>1. QueueTypes' /\ RecorderTypes' /\ ReplayTypes'
  BY DEF start, QueueTypes, RecorderTypes, ReplayTypes
<1>2. Flags'
  BY DEF start, Flags
<1>3. OwnerAndWriter' /\ HandSound' /\ CountersSound'
  BY DEF start, OwnerAndWriter, HandSound, CountersSound
<1>4. PromiseKept' /\ DiskSound' /\ ReplaySound'
  BY DEF start, PromiseKept, Drained, Closing, DiskSound, ReplaySound, DeliveredSound, PlaceSound
<1>5. WrittenInOrder'
  BY DEF start, WrittenInOrder, InHand
<1> QED BY <1>1, <1>2, <1>3, <1>4, <1>5

LEMMA OpenFailedKeeps ==
  ASSUME Inv, up, UNCHANGED up, OpenFailed
  PROVE  Inv'
<1> USE DEF Inv, fifo, replay, history
<1>1. QueueTypes' /\ RecorderTypes' /\ ReplayTypes'
  BY DEF OpenFailed, QueueTypes, RecorderTypes, ReplayTypes
<1>2. Flags'
  BY DEF OpenFailed, Flags
<1>3. OwnerAndWriter' /\ HandSound' /\ CountersSound'
  BY DEF OpenFailed, OwnerAndWriter, HandSound, CountersSound
<1>4. PromiseKept' /\ DiskSound' /\ ReplaySound'
  BY DEF OpenFailed, PromiseKept, Drained, Closing, DiskSound, ReplaySound, DeliveredSound, PlaceSound, Readable
<1>5. WrittenInOrder'
  BY DEF OpenFailed, WrittenInOrder, InHand
<1> QED BY <1>1, <1>2, <1>3, <1>4, <1>5

LEMMA OpenFileKeeps ==
  ASSUME Inv, up, UNCHANGED up, OpenFile
  PROVE  Inv'
<1> USE DEF Inv, fifo, replay, history
<1>1. erased \o file \in Seq(Updates) /\ <<>> \in Seq(Updates) /\ Len(<<>>) = 0
  BY QueuedLengths
<1>2. writer.pc = "none" /\ replayer.pc = "closed"
  BY DEF OpenFile, OwnerAndWriter, ReplaySound, DeliveredSound, PlaceSound, Readable
<1>3. QueueTypes' /\ RecorderTypes' /\ ReplayTypes'
  <2>1. starts < MaxStarts
    BY DEF OpenFile, OwnerAndWriter
  <2>2. RecorderTypes'
    BY <2>1, RecorderAssumption DEF OpenFile, RecorderTypes
  <2> QED BY <1>1, <2>2 DEF OpenFile, QueueTypes, ReplayTypes
<1>4. Flags'
  BY DEF OpenFile, Flags
<1>5. OwnerAndWriter' /\ HandSound' /\ CountersSound'
  BY <1>1, <1>2 DEF OpenFile, OwnerAndWriter, HandSound, CountersSound, RecorderTypes
<1>6. PromiseKept' /\ DiskSound' /\ ReplaySound'
  BY <1>1, <1>2 DEF OpenFile, PromiseKept, Drained, Closing, DiskSound, ReplaySound, DeliveredSound, PlaceSound, RecorderTypes
<1>7. WrittenInOrder'
  <2>1. (erased \o file) \o <<>> = erased \o file
    BY FileIsOld DEF QueueTypes
  <2> QED BY <1>2, <2>1 DEF OpenFile, WrittenInOrder, InHand
<1> QED BY <1>3, <1>4, <1>5, <1>6, <1>7

LEMMA SpawnKeeps ==
  ASSUME Inv, up, UNCHANGED up, Spawn
  PROVE  Inv'
<1> USE DEF Inv, fifo, replay, history
<1>1. QueueTypes' /\ RecorderTypes' /\ ReplayTypes'
  BY RecorderAssumption DEF Spawn, QueueTypes, RecorderTypes, ReplayTypes
<1>2. Flags'
  BY DEF Spawn, Flags
<1>3. OwnerAndWriter' /\ HandSound' /\ CountersSound'
  BY DEF Spawn, OwnerAndWriter, HandSound, CountersSound
<1>4. PromiseKept' /\ DiskSound' /\ ReplaySound'
  BY DEF Spawn, PromiseKept, Drained, Closing, OwnerAndWriter, DiskSound, ReplaySound, DeliveredSound, PlaceSound, Readable
<1>5. WrittenInOrder'
  BY DEF Spawn, WrittenInOrder, InHand, OwnerAndWriter
<1> QED BY <1>1, <1>2, <1>3, <1>4, <1>5

LEMMA StopKeeps ==
  ASSUME Inv, up, UNCHANGED up, stop
  PROVE  Inv'
<1> USE DEF Inv, fifo, replay
<1>1. Len(pushed) \in Nat
  BY QueuedLengths
<1>2. QueueTypes' /\ RecorderTypes' /\ ReplayTypes'
  BY <1>1 DEF stop, QueueTypes, RecorderTypes, ReplayTypes
<1>3. Flags'
  BY DEF stop, Flags
<1>4. OwnerAndWriter' /\ HandSound' /\ CountersSound'
  BY DEF stop, OwnerAndWriter, HandSound, CountersSound
<1>5. PromiseKept' /\ DiskSound' /\ ReplaySound'
  BY <1>1 DEF stop, PromiseKept, Drained, Closing, OwnerAndWriter, DiskSound, ReplaySound, DeliveredSound, PlaceSound, Readable
<1>6. WrittenInOrder'
  BY DEF stop, WrittenInOrder, InHand
<1> QED BY <1>2, <1>3, <1>4, <1>5, <1>6

LEMMA JoinKeeps ==
  ASSUME Inv, up, UNCHANGED up, Join
  PROVE  Inv'
<1> USE DEF Inv, fifo, replay, history
<1>1. QueueTypes' /\ RecorderTypes' /\ ReplayTypes'
  BY DEF Join, QueueTypes, RecorderTypes, ReplayTypes
<1>2. Flags'
  BY DEF Join, Flags
<1>3. writer'.pc = "none" /\ writer.pc = "ended" /\ owner = "join" /\ owner' = "close"
  BY DEF Join, RecorderTypes
<1>4. OwnerAndWriter' /\ HandSound' /\ CountersSound'
  BY <1>3 DEF Join, OwnerAndWriter, HandSound, CountersSound
<1>5. PromiseKept' /\ DiskSound' /\ ReplaySound'
  BY <1>3 DEF Join, PromiseKept, Drained, Closing, DiskSound, ReplaySound, DeliveredSound, PlaceSound, Readable
<1>6. WrittenInOrder'
  BY <1>3 DEF Join, WrittenInOrder, InHand
<1> QED BY <1>1, <1>2, <1>4, <1>5, <1>6

LEMMA CloseFileKeeps ==
  ASSUME Inv, up, UNCHANGED up, CloseFile
  PROVE  Inv'
<1> USE DEF Inv, fifo, replay, history
<1>1. Len(file) \in Nat /\ Len(file) <= Len(pushed) /\ Len(pushed) \in Nat
  BY QueuedLengths
<1>2. QueueTypes' /\ RecorderTypes' /\ ReplayTypes'
  BY <1>1 DEF CloseFile, QueueTypes, RecorderTypes, ReplayTypes
<1>3. Flags'
  BY DEF CloseFile, Flags
<1>4. OwnerAndWriter' /\ HandSound' /\ CountersSound'
  BY <1>1 DEF CloseFile, OwnerAndWriter, HandSound, CountersSound
<1>5. PromiseKept' /\ DiskSound' /\ ReplaySound'
  BY <1>1 DEF CloseFile, PromiseKept, Drained, Closing, DiskSound, ReplaySound, DeliveredSound, PlaceSound, Readable
<1>6. WrittenInOrder'
  BY DEF CloseFile, WrittenInOrder, InHand
<1> QED BY <1>2, <1>3, <1>4, <1>5, <1>6

LEMMA FlushKeeps ==
  ASSUME Inv, up, UNCHANGED up, flush
  PROVE  Inv'
<1> USE DEF Inv, fifo, replay, history
<1>1. Len(file) \in Nat
  BY QueuedLengths
<1>2. QueueTypes' /\ RecorderTypes' /\ ReplayTypes'
  BY <1>1 DEF flush, QueueTypes, RecorderTypes, ReplayTypes
<1>3. Flags'
  BY DEF flush, Flags
<1>4. OwnerAndWriter' /\ HandSound' /\ CountersSound'
  BY <1>1 DEF flush, OwnerAndWriter, HandSound, CountersSound
<1>5. PromiseKept' /\ DiskSound' /\ ReplaySound'
  BY DEF flush, PromiseKept, Drained, Closing, OwnerAndWriter, DiskSound, ReplaySound, DeliveredSound, PlaceSound, Readable
<1>6. WrittenInOrder'
  BY DEF flush, WrittenInOrder, InHand
<1> QED BY <1>2, <1>3, <1>4, <1>5, <1>6

-----------------------------------------------------------------------------
(* The writer.  While it runs nobody replays, and its steps leave the      *)
(* owner, the producers and the disk alone.                                *)

(* What every step of the writer leaves as it was.                         *)
LEMMA WriterFrame ==
  ASSUME Inv, up, UNCHANGED up, WriterLocal, writer.pc # "none"
  PROVE  /\ UNCHANGED <<recording, format, owner, starts, producer, disk, replayer, delivered>>
         /\ UNCHANGED <<pushed, erased, promised>>
         /\ Flags' /\ ReplayTypes' /\ ReplaySound'
         /\ owner = "join" \/ (owner = "idle" /\ recording)
         /\ starts > 0 /\ ~Closing /\ ~Closing'
<1>1. /\ UNCHANGED <<recording, format, owner, starts, producer, disk, replayer, delivered>>
      /\ UNCHANGED <<pushed, erased, promised>>
  BY DEF WriterLocal, replay, history
<1>2. (owner = "join" \/ (owner = "idle" /\ recording)) /\ starts > 0
  BY DEF Inv, OwnerAndWriter, RecorderTypes
<1>3. replayer.pc = "closed"
  BY <1>2 DEF Inv, ReplaySound, DeliveredSound, PlaceSound, Readable, OwnerAndWriter
<1>4. Flags'
  BY <1>1 DEF Inv, Flags
<1>5. ReplayTypes'
  BY <1>1 DEF Inv, ReplayTypes
<1>6. ReplaySound'
  BY <1>1, <1>3 DEF ReplaySound, DeliveredSound, PlaceSound
<1>7. ~Closing /\ ~Closing'
  BY <1>1, <1>2 DEF Closing
<1> QED BY <1>1, <1>2, <1>4, <1>5, <1>6, <1>7

(* A step of the writer that moves no update.                              *)
LEMMA WriterMoves ==
  ASSUME Inv, up, UNCHANGED up, WriterLocal, UNCHANGED <<queue, file, total, bytes>>,
         out' \in [{Writer} -> Updates \union {NoUpdate}],
         writer.pc \notin {"none", "write", "writeRest", "count"},
         writer'.pc \notin {"none", "write", "writeRest", "count"},
         writer' \in [pc : {"loop", "pop", "drain", "flush", "ended"}, batch : 0 .. FlushEvery - 1],
         writer'.pc \in {"drain", "flush", "ended"} => ~recording,
         flushed' \in {flushed, Len(file) + 1},
         sawEmpty' \subseteq {Writer}, sawEmpty' # {} => writer'.pc \in {"pop", "drain"},
         owner = "join" /\ (writer'.pc \in {"flush", "ended"} \/ (writer'.pc = "drain" /\ sawEmpty' # {}))
           => promised <= Len(erased) + Len(file)
  PROVE  Inv'
<1> USE DEF Inv
<1>1. Len(file) \in Nat /\ Len(pushed) \in Nat
  BY QueuedLengths
<1>2. QueueTypes' /\ RecorderTypes'
  BY <1>1, WriterFrame DEF QueueTypes, RecorderTypes
<1>3. OwnerAndWriter' /\ HandSound'
  BY WriterFrame DEF OwnerAndWriter, HandSound
<1>4. CountersSound'
  BY <1>1, WriterFrame DEF CountersSound, RecorderTypes
<1>5. PromiseKept' /\ DiskSound'
  BY WriterFrame DEF PromiseKept, Drained, DiskSound, OwnerAndWriter
<1>6. WrittenInOrder'
  BY WriterFrame DEF WrittenInOrder, InHand
<1> QED BY <1>2, <1>3, <1>4, <1>5, <1>6, WriterFrame

LEMMA LoopTestKeeps ==
  ASSUME Inv, up, UNCHANGED up, LoopTest
  PROVE  Inv'
<1> USE DEF LoopTest, WriterAt, WriterTo, fifo
<1>1. /\ writer.pc = "loop" /\ writer'.pc = IF recording THEN "pop" ELSE "drain"
      /\ writer' \in [pc : {"loop", "pop", "drain", "flush", "ended"}, batch : 0 .. FlushEvery - 1]
  BY DEF Inv, RecorderTypes
<1>2. sawEmpty' = {}
  BY <1>1 DEF Inv, HandSound
<1>3. /\ WriterLocal /\ UNCHANGED <<queue, file, total, bytes, flushed>>
      /\ out' \in [{Writer} -> Updates \union {NoUpdate}]
  BY DEF Inv, QueueTypes
<1>4. writer'.pc = "drain" => ~recording
  BY <1>1
<1> HIDE DEF LoopTest, WriterAt, WriterTo
<1> QED BY <1>1, <1>2, <1>3, <1>4, WriterMoves

LEMMA SeeEmptyKeeps ==
  ASSUME Inv, up, UNCHANGED up, SeeEmpty
  PROVE  Inv'
<1> USE DEF SeeEmpty, Q!CSeeEmpty
<1>1. /\ writer.pc \in {"pop", "drain"} /\ writer'.pc = writer.pc
      /\ writer' \in [pc : {"loop", "pop", "drain", "flush", "ended"}, batch : 0 .. FlushEvery - 1]
  BY DEF Inv, RecorderTypes
<1>2. sawEmpty' \subseteq {Writer}
  BY DEF Inv, QueueTypes
<1>3. /\ WriterLocal /\ UNCHANGED <<queue, file, total, bytes, flushed>>
      /\ out' \in [{Writer} -> Updates \union {NoUpdate}]
  BY DEF Inv, QueueTypes
<1>4. writer'.pc = "drain" => ~recording
  BY <1>1 DEF Inv, OwnerAndWriter
<1>5. promised <= Len(erased) + Len(file)
  <2>1. queue = <<>> /\ InHand = <<>> /\ Len(<<>>) = 0
    BY <1>1 DEF InHand
  <2> QED BY <2>1, QueuedLengths DEF Inv, PromiseKept, RecorderTypes
<1> HIDE DEF SeeEmpty
<1> QED BY <1>1, <1>2, <1>3, <1>4, <1>5, WriterMoves

LEMMA NothingToPopKeeps ==
  ASSUME Inv, up, UNCHANGED up, NothingToPop
  PROVE  Inv'
<1> USE DEF NothingToPop, WriterAt, WriterTo, Q!CNothing
<1>1. /\ writer.pc \in {"pop", "drain"} /\ writer'.pc = IF writer.pc = "pop" THEN "loop" ELSE "flush"
      /\ writer' \in [pc : {"loop", "pop", "drain", "flush", "ended"}, batch : 0 .. FlushEvery - 1]
  BY DEF Inv, RecorderTypes
<1>2. sawEmpty' = {} /\ sawEmpty # {}
  BY DEF Inv, QueueTypes
<1>3. /\ WriterLocal /\ UNCHANGED <<queue, file, total, bytes, flushed>>
      /\ out' \in [{Writer} -> Updates \union {NoUpdate}]
  BY DEF Inv, QueueTypes
<1>4. writer.pc = "drain" => ~recording /\ owner = "join"
  BY <1>1 DEF Inv, OwnerAndWriter
<1>5. writer.pc = "drain" => promised <= Len(erased) + Len(file)
  BY <1>2, <1>4 DEF Inv, PromiseKept, Drained
<1> HIDE DEF NothingToPop, WriterAt, WriterTo, Q!CNothing
<1> QED BY <1>1, <1>2, <1>3, <1>4, <1>5, WriterMoves

LEMMA FinalFlushKeeps ==
  ASSUME Inv, up, UNCHANGED up, FinalFlush
  PROVE  Inv'
<1> USE DEF FinalFlush, WriterAt, WriterTo, fifo
<1>1. /\ writer.pc = "flush" /\ writer'.pc = "ended"
      /\ writer' \in [pc : {"loop", "pop", "drain", "flush", "ended"}, batch : 0 .. FlushEvery - 1]
  BY DEF Inv, RecorderTypes
<1>2. sawEmpty' = {}
  BY <1>1 DEF Inv, HandSound
<1>3. /\ WriterLocal /\ UNCHANGED <<queue, file, total, bytes>> /\ flushed' = Len(file) + 1
      /\ out' \in [{Writer} -> Updates \union {NoUpdate}]
  BY DEF Inv, QueueTypes
<1>4. ~recording /\ owner = "join"
  BY <1>1 DEF Inv, OwnerAndWriter
<1>5. promised <= Len(erased) + Len(file)
  BY <1>1, <1>4 DEF Inv, PromiseKept, Drained
<1> HIDE DEF FinalFlush, WriterAt, WriterTo
<1> QED BY <1>1, <1>2, <1>3, <1>4, <1>5, WriterMoves

LEMMA PopKeeps ==
  ASSUME Inv, up, UNCHANGED up, Pop
  PROVE  Inv'
<1> USE DEF Inv
<1>1. /\ writer.pc \in {"pop", "drain"} /\ writer'.pc = IF writer.pc = "pop" THEN "write" ELSE "writeRest"
      /\ writer' \in [pc : {"write", "writeRest"}, batch : 0 .. FlushEvery - 1]
  BY DEF Pop, WriterAt, WriterTo, RecorderTypes
<1>2. /\ queue # <<>> /\ queue' = Tail(queue) /\ out' = [out EXCEPT ![Writer] = Head(queue)]
      /\ sawEmpty = {} /\ sawEmpty' = {} /\ WriterLocal /\ UNCHANGED <<file, flushed, total, bytes>>
  BY DEF Pop, Q!CPop
<1>3. Head(queue) \in Updates /\ Tail(queue) \in Seq(Updates)
  BY <1>2, HeadTailProperties DEF QueueTypes
<1>4. out'[Writer] = Head(queue) /\ out' \in [{Writer} -> Updates \union {NoUpdate}]
  BY <1>2, <1>3 DEF QueueTypes
<1>5. writer.pc = "drain" => ~recording /\ owner = "join"
  BY <1>1 DEF OwnerAndWriter
<1>6. QueueTypes' /\ RecorderTypes'
  BY <1>1, <1>2, <1>3, <1>4, WriterFrame DEF QueueTypes, RecorderTypes
<1>7. OwnerAndWriter' /\ HandSound'
  BY <1>1, <1>2, <1>3, <1>4, <1>5, WriterFrame DEF OwnerAndWriter, HandSound
<1>8. CountersSound'
  BY <1>1, <1>2, WriterFrame DEF CountersSound
<1>9. PromiseKept' /\ DiskSound'
  BY <1>1, <1>2, WriterFrame DEF PromiseKept, Drained, DiskSound
<1>10. WrittenInOrder'
  <2>1. InHand = <<>> /\ InHand' = <<Head(queue)>>
    BY <1>1, <1>4 DEF InHand
  <2>2. erased \o file \o <<>> \o queue = erased \o file \o <<Head(queue)>> \o Tail(queue)
    BY <1>2, QueuedLengths, TakenFromTheFront DEF QueueTypes
  <2> QED BY <1>1, <1>2, <2>1, <2>2, WriterFrame DEF WrittenInOrder
<1> QED BY <1>1, <1>2, <1>6, <1>7, <1>8, <1>9, <1>10, WriterFrame

(* The update in hand goes to the file.                                    *)
LEMMA WriteRecordMoves ==
  ASSUME Inv, WriteRecord, writer.pc \in {"write", "writeRest"}, WriterLocal, queue' = queue,
         writer'.pc \notin {"write", "writeRest"}
  PROVE  /\ file' \in Seq(Updates) /\ Len(file') = Len(file) + 1 /\ Len(file) \in Nat
         /\ bytes' \in Nat
         /\ format = "BINARY" => bytes' = Len(file')
         /\ WrittenInOrder'
<1> USE DEF Inv
<1>1. out[Writer] \in Updates /\ file' = Append(file, out[Writer])
  BY DEF WriteRecord, HandSound
<1>2. file' \in Seq(Updates) /\ Len(file') = Len(file) + 1 /\ Len(file) \in Nat
  BY <1>1, AppendProperties, LenProperties DEF QueueTypes
<1>3. /\ bytes' \in Nat
      /\ format = "BINARY" => bytes' = Len(file')
  BY <1>2 DEF WriteRecord, write_binary, write_json, write_csv, Header, RecorderTypes, Formats, CountersSound
<1>4. WrittenInOrder'
  <2>1. file' = file \o <<out[Writer]>>
    BY <1>1, AppendIsConcat DEF QueueTypes
  <2>2. InHand = <<out[Writer]>> /\ InHand' = <<>>
    BY DEF InHand
  <2>3. erased \o file \o <<out[Writer]>> \o queue = erased \o (file \o <<out[Writer]>>) \o <<>> \o queue
    BY <1>1, PutInTheFile, SMTT(30) DEF QueueTypes
  <2> QED BY <2>1, <2>2, <2>3 DEF WrittenInOrder, WriterLocal, history
<1> QED BY <1>2, <1>3, <1>4

LEMMA WriteKeeps ==
  ASSUME Inv, up, UNCHANGED up, Write
  PROVE  Inv'
<1> USE DEF Inv
<1>1. /\ writer.pc = "write" /\ writer'.pc = "count"
      /\ writer' \in [pc : {"count"}, batch : 0 .. FlushEvery - 1]
  BY DEF Write, WriterAt, WriterTo, RecorderTypes
<1>2. WriterLocal /\ WriteRecord /\ UNCHANGED <<queue, sawEmpty, out, flushed, total>>
  BY DEF Write, fifo
<1>3. QueueTypes' /\ RecorderTypes'
  BY <1>1, <1>2, WriterFrame, WriteRecordMoves DEF QueueTypes, RecorderTypes
<1>4. OwnerAndWriter' /\ HandSound'
  BY <1>1, <1>2, WriterFrame DEF OwnerAndWriter, HandSound
<1>5. CountersSound'
  BY <1>1, <1>2, WriterFrame, WriteRecordMoves DEF CountersSound, RecorderTypes
<1>6. PromiseKept' /\ DiskSound'
  BY <1>1, <1>2, WriterFrame DEF PromiseKept, Drained, DiskSound, OwnerAndWriter
<1> QED BY <1>1, <1>2, <1>3, <1>4, <1>5, <1>6, WriterFrame, WriteRecordMoves

LEMMA WriteRestKeeps ==
  ASSUME Inv, up, UNCHANGED up, WriteRest
  PROVE  Inv'
<1> USE DEF Inv
<1>1. /\ writer.pc = "writeRest" /\ writer'.pc = "drain"
      /\ writer' \in [pc : {"drain"}, batch : 0 .. FlushEvery - 1]
  BY DEF WriteRest, WriterAt, WriterTo, RecorderTypes
<1>2. /\ WriterLocal /\ WriteRecord /\ UNCHANGED <<queue, sawEmpty, out, flushed>>
      /\ total' = total + 1
  BY DEF WriteRest, fifo
<1>3. QueueTypes' /\ RecorderTypes'
  BY <1>1, <1>2, WriterFrame, WriteRecordMoves DEF QueueTypes, RecorderTypes
<1>4. OwnerAndWriter' /\ HandSound'
  BY <1>1, <1>2, WriterFrame DEF OwnerAndWriter, HandSound
<1>5. CountersSound'
  BY <1>1, <1>2, WriterFrame, WriteRecordMoves DEF CountersSound, RecorderTypes
<1>6. PromiseKept' /\ DiskSound'
  <2>1. sawEmpty = {}
    BY <1>1 DEF HandSound
  <2> QED BY <1>1, <1>2, <2>1, WriterFrame DEF PromiseKept, Drained, DiskSound, OwnerAndWriter
<1> QED BY <1>1, <1>2, <1>3, <1>4, <1>5, <1>6, WriterFrame, WriteRecordMoves

LEMMA CountKeeps ==
  ASSUME Inv, up, UNCHANGED up, Count
  PROVE  Inv'
<1> USE DEF Inv
<1>1. /\ writer.pc = "count" /\ writer'.pc = "loop"
      /\ writer' \in [pc : {"loop"}, batch : 0 .. FlushEvery - 1]
  BY RecorderAssumption DEF Count, WriterAt, RecorderTypes
<1>2. /\ WriterLocal /\ UNCHANGED <<queue, sawEmpty, out, file, bytes>>
      /\ total' = total + 1 /\ flushed' \in {flushed, Len(file) + 1}
  BY DEF Count, fifo
<1>3. Len(file) \in Nat
  BY QueuedLengths
<1>4. QueueTypes' /\ RecorderTypes'
  BY <1>1, <1>2, <1>3, WriterFrame DEF QueueTypes, RecorderTypes
<1>5. OwnerAndWriter' /\ HandSound'
  BY <1>1, <1>2, WriterFrame DEF OwnerAndWriter, HandSound
<1>6. CountersSound'
  BY <1>1, <1>2, <1>3, WriterFrame DEF CountersSound, RecorderTypes
<1>7. PromiseKept' /\ DiskSound'
  BY <1>1, <1>2, WriterFrame DEF PromiseKept, Drained, DiskSound, OwnerAndWriter
<1>8. WrittenInOrder'
  BY <1>1, <1>2, WriterFrame DEF WrittenInOrder, InHand
<1> QED BY <1>1, <1>2, <1>4, <1>5, <1>6, <1>7, <1>8, WriterFrame

LEMMA WriterKeeps ==
  ASSUME Inv, up, UNCHANGED up, WriterStep
  PROVE  Inv'
BY LoopTestKeeps, PopKeeps, SeeEmptyKeeps, NothingToPopKeeps, WriteKeeps, CountKeeps, WriteRestKeeps,
   FinalFlushKeeps DEF WriterStep

-----------------------------------------------------------------------------
(* The crash.                                                              *)

LEMMA CrashKeeps ==
  ASSUME Inv, up, crash
  PROVE  Inv'
<1> USE DEF Inv, recorder, fifo, replay, history
<1>1. Len(file) \in Nat /\ Len(pushed) \in Nat /\ Len(file) <= Len(pushed)
  BY QueuedLengths
<1>2. PICK size \in flushed .. Len(file) + 1, torn \in BOOLEAN :
         (torn => size <= Len(file)) /\ disk' = [size |-> size, torn |-> torn]
  BY DEF crash
<1>3. /\ size \in Nat /\ flushed <= size /\ size <= Len(file) + 1 /\ disk'.size = size
      /\ disk'.torn = torn /\ (torn => size <= Len(file))
  BY <1>1, <1>2 DEF RecorderTypes
<1>4. QueueTypes' /\ RecorderTypes' /\ ReplayTypes'
  BY <1>2, <1>3 DEF crash, QueueTypes, RecorderTypes, ReplayTypes
<1>5. Flags' /\ up' = FALSE
  BY DEF crash, Flags
<1>6. OwnerAndWriter' /\ HandSound' /\ CountersSound'
  BY DEF crash, OwnerAndWriter, HandSound, CountersSound
<1>7. PromiseKept'
  BY DEF crash, PromiseKept, Drained, Closing
<1>8. DiskSound'
  BY <1>1, <1>3, <1>5 DEF crash, DiskSound
<1>9. ReplaySound' /\ WrittenInOrder'
  BY DEF crash, ReplaySound, DeliveredSound, PlaceSound, WrittenInOrder, InHand
<1> QED BY <1>4, <1>5, <1>6, <1>7, <1>8, <1>9

-----------------------------------------------------------------------------
(* The replayer.                                                           *)

(* A replayer changes nothing but itself.                                  *)
LEMMA ReplayFrame ==
  ASSUME Inv, UNCHANGED <<recorder, fifo, producer, disk, history, up>>, ReplayTypes', ReplaySound'
  PROVE  Inv'
<1> USE DEF Inv, recorder, fifo, history
<1>1. QueueTypes' /\ RecorderTypes' /\ Flags'
  BY DEF QueueTypes, RecorderTypes, Flags
<1>2. OwnerAndWriter' /\ HandSound' /\ CountersSound'
  BY DEF OwnerAndWriter, HandSound, CountersSound
<1>3. PromiseKept' /\ DiskSound'
  BY DEF PromiseKept, Drained, Closing, DiskSound
<1>4. WrittenInOrder'
  BY DEF WrittenInOrder, InHand
<1> QED BY <1>1, <1>2, <1>3, <1>4

(* The part of the file that can be read is on the disk.                   *)
LEMMA DiskOfReadable ==
  ASSUME Inv, Readable
  PROVE  disk.size \in Nat /\ flushed <= disk.size /\ disk.size <= Len(file) + 1
<1>1. Len(file) \in Nat
  BY QueuedLengths DEF Inv
<1>2. CASE ~up
  BY <1>1, <1>2 DEF Inv, DiskSound, ReplayTypes
<1>3. CASE up
  BY <1>1, <1>3 DEF Inv, Readable, DiskSound, PromiseKept, Closing, ReplayTypes
<1> QED BY <1>2, <1>3

(* What the lengths of a record tell of its update.                        *)
LEMMA DecodedFacts ==
  ASSUME NEW u \in Updates
  PROVE  /\ Decoded(u) \in Records \union {Torn} /\ Decoded(u) # NoUpdate
         /\ Decoded(u) = Torn <=> Miscounted(u)
         /\ Decoded(u) # Torn =>
              /\ Decoded(u).update = u
              /\ LengthsOf(u).symbol < 256 => Decoded(u).symbol = LengthsOf(u).symbol
<1>1. LengthsOf(u).symbol \in Nat /\ LengthsOf(u).levels \in Nat
  BY RecorderAssumption DEF LengthsOf, Lengths
<1>2. /\ StatedSymbol(u) \in 0 .. 255
      /\ LengthsOf(u).symbol < 256 => StatedSymbol(u) = LengthsOf(u).symbol
  BY <1>1 DEF StatedSymbol
<1>3. StatedLevels(u) < LengthsOf(u).levels <=> LengthsOf(u).levels > 65535
  BY <1>1 DEF StatedLevels
<1>4. [update |-> u, symbol |-> StatedSymbol(u)] \in Records
  BY <1>2 DEF Records
<1> QED BY <1>2, <1>3, <1>4, RecorderAssumption DEF Decoded, Miscounted

(* What read_binary decodes from a stream that stands between two records. *)
LEMMA ReadsInOrder ==
  ASSUME Inv, replayer.pc # "closed", replayer.place = "aligned", NEW update \in read_binary
  PROVE  \/ update = NoUpdate /\ replayer.pos + 1 >= disk.size
         \/ update = Torn /\ replayer.stream = "good" /\ disk.torn /\ replayer.pos + 1 >= disk.size
         \/ /\ replayer.stream = "good" /\ replayer.pos + 1 < disk.size
            /\ update = Decoded(file[replayer.pos + 1]) /\ file[replayer.pos + 1] \in Updates
<1>1. disk.size \in Nat /\ disk.size <= Len(file) + 1 /\ Len(file) \in Nat /\ replayer.pos \in Nat
  BY DiskOfReadable, QueuedLengths DEF Inv, ReplaySound, ReplayTypes, Replayers
<1>2. replayer.stream \in {"good", "end"}
  BY DEF Inv, ReplaySound, PlaceSound, ReplayTypes, Replayers
<1>3. CASE replayer.stream = "end"
  BY <1>1, <1>3 DEF read_binary, Inv, ReplaySound, PlaceSound
<1>4. CASE replayer.stream = "good" /\ replayer.pos + 1 < disk.size
  <2>1. update = Decoded(file[replayer.pos + 1])
    BY <1>4 DEF read_binary
  <2>2. file[replayer.pos + 1] \in Updates
    BY <1>1, <1>4, ElementOfSeq DEF Inv, QueueTypes
  <2> QED BY <1>4, <2>1, <2>2
<1>5. CASE replayer.stream = "good" /\ ~(replayer.pos + 1 < disk.size)
  <2>1. update = NoUpdate \/ (update = Torn /\ disk.torn)
    BY <1>5 DEF read_binary
  <2> QED BY <1>1, <1>5, <2>1
<1> QED BY <1>2, <1>3, <1>4, <1>5

LEMMA OpenKeeps ==
  ASSUME Inv, open, UNCHANGED up
  PROVE  Inv'
<1>1. PICK f \in {"BINARY", "other"} :
         read_header(f) /\ replayer' = [Closed EXCEPT !.pc = "open", !.format = f]
  BY DEF open
<1>2. /\ replayer'.pc = "open" /\ replayer'.stream = "good" /\ replayer'.pos = 0
      /\ replayer' \in Replayers /\ replayer'.place = "aligned" /\ replayer'.format = f
  BY <1>1 DEF Closed, Replayers
<1>3. /\ UNCHANGED <<recorder, fifo, producer, disk, history>> /\ Readable
      /\ delivered' = <<>> /\ delivered' \in Seq(Records \union {Torn}) /\ Len(delivered') = 0
  BY DEF open
<1>4. ReplayTypes'
  BY <1>2, <1>3 DEF Inv, ReplayTypes
<1>5. DeliveredSound'
  BY <1>1, <1>2, <1>3 DEF DeliveredSound, read_header, recorder
<1>6. PlaceSound'
  BY <1>2, <1>3 DEF PlaceSound
<1>7. ReplaySound'
  BY <1>3, <1>5, <1>6 DEF ReplaySound, Readable, recorder
<1> QED BY <1>3, <1>4, <1>7, ReplayFrame

LEMMA RoundKeeps ==
  ASSUME Inv, replay_round, UNCHANGED up
  PROVE  Inv'
<1> USE DEF Replayers
<1>1. /\ UNCHANGED <<recorder, fifo, producer, disk, history>>
      /\ replayer.pc \in {"open", "replaying"} /\ replayer \in Replayers
      /\ delivered \in Seq(Records \union {Torn})
  BY DEF replay_round, Inv, ReplayTypes
<1>2. Readable /\ Readable' /\ DeliveredSound /\ PlaceSound
  BY <1>1 DEF Inv, ReplaySound, Readable, recorder
<1> DEFINE whole == replayer.pos + 1 < disk.size
           stream == IF whole THEN replayer.stream ELSE "end"
           place(u) == IF whole /\ u = Torn THEN "lost" ELSE replayer.place
<1>3. PICK update \in IF replayer.format = "BINARY" THEN read_binary ELSE read_text :
       \/ /\ update = NoUpdate
          /\ replayer' = [replayer EXCEPT !.pc = "open",
                            !.stream = IF replayer.format = "BINARY" THEN "end" ELSE replayer.stream]
          /\ UNCHANGED delivered
       \/ /\ update # NoUpdate /\ replayer.place = "aligned"
          /\ delivered' = Append(delivered, update)
          /\ replayer' = [replayer EXCEPT !.pc = "replaying", !.pos = replayer.pos + 1,
                                          !.stream = stream, !.place = place(update)]
       \/ /\ update # NoUpdate /\ replayer.place # "aligned"
          /\ replayer' = [replayer EXCEPT !.pc = "replaying"]
          /\ UNCHANGED delivered
  BY Zenon DEF replay_round
<1>4. CASE update = NoUpdate
  <2>1. /\ replayer' \in Replayers /\ delivered' = delivered /\ replayer'.place = replayer.place
        /\ replayer'.stream = IF replayer.format = "BINARY" THEN "end" ELSE replayer.stream
        /\ replayer'.pos = replayer.pos /\ replayer'.format = replayer.format
    BY <1>1, <1>3, <1>4
  <2>2. replayer.place = "aligned" /\ replayer.format = "BINARY" => replayer.pos + 1 >= disk.size
    <3> SUFFICES ASSUME replayer.place = "aligned", replayer.format = "BINARY"
                 PROVE  replayer.pos + 1 >= disk.size
      OBVIOUS
    <3>1. update \in read_binary
      BY <1>3
    <3>2. ~(file[replayer.pos + 1] \in Updates /\ update = Decoded(file[replayer.pos + 1]))
      BY <1>4, DecodedFacts
    <3> QED BY <1>1, <1>4, <3>1, <3>2, ReadsInOrder, RecorderAssumption
  <2>3. ReplayTypes'
    BY <1>1, <2>1 DEF Inv, ReplayTypes
  <2>4. DeliveredSound'
    BY <1>1, <1>2, <2>1 DEF DeliveredSound, recorder
  <2>5. PlaceSound'
    BY <1>1, <1>2, <2>1, <2>2 DEF PlaceSound
  <2>6. ReplaySound'
    BY <1>2, <2>4, <2>5 DEF ReplaySound
  <2> QED BY <1>1, <2>3, <2>6, ReplayFrame
<1>5. CASE update # NoUpdate /\ replayer.place = "aligned"
  <2>1. replayer.format = "BINARY" /\ update \in read_binary
    BY <1>1, <1>3, <1>5 DEF read_text
  <2>2. /\ replayer.stream = "good"
        /\ \/ update = Torn /\ disk.torn /\ ~whole
           \/ whole /\ update = Decoded(file[replayer.pos + 1]) /\ file[replayer.pos + 1] \in Updates
    BY <1>1, <1>5, <2>1, ReadsInOrder DEF Inv, ReplayTypes
  <2>3. update \in Records \union {Torn}
    BY <2>2, DecodedFacts
  <2>4. /\ replayer' \in Replayers /\ delivered' = Append(delivered, update)
        /\ replayer'.stream = stream /\ replayer'.place = place(update)
        /\ replayer'.pos = replayer.pos + 1 /\ replayer'.format = "BINARY"
    <3>1. delivered' = Append(delivered, update)
      BY <1>3, <1>5, Zenon
    <3>2. replayer' = [replayer EXCEPT !.pc = "replaying", !.pos = replayer.pos + 1,
                                       !.stream = stream, !.place = place(update)]
      BY <1>3, <1>5, Zenon
    <3>3. /\ stream \in {"good", "end", "failed"} /\ place(update) \in {"aligned", "lost", "sought"}
          /\ replayer.pos + 1 \in Nat
      BY <1>1
    <3> HIDE DEF stream, place
    <3> QED BY <1>1, <2>1, <3>1, <3>2, <3>3
  <2>5. /\ delivered' \in Seq(Records \union {Torn}) /\ Len(delivered) \in Nat
        /\ Len(delivered') = Len(delivered) + 1 /\ DOMAIN delivered' = 1 .. Len(delivered) + 1
        /\ DOMAIN delivered = 1 .. Len(delivered)
        /\ delivered'[Len(delivered) + 1] = update
        /\ \A i \in 1 .. Len(delivered) : delivered'[i] = delivered[i]
    BY <1>1, <2>3, <2>4, AppendProperties, LenProperties
  <2>6. ReplayTypes'
    BY <1>1, <2>4, <2>5 DEF Inv, ReplayTypes
  <2>7. /\ Len(delivered) = replayer.pos /\ disk.size \in Nat /\ disk.size > 0 /\ format = "BINARY"
        /\ \A i \in DOMAIN delivered :
             delivered[i] # Torn /\ i < disk.size /\ delivered[i] = Decoded(file[i])
    BY <1>1, <1>2, <1>5, <2>1, <2>2 DEF Inv, DeliveredSound, PlaceSound, ReplayTypes
  <2>8. /\ disk' = disk /\ file' = file /\ format' = format
    BY <1>1 DEF recorder
  <2>9. ~whole => replayer.pos + 1 = disk.size
    <3>1. CASE replayer.pos = 0
      BY <2>7, <3>1
    <3>2. CASE replayer.pos > 0
      <4>1. replayer.pos \in DOMAIN delivered
        BY <1>1, <2>5, <2>7, <3>2
      <4> QED BY <1>1, <2>7, <4>1
    <3> QED BY <1>1, <3>1, <3>2
  <2>10. ASSUME NEW i \in DOMAIN delivered'
         PROVE  /\ delivered'[i] = Torn => i = Len(delivered')
                /\ \/ i < disk.size /\ delivered'[i] = Decoded(file[i])
                   \/ i = disk.size /\ delivered'[i] = Torn /\ disk.torn
    <3>1. CASE i = Len(delivered) + 1
      BY <2>2, <2>5, <2>7, <2>9, <3>1
    <3>2. CASE i \in DOMAIN delivered
      BY <2>5, <2>7, <3>2
    <3> QED BY <2>5, <3>1, <3>2
  <2>11. DeliveredSound'
    BY <2>4, <2>7, <2>8, <2>10 DEF DeliveredSound
  <2>12. PlaceSound'
    <3>1. CASE whole /\ update = Torn
      <4>1. replayer'.place = "lost" /\ delivered'[Len(delivered')] = Torn
            /\ Len(delivered') \in DOMAIN delivered' /\ Len(delivered') < disk'.size
        BY <1>1, <2>4, <2>5, <2>7, <2>8, <3>1
      <4> QED BY <4>1 DEF PlaceSound
    <3>2. CASE whole /\ update # Torn
      <4>1. /\ replayer'.place = "aligned" /\ replayer'.stream = "good"
            /\ Len(delivered') = replayer'.pos
        BY <1>5, <2>2, <2>4, <2>5, <2>7, <3>2
      <4>2. \A i \in DOMAIN delivered' : i < disk'.size /\ delivered'[i] # Torn
        BY <2>5, <2>7, <2>8, <3>2
      <4> QED BY <4>1, <4>2 DEF PlaceSound
    <3>3. CASE ~whole
      <4>1. /\ replayer'.place = "aligned" /\ replayer'.stream = "end"
            /\ Len(delivered') = replayer'.pos /\ Len(delivered') + 1 >= disk'.size
        BY <1>5, <2>4, <2>5, <2>7, <2>8, <2>9, <3>3
      <4> QED BY <4>1 DEF PlaceSound
    <3> QED BY <3>1, <3>2, <3>3
  <2>13. ReplaySound'
    BY <1>2, <2>11, <2>12 DEF ReplaySound
  <2> QED BY <1>1, <2>6, <2>13, ReplayFrame
<1>6. CASE update # NoUpdate /\ replayer.place # "aligned"
  <2>1. /\ replayer' \in Replayers /\ delivered' = delivered /\ replayer'.place = replayer.place
        /\ replayer'.format = replayer.format
    BY <1>1, <1>3, <1>6
  <2>2. ReplayTypes'
    BY <1>1, <2>1 DEF Inv, ReplayTypes
  <2>3. DeliveredSound' /\ PlaceSound'
    BY <1>1, <1>2, <1>6, <2>1 DEF DeliveredSound, PlaceSound, recorder
  <2>4. ReplaySound'
    BY <1>2, <2>3 DEF ReplaySound
  <2> QED BY <1>1, <2>2, <2>4, ReplayFrame
<1> QED BY <1>3, <1>4, <1>5, <1>6

(* A replayer that stands inside a record delivers nothing that counts.    *)
LEMMA SeekKeeps ==
  ASSUME Inv, replay_range \/ get_file_info, UNCHANGED up
  PROVE  Inv'
<1> USE DEF replay_range, replay_from, get_file_info
<1>1. /\ UNCHANGED <<recorder, fifo, producer, disk, history, delivered>>
      /\ replayer.pc = "open" /\ replayer \in Replayers
  BY DEF Inv, ReplayTypes
<1>2. Readable /\ Readable' /\ DeliveredSound /\ PlaceSound
  BY <1>1 DEF Inv, ReplaySound, Readable, recorder
<1> DEFINE Sought(r) == r \in Replayers /\ r.place = "sought" /\ r.format = replayer.format
<1>3. Sought(SeekedTo16)
  <2> DEFINE to == IF replayer.stream = "good" THEN "good" ELSE "failed"
  <2>1. SeekedTo16 = [replayer EXCEPT !.place = "sought", !.stream = to]
    BY Zenon DEF SeekedTo16
  <2>2. to \in {"good", "end", "failed"}
    OBVIOUS
  <2> HIDE DEF to
  <2> QED BY <1>1, <2>1, <2>2 DEF Replayers
<1>4. replayer' = replayer \/ Sought(replayer')
  <2>1. \/ replayer' = replayer
        \/ replayer' = [SeekedTo16 EXCEPT !.pc = "replaying"]
        \/ replayer' = [SeekedTo16 EXCEPT !.stream = "end"]
        \/ replayer' = [SeekedTo16 EXCEPT !.pc = "stuck"]
    OBVIOUS
  <2> QED BY <1>3, <2>1 DEF Replayers
<1>5. ReplayTypes'
  BY <1>1, <1>4 DEF Inv, ReplayTypes
<1>6. DeliveredSound' /\ PlaceSound'
  BY <1>1, <1>2, <1>4 DEF DeliveredSound, PlaceSound, recorder
<1>7. ReplaySound'
  BY <1>2, <1>6 DEF ReplaySound
<1> QED BY <1>1, <1>5, <1>7, ReplayFrame

LEMMA StopReplayKeeps ==
  ASSUME Inv, StopReplay, UNCHANGED up
  PROVE  Inv'
<1>1. /\ UNCHANGED <<recorder, fifo, producer, disk, history, delivered>>
      /\ replayer.pc = "replaying" /\ replayer \in Replayers
      /\ replayer' = [replayer EXCEPT !.pc = "open"]
  BY DEF StopReplay, Inv, ReplayTypes
<1>2. /\ replayer' \in Replayers /\ replayer'.place = replayer.place
      /\ replayer'.format = replayer.format
      /\ replayer'.stream = replayer.stream /\ replayer'.pos = replayer.pos
  BY <1>1 DEF Replayers
<1>3. Readable /\ Readable' /\ DeliveredSound /\ PlaceSound
  BY <1>1 DEF Inv, ReplaySound, Readable, recorder
<1>4. ReplayTypes'
  BY <1>1, <1>2 DEF Inv, ReplayTypes
<1>5. DeliveredSound' /\ PlaceSound'
  BY <1>1, <1>2, <1>3 DEF DeliveredSound, PlaceSound, recorder
<1>6. ReplaySound'
  BY <1>3, <1>5 DEF ReplaySound
<1> QED BY <1>1, <1>4, <1>6, ReplayFrame

LEMMA CloseKeeps ==
  ASSUME Inv, close, UNCHANGED up
  PROVE  Inv'
<1>1. UNCHANGED <<recorder, fifo, producer, disk, history, delivered>> /\ replayer' = Closed
  BY DEF close
<1>2. ReplayTypes'
  BY <1>1 DEF Inv, ReplayTypes, Replayers, Closed
<1>3. ReplaySound'
  BY <1>1 DEF ReplaySound, Closed
<1> QED BY <1>1, <1>2, <1>3, ReplayFrame

-----------------------------------------------------------------------------
(* The invariant is preserved, and implies the properties.                 *)

LEMMA InvPreserved == Inv /\ [Next]_vars => Inv'
<1> SUFFICES ASSUME Inv, [Next]_vars PROVE Inv'
  OBVIOUS
<1>1. CASE up /\ Running /\ UNCHANGED up
  <2>1. ASSUME NEW p \in Producers, record(p) \/ Push(p) PROVE Inv'
    BY <1>1, <2>1, RecordKeeps, PushKeeps
  <2>2. CASE start \/ stop \/ flush
    BY <1>1, <2>2, StartKeeps, StopKeeps, FlushKeeps
  <2>3. CASE OwnerStep
    BY <1>1, <2>3, OpenFailedKeeps, OpenFileKeeps, SpawnKeeps, JoinKeeps, CloseFileKeeps DEF OwnerStep
  <2>4. CASE WriterStep
    BY <1>1, <2>4, WriterKeeps
  <2> QED BY <1>1, <2>1, <2>2, <2>3, <2>4 DEF Running
<1>2. CASE up /\ crash
  BY <1>2, CrashKeeps
<1>3. CASE (open \/ replay_round \/ StopReplay \/ replay_range \/ get_file_info \/ close) /\ UNCHANGED up
  BY <1>3, OpenKeeps, RoundKeeps, StopReplayKeeps, SeekKeeps, CloseKeeps
<1>4. CASE UNCHANGED vars
  <2>1. UNCHANGED <<recorder, fifo, producer, disk, history, up, replayer, delivered>>
    BY <1>4 DEF vars, replay
  <2>2. ReplayTypes'
    BY <2>1 DEF Inv, ReplayTypes
  <2>3. ReplaySound'
    BY <2>1 DEF Inv, ReplaySound, DeliveredSound, PlaceSound, Readable, recorder
  <2> QED BY <2>1, <2>2, <2>3, ReplayFrame
<1> QED BY <1>1, <1>2, <1>3, <1>4 DEF Next

LEMMA InvKept == Inv => RecordsKept
<1> SUFFICES ASSUME Inv PROVE RecordsKept
  OBVIOUS
<1>1. /\ Len(file) \in Nat /\ Len(pushed) \in Nat /\ Len(file) <= Len(pushed)
  BY QueuedLengths DEF Inv
<1>2. \A s \in {queue, file, pushed, erased} : \A i \in DOMAIN s : s[i] \in Updates
  BY ElementOfSeq, LenProperties DEF Inv, QueueTypes
<1>3. \A i \in DOMAIN delivered : delivered[i] \in Records \union {Torn}
  BY ElementOfSeq, LenProperties DEF Inv, ReplayTypes
<1>4. /\ flushed \in 0 .. Len(pushed) + 1 /\ total \in 0 .. Len(pushed) /\ disk.size \in 0 .. Len(pushed) + 1
  BY <1>1 DEF Inv, RecorderTypes, CountersSound, ReplayTypes, DiskSound
<1>5. recording \in BOOLEAN /\ up \in BOOLEAN
  BY DEF Inv, Flags
<1>6. TypeOK
  BY <1>2, <1>3, <1>4, <1>5 DEF TypeOK, Inv, QueueTypes, RecorderTypes, ReplayTypes, Replayers
<1> QED BY <1>6 DEF RecordsKept, Inv

LEMMA InvComplete == Inv => CompleteAfterStop
<1> SUFFICES ASSUME Inv, owner = "idle", ~recording, starts > 0
             PROVE  /\ Len(erased) + Len(file) >= promised /\ flushed = Len(file) + 1
                    /\ get_statistics.total_updates_recorded = Len(file)
                    /\ format = "BINARY" => get_statistics.bytes_written = Len(file)
  BY DEF CompleteAfterStop
<1>1. Len(erased) \in Nat /\ Len(file) \in Nat /\ promised \in Nat
  BY QueuedLengths DEF Inv, RecorderTypes
<1>2. writer.pc = "none"
  BY DEF Inv, OwnerAndWriter
<1>3. promised <= Len(erased) + Len(file) /\ flushed = Len(file) + 1
  BY DEF Inv, PromiseKept, Drained, Closing
<1>4. total = Len(file) /\ (format = "BINARY" => bytes = Len(file))
  BY <1>2 DEF Inv, CountersSound
<1> QED BY <1>1, <1>3, <1>4 DEF get_statistics

LEMMA InvFaithful == Inv => ReplayFaithful
<1> SUFFICES ASSUME Inv, replayer.pc # "closed" PROVE ReplayFaithful
  BY DEF ReplayFaithful
<1>1. /\ disk.size \in Nat /\ flushed <= disk.size /\ disk.size <= Len(file) + 1
      /\ DeliveredSound /\ PlaceSound
  BY DiskOfReadable DEF Inv, ReplaySound
<1>2. /\ Len(file) \in Nat /\ Len(delivered) \in Nat /\ DOMAIN delivered = 1 .. Len(delivered)
      /\ flushed \in Nat /\ \A i \in 1 .. Len(file) : file[i] \in Updates
  BY QueuedLengths, LenProperties, ElementOfSeq DEF Inv, QueueTypes, ReplayTypes, RecorderTypes
<1>3. disk.torn => ~up /\ disk.size <= Len(file)
  BY DEF Inv, DiskSound
<1>4. replayer.format # "BINARY" \/ format # "BINARY" => delivered = <<>>
  BY <1>1 DEF DeliveredSound
<1>5. ASSUME NEW i \in DOMAIN delivered
      PROVE  /\ i <= Len(file)
             /\ delivered[i] # Torn =>
                  /\ delivered[i].update = file[i] /\ ~Miscounted(file[i])
                  /\ LengthsOf(file[i]).symbol < 256 =>
                       delivered[i].symbol = LengthsOf(file[i]).symbol
             /\ delivered[i] = Torn => i = Len(delivered) /\ (~up \/ Miscounted(file[i]))
  <2>1. CASE i < disk.size /\ delivered[i] = Decoded(file[i])
    <3>1. i <= Len(file) /\ file[i] \in Updates
      BY <1>1, <1>2, <2>1
    <3>2. delivered[i] = Torn => i = Len(delivered)
      BY <1>1 DEF DeliveredSound
    <3> QED BY <2>1, <3>1, <3>2, DecodedFacts
  <2>2. CASE i = disk.size /\ delivered[i] = Torn /\ disk.torn
    BY <1>1, <1>3, <2>2 DEF DeliveredSound
  <2> QED BY <1>1, <2>1, <2>2 DEF DeliveredSound
<1>6. ASSUME replayer.stream = "end"
      PROVE  \/ Len(delivered) + 1 >= flushed
             \/ replayer.place = "sought"
             \/ delivered # <<>> /\ Miscounted(file[Len(delivered)])
  <2>1. CASE replayer.place = "aligned"
    BY <1>1, <1>2, <1>6, <2>1 DEF PlaceSound
  <2>2. CASE replayer.place = "lost"
    <3>1. /\ Len(delivered) \in DOMAIN delivered /\ Len(delivered) < disk.size
          /\ delivered[Len(delivered)] = Torn
      BY <1>1, <2>2 DEF PlaceSound
    <3>2. Decoded(file[Len(delivered)]) = Torn /\ file[Len(delivered)] \in Updates
      BY <1>1, <1>2, <3>1 DEF DeliveredSound
    <3>3. delivered # <<>>
      BY <1>2, <3>1
    <3> QED BY <3>2, <3>3, DecodedFacts
  <2> QED BY <2>1, <2>2 DEF Inv, ReplayTypes, Replayers
<1> QED BY <1>4, <1>5, <1>6, Zenon DEF ReplayFaithful

LEMMA InvAlways == Spec => []Inv
BY InvInitially, InvPreserved, PTL DEF Spec

(* Every update that record has queued stays, once and in order, in the    *)
(* file, the hand of the writer or the queue, unless a later start erased  *)
(* it with the file; the counters follow the file, and every variable has  *)
(* its type.                                                               *)
THEOREM NoRecordIsLost == Spec => []RecordsKept
BY InvAlways, InvKept, PTL

(* After stop the file holds everything queued before it, flushed, and the *)
(* statistics agree with it.                                               *)
THEOREM StopCompletes == Spec => []CompleteAfterStop
BY InvAlways, InvComplete, PTL

(* A replay by a reader that takes the file for BINARY delivers the        *)
(* updates of the file, in order and without a gap, also after a crash, up *)
(* to one with more levels than its record can say, and with shorter       *)
(* symbols where those are too long; any other reader delivers nothing.    *)
THEOREM ReplayIsFaithful == Spec => []ReplayFaithful
BY InvAlways, InvFaithful, PTL
=============================================================================
