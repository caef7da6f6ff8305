------------------------------ MODULE Recorder ------------------------------
(***************************************************************************)
(* MarketDataRecorder and MarketDataReplayer                               *)
(* (src/persistence/market_data_recorder.cpp).  Producers record updates   *)
(* through a queue, a writer thread moves them to the file, an owner       *)
(* starts and stops the recording, the process may crash, and the file is  *)
(* replayed afterwards.  The queue is the one specified by ConcurrentFifo, *)
(* which LockFreeQueue implements for many producers and one consumer,     *)
(* until it first deletes nodes (after 100 pops).                          *)
(*                                                                         *)
(* The file is the sequence of the updates whose records it holds.         *)
(* Updates are distinct, so that their order can be followed; a header and *)
(* a record are one unit long, whatever the format.  Of the layout of a    *)
(* record there are the two lengths a reader goes by; the pace of a replay *)
(* is left out.  External: what was flushed survives a crash; of the rest  *)
(* any part may, cut in the middle of a record.                            *)
(***************************************************************************)
EXTENDS Naturals, Sequences, FiniteSetsExt

CONSTANTS
  Producers,     \* threads that call record
  MaxRecords,    \* bound: calls of record, of all the producers together
  MaxStarts,     \* bound: recordings
  FlushEvery,    \* batch_flush_size
  Usual,         \* [symbol, levels]: how long an update's symbol is, and how many
                 \* bids or asks it has, whichever are more
  Sizes,         \* update -> the same, for those that differ
  Writer,        \* the writer thread
  NoUpdate,      \* std::nullopt
  Torn           \* what read_binary makes of other bytes than those of one record

Lengths == [symbol : Nat, levels : Nat]

(* Who recorded an update, and with which of its calls.                    *)
Updates == Producers \X (Nat \ {0})

LengthsOf(update) == IF update \in DOMAIN Sizes THEN Sizes[update] ELSE Usual

(* What read_binary makes of a record: an update and its symbol.           *)
Records == [update : Updates, symbol : 0 .. 255]

ASSUME RecorderAssumption ==
  /\ MaxRecords \in Nat /\ MaxStarts \in Nat /\ FlushEvery \in Nat \ {0}
  /\ Usual \in Lengths /\ DOMAIN Sizes \subseteq Updates
  /\ \A update \in DOMAIN Sizes : Sizes[update] \in Lengths
  /\ NoUpdate \notin Updates \union Records /\ Torn \notin Records /\ Torn # NoUpdate

VARIABLES
  recording,     \* recording_
  format,        \* format_ of the recorder
  queue, sawEmpty, out,   \* queue_; out[Writer] is the update in hand
  producer,      \* producer[p]: where p stands in record, and its calls so far
  owner,         \* where the owner stands in start or stop
  starts,        \* calls of start that opened the file
  writer,        \* [pc, batch]: the writer thread and its batch_count
  file,          \* the records written to output_file_
  flushed,       \* how many of them, header included, have been flushed
  total,         \* total_updates_
  bytes,         \* bytes_written_, in units
  up,            \* the process has not crashed
  disk,          \* [size, torn]: the records on the disk; size 0 has no header
  replayer,      \* [pc, format, stream, pos, place]: the replayer, how many records it has
                 \* read from the start, and how it stands to the next: aligned, lost behind
                 \* a record it took for a shorter one, or sought
  delivered,     \* what the callback of the current replayer was given
  pushed,        \* history: every update that was queued
  erased,        \* history: the updates whose records start erased, opening the file again
  promised       \* history: how many updates were queued when stop was called

fifo == <<queue, sawEmpty, out>>
recorder == <<recording, format, owner, starts, writer, file, flushed, total, bytes>>
replay == <<replayer, delivered>>
history == <<pushed, erased, promised>>
vars == <<recorder, fifo, producer, up, disk, replay, history>>

Q == INSTANCE ConcurrentFifo WITH Threads <- {Writer}, Values <- Updates, NoValue <- NoUpdate

Formats == {"BINARY", "JSON", "CSV"}

Closed == [pc |-> "closed", format |-> "other", stream |-> "good", pos |-> 0, place |-> "aligned"]

Init ==
  /\ recording = FALSE /\ format \in Formats
  /\ Q!CInit
  /\ producer = [p \in Producers |-> [pc |-> "idle", calls |-> 0]]
  /\ owner = "idle" /\ starts = 0
  /\ writer = [pc |-> "none", batch |-> 0]
  /\ file = <<>> /\ flushed = 0 /\ total = 0 /\ bytes = 0
  /\ up = TRUE /\ disk = [size |-> 0, torn |-> FALSE]
  /\ replayer = Closed /\ delivered = <<>>
  /\ pushed = <<>> /\ erased = <<>> /\ promised = 0

-----------------------------------------------------------------------------
RecordsMade == MapThenSumSet(LAMBDA p : producer[p].calls, Producers)

(* record: the test of recording_, and then the push.                      *)
record(p) ==
  /\ producer[p].pc = "idle" /\ RecordsMade < MaxRecords
  /\ recording
  /\ producer' = [producer EXCEPT ![p] = [pc |-> "push", calls |-> @.calls + 1]]
  /\ UNCHANGED <<recorder, fifo, disk, replay, history>>

Push(p) ==
  LET update == <<p, producer[p].calls>>
  IN  /\ producer[p].pc = "push"
      /\ Q!CPush(update)
      /\ pushed' = Append(pushed, update)
      /\ producer' = [producer EXCEPT ![p].pc = "idle"]
      /\ UNCHANGED <<recorder, disk, replay, erased, promised>>

-----------------------------------------------------------------------------
(* The owner, one thread.  start refuses a recording that is running;      *)
(* opening the file may fail, and cuts it to nothing otherwise.            *)
start ==
  /\ owner = "idle" /\ replayer.pc = "closed"
  /\ ~recording /\ starts < MaxStarts
  /\ recording' = TRUE
  /\ owner' = "open"
  /\ UNCHANGED <<format, starts, writer, file, flushed, total, bytes, fifo, producer, disk, replay, history>>

OpenFailed ==
  /\ owner = "open"
  /\ recording' = FALSE
  /\ owner' = "idle"
  /\ UNCHANGED <<format, starts, writer, file, flushed, total, bytes, fifo, producer, disk, replay, history>>

(* Mutant: start also makes a new queue.                                   *)
OpenFileNewQueue ==
  /\ owner = "open"
  /\ erased' = erased \o file
  /\ file' = <<>> /\ flushed' = 0 /\ total' = 0 /\ bytes' = 0
  /\ queue' = <<>>
  /\ starts' = starts + 1
  /\ owner' = "spawn"
  /\ UNCHANGED <<recording, format, writer, sawEmpty, out, producer, disk, replay, pushed, promised>>

(* The open file, its header and the statistics, which forget the bytes of *)
(* the header again.                                                       *)
OpenFile ==
  /\ owner = "open"
  /\ erased' = erased \o file
  /\ file' = <<>> /\ flushed' = 0 /\ total' = 0 /\ bytes' = 0
  /\ starts' = starts + 1
  /\ owner' = "spawn"
  /\ UNCHANGED <<recording, format, writer, fifo, producer, disk, replay, pushed, promised>>

Spawn ==
  /\ owner = "spawn"
  /\ writer' = [pc |-> "loop", batch |-> 0]
  /\ owner' = "idle"
  /\ UNCHANGED <<recording, format, starts, file, flushed, total, bytes, fifo, producer, disk, replay, history>>

stop ==
  /\ owner = "idle" /\ recording
  /\ recording' = FALSE
  /\ promised' = Len(pushed)
  /\ owner' = "join"
  /\ UNCHANGED <<format, starts, writer, file, flushed, total, bytes, fifo, producer, disk, replay, pushed, erased>>

Join ==
  /\ owner = "join" /\ writer.pc = "ended"
  /\ writer' = [writer EXCEPT !.pc = "none"]
  /\ owner' = "close"
  /\ UNCHANGED <<recording, format, starts, file, flushed, total, bytes, fifo, producer, disk, replay, history>>

CloseFile ==
  /\ owner = "close"
  /\ flushed' = Len(file) + 1
  /\ disk' = [size |-> Len(file) + 1, torn |-> FALSE]
  /\ owner' = "idle"
  /\ UNCHANGED <<recording, format, starts, writer, file, total, bytes, fifo, producer, replay, history>>

(* flush by the owner: of the stream, not of the queue.  A call that meets *)
(* a write of the writer thread is a data race and is left out.            *)
flush ==
  /\ owner = "idle" /\ writer.pc \notin {"none", "write", "writeRest"}
  /\ flushed' = Len(file) + 1
  /\ UNCHANGED <<recording, format, owner, starts, writer, file, total, bytes, fifo, producer, disk, replay, history>>

(* The answer of get_statistics, without its times and its rate.           *)
get_statistics == [total_updates_recorded |-> total, bytes_written |-> bytes, queue_size |-> 0]

-----------------------------------------------------------------------------
(* The writer thread.                                                      *)
WriterAt(pc) == writer.pc = pc
WriterTo(pc) == writer' = [writer EXCEPT !.pc = pc]
WriterLocal == UNCHANGED <<recording, format, owner, starts, producer, disk, replay, history>>

(* Mutant: the thread leaves without draining the queue.                   *)
LoopTestNoDrain ==
  /\ WriterAt("loop")
  /\ WriterTo(IF recording THEN "pop" ELSE "flush")
  /\ WriterLocal /\ UNCHANGED <<fifo, file, flushed, total, bytes>>

(* Mutant: the thread looks at recording_ only when it had nothing to do.  *)
LoopTestForever ==
  /\ WriterAt("loop")
  /\ WriterTo("pop")
  /\ WriterLocal /\ UNCHANGED <<fifo, file, flushed, total, bytes>>

LoopTest ==
  /\ WriterAt("loop")
  /\ WriterTo(IF recording THEN "pop" ELSE "drain")
  /\ WriterLocal /\ UNCHANGED <<fifo, file, flushed, total, bytes>>

(* queue_->pop(), which may answer that the queue was empty after an       *)
(* update has come; the loop then sleeps, and the drain ends.              *)
Pop ==
  /\ writer.pc \in {"pop", "drain"} /\ sawEmpty = {}
  /\ Q!CPop(Writer)
  /\ WriterTo(IF WriterAt("pop") THEN "write" ELSE "writeRest")
  /\ WriterLocal /\ UNCHANGED <<file, flushed, total, bytes>>

SeeEmpty ==
  /\ writer.pc \in {"pop", "drain"} /\ sawEmpty = {}
  /\ Q!CSeeEmpty(Writer)
  /\ WriterLocal /\ UNCHANGED <<writer, file, flushed, total, bytes>>

NothingToPop ==
  /\ writer.pc \in {"pop", "drain"}
  /\ Q!CNothing(Writer)
  /\ WriterTo(IF WriterAt("pop") THEN "loop" ELSE "flush")
  /\ WriterLocal /\ UNCHANGED <<file, flushed, total, bytes>>

(* The lengths a BINARY record states, of one and of two bytes.  Of the    *)
(* symbol so many characters are written, of the levels all.               *)
StatedSymbol(update) == LengthsOf(update).symbol % 256
StatedLevels(update) == LengthsOf(update).levels % 65536

(* What a write adds to bytes_written_: write_binary what it has written,  *)
(* write_json and write_csv the position of the stream, which is the size  *)
(* of the whole file.                                                      *)
Header == IF format = "JSON" THEN 0 ELSE 1

write_binary == Len(file') - Len(file)
write_json == Header + Len(file')
write_csv == Header + Len(file')

WriteRecord ==
  /\ file' = Append(file, out[Writer])
  /\ bytes' = bytes + CASE format = "BINARY" -> write_binary
                        [] format = "JSON" -> write_json
                        [] format = "CSV" -> write_csv

Write ==
  /\ WriterAt("write")
  /\ WriteRecord
  /\ WriterTo("count")
  /\ WriterLocal /\ UNCHANGED <<fifo, flushed, total>>

Count ==
  LET full == writer.batch + 1 >= FlushEvery
  IN  /\ WriterAt("count")
      /\ total' = total + 1
      /\ writer' = [pc |-> "loop", batch |-> IF full THEN 0 ELSE writer.batch + 1]
      /\ flushed' = IF full THEN Len(file) + 1 ELSE flushed
      /\ WriterLocal /\ UNCHANGED <<fifo, file, bytes>>

WriteRest ==
  /\ WriterAt("writeRest")
  /\ WriteRecord
  /\ total' = total + 1
  /\ WriterTo("drain")
  /\ WriterLocal /\ UNCHANGED <<fifo, flushed>>

FinalFlush ==
  /\ WriterAt("flush")
  /\ flushed' = Len(file) + 1
  /\ WriterTo("ended")
  /\ WriterLocal /\ UNCHANGED <<fifo, file, total, bytes>>

WriterStep ==
  LoopTest \/ Pop \/ SeeEmpty \/ NothingToPop \/ Write \/ Count \/ WriteRest \/ FinalFlush

-----------------------------------------------------------------------------
(* A crash leaves at least what was flushed, and maybe part of a record.   *)
crash ==
  /\ starts > 0 /\ replayer.pc = "closed"
  /\ up' = FALSE
  /\ \E size \in flushed .. Len(file) + 1, torn \in BOOLEAN :
       /\ torn => size <= Len(file)
       /\ disk' = [size |-> size, torn |-> torn]
  /\ UNCHANGED <<recorder, fifo, producer, replay, history>>

(* The replayer reads a file that no recording has open.  Its format_ is   *)
(* read before it was ever set: unless it happens to be BINARY the header  *)
(* is not looked at.  If it does, the magic number must be there, which    *)
(* only a BINARY file has.                                                 *)
Readable == ~up \/ (owner = "idle" /\ ~recording /\ starts > 0)

read_header(f) == f = "BINARY" => format = "BINARY" /\ disk.size > 0

open ==
  /\ Readable /\ replayer.pc = "closed"
  /\ \E f \in {"BINARY", "other"} :
       read_header(f) /\ replayer' = [Closed EXCEPT !.pc = "open", !.format = f]
  /\ delivered' = <<>>
  /\ UNCHANGED <<recorder, fifo, producer, disk, history>>

(* The update of a whole record: with the symbol that was written, and,    *)
(* when there are more levels than stated, with what those bytes yield.    *)
Decoded(update) ==
  IF StatedLevels(update) < LengthsOf(update).levels THEN Torn
  ELSE [update |-> update, symbol |-> StatedSymbol(update)]

(* Mutant: the stream is left behind the first record.                     *)
ReadFromSecond ==
  IF replayer.pos + 2 < disk.size THEN {Decoded(file[replayer.pos + 2])}
  ELSE IF disk.torn THEN {Torn, NoUpdate}
  ELSE {NoUpdate}

(* read_binary looks for the end of the file after the timestamp only: a   *)
(* record cut behind it is delivered with whatever its fields then hold,   *)
(* and so is every read of a stream that has failed without an end.        *)
read_binary ==
  CASE replayer.stream = "end" -> {NoUpdate}
    [] replayer.stream = "failed" -> {Torn}
    [] OTHER ->
         IF replayer.place # "aligned" THEN {Torn, NoUpdate}
         ELSE IF replayer.pos + 1 < disk.size THEN {Decoded(file[replayer.pos + 1])}
         ELSE IF disk.torn THEN {Torn, NoUpdate}
         ELSE {NoUpdate}

(* read_json and read_csv are not implemented, and a format that is none   *)
(* of the three has no reader.                                             *)
read_text == {NoUpdate}

(* One round of replay.  Past the end of the file the stream stays there;  *)
(* what a stream that is not aligned delivers is not followed.             *)
replay_round ==
  /\ replayer.pc \in {"open", "replaying"}
  /\ \E update \in IF replayer.format = "BINARY" THEN read_binary ELSE read_text :
       \/ /\ update = NoUpdate
          /\ replayer' = [replayer EXCEPT !.pc = "open",
                                          !.stream = IF replayer.format = "BINARY" THEN "end" ELSE @]
          /\ UNCHANGED delivered
       \/ /\ update # NoUpdate /\ replayer.place = "aligned"
          /\ delivered' = Append(delivered, update)
          /\ replayer' =
               LET whole == replayer.pos + 1 < disk.size
               IN  [replayer EXCEPT !.pc = "replaying", !.pos = @ + 1,
                                    !.stream = IF whole THEN @ ELSE "end",
                                    !.place = IF whole /\ update = Torn THEN "lost" ELSE @]
       \/ /\ update # NoUpdate /\ replayer.place # "aligned"
          /\ replayer' = [replayer EXCEPT !.pc = "replaying"]
          /\ UNCHANGED delivered
  /\ UNCHANGED <<recorder, fifo, producer, disk, history>>

(* seekg(16): inside the first record.  It takes the end-of-file mark from *)
(* a stream but not the failure, and then does not move it.                *)
SeekedTo16 == [replayer EXCEPT !.place = "sought", !.stream = IF @ = "good" THEN "good" ELSE "failed"]

(* replay_from and replay_range decode from there until a time stamp is    *)
(* late enough and go on with replay, or reach the end; in a failed stream *)
(* they may never come to either.                                          *)
replay_from ==
  /\ replayer.pc = "open"
  /\ \/ replayer' = [SeekedTo16 EXCEPT !.pc = "replaying"]
     \/ /\ SeekedTo16.stream = "good"
        /\ replayer' = [SeekedTo16 EXCEPT !.stream = "end"]
     \/ /\ SeekedTo16.stream = "failed"
        /\ replayer' = [SeekedTo16 EXCEPT !.pc = "stuck"]
  /\ UNCHANGED <<recorder, fifo, producer, disk, delivered, history>>

replay_range == replay_from

(* get_file_info seeks, decodes to the end of the file and puts the stream *)
(* back where it was; a stream at its end it never leaves again.           *)
get_file_info ==
  /\ replayer.pc = "open"
  /\ replayer' = IF replayer.stream = "good" THEN replayer ELSE [SeekedTo16 EXCEPT !.pc = "stuck"]
  /\ UNCHANGED <<recorder, fifo, producer, disk, delivered, history>>

(* The replayer's stop ends the loop; a later replay goes on from there.   *)
StopReplay ==
  /\ replayer.pc = "replaying"
  /\ replayer' = [replayer EXCEPT !.pc = "open"]
  /\ UNCHANGED <<recorder, fifo, producer, disk, delivered, history>>

close ==
  /\ replayer.pc = "open"
  /\ replayer' = Closed
  /\ UNCHANGED <<recorder, fifo, producer, disk, delivered, history>>

-----------------------------------------------------------------------------
OwnerStep == OpenFailed \/ OpenFile \/ Spawn \/ Join \/ CloseFile

Running ==
  \/ \E p \in Producers : record(p) \/ Push(p)
  \/ start \/ stop \/ flush \/ OwnerStep \/ WriterStep

Next ==
  \/ up /\ Running /\ UNCHANGED up
  \/ up /\ crash
  \/ (open \/ replay_round \/ StopReplay \/ replay_range \/ get_file_info \/ close) /\ UNCHANGED up

Spec == Init /\ [][Next]_vars

(* The threads run.  Nobody has to call anything.                          *)
FairSpec ==
  /\ Spec
  /\ WF_vars(up /\ OwnerStep /\ UNCHANGED up)
  /\ WF_vars(up /\ WriterStep /\ UNCHANGED up)

-----------------------------------------------------------------------------
(* Properties.                                                             *)

(* Every variable has its type.                                            *)
TypeOK ==
  LET size == Len(pushed)
  IN  /\ recording \in BOOLEAN /\ up \in BOOLEAN
      /\ \A s \in {queue, file, pushed, erased} : \A i \in DOMAIN s : s[i] \in Updates
      /\ out[Writer] \in Updates \union {NoUpdate} /\ sawEmpty \subseteq {Writer}
      /\ \A p \in Producers : producer[p].pc \in {"idle", "push"} /\ producer[p].calls \in Nat
      /\ owner \in {"idle", "open", "spawn", "join", "close"} /\ starts \in 0 .. MaxStarts
      /\ writer.pc \in {"none", "loop", "pop", "write", "count", "drain", "writeRest", "flush", "ended"}
      /\ writer.batch \in 0 .. FlushEvery - 1
      /\ format \in Formats /\ replayer.stream \in {"good", "end", "failed"}
      /\ replayer.pc \in {"closed", "open", "replaying", "stuck"}
      /\ flushed \in 0 .. size + 1 /\ total \in 0 .. size /\ disk.size \in 0 .. size + 1
      /\ replayer.place \in {"aligned", "lost", "sought"}
      /\ \A i \in DOMAIN delivered : delivered[i] \in Records \union {Torn}

(* Every update that was queued is, once and in the order of the queue,    *)
(* among the records start erased, in the file, in the writer's hand or in *)
(* the queue, whatever number of times the recording was stopped and       *)
(* started around it.                                                      *)
InHand == IF writer.pc \in {"write", "writeRest"} THEN <<out[Writer]>> ELSE <<>>

WrittenInOrder == pushed = erased \o file \o InHand \o queue

(* The counters follow the file, at every step of every thread; the bytes  *)
(* do so for a BINARY file, and are those of its records.                  *)
CountersSound ==
  /\ total = IF writer.pc = "count" THEN Len(file) - 1 ELSE Len(file)
  /\ format = "BINARY" => bytes = Len(file)
  /\ flushed <= Len(file) + 1

(* The recorder itself neither loses nor repeats an update it has          *)
(* accepted: only a start takes records away, those of the recordings      *)
(* before it.  Its counters agree with the file as it is.                  *)
RecordsKept == TypeOK /\ WrittenInOrder /\ CountersSound

(* When stop has returned, everything that was queued before it was called *)
(* is in the file and has been flushed, but for what start erased in it    *)
(* with the recordings before; and the statistics count the file:          *)
(* its records, and its bytes if it is a BINARY file, without the header.  *)
CompleteAfterStop ==
  owner = "idle" /\ ~recording /\ starts > 0 =>
    /\ Len(erased) + Len(file) >= promised
    /\ flushed = Len(file) + 1
    /\ get_statistics.total_updates_recorded = Len(file)
    /\ format = "BINARY" => get_statistics.bytes_written = Len(file)

Miscounted(update) == LengthsOf(update).levels > 65535

(* What a replay that was not sent elsewhere in the file has delivered, in *)
(* a reader that happens to take the file for BINARY, are the updates of   *)
(* the file from its start, in order and without a gap; when the file has  *)
(* ended, all that was flushed, also after a crash.  A symbol of more than *)
(* 255 characters has lost some.  After an update of more than 65535 bids  *)
(* or asks, which comes out as another, the reader no longer knows where   *)
(* it is; after a crash the very last update may be a torn one.  In any    *)
(* other reader, and of the other formats, a replay delivers nothing.      *)
ReplayFaithful ==
  replayer.pc # "closed" =>
    /\ replayer.format # "BINARY" \/ format # "BINARY" => delivered = <<>>
    /\ \A i \in DOMAIN delivered :
         /\ i <= Len(file)
         /\ delivered[i] # Torn =>
              /\ delivered[i].update = file[i] /\ ~Miscounted(file[i])
              /\ LengthsOf(file[i]).symbol < 256 =>
                   delivered[i].symbol = LengthsOf(file[i]).symbol
         /\ delivered[i] = Torn => i = Len(delivered) /\ (~up \/ Miscounted(file[i]))
    /\ replayer.format = "BINARY" /\ replayer.stream = "end" =>
         \/ Len(delivered) + 1 >= flushed
         \/ replayer.place = "sought"
         \/ delivered # <<>> /\ Miscounted(file[Len(delivered)])

(* stop returns: the writer cannot be kept draining, for a producer adds   *)
(* at most the update it was about to queue.                               *)
StopReturns == owner = "join" ~> (owner = "idle" \/ ~up)
=============================================================================
