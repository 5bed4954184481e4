----------------------------- MODULE AsyncReader -----------------------------
(***************************************************************************)
(* BufferedAsynchronousReader: a worker thread fills a ring of five blocks *)
(* from a byte source, the main thread takes bytes out of it.  A sixth     *)
(* block mirrors the first, so that a read across the end of the ring is   *)
(* contiguous.  A byte is its position in the source; what is not yet      *)
(* written, or being written, is Junk.                                     *)
(***************************************************************************)
EXTENDS Integers

CONSTANTS BlockSize, StreamLength, SourceMayFail

ASSUME SizeAssumption == BlockSize \in Nat \ {0} /\ StreamLength \in Nat
ASSUME FailAssumption == SourceMayFail \in BOOLEAN

BlocksPerBuffer == 5
RingSize == BlocksPerBuffer * BlockSize
Cells == 0 .. RingSize + BlockSize - 1
Junk == -1

VARIABLES
  buffer,               \* the ring and its mirror block
  dataBegin, dataEnd,   \* where the next read starts, where the next block goes
  eof, termination, failure,   \* the three flags
  worker,   \* "check", "asleep", "source", "commit" or "ended"
  filled,   \* how many bytes the source returned to the worker
  main,     \* "idle", "check", "falling", "asleep", "joining" or "gone"
  size,     \* the size of the read in progress
  given,    \* what the last read returned: its start and size, or its outcome
  produced, consumed    \* bytes taken from the source, bytes handed out

ringVars == <<buffer, dataBegin, dataEnd, produced>>
flagVars == <<eof, termination, failure>>
readerVars == <<ringVars, flagVars, worker, filled, main, size, given, consumed>>

Held == IF dataBegin <= dataEnd THEN dataEnd - dataBegin
        ELSE RingSize - (dataBegin - dataEnd)
Wrap(x) == IF x >= RingSize THEN x - RingSize ELSE x

\* Between its predicate and its sleep the main thread keeps the mutex.
LockFree == main # "falling"
\* A fault: the notification is forgotten.
MainNotWoken == main' = main
\* A notification wakes a sleeper only: it is lost on a thread about to sleep.
WakeMain == main' = IF main = "asleep" THEN "check" ELSE main
WakeWorker == worker' = IF worker = "asleep" THEN "check" ELSE worker

Nothing == [outcome |-> "nothing", start |-> 0, size |-> 0]

ReaderInit ==
  /\ buffer = [c \in Cells |-> Junk]
  /\ dataBegin = 0 /\ dataEnd = 0 /\ produced = 0 /\ consumed = 0
  /\ eof = FALSE /\ termination = FALSE /\ failure = FALSE
  /\ worker = "check" /\ filled = 0
  /\ main = "idle" /\ size = 0 /\ given = Nothing

(***************************************************************************)
(* The worker thread.                                                      *)
(***************************************************************************)
\* With two free blocks the source is called, without the mutex.  It may write
\* a whole block from dataEnd on, whatever it returns.
WorkerChecks ==
  /\ worker = "check" /\ LockFree
  /\ worker' = IF termination THEN "ended"
               ELSE IF RingSize - Held >= 2 * BlockSize THEN "source" ELSE "asleep"
  /\ buffer' = IF worker' # "source" THEN buffer
               ELSE [c \in Cells |-> IF c \in dataEnd .. dataEnd + BlockSize - 1 THEN Junk ELSE buffer[c]]
  /\ UNCHANGED <<dataBegin, dataEnd, produced, flagVars, filled, main, size, given, consumed>>

\* byte_source returns n bytes, none only at the end of the stream.
SourceReturns(n) ==
  /\ worker = "source" /\ worker' = "commit"
  /\ n <= BlockSize /\ produced + n <= StreamLength
  /\ n = 0 => produced = StreamLength
  /\ filled' = n
  /\ buffer' = [c \in Cells |-> IF c \in dataEnd .. dataEnd + n - 1 THEN produced + (c - dataEnd) ELSE buffer[c]]
  /\ UNCHANGED <<dataBegin, dataEnd, produced, flagVars, main, size, given, consumed>>

\* byte_source throws: the catch block stores and notifies without the mutex.
SourceFails ==
  /\ worker = "source" /\ SourceMayFail
  /\ failure' = TRUE /\ worker' = "ended" /\ WakeMain
  /\ UNCHANGED <<ringVars, eof, termination, filled, size, given, consumed>>

\* The two copies: what ran into the mirror block goes to the front of the
\* ring, what went into the first block is repeated in the mirror.
NewEnd == Wrap(dataEnd + filled)
CopyToFront(b) ==
  IF dataEnd + filled < RingSize THEN b
  ELSE [c \in Cells |-> IF c < NewEnd THEN b[RingSize + c] ELSE b[c]]
MirroredBytes == IF NewEnd < BlockSize THEN filled ELSE BlockSize - dataEnd
\* A fault: a block that is short of the mirror's end is not repeated.
CopyFullToMirror(b) ==
  IF dataEnd >= BlockSize \/ NewEnd < BlockSize THEN b
  ELSE [c \in Cells |-> IF c \in RingSize + dataEnd .. RingSize + dataEnd + MirroredBytes - 1
                        THEN b[c - RingSize] ELSE b[c]]
CopyToMirror(b) ==
  IF dataEnd >= BlockSize THEN b
  ELSE [c \in Cells |-> IF c \in RingSize + dataEnd .. RingSize + dataEnd + MirroredBytes - 1
                        THEN b[c - RingSize] ELSE b[c]]

WorkerCommits ==
  /\ worker = "commit" /\ LockFree
  /\ IF termination
     THEN worker' = "ended" /\ UNCHANGED <<ringVars, eof, main>>
     ELSE IF filled = 0
     THEN worker' = "ended" /\ eof' = TRUE /\ WakeMain /\ UNCHANGED ringVars
     ELSE /\ buffer' = CopyToMirror(CopyToFront(buffer))
          /\ dataEnd' = NewEnd /\ produced' = produced + filled
          /\ worker' = "check" /\ WakeMain
          /\ UNCHANGED <<dataBegin, eof>>
  /\ UNCHANGED <<termination, failure, filled, size, given, consumed>>

(***************************************************************************)
(* The main thread.                                                        *)
(***************************************************************************)
\* read(s) of at most a block: the caller gives up the bytes it held.
Read(s) ==
  /\ main = "idle" /\ main' = "check"
  /\ size' = s /\ given' = Nothing
  /\ UNCHANGED <<ringVars, flagVars, worker, filled, consumed>>

MainChecks ==
  /\ main = "check"
  /\ IF failure
     THEN /\ main' = "idle" /\ eof' = TRUE
          /\ given' = [outcome |-> "threw", start |-> 0, size |-> 0]
          /\ UNCHANGED <<dataBegin, consumed, worker>>
     ELSE IF Held >= size
     THEN /\ main' = "idle"
          /\ given' = [outcome |-> "bytes", start |-> dataBegin, size |-> size]
          /\ dataBegin' = Wrap(dataBegin + size) /\ consumed' = consumed + size
          /\ WakeWorker
          /\ UNCHANGED eof
     ELSE IF eof
     THEN /\ main' = "idle"
          /\ given' = [outcome |-> "end", start |-> 0, size |-> 0]
          /\ UNCHANGED <<dataBegin, consumed, worker, eof>>
     ELSE /\ main' = "falling"
          /\ UNCHANGED <<dataBegin, consumed, worker, eof, given>>
  /\ UNCHANGED <<buffer, dataEnd, produced, termination, failure, filled, size>>

\* The wait releases the mutex and sleeps.
MainSleeps ==
  /\ main = "falling" /\ main' = "asleep"
  /\ UNCHANGED <<ringVars, flagVars, worker, filled, size, given, consumed>>

\* The destructor asks the worker to end, then joins it and frees the buffer.
Destroy ==
  /\ main = "idle" /\ main' = "joining"
  /\ termination' = TRUE /\ given' = Nothing
  /\ WakeWorker
  /\ UNCHANGED <<ringVars, eof, failure, filled, size, consumed>>
Joined ==
  /\ main = "joining" /\ worker = "ended" /\ main' = "gone"
  /\ UNCHANGED <<ringVars, flagVars, worker, filled, size, given, consumed>>

\* A condition variable may also return without a notification.
SpuriousWakeup ==
  /\ \/ main = "asleep" /\ main' = "check" /\ UNCHANGED worker
     \/ worker = "asleep" /\ worker' = "check" /\ UNCHANGED main
  /\ UNCHANGED <<ringVars, flagVars, filled, size, given, consumed>>

SourceAnswers == (\E n \in 0 .. BlockSize : SourceReturns(n)) \/ SourceFails
WorkerStep == WorkerChecks \/ SourceAnswers \/ WorkerCommits
MainStep == MainChecks \/ MainSleeps \/ Joined
CallerStep == (\E s \in 0 .. BlockSize : Read(s)) \/ Destroy
ReaderNext == WorkerStep \/ MainStep \/ CallerStep \/ SpuriousWakeup

ReaderSpec == ReaderInit /\ [][ReaderNext]_readerVars
\* Both threads run, the source answers every call, and the worker gets a mutex
\* that the main thread keeps releasing.
FairReaderSpec == ReaderSpec /\ SF_readerVars(WorkerStep) /\ WF_readerVars(MainStep)

(***************************************************************************)
(* Properties.                                                             *)
(***************************************************************************)
Givens == [outcome : {"nothing", "bytes", "end", "threw"}, start : Nat, size : Nat]
TypeOK ==
  /\ buffer \in [Cells -> Int]
  /\ dataBegin \in 0 .. RingSize - 1 /\ dataEnd \in 0 .. RingSize - 1
  /\ eof \in BOOLEAN /\ termination \in BOOLEAN /\ failure \in BOOLEAN
  /\ worker \in {"check", "asleep", "source", "commit", "ended"}
  /\ main \in {"idle", "check", "falling", "asleep", "joining", "gone"}
  /\ filled \in 0 .. BlockSize /\ size \in 0 .. BlockSize
  /\ given \in Givens
  /\ produced \in Nat /\ consumed \in Nat

\* What the caller sees through the pointer it was given, at any later time.
Handed == [outcome |-> given.outcome, bytes |-> [i \in 0 .. given.size - 1 |-> buffer[given.start + i]]]
Phase == IF main = "idle" THEN "idle" ELSE IF main \in {"joining", "gone"} THEN "gone" ELSE "asked"
Stream == INSTANCE ByteStream WITH
  Sizes <- 0 .. BlockSize,
  phase <- Phase,
  handed <- Handed

\* Through the pointer of a read the caller finds the next bytes of the
\* source, across the end of the ring, and until it reads again, although the
\* worker keeps writing; a read reports the end only when too little is left.
ImplementsByteStream == Stream!Spec

\* Every call returns: a read, unless the source failed in that window, and the
\* destructor, since the worker sees its request wherever it is.
EveryCallReturns ==
  /\ main = "check" ~> (main = "idle" \/ (main = "asleep" /\ failure))
  /\ main = "joining" ~> main = "gone"

(***************************************************************************)
(* The inductive invariant behind ImplementsByteStream.                    *)
(***************************************************************************)
\* What the ring holds is what was produced and not yet consumed, and at least
\* one block is free, two while the source writes.
Counted ==
  /\ Held = produced - consumed /\ produced <= StreamLength
  /\ Held <= RingSize - BlockSize
  /\ worker \in {"source", "commit"} => Held <= RingSize - 2 * BlockSize
\* The i-th byte held is in the ring, and in the mirror if its cell has one.
Stored ==
  \A i \in 0 .. Held - 1 :
    /\ buffer[Wrap(dataBegin + i)] = consumed + i
    /\ Wrap(dataBegin + i) < BlockSize => buffer[RingSize + Wrap(dataBegin + i)] = consumed + i
\* The bytes handed out are where the caller was told, just before dataBegin.
HandedKept ==
  IF given.outcome # "bytes" THEN given.size = 0
  ELSE
    /\ given.start < RingSize /\ given.size <= BlockSize
    /\ Wrap(given.start + given.size) = dataBegin
    /\ \A i \in 0 .. given.size - 1 : buffer[given.start + i] = consumed - given.size + i
\* What the source returned waits behind dataEnd.
Arrived ==
  worker = "commit" =>
    /\ produced + filled <= StreamLength
    /\ filled = 0 => produced = StreamLength
    /\ \A i \in 0 .. filled - 1 : buffer[dataEnd + i] = produced + i
Ended == /\ eof => failure \/ produced = StreamLength
         /\ failure => SourceMayFail
Quiet == main # "idle" => given = Nothing
IInv == TypeOK /\ Counted /\ Stored /\ HandedKept /\ Arrived /\ Ended /\ Quiet
=============================================================================
