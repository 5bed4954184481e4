--------------------------- MODULE CchCacheProofs ---------------------------
(***************************************************************************)
(* CchCache's safety properties, proved for any number of processes, any   *)
(* contents of the sources and both kinds of graph.  The invariant is      *)
(* proved part by part; each lemma names the parts it needs.               *)
(***************************************************************************)
EXTENDS CchCacheInv, SequenceTheorems, TLAPS

USE DEF disk, process, history, vars, Saving, Loading

\* The two lists of files: the line graph reads what it writes.
LEMMA Files ==
  /\ DOMAIN Written = 1 .. Len(Written) /\ Len(Written) \in 1 .. 3
  /\ \A i \in DOMAIN Written : Written[i] \in Arrays
  /\ DOMAIN Needed = 1 .. Len(Needed) /\ Len(Needed) \in 1 .. 3
  /\ \A i \in DOMAIN Needed : Needed[i] \in Arrays
  /\ LineGraph => Needed = Written
<1>1. CASE LineGraph
  BY <1>1 DEF Written, Needed, Arrays
<1>2. CASE ~LineGraph
  BY <1>2 DEF Written, Needed, Arrays
<1> QED
  BY <1>1, <1>2

-----------------------------------------------------------------------------
\* Every variable keeps its type, and a save writes what the cache consists of.
LEMMA TypeStep ==
  ASSUME TypeOK, Begun, Known, [Next]_vars
  PROVE  TypeOK' /\ Begun'
<1> USE DEF TypeOK, Begun
<1>1. ASSUME NEW p \in Loaders, Start(p) PROVE TypeOK' /\ Begun'
  BY <1>1 DEF Start
<1>2. ASSUME NEW p \in Loaders, Check(p) PROVE TypeOK' /\ Begun'
  BY <1>2, EmptySeq DEF Check
<1>3. ASSUME NEW p \in Loaders, LoadFile(p) PROVE TypeOK' /\ Begun'
  BY <1>3, Files, AppendProperties DEF LoadFile, Whole
<1>4. ASSUME NEW p \in Loaders, Accept(p) PROVE TypeOK' /\ Begun'
  BY <1>4 DEF Accept
<1>5. ASSUME NEW p \in Loaders, Reject(p) PROVE TypeOK' /\ Begun'
  BY <1>5, EmptySeq DEF Reject
<1>6. ASSUME NEW p \in Loaders, SaveOpen(p) PROVE TypeOK' /\ Begun'
  BY <1>6, Files DEF SaveOpen
<1>7. ASSUME NEW p \in Loaders, SaveWrite(p) PROVE TypeOK' /\ Begun'
  BY <1>7, Files DEF SaveWrite
<1>8. ASSUME NEW p \in Loaders, Checksum(p) PROVE TypeOK' /\ Begun'
  BY <1>8 DEF Checksum
<1>9. ASSUME NEW p \in Loaders, MetaOpen(p) PROVE TypeOK' /\ Begun'
  BY <1>9 DEF MetaOpen
<1>10. ASSUME NEW p \in Loaders, MetaWrite(p) PROVE TypeOK' /\ Begun'
  BY <1>10 DEF MetaWrite, Known
<1>11. ASSUME NEW p \in Loaders, SaveFail(p) PROVE TypeOK' /\ Begun'
  BY <1>11 DEF SaveFail
<1>12. ASSUME NEW p \in Loaders, Die(p) PROVE TypeOK' /\ Begun'
  BY <1>12, EmptySeq DEF Die
<1>13. ASSUME NEW c \in Contents, Regenerate(c) PROVE TypeOK' /\ Begun'
  BY <1>13 DEF Regenerate
<1>14. CASE UNCHANGED vars
  BY <1>14
<1> QED
  BY <1>1, <1>2, <1>3, <1>4, <1>5, <1>6, <1>7, <1>8, <1>9, <1>10, <1>11, <1>12,
     <1>13, <1>14 DEF Next, LoaderNext

\* Whoever loads has the present sources, until they are replaced under it.
LEMMA OwnStep ==
  ASSUME TypeOK, Own, [Next]_vars
  PROVE  Own'
<1> USE DEF TypeOK, Own
<1>1. ASSUME NEW p \in Loaders, Start(p) PROVE Own'
  BY <1>1 DEF Start
<1>2. ASSUME NEW p \in Loaders, Check(p) PROVE Own'
  BY <1>2 DEF Check
<1>3. ASSUME NEW p \in Loaders, LoadFile(p) PROVE Own'
  BY <1>3 DEF LoadFile
<1>4. ASSUME NEW p \in Loaders, Accept(p) PROVE Own'
  BY <1>4 DEF Accept
<1>5. ASSUME NEW p \in Loaders, Reject(p) PROVE Own'
  BY <1>5 DEF Reject
<1>6. ASSUME NEW p \in Loaders, SaveOpen(p) PROVE Own'
  BY <1>6 DEF SaveOpen
<1>7. ASSUME NEW p \in Loaders, SaveWrite(p) PROVE Own'
  BY <1>7 DEF SaveWrite
<1>8. ASSUME NEW p \in Loaders, Checksum(p) PROVE Own'
  BY <1>8 DEF Checksum
<1>9. ASSUME NEW p \in Loaders, MetaOpen(p) PROVE Own'
  BY <1>9 DEF MetaOpen
<1>10. ASSUME NEW p \in Loaders, MetaWrite(p) PROVE Own'
  BY <1>10 DEF MetaWrite
<1>11. ASSUME NEW p \in Loaders, SaveFail(p) PROVE Own'
  BY <1>11 DEF SaveFail
<1>12. ASSUME NEW p \in Loaders, Die(p) PROVE Own'
  BY <1>12 DEF Die
<1>13. ASSUME NEW c \in Contents, Regenerate(c) PROVE Own'
  BY <1>13 DEF Regenerate
<1>14. CASE UNCHANGED vars
  BY <1>14
<1> QED
  BY <1>1, <1>2, <1>3, <1>4, <1>5, <1>6, <1>7, <1>8, <1>9, <1>10, <1>11, <1>12,
     <1>13, <1>14 DEF Next, LoaderNext

\* Every checksum was taken from sources that were there.
LEMMA KnownStep ==
  ASSUME TypeOK, Known, [Next]_vars
  PROVE  Known'
<1> USE DEF TypeOK, Known
<1>1. ASSUME NEW p \in Loaders, Start(p) PROVE Known'
  BY <1>1 DEF Start
<1>2. ASSUME NEW p \in Loaders, Check(p) PROVE Known'
  BY <1>2 DEF Check
<1>3. ASSUME NEW p \in Loaders, LoadFile(p) PROVE Known'
  BY <1>3 DEF LoadFile
<1>4. ASSUME NEW p \in Loaders, Accept(p) PROVE Known'
  BY <1>4 DEF Accept
<1>5. ASSUME NEW p \in Loaders, Reject(p) PROVE Known'
  BY <1>5 DEF Reject
<1>6. ASSUME NEW p \in Loaders, SaveOpen(p) PROVE Known'
  BY <1>6 DEF SaveOpen
<1>7. ASSUME NEW p \in Loaders, SaveWrite(p) PROVE Known'
  BY <1>7 DEF SaveWrite
<1>8. ASSUME NEW p \in Loaders, Checksum(p) PROVE Known'
  BY <1>8 DEF Checksum
<1>9. ASSUME NEW p \in Loaders, MetaOpen(p) PROVE Known'
  BY <1>9, ContentsAssumption DEF MetaOpen
<1>10. ASSUME NEW p \in Loaders, MetaWrite(p) PROVE Known'
  BY <1>10 DEF MetaWrite
<1>11. ASSUME NEW p \in Loaders, SaveFail(p) PROVE Known'
  BY <1>11 DEF SaveFail
<1>12. ASSUME NEW p \in Loaders, Die(p) PROVE Known'
  BY <1>12 DEF Die
<1>13. ASSUME NEW c \in Contents, Regenerate(c) PROVE Known'
  BY <1>13 DEF Regenerate
<1>14. CASE UNCHANGED vars
  BY <1>14
<1> QED
  BY <1>1, <1>2, <1>3, <1>4, <1>5, <1>6, <1>7, <1>8, <1>9, <1>10, <1>11, <1>12,
     <1>13, <1>14 DEF Next, LoaderNext

\* A save touches the files it writes and no other.
LEMMA UnwrittenStep ==
  ASSUME TypeOK, Begun, Unwritten, [Next]_vars
  PROVE  Unwritten'
<1> USE DEF TypeOK, Begun, Unwritten, Whole
<1>1. ASSUME NEW p \in Loaders, Start(p) PROVE Unwritten'
  BY <1>1, Files DEF Start
<1>2. ASSUME NEW p \in Loaders, Check(p) PROVE Unwritten'
  BY <1>2, Files DEF Check
<1>3. ASSUME NEW p \in Loaders, LoadFile(p) PROVE Unwritten'
  BY <1>3, Files DEF LoadFile
<1>4. ASSUME NEW p \in Loaders, Accept(p) PROVE Unwritten'
  BY <1>4, Files DEF Accept
<1>5. ASSUME NEW p \in Loaders, Reject(p) PROVE Unwritten'
  BY <1>5, Files DEF Reject
<1>6. ASSUME NEW p \in Loaders, SaveOpen(p) PROVE Unwritten'
  BY <1>6, Files DEF SaveOpen
<1>7. ASSUME NEW p \in Loaders, SaveWrite(p) PROVE Unwritten'
  BY <1>7, Files DEF SaveWrite
<1>8. ASSUME NEW p \in Loaders, Checksum(p) PROVE Unwritten'
  BY <1>8, Files DEF Checksum
<1>9. ASSUME NEW p \in Loaders, MetaOpen(p) PROVE Unwritten'
  BY <1>9, Files DEF MetaOpen
<1>10. ASSUME NEW p \in Loaders, MetaWrite(p) PROVE Unwritten'
  BY <1>10, Files DEF MetaWrite
<1>11. ASSUME NEW p \in Loaders, SaveFail(p) PROVE Unwritten'
  BY <1>11, Files DEF SaveFail
<1>12. ASSUME NEW p \in Loaders, Die(p) PROVE Unwritten'
  BY <1>12, Files DEF Die
<1>13. ASSUME NEW c \in Contents, Regenerate(c) PROVE Unwritten'
  BY <1>13, Files DEF Regenerate
<1>14. CASE UNCHANGED vars
  BY <1>14
<1> QED
  BY <1>1, <1>2, <1>3, <1>4, <1>5, <1>6, <1>7, <1>8, <1>9, <1>10, <1>11, <1>12,
     <1>13, <1>14 DEF Next, LoaderNext

\* What a save has written stays, or is torn, or is written again from the same sources.
LEMMA SavedStep ==
  ASSUME TypeOK, Begun, Own, Saved, [Next]_vars
  PROVE  Saved'
<1> USE DEF TypeOK, Begun, Own, Saved, Whole
<1>1. ASSUME NEW p \in Loaders, Start(p) PROVE Saved'
  BY <1>1, Files DEF Start
<1>2. ASSUME NEW p \in Loaders, Check(p) PROVE Saved'
  BY <1>2, Files DEF Check
<1>3. ASSUME NEW p \in Loaders, LoadFile(p) PROVE Saved'
  BY <1>3, Files DEF LoadFile
<1>4. ASSUME NEW p \in Loaders, Accept(p) PROVE Saved'
  BY <1>4, Files DEF Accept
<1>5. ASSUME NEW p \in Loaders, Reject(p) PROVE Saved'
  BY <1>5, Files DEF Reject
<1>6. ASSUME NEW p \in Loaders, SaveOpen(p) PROVE Saved'
  BY <1>6, Files, ContentsAssumption DEF SaveOpen
<1>7. ASSUME NEW p \in Loaders, SaveWrite(p) PROVE Saved'
  BY <1>7, Files DEF SaveWrite
<1>8. ASSUME NEW p \in Loaders, Checksum(p) PROVE Saved'
  BY <1>8, Files DEF Checksum
<1>9. ASSUME NEW p \in Loaders, MetaOpen(p) PROVE Saved'
  BY <1>9, Files DEF MetaOpen
<1>10. ASSUME NEW p \in Loaders, MetaWrite(p) PROVE Saved'
  BY <1>10, Files DEF MetaWrite
<1>11. ASSUME NEW p \in Loaders, SaveFail(p) PROVE Saved'
  BY <1>11, Files DEF SaveFail
<1>12. ASSUME NEW p \in Loaders, Die(p) PROVE Saved'
  BY <1>12, Files DEF Die
<1>13. ASSUME NEW c \in Contents, Regenerate(c) PROVE Saved'
  BY <1>13, Files DEF Regenerate
<1>14. CASE UNCHANGED vars
  BY <1>14
<1> QED
  BY <1>1, <1>2, <1>3, <1>4, <1>5, <1>6, <1>7, <1>8, <1>9, <1>10, <1>11, <1>12,
     <1>13, <1>14 DEF Next, LoaderNext

\* The last save to end undisturbed leaves files of one origin, and says which.
LEMMA CompleteStep ==
  ASSUME TypeOK, Begun, Own, Unwritten, Saved, Complete, [Next]_vars
  PROVE  Complete'
<1> USE DEF TypeOK, Begun, Own, Unwritten, Saved, Complete, Whole
<1>1. ASSUME NEW p \in Loaders, Start(p) PROVE Complete'
  BY <1>1, Files DEF Start
<1>2. ASSUME NEW p \in Loaders, Check(p) PROVE Complete'
  BY <1>2, Files DEF Check
<1>3. ASSUME NEW p \in Loaders, LoadFile(p) PROVE Complete'
  BY <1>3, Files DEF LoadFile
<1>4. ASSUME NEW p \in Loaders, Accept(p) PROVE Complete'
  BY <1>4, Files DEF Accept
<1>5. ASSUME NEW p \in Loaders, Reject(p) PROVE Complete'
  BY <1>5, Files DEF Reject
<1>6. ASSUME NEW p \in Loaders, SaveOpen(p) PROVE Complete'
  BY <1>6, Files DEF SaveOpen
<1>7. ASSUME NEW p \in Loaders, SaveWrite(p) PROVE Complete'
  BY <1>7, Files DEF SaveWrite
<1>8. ASSUME NEW p \in Loaders, Checksum(p) PROVE Complete'
  BY <1>8, Files DEF Checksum
<1>9. ASSUME NEW p \in Loaders, MetaOpen(p) PROVE Complete'
  BY <1>9, Files DEF MetaOpen
<1>10. ASSUME NEW p \in Loaders, MetaWrite(p) PROVE Complete'
  BY <1>10, Files DEF MetaWrite
<1>11. ASSUME NEW p \in Loaders, SaveFail(p) PROVE Complete'
  BY <1>11, Files DEF SaveFail
<1>12. ASSUME NEW p \in Loaders, Die(p) PROVE Complete'
  BY <1>12, Files DEF Die
<1>13. ASSUME NEW c \in Contents, Regenerate(c) PROVE Complete'
  BY <1>13, Files DEF Regenerate
<1>14. CASE UNCHANGED vars
  BY <1>14
<1> QED
  BY <1>1, <1>2, <1>3, <1>4, <1>5, <1>6, <1>7, <1>8, <1>9, <1>10, <1>11, <1>12,
     <1>13, <1>14 DEF Next, LoaderNext

\* Metadata of the present sources is never left beside files of others.
LEMMA VouchedStep ==
  ASSUME TypeOK, Begun, Own, Known, Unwritten, Saved, Complete, Vouched, [Next]_vars
  PROVE  Vouched'
<1> USE DEF TypeOK, Begun, Own, Known, Unwritten, Saved, Complete, Vouched, Calm, FromSources, Whole
<1>1. ASSUME NEW p \in Loaders, Start(p) PROVE Vouched'
  BY <1>1, Files DEF Start
<1>2. ASSUME NEW p \in Loaders, Check(p) PROVE Vouched'
  BY <1>2, Files DEF Check
<1>3. ASSUME NEW p \in Loaders, LoadFile(p) PROVE Vouched'
  BY <1>3, Files DEF LoadFile
<1>4. ASSUME NEW p \in Loaders, Accept(p) PROVE Vouched'
  BY <1>4, Files DEF Accept
<1>5. ASSUME NEW p \in Loaders, Reject(p) PROVE Vouched'
  BY <1>5, Files DEF Reject
<1>6. ASSUME NEW p \in Loaders, SaveOpen(p) PROVE Vouched'
  BY <1>6, Files, ContentsAssumption DEF SaveOpen
<1>7. ASSUME NEW p \in Loaders, SaveWrite(p) PROVE Vouched'
  BY <1>7, Files DEF SaveWrite
<1>8. ASSUME NEW p \in Loaders, Checksum(p) PROVE Vouched'
  BY <1>8, Files DEF Checksum
<1>9. ASSUME NEW p \in Loaders, MetaOpen(p) PROVE Vouched'
  BY <1>9, Files, ContentsAssumption DEF MetaOpen
<1>10. ASSUME NEW p \in Loaders, MetaWrite(p) PROVE Vouched'
  BY <1>10, Files DEF MetaWrite
<1>11. ASSUME NEW p \in Loaders, SaveFail(p) PROVE Vouched'
  BY <1>11, Files DEF SaveFail
<1>12. ASSUME NEW p \in Loaders, Die(p) PROVE Vouched'
  BY <1>12, Files DEF Die
<1>13. ASSUME NEW c \in Contents, Regenerate(c) PROVE Vouched'
  BY <1>13, Files DEF Regenerate
<1>14. CASE UNCHANGED vars
  BY <1>14
<1> QED
  BY <1>1, <1>2, <1>3, <1>4, <1>5, <1>6, <1>7, <1>8, <1>9, <1>10, <1>11, <1>12,
     <1>13, <1>14 DEF Next, LoaderNext

\* Nothing else comes under a process that maps the files.
LEMMA ReadingStep ==
  ASSUME TypeOK, Begun, Own, Vouched, Reading, [Next]_vars
  PROVE  Reading'
<1> USE DEF TypeOK, Begun, Own, Vouched, Reading, Calm, FromSources, Whole
<1>1. ASSUME NEW p \in Loaders, Start(p) PROVE Reading'
  BY <1>1, Files DEF Start
<1>2. ASSUME NEW p \in Loaders, Check(p) PROVE Reading'
  BY <1>2, Files DEF Check
<1>3. ASSUME NEW p \in Loaders, LoadFile(p) PROVE Reading'
  BY <1>3, Files DEF LoadFile
<1>4. ASSUME NEW p \in Loaders, Accept(p) PROVE Reading'
  BY <1>4, Files DEF Accept
<1>5. ASSUME NEW p \in Loaders, Reject(p) PROVE Reading'
  BY <1>5, Files DEF Reject
<1>6. ASSUME NEW p \in Loaders, SaveOpen(p) PROVE Reading'
  BY <1>6, Files, ContentsAssumption DEF SaveOpen
<1>7. ASSUME NEW p \in Loaders, SaveWrite(p) PROVE Reading'
  BY <1>7, Files DEF SaveWrite
<1>8. ASSUME NEW p \in Loaders, Checksum(p) PROVE Reading'
  BY <1>8, Files DEF Checksum
<1>9. ASSUME NEW p \in Loaders, MetaOpen(p) PROVE Reading'
  BY <1>9, Files, ContentsAssumption DEF MetaOpen
<1>10. ASSUME NEW p \in Loaders, MetaWrite(p) PROVE Reading'
  BY <1>10, Files DEF MetaWrite
<1>11. ASSUME NEW p \in Loaders, SaveFail(p) PROVE Reading'
  BY <1>11, Files DEF SaveFail
<1>12. ASSUME NEW p \in Loaders, Die(p) PROVE Reading'
  BY <1>12, Files DEF Die
<1>13. ASSUME NEW c \in Contents, Regenerate(c) PROVE Reading'
  BY <1>13, Files DEF Regenerate
<1>14. CASE UNCHANGED vars
  BY <1>14
<1> QED
  BY <1>1, <1>2, <1>3, <1>4, <1>5, <1>6, <1>7, <1>8, <1>9, <1>10, <1>11, <1>12,
     <1>13, <1>14 DEF Next, LoaderNext

\* What is accepted was read under that promise.
LEMMA RightStep ==
  ASSUME TypeOK, Own, Reading, CacheIsRight, [Next]_vars
  PROVE  CacheIsRight'
<1> USE DEF TypeOK, Own, Reading, CacheIsRight, Calm, AllOf
<1>1. ASSUME NEW p \in Loaders, Start(p) PROVE CacheIsRight'
  BY <1>1 DEF Start
<1>2. ASSUME NEW p \in Loaders, Check(p) PROVE CacheIsRight'
  BY <1>2 DEF Check
<1>3. ASSUME NEW p \in Loaders, LoadFile(p) PROVE CacheIsRight'
  BY <1>3 DEF LoadFile
<1>4. ASSUME NEW p \in Loaders, Accept(p) PROVE CacheIsRight'
  BY <1>4 DEF Accept
<1>5. ASSUME NEW p \in Loaders, Reject(p) PROVE CacheIsRight'
  BY <1>5 DEF Reject
<1>6. ASSUME NEW p \in Loaders, SaveOpen(p) PROVE CacheIsRight'
  BY <1>6 DEF SaveOpen
<1>7. ASSUME NEW p \in Loaders, SaveWrite(p) PROVE CacheIsRight'
  BY <1>7 DEF SaveWrite
<1>8. ASSUME NEW p \in Loaders, Checksum(p) PROVE CacheIsRight'
  BY <1>8 DEF Checksum
<1>9. ASSUME NEW p \in Loaders, MetaOpen(p) PROVE CacheIsRight'
  BY <1>9 DEF MetaOpen
<1>10. ASSUME NEW p \in Loaders, MetaWrite(p) PROVE CacheIsRight'
  BY <1>10 DEF MetaWrite
<1>11. ASSUME NEW p \in Loaders, SaveFail(p) PROVE CacheIsRight'
  BY <1>11 DEF SaveFail
<1>12. ASSUME NEW p \in Loaders, Die(p) PROVE CacheIsRight'
  BY <1>12 DEF Die
<1>13. ASSUME NEW c \in Contents, Regenerate(c) PROVE CacheIsRight'
  BY <1>13 DEF Regenerate
<1>14. CASE UNCHANGED vars
  BY <1>14
<1> QED
  BY <1>1, <1>2, <1>3, <1>4, <1>5, <1>6, <1>7, <1>8, <1>9, <1>10, <1>11, <1>12,
     <1>13, <1>14 DEF Next, LoaderNext

\* Processes that start one at a time load one at a time.
LEMMA AloneStep ==
  ASSUME TypeOK, Alone, [Next]_vars
  PROVE  Alone'
<1> USE DEF TypeOK, Alone
<1>1. ASSUME NEW p \in Loaders, Start(p) PROVE Alone'
  BY <1>1 DEF Start
<1>2. ASSUME NEW p \in Loaders, Check(p) PROVE Alone'
  BY <1>2 DEF Check
<1>3. ASSUME NEW p \in Loaders, LoadFile(p) PROVE Alone'
  BY <1>3 DEF LoadFile
<1>4. ASSUME NEW p \in Loaders, Accept(p) PROVE Alone'
  BY <1>4 DEF Accept
<1>5. ASSUME NEW p \in Loaders, Reject(p) PROVE Alone'
  BY <1>5 DEF Reject
<1>6. ASSUME NEW p \in Loaders, SaveOpen(p) PROVE Alone'
  BY <1>6 DEF SaveOpen
<1>7. ASSUME NEW p \in Loaders, SaveWrite(p) PROVE Alone'
  BY <1>7 DEF SaveWrite
<1>8. ASSUME NEW p \in Loaders, Checksum(p) PROVE Alone'
  BY <1>8 DEF Checksum
<1>9. ASSUME NEW p \in Loaders, MetaOpen(p) PROVE Alone'
  BY <1>9 DEF MetaOpen
<1>10. ASSUME NEW p \in Loaders, MetaWrite(p) PROVE Alone'
  BY <1>10 DEF MetaWrite
<1>11. ASSUME NEW p \in Loaders, SaveFail(p) PROVE Alone'
  BY <1>11 DEF SaveFail
<1>12. ASSUME NEW p \in Loaders, Die(p) PROVE Alone'
  BY <1>12 DEF Die
<1>13. ASSUME NEW c \in Contents, Regenerate(c) PROVE Alone'
  BY <1>13 DEF Regenerate
<1>14. CASE UNCHANGED vars
  BY <1>14
<1> QED
  BY <1>1, <1>2, <1>3, <1>4, <1>5, <1>6, <1>7, <1>8, <1>9, <1>10, <1>11, <1>12,
     <1>13, <1>14 DEF Next, LoaderNext

\* A process that loads alone keeps what it has checked.
LEMMA UndisturbedStep ==
  ASSUME TypeOK, Begun, Own, Reading, Alone, Undisturbed, [Next]_vars
  PROVE  Undisturbed'
<1> USE DEF TypeOK, Begun, Own, Reading, Alone, Undisturbed, Calm, FromSources, Whole
<1>1. ASSUME NEW p \in Loaders, Start(p) PROVE Undisturbed'
  BY <1>1, Files DEF Start
<1>2. ASSUME NEW p \in Loaders, Check(p) PROVE Undisturbed'
  BY <1>2, Files DEF Check
<1>3. ASSUME NEW p \in Loaders, LoadFile(p) PROVE Undisturbed'
  BY <1>3, Files DEF LoadFile
<1>4. ASSUME NEW p \in Loaders, Accept(p) PROVE Undisturbed'
  BY <1>4, Files DEF Accept
<1>5. ASSUME NEW p \in Loaders, Reject(p) PROVE Undisturbed'
  BY <1>5, Files DEF Reject
<1>6. ASSUME NEW p \in Loaders, SaveOpen(p) PROVE Undisturbed'
  BY <1>6, Files, ContentsAssumption DEF SaveOpen
<1>7. ASSUME NEW p \in Loaders, SaveWrite(p) PROVE Undisturbed'
  BY <1>7, Files DEF SaveWrite
<1>8. ASSUME NEW p \in Loaders, Checksum(p) PROVE Undisturbed'
  BY <1>8, Files DEF Checksum
<1>9. ASSUME NEW p \in Loaders, MetaOpen(p) PROVE Undisturbed'
  BY <1>9, Files, ContentsAssumption DEF MetaOpen
<1>10. ASSUME NEW p \in Loaders, MetaWrite(p) PROVE Undisturbed'
  BY <1>10, Files DEF MetaWrite
<1>11. ASSUME NEW p \in Loaders, SaveFail(p) PROVE Undisturbed'
  BY <1>11, Files DEF SaveFail
<1>12. ASSUME NEW p \in Loaders, Die(p) PROVE Undisturbed'
  BY <1>12, Files DEF Die
<1>13. ASSUME NEW c \in Contents, Regenerate(c) PROVE Undisturbed'
  BY <1>13, Files DEF Regenerate
<1>14. CASE UNCHANGED vars
  BY <1>14
<1> QED
  BY <1>1, <1>2, <1>3, <1>4, <1>5, <1>6, <1>7, <1>8, <1>9, <1>10, <1>11, <1>12,
     <1>13, <1>14 DEF Next, LoaderNext

\* While a hierarchy is mapped, every other process hits the cache too.
LEMMA MappedStep ==
  ASSUME TypeOK, Begun, Own, Reading, Alone, Undisturbed, Mapped, [Next]_vars
  PROVE  Mapped'
<1> USE DEF TypeOK, Begun, Own, Reading, Alone, Undisturbed, Mapped, Calm, Whole, AllOf, Serving
<1>1. ASSUME NEW p \in Loaders, Start(p) PROVE Mapped'
  BY <1>1, Files DEF Start
<1>2. ASSUME NEW p \in Loaders, Check(p) PROVE Mapped'
  BY <1>2, Files DEF Check
<1>3. ASSUME NEW p \in Loaders, LoadFile(p) PROVE Mapped'
  BY <1>3, Files DEF LoadFile
<1>4. ASSUME NEW p \in Loaders, Accept(p) PROVE Mapped'
  BY <1>4, Files DEF Accept
<1>5. ASSUME NEW p \in Loaders, Reject(p) PROVE Mapped'
  BY <1>5, Files DEF Reject
<1>6. ASSUME NEW p \in Loaders, SaveOpen(p) PROVE Mapped'
  BY <1>6, Files, ContentsAssumption DEF SaveOpen
<1>7. ASSUME NEW p \in Loaders, SaveWrite(p) PROVE Mapped'
  BY <1>7, Files DEF SaveWrite
<1>8. ASSUME NEW p \in Loaders, Checksum(p) PROVE Mapped'
  BY <1>8, Files DEF Checksum
<1>9. ASSUME NEW p \in Loaders, MetaOpen(p) PROVE Mapped'
  BY <1>9, Files, ContentsAssumption DEF MetaOpen
<1>10. ASSUME NEW p \in Loaders, MetaWrite(p) PROVE Mapped'
  BY <1>10, Files DEF MetaWrite
<1>11. ASSUME NEW p \in Loaders, SaveFail(p) PROVE Mapped'
  BY <1>11, Files DEF SaveFail
<1>12. ASSUME NEW p \in Loaders, Die(p) PROVE Mapped'
  BY <1>12, Files DEF Die
<1>13. ASSUME NEW c \in Contents, Regenerate(c) PROVE Mapped'
  BY <1>13, Files DEF Regenerate
<1>14. CASE UNCHANGED vars
  BY <1>14
<1> QED
  BY <1>1, <1>2, <1>3, <1>4, <1>5, <1>6, <1>7, <1>8, <1>9, <1>10, <1>11, <1>12,
     <1>13, <1>14 DEF Next, LoaderNext

\* A promised hit is kept until the process ends or its sources go.
LEMMA PromiseStep ==
  ASSUME TypeOK, Begun, Alone, Promise, [Next]_vars
  PROVE  Promise'
<1> USE DEF TypeOK, Begun, Alone, Promise, Settled, Whole, AllOf
<1>1. ASSUME NEW p \in Loaders, Start(p) PROVE Promise'
  BY <1>1, Files DEF Start
<1>2. ASSUME NEW p \in Loaders, Check(p) PROVE Promise'
  BY <1>2, Files DEF Check
<1>3. ASSUME NEW p \in Loaders, LoadFile(p) PROVE Promise'
  BY <1>3, Files DEF LoadFile
<1>4. ASSUME NEW p \in Loaders, Accept(p) PROVE Promise'
  BY <1>4, Files DEF Accept
<1>5. ASSUME NEW p \in Loaders, Reject(p) PROVE Promise'
  BY <1>5, Files DEF Reject
<1>6. ASSUME NEW p \in Loaders, SaveOpen(p) PROVE Promise'
  BY <1>6, Files, ContentsAssumption DEF SaveOpen
<1>7. ASSUME NEW p \in Loaders, SaveWrite(p) PROVE Promise'
  BY <1>7, Files DEF SaveWrite
<1>8. ASSUME NEW p \in Loaders, Checksum(p) PROVE Promise'
  BY <1>8, Files DEF Checksum
<1>9. ASSUME NEW p \in Loaders, MetaOpen(p) PROVE Promise'
  BY <1>9, Files, ContentsAssumption DEF MetaOpen
<1>10. ASSUME NEW p \in Loaders, MetaWrite(p) PROVE Promise'
  BY <1>10, Files DEF MetaWrite
<1>11. ASSUME NEW p \in Loaders, SaveFail(p) PROVE Promise'
  BY <1>11, Files DEF SaveFail
<1>12. ASSUME NEW p \in Loaders, Die(p) PROVE Promise'
  BY <1>12, Files DEF Die
<1>13. ASSUME NEW c \in Contents, Regenerate(c) PROVE Promise'
  BY <1>13, Files DEF Regenerate
<1>14. CASE UNCHANGED vars
  BY <1>14
<1> QED
  BY <1>1, <1>2, <1>3, <1>4, <1>5, <1>6, <1>7, <1>8, <1>9, <1>10, <1>11, <1>12,
     <1>13, <1>14 DEF Next, LoaderNext

-----------------------------------------------------------------------------
\* In a directory without a usable cache the invariant holds of every process
\* about to start.
LEMMA InitInv == Init => IInv
<1> SUFFICES ASSUME Init PROVE IInv
  OBVIOUS
<1> USE DEF Init
<1>1. TypeOK
  <2>1. sources \in Contents /\ meta \in Contents \cup {"missing", "torn", "foreign"}
    OBVIOUS
  <2>2. array \in [Arrays -> Contents \cup {"missing", "torn"}]
    OBVIOUS
  <2>3. /\ pc \in [Loaders -> {"idle", "check", "load", "save", "write", "checksum",
                            "meta", "mapped", "built"}]
        /\ {mine, sum} \subseteq [Loaders -> Contents \cup {"none"}]
        /\ at \in [Loaders -> 1 .. 4]
    OBVIOUS
  <2>4. <<>> \in Seq(Contents)
    BY EmptySeq
  <2>5. got \in [Loaders -> Seq(Contents)]
    BY <2>4
  <2>6. /\ past \in SUBSET Contents /\ promised \in SUBSET Loaders
        /\ {recurred, interrupted, rewritten, replaced, overlapped} \subseteq BOOLEAN
    OBVIOUS
  <2> QED
    BY <2>1, <2>2, <2>3, <2>5, <2>6 DEF TypeOK
<1>2. meta \notin Contents /\ \A f \in Arrays : ~Whole(f)
  BY ContentsAssumption DEF Whole
<1>3. Begun /\ Own /\ Known /\ Unwritten /\ Saved
  BY <1>2, Files DEF Begun, Own, Known, Unwritten, Saved, Whole
<1>4. Complete /\ Vouched /\ Reading /\ CacheIsRight
  BY <1>2 DEF Complete, Vouched, FromSources, Reading, CacheIsRight
<1>5. Alone /\ Undisturbed /\ Mapped /\ Promise
  BY DEF Alone, Undisturbed, Mapped, Promise
<1> QED
  BY <1>1, <1>3, <1>4, <1>5 DEF IInv

\* The invariant of the cache: what the metadata vouches for, through every
\* interleaving of loads, saves, crashes and new sources.
THEOREM Invariance == Spec => []IInv
<1>1. IInv /\ [Next]_vars => IInv'
  <2> SUFFICES ASSUME IInv, [Next]_vars PROVE IInv'
    OBVIOUS
  <2> USE DEF IInv
  <2>1. TypeOK' /\ Begun'
    BY TypeStep
  <2>2. Own' /\ Known'
    BY OwnStep, KnownStep
  <2>3. Unwritten' /\ Saved'
    BY UnwrittenStep, SavedStep
  <2>4. Complete' /\ Vouched'
    BY CompleteStep, VouchedStep
  <2>5. Reading' /\ CacheIsRight'
    BY ReadingStep, RightStep
  <2>6. Alone' /\ Undisturbed'
    BY AloneStep, UndisturbedStep
  <2>7. Mapped' /\ Promise'
    BY MappedStep, PromiseStep
  <2> QED
    BY <2>1, <2>2, <2>3, <2>4, <2>5, <2>6, <2>7
<1> QED
  BY InitInv, <1>1, PTL DEF Spec

\* Every variable keeps its type, for any processes and contents.
THEOREM TypeCorrect == Spec => []TypeOK
<1>1. IInv => TypeOK
  BY DEF IInv
<1> QED
  BY Invariance, <1>1, PTL

\* Whatever saves crash, fail or overlap, a hierarchy accepted from the cache
\* is that of the sources the process loaded (load_and_build), as long as no
\* source is replaced under a loading process and none comes back after an
\* interrupted save.
THEOREM AcceptedIsRight == Spec => []CacheIsRight
<1>1. IInv => CacheIsRight
  BY DEF IInv
<1> QED
  BY Invariance, <1>1, PTL

\* With processes started one at a time over fixed sources, no save truncates
\* the files under a mapped hierarchy: every later process finds them valid.
THEOREM MappingsStayWhole == Spec => []MappedStaysWhole
<1>1. IInv => MappedStaysWhole
  BY DEF IInv, Mapped, MappedStaysWhole, Calm
<1> QED
  BY Invariance, <1>1, PTL

\* The line graph's load reads back exactly what its save has written: a
\* process that found a finished save of its sources never builds again.
THEOREM FinishedSavesAreUsed == Spec => []LineGraphCacheHits
<1>1. IInv => LineGraphCacheHits
  BY DEF IInv, Promise, LineGraphCacheHits
<1> QED
  BY Invariance, <1>1, PTL
=============================================================================
