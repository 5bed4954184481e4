---------------------------- MODULE CchCacheInv ----------------------------
(***************************************************************************)
(* The inductive invariant behind CchCache's properties, as a conjunction  *)
(* of named parts.  TLC checks it with the properties; CchCacheProofs      *)
(* proves it for any processes and contents.                               *)
(***************************************************************************)
EXTENDS CchCache

\* What CacheIsRight asks of the operator.
Calm == ~rewritten /\ ~(interrupted /\ recurred)

FromSources == \A f \in Arrays : Whole(f) => array[f] = sources

\* A process loads what was there once, and writes one of the cache's files.
Begun ==
  \A p \in Loaders :
    /\ Loading(p) => mine[p] \in Contents
    /\ pc[p] = "write" => at[p] \in DOMAIN Written

\* While no source is replaced under a loading process, whatever a process
\* is about to write is of the present sources.
Own ==
  ~rewritten => \A p \in Loaders :
    /\ Loading(p) => mine[p] = sources
    /\ pc[p] \in {"checksum", "meta"} => sum[p] = sources

\* A checksum is of sources that were there once; without a recurrence the
\* present ones were not.
Known ==
  /\ meta \in Contents => meta \in past \cup {sources}
  /\ \A p \in Loaders : pc[p] \in {"checksum", "meta"} => sum[p] \in past \cup {sources}
  /\ ~recurred => sources \notin past

\* A file that no save writes never holds anything of use.
Unwritten ==
  \A f \in Arrays : (\A i \in DOMAIN Written : Written[i] # f) => ~Whole(f)

\* What a save has behind it is of the present sources, or torn by another.
Saved ==
  ~rewritten => \A p \in Loaders : \A i \in DOMAIN Written :
    /\ \/ pc[p] \in {"save", "write"} /\ i < at[p]
       \/ pc[p] \in {"checksum", "meta"}
    /\ Whole(Written[i])
    => array[Written[i]] = sources

\* With no save cut short and none running, the metadata speaks for the files.
Complete ==
  ( /\ ~interrupted /\ ~rewritten /\ meta \in Contents
    /\ \A p \in Loaders : ~Saving(p) )
  => \A f \in Arrays : Whole(f) => array[f] = meta

\* Metadata of the present sources vouches for the files, during saves too.
Vouched == Calm /\ meta = sources => FromSources

\* A process that maps files maps files of the present sources.
Reading ==
  Calm => \A p \in Loaders : pc[p] = "load" =>
    /\ FromSources
    /\ \A i \in DOMAIN got[p] : got[p][i] = sources

Alone == ~overlapped => \A p, q \in Loaders : Loading(p) /\ Loading(q) => p = q

\* A process that loads alone keeps the metadata and the files it mapped.
Undisturbed ==
  ~overlapped /\ Calm => \A p \in Loaders : pc[p] = "load" =>
    /\ meta = sources
    /\ \A i \in DOMAIN Needed : i < at[p] => array[Needed[i]] = sources

\* While a hierarchy is mapped, whoever starts finds the cache valid.
Mapped ==
  ~overlapped /\ Calm /\ ~replaced => \A p \in Loaders : pc[p] = "mapped" =>
    /\ mine[p] = sources /\ meta = sources
    /\ \A i \in DOMAIN Needed : array[Needed[i]] = sources
    /\ \A q \in Loaders : ~Saving(q)

\* A promised hit is still due while the process checks and maps.
Promise ==
  LineGraph /\ ~overlapped => \A p \in promised :
    /\ pc[p] \in {"check", "load", "mapped"}
    /\ pc[p] \in {"check", "load"} =>
         /\ mine[p] = sources /\ meta = sources
         /\ \A i \in DOMAIN Written : array[Written[i]] = sources
    /\ pc[p] = "load" => \A i \in DOMAIN got[p] : got[p][i] = sources

IInv ==
  /\ TypeOK /\ Begun /\ Own /\ Known /\ Unwritten /\ Saved /\ Complete
  /\ Vouched /\ Reading /\ CacheIsRight /\ Alone /\ Undisturbed /\ Mapped /\ Promise
=============================================================================
