------------------------------ MODULE CchCache ------------------------------
(***************************************************************************)
(* The on-disk cache of the contraction hierarchy: load_and_build of       *)
(* hanoi-core (cch.rs, line_graph.rs) over cch_cache.rs, run by any number *)
(* of processes (server, CLI, benchmark) on one graph directory, while the *)
(* pipeline replaces the directory's source files.                         *)
(*                                                                         *)
(* Grain: one step per file opened, written or read, because a process may *)
(* die, fail or be overtaken between any two.  The content of a file is    *)
(* abstracted to the sources it was computed from.                         *)
(***************************************************************************)
EXTENDS Naturals, Sequences, FiniteSets

CONSTANTS
  Loaders,   \* processes that load this graph directory
  Contents,  \* what first_out, head and cch_perm may hold, taken together
  LineGraph  \* TRUE: DirectedCCH of the line graph.  FALSE: CCH of the graph

ASSUME LineGraphAssumption == LineGraph \in BOOLEAN
ASSUME ContentsAssumption  == Contents \cap {"none", "missing", "torn", "foreign"} = {}

VARIABLES
  sources,  \* the source files now on disk
  array,    \* the cache's array files, by name
  meta,     \* cache_meta: the sources its checksum was computed from
  pc,       \* where each process is in load_and_build
  mine,     \* the sources a process has loaded
  at,       \* the array file a process reads or writes next
  got,      \* what the array files held when the process mapped them
  sum       \* the checksum save_impl is about to write

\* History only.
VARIABLES
  past,        \* earlier contents of the source files
  recurred,    \* the source files returned to an earlier content
  interrupted, \* a save ended before its cache_meta was written
  rewritten,   \* the source files changed while a process was loading
  replaced,    \* ... or while a process was serving
  overlapped,  \* a process began to load while another was loading
  promised     \* processes that found a completed save of their sources

disk    == <<array, meta>>
process == <<mine, at, got, sum>>
history == <<past, recurred, interrupted, rewritten, replaced, overlapped, promised>>
vars    == <<sources, disk, pc, process, history>>

\* Mutant: the ranks of the line graph are not stored either.
WrittenUnranked == <<"topology", "mapping">>

\* save_each of DirectedCCH and of CCH, in the order the files are stored;
\* "topology" and "mapping" stand for several files each.
Written == IF LineGraph THEN <<"topology", "mapping", "ranks">> ELSE <<"topology">>

\* What reconstruct_with reads, in its order.
Needed == IF LineGraph THEN <<"topology", "mapping", "ranks">>
                       ELSE <<"ranks", "topology">>

Arrays == {"topology", "mapping", "ranks"}

Whole(f)    == array[f] \in Contents
Saving(p)   == pc[p] \in {"save", "write", "checksum", "meta"}
Loading(p)  == pc[p] \in {"check", "load"} \/ Saving(p)
Serving(p)  == pc[p] \in {"mapped", "built"}
AllOf(s, c) == \A i \in DOMAIN s : s[i] = c

\* The cache is what a finished save of c leaves, and nobody is changing it.
Settled(c) ==
  /\ meta = c /\ \A i \in DOMAIN Written : array[Written[i]] = c
  /\ \A p \in Loaders : ~Loading(p)

-----------------------------------------------------------------------------
\* GraphData::load and the load of cch_perm.
Start(p) ==
  /\ pc[p] = "idle"
  /\ pc' = [pc EXCEPT ![p] = "check"]
  /\ mine' = [mine EXCEPT ![p] = sources]
  /\ overlapped' = (overlapped \/ \E o \in Loaders : Loading(o))
  /\ promised' = IF Settled(sources) THEN promised \cup {p} ELSE promised \ {p}
  /\ UNCHANGED <<sources, disk, at, got, sum, past, recurred, interrupted,
                 rewritten, replaced>>

\* Mutant: the header is checked, the checksum is not.
CheckHeaderOnly(p) ==
  /\ pc[p] = "check"
  /\ pc' = [pc EXCEPT ![p] = IF meta \in Contents THEN "load" ELSE "save"]
  /\ at' = [at EXCEPT ![p] = 1]
  /\ got' = [got EXCEPT ![p] = <<>>]
  /\ UNCHANGED <<sources, disk, mine, sum, history>>

\* Mutant: a save may be too old to be used, whatever it holds.
CheckExpires(p) ==
  /\ pc[p] = "check"
  /\ \E old \in BOOLEAN :
       pc' = [pc EXCEPT ![p] = IF meta = sources /\ ~old THEN "load" ELSE "save"]
  /\ at' = [at EXCEPT ![p] = 1]
  /\ got' = [got EXCEPT ![p] = <<>>]
  /\ UNCHANGED <<sources, disk, mine, sum, history>>

\* is_valid: the metadata can be read, its header is of this build, and its
\* checksum is that of the source files as they are now.  If not, the
\* hierarchy is built from what the process has loaded, and then saved.
Check(p) ==
  /\ pc[p] = "check"
  /\ pc' = [pc EXCEPT ![p] = IF meta = sources THEN "load" ELSE "save"]
  /\ at' = [at EXCEPT ![p] = 1]
  /\ got' = [got EXCEPT ![p] = <<>>]
  /\ UNCHANGED <<sources, disk, mine, sum, history>>

\* The next array file is mapped, if it is there and has its full length.
LoadFile(p) ==
  /\ pc[p] = "load" /\ at[p] \in DOMAIN Needed
  /\ Whole(Needed[at[p]])
  /\ got' = [got EXCEPT ![p] = Append(@, array[Needed[at[p]]])]
  /\ at' = [at EXCEPT ![p] = @ + 1]
  /\ UNCHANGED <<sources, disk, pc, mine, sum, history>>

\* The cross-structure checks and validate_edge_mappings compare lengths and
\* ranges: arrays of other sources may pass them.
Accept(p) ==
  /\ pc[p] = "load" /\ at[p] = Len(Needed) + 1
  /\ pc' = [pc EXCEPT ![p] = "mapped"]
  /\ UNCHANGED <<sources, disk, process, history>>

\* Any error of load or of the checks falls back to a build and a save.
Reject(p) ==
  /\ pc[p] = "load"
  /\ \/ at[p] \in DOMAIN Needed /\ ~Whole(Needed[at[p]])
     \/ at[p] = Len(Needed) + 1 /\ ~AllOf(got[p], mine[p])
  /\ pc' = [pc EXCEPT ![p] = "save"]
  /\ at' = [at EXCEPT ![p] = 1]
  /\ got' = [got EXCEPT ![p] = <<>>]
  /\ UNCHANGED <<sources, disk, mine, sum, history>>

\* File::create truncates the file it is about to write, in place.
SaveOpen(p) ==
  /\ pc[p] = "save" /\ at[p] \in DOMAIN Written
  /\ array' = [array EXCEPT ![Written[at[p]]] = "torn"]
  /\ pc' = [pc EXCEPT ![p] = "write"]
  /\ UNCHANGED <<sources, meta, process, history>>

SaveWrite(p) ==
  /\ pc[p] = "write"
  /\ array' = [array EXCEPT ![Written[at[p]]] = mine[p]]
  /\ at' = [at EXCEPT ![p] = @ + 1]
  /\ pc' = [pc EXCEPT ![p] = "save"]
  /\ UNCHANGED <<sources, meta, mine, got, sum, history>>

\* Mutant: the metadata is written one file too early.
ChecksumEarly(p) ==
  /\ pc[p] = "save" /\ at[p] = Len(Written)
  /\ sum' = [sum EXCEPT ![p] = sources]
  /\ pc' = [pc EXCEPT ![p] = "checksum"]
  /\ UNCHANGED <<sources, disk, mine, at, got, history>>

\* write_meta: the checksum is taken now, from the files on disk.
Checksum(p) ==
  /\ pc[p] = "save" /\ at[p] = Len(Written) + 1
  /\ sum' = [sum EXCEPT ![p] = sources]
  /\ pc' = [pc EXCEPT ![p] = "checksum"]
  /\ UNCHANGED <<sources, disk, mine, at, got, history>>

\* fs::write truncates cache_meta, then fills it.
MetaOpen(p) ==
  /\ pc[p] = "checksum"
  /\ meta' = "torn"
  /\ pc' = [pc EXCEPT ![p] = "meta"]
  /\ UNCHANGED <<sources, array, process, history>>

MetaWrite(p) ==
  /\ pc[p] = "meta"
  /\ meta' = sum[p]
  /\ pc' = [pc EXCEPT ![p] = "built"]
  /\ UNCHANGED <<sources, array, process, history>>

\* An I/O error ends the save with a warning; the built hierarchy is used.
SaveFail(p) ==
  /\ Saving(p)
  /\ pc' = [pc EXCEPT ![p] = "built"]
  /\ interrupted' = TRUE
  /\ UNCHANGED <<sources, disk, process, past, recurred, rewritten, replaced,
                 overlapped, promised>>

\* The process ends or is killed, wherever it is.
Die(p) ==
  /\ pc[p] # "idle"
  /\ pc' = [pc EXCEPT ![p] = "idle"]
  /\ mine' = [mine EXCEPT ![p] = "none"]
  /\ at' = [at EXCEPT ![p] = 1]
  /\ got' = [got EXCEPT ![p] = <<>>]
  /\ sum' = [sum EXCEPT ![p] = "none"]
  /\ interrupted' = (interrupted \/ Saving(p))
  /\ promised' = promised \ {p}
  /\ UNCHANGED <<sources, disk, past, recurred, rewritten, replaced, overlapped>>

\* The pipeline replaces the source files.
Regenerate(c) ==
  /\ c # sources
  /\ sources' = c
  /\ past' = past \cup {sources}
  /\ recurred' = (recurred \/ c \in past)
  /\ rewritten' = (rewritten \/ \E p \in Loaders : Loading(p))
  /\ replaced' = (replaced \/ \E p \in Loaders : Serving(p))
  /\ promised' = {}
  /\ UNCHANGED <<disk, pc, process, interrupted, overlapped>>

\* A directory without a cache, or with one of another build or machine.
Init ==
  /\ sources \in Contents
  /\ \/ meta = "missing" /\ array = [f \in Arrays |-> "missing"]
     \/ meta = "foreign" /\ array = [f \in Arrays |-> "torn"]
  /\ pc = [p \in Loaders |-> "idle"]
  /\ mine = [p \in Loaders |-> "none"]
  /\ at = [p \in Loaders |-> 1]
  /\ got = [p \in Loaders |-> <<>>]
  /\ sum = [p \in Loaders |-> "none"]
  /\ past = {} /\ promised = {}
  /\ recurred = FALSE /\ interrupted = FALSE
  /\ rewritten = FALSE /\ replaced = FALSE /\ overlapped = FALSE

LoaderNext(p) ==
  \/ Start(p) \/ Check(p) \/ LoadFile(p) \/ Accept(p) \/ Reject(p)
  \/ SaveOpen(p) \/ SaveWrite(p) \/ Checksum(p) \/ MetaOpen(p) \/ MetaWrite(p)

Next ==
  \/ \E p \in Loaders : LoaderNext(p) \/ SaveFail(p) \/ Die(p)
  \/ \E c \in Contents : Regenerate(c)

Spec == Init /\ [][Next]_vars

-----------------------------------------------------------------------------
\* Every variable keeps its type.
TypeOK ==
  /\ sources \in Contents
  /\ array \in [Arrays -> Contents \cup {"missing", "torn"}]
  /\ meta \in Contents \cup {"missing", "torn", "foreign"}
  /\ pc \in [Loaders -> {"idle", "check", "load", "save", "write", "checksum",
                        "meta", "mapped", "built"}]
  /\ {mine, sum} \subseteq [Loaders -> Contents \cup {"none"}]
  /\ at \in [Loaders -> 1 .. 4]
  /\ got \in [Loaders -> Seq(Contents)]
  /\ past \in SUBSET Contents /\ promised \in SUBSET Loaders
  /\ {recurred, interrupted, rewritten, replaced, overlapped} \subseteq BOOLEAN

\* The hierarchy accepted from the cache was computed from the sources the
\* process itself loaded, whatever saves crashed, failed or ran at the same
\* time.  Two things are assumed of the operator: the source files are not
\* replaced under a loading process, and after an interrupted save they do
\* not return to an earlier content.
CacheIsRight ==
  ~rewritten /\ ~(interrupted /\ recurred) =>
    \A p \in Loaders : pc[p] = "mapped" => AllOf(got[p], mine[p])

\* A mapped hierarchy stays what it was: no other process truncates or
\* rewrites the files under it, if besides processes start one at a time and
\* the sources are not replaced while any process runs.
MappedStaysWhole ==
  ~overlapped /\ ~rewritten /\ ~replaced /\ ~(interrupted /\ recurred) =>
    \A p \in Loaders : pc[p] = "mapped" =>
      \A i \in DOMAIN Needed : array[Needed[i]] = mine[p]

\* The line graph's cache is worth having: a process that found a finished
\* save of its sources, with nobody else loading, uses it.
LineGraphCacheHits ==
  LineGraph /\ ~overlapped =>
    \A p \in promised : ~Saving(p) /\ pc[p] # "built"
=============================================================================
