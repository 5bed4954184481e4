------------------------------- MODULE OsmPbf -------------------------------
(***************************************************************************)
(* Reading an OSM PBF file: a decompressor that runs ahead in a thread of  *)
(* its own, a decoder that calls back for every node, way and relation,    *)
(* and the scans over the file.  The two readers between file,             *)
(* decompressor and decoder are streams (AsyncReader implements            *)
(* ByteStream), so a queue of blocks stands for their bytes.               *)
(*                                                                         *)
(* A block has a type; a header block the features it requires and that    *)
(* may be exploited; a data block its blob, its table of strings, offsets, *)
(* granularity and groups of nodes, dense nodes, ways and relations.       *)
(***************************************************************************)
EXTENDS Integers, Sequences, FiniteSets, SequencesExt

VARIABLES
  file,      \* the blocks
  mode,      \* "unordered", "ordered", or "forced": ordered whatever the header says
  wanted,    \* the kinds of entities the caller gave a callback for
  scans,     \* the kinds each scan left calls back for, the running one first
  position,  \* the block the decompressor reads next
  status,    \* the bits the decompressor has set: info, sorted, header, blob
  inflater,  \* the decompressor: running, end of file, or an exception
  blobs,     \* blocks inflated and not decoded yet
  pending,   \* what decoding the current block still calls back with
  delivered, \* what was handed to the callbacks
  outcome    \* of the call: waiting for the header, reading, done or threw

sourceVars == <<file, mode, wanted>>
inflaterVars == <<position, status, inflater>>
scanVars == <<scans, pending, delivered>>
pbfVars == <<sourceVars, inflaterVars, scanVars, blobs, outcome>>

Kinds == {"node", "way", "relation"}
Throw == [kind |-> "throw"]
BlobIsSound(b) == b.blob \in {"raw", "zlib"}

-----------------------------------------------------------------------------
(***************************************************************************)
(* Decoding.  Ids and positions are stored as differences to the entry     *)
(* before, tags as positions in the table of strings.                      *)
(***************************************************************************)
RunningSums(ds) ==
  LET sum[i \in 0 .. Len(ds)] == IF i = 0 THEN 0 ELSE sum[i - 1] + ds[i] IN [i \in DOMAIN ds |-> sum[i]]

TagsBroken(b, keys, values) ==
  \/ Len(keys) # Len(values)
  \/ \E i \in DOMAIN keys : keys[i] > Len(b.table) + 1 \/ values[i] > Len(b.table) + 1
TagMap(b, keys, values) ==
  [k \in {b.table[keys[i]] : i \in DOMAIN keys} |-> b.table[values[CHOOSE i \in DOMAIN keys : b.table[keys[i]] = k]]]
Tagged(b, g, entity) ==
  IF g.id = 0 \/ TagsBroken(b, g.keys, g.values) THEN <<Throw>> ELSE <<entity>>

DecodeSparseNode(b, g) ==
  Tagged(b, g, [kind |-> "node", id |-> g.id, tags |-> TagMap(b, g.keys, g.values),
                lat |-> b.latOffset + b.granularity * g.lat, lon |-> b.lonOffset + b.granularity * g.lon])

\* Both offsets are added once more with every difference, the one of the
\* latitude also to longitudes.
DensePositions(b, ds) == RunningSums([i \in DOMAIN ds |-> b.latOffset + b.granularity * ds[i]])
DecodeDenseNodes(b, g) ==
  LET ids == RunningSums(g.ids)
      lats == DensePositions(b, g.lats)
      lons == DensePositions(b, g.lons)
      short == Len(g.lats) < Len(g.ids) \/ Len(g.lons) < Len(g.ids)
      long == Len(g.lats) > Len(g.ids) \/ Len(g.lons) > Len(g.ids)
      whole == IF short THEN (IF Len(g.lats) < Len(g.lons) THEN Len(g.lats) ELSE Len(g.lons)) ELSE Len(g.ids)
      nodes == [i \in 1 .. whole |-> [kind |-> "node", id |-> ids[i], tags |-> <<>>, lat |-> lats[i], lon |-> lons[i]]]
  IN  IF short \/ long THEN Append(nodes, Throw) ELSE nodes

DecodeWay(b, g) ==
  Tagged(b, g, [kind |-> "way", id |-> g.id, tags |-> TagMap(b, g.keys, g.values), nodes |-> RunningSums(g.refs)])

DecodeRelation(b, g) ==
  LET ids == RunningSums(g.refs)
      members == [i \in DOMAIN ids |-> [type |-> g.types[i], id |-> ids[i], role |-> b.table[g.roles[i]]]]
      broken == \E i \in DOMAIN ids : g.roles[i] > Len(b.table) \/ g.types[i] \notin Kinds
  IN  IF broken THEN <<Throw>>
      ELSE Tagged(b, g, [kind |-> "relation", id |-> g.id, tags |-> TagMap(b, g.keys, g.values), members |-> members])

KindOf(g) == IF g.kind = "dense" THEN "node" ELSE g.kind
DecodeGroup(b, g) ==
  CASE g.kind = "node" -> DecodeSparseNode(b, g)
    [] g.kind = "dense" -> DecodeDenseNodes(b, g)
    [] g.kind = "way" -> DecodeWay(b, g)
    [] g.kind = "relation" -> DecodeRelation(b, g)

\* What a block calls back with; entities nobody asked for are not decoded.
DecodeBlock(b, active) ==
  IF b.granularity = 0 THEN <<Throw>>
  ELSE FlattenSeq([i \in DOMAIN b.groups |->
                     IF KindOf(b.groups[i]) \in active THEN DecodeGroup(b, b.groups[i]) ELSE <<>>])

-----------------------------------------------------------------------------
\* A call: the readers are created and the decompressor starts at once.
FirstScansUnmasked(kinds) == [i \in 1 .. Cardinality(kinds) |-> kinds]
ScanOf(kind, kinds) == IF kind \in kinds THEN <<{kind}>> ELSE <<>>
FirstScans(kinds) == ScanOf("node", kinds) \o ScanOf("way", kinds) \o ScanOf("relation", kinds)
OpenReaders ==
  /\ position' = 1 /\ status' = {} /\ inflater' = "running" /\ blobs' = <<>>
Call(m, kinds) ==
  /\ mode' = m /\ wanted' = kinds /\ OpenReaders /\ pending' = <<>> /\ delivered' = <<>>
  /\ scans' = <<kinds>>
  /\ outcome' = IF m = "ordered" THEN "waiting" ELSE "reading"

InitPbf(f, m, kinds) ==
  /\ file = f /\ mode = m /\ wanted = kinds /\ scans = <<kinds>>
  /\ position = 1 /\ status = {} /\ inflater = "running" /\ blobs = <<>>
  /\ pending = <<>> /\ delivered = <<>>
  /\ outcome = IF m = "ordered" THEN "waiting" ELSE "reading"

(***************************************************************************)
(* The decompressor, in the thread of the reader behind it.                *)
(***************************************************************************)
Running == inflater = "running" /\ outcome \in {"waiting", "reading"}
InflatesSilently ==
  /\ Running /\ position <= Len(file) /\ file[position].type = "OSMData"
  /\ status' = status \cup {"blob"}
  /\ IF BlobIsSound(file[position])
     THEN blobs' = Append(blobs, position) /\ position' = position + 1 /\ UNCHANGED inflater
     ELSE inflater' = "threw" /\ UNCHANGED <<blobs, position>>
  /\ UNCHANGED <<sourceVars, scanVars, outcome>>
Inflates ==
  /\ Running /\ position <= Len(file) /\ file[position].type = "OSMData"
  /\ status' = status \cup {"info", "blob"}
  /\ IF BlobIsSound(file[position])
     THEN blobs' = Append(blobs, position) /\ position' = position + 1 /\ UNCHANGED inflater
     ELSE inflater' = "threw" /\ UNCHANGED <<blobs, position>>
  /\ UNCHANGED <<sourceVars, scanVars, outcome>>

\* The header replaces the bits set so far.
ReadsHeader ==
  /\ Running /\ position <= Len(file) /\ file[position].type = "OSMHeader"
  /\ LET h == file[position]
     IN  IF {"info", "blob"} \subseteq status \/ {"info", "header"} \subseteq status \/ ~h.supported
         THEN inflater' = "threw" /\ UNCHANGED <<position, status>>
         ELSE /\ status' = {"info", "header"} \cup (IF h.sorted THEN {"sorted"} ELSE {})
              /\ position' = position + 1
              /\ UNCHANGED inflater
  /\ UNCHANGED <<sourceVars, scanVars, blobs, outcome>>

SkipsBlock ==
  /\ Running /\ position <= Len(file) /\ file[position].type \notin {"OSMData", "OSMHeader"}
  /\ position' = position + 1
  /\ UNCHANGED <<sourceVars, status, inflater, scanVars, blobs, outcome>>

EndsFile ==
  /\ Running /\ position = Len(file) + 1
  /\ inflater' = "ended"
  /\ UNCHANGED <<sourceVars, position, status, scanVars, blobs, outcome>>

Decompress == Inflates \/ ReadsHeader \/ SkipsBlock \/ EndsFile

(***************************************************************************)
(* The caller.  An ordered call waits, without a lock, until the bits tell *)
(* whether the file is sorted; one scan does if it is.                     *)
(***************************************************************************)
SeesStatus ==
  /\ outcome = "waiting" /\ "info" \in status
  /\ scans' = IF "sorted" \in status THEN <<wanted>> ELSE FirstScans(wanted)
  /\ outcome' = "reading"
  /\ UNCHANGED <<sourceVars, inflaterVars, pending, delivered, blobs>>

Decode ==
  /\ outcome = "reading" /\ pending = <<>> /\ blobs # <<>>
  /\ blobs' = SubSeq(blobs, 2, Len(blobs))
  /\ pending' = DecodeBlock(file[blobs[1]], scans[1])
  /\ UNCHANGED <<sourceVars, inflaterVars, scans, delivered, outcome>>

CallsBack ==
  /\ outcome = "reading" /\ pending # <<>> /\ pending[1] # Throw
  /\ pending' = SubSeq(pending, 2, Len(pending))
  /\ delivered' = Append(delivered, pending[1])
  /\ UNCHANGED <<sourceVars, inflaterVars, scans, blobs, outcome>>

\* The reader passes the decompressor's exception on before the bytes left.
Throws ==
  /\ outcome = "reading"
  /\ \/ pending # <<>> /\ pending[1] = Throw
     \/ pending = <<>> /\ inflater = "threw"
  /\ outcome' = "threw"
  /\ UNCHANGED <<sourceVars, inflaterVars, scanVars, blobs>>

\* The next scan starts over: old readers joined, file rewound, bits cleared.
EndsScan ==
  /\ outcome = "reading" /\ pending = <<>> /\ blobs = <<>> /\ inflater = "ended"
  /\ IF Len(scans) > 1
     THEN OpenReaders /\ scans' = SubSeq(scans, 2, Len(scans)) /\ UNCHANGED outcome
     ELSE outcome' = "done" /\ UNCHANGED <<inflaterVars, scans, blobs>>
  /\ UNCHANGED <<sourceVars, pending, delivered>>

-----------------------------------------------------------------------------
(***************************************************************************)
(* A call that returns has called back once for every entity asked for, in *)
(* the order of the file within a kind, whatever the decompressor did in   *)
(* the meantime and however often the file was read.                       *)
(***************************************************************************)
DecodedTo(f, kinds, n) ==
  FlattenSeq([i \in 1 .. n |-> IF f[i].type = "OSMData" THEN DecodeBlock(f[i], kinds) ELSE <<>>])
ContentTo(kind, n) == DecodedTo(file, {kind}, n)
ContentOf(kind) == ContentTo(kind, Len(file))
OfKind(s, kind) == FlattenSeq([i \in DOMAIN s |-> IF s[i].kind = kind THEN <<s[i]>> ELSE <<>>])
EveryEntityOnce ==
  outcome = "done" =>
    \A kind \in Kinds :
      OfKind(delivered, kind) = IF kind \in wanted THEN ContentOf(kind) ELSE <<>>

(***************************************************************************)
(* Why: what was delivered, what is pending and what the blocks ahead will *)
(* give is the file up to where the decompressor stands, kind by kind; no  *)
(* kind is read by two scans, and those of later scans wait untouched.     *)
(***************************************************************************)
DataIn(f) == {i \in 1 .. Len(f) : f[i].type = "OSMData"}
Calls(f) == {Throw} \cup UNION {UNION {ToSet(DecodeGroup(f[i], g)) : g \in ToSet(f[i].groups)} : i \in DataIn(f)}
Ahead(kind) == FlattenSeq([i \in 1 .. Len(blobs) |-> DecodeBlock(file[blobs[i]], {kind})])
Throwing == \E i \in 1 .. Len(pending) : pending[i] = Throw
Later(kind) == \E i \in 2 .. Len(scans) : kind \in scans[i]
PbfTypeOK ==
  /\ wanted \in SUBSET Kinds /\ wanted # {}
  /\ scans \in Seq(SUBSET Kinds) /\ scans # <<>>
  /\ position \in 1 .. Len(file) + 1
  /\ inflater \in {"running", "ended", "threw"}
  /\ blobs \in Seq(DataIn(file))
  /\ pending \in Seq(Calls(file)) /\ delivered \in Seq(Calls(file))
  /\ outcome \in {"waiting", "reading", "done", "threw"}
InOrder ==
  /\ inflater = "ended" => position = Len(file) + 1
  /\ outcome = "waiting" => scans = <<wanted>> /\ pending = <<>> /\ delivered = <<>>
  /\ outcome = "done" => pending = <<>> /\ blobs = <<>> /\ inflater = "ended" /\ Len(scans) = 1
  /\ \A i \in 1 .. Len(scans) : scans[i] \subseteq wanted
  /\ \A i, j \in 1 .. Len(scans) : i # j => scans[i] \cap scans[j] = {}
Accounted ==
  ~Throwing =>
    \A kind \in Kinds :
      /\ kind \in scans[1] =>
           OfKind(delivered, kind) \o (OfKind(pending, kind) \o Ahead(kind)) = ContentTo(kind, position - 1)
      /\ kind \notin scans[1] =>
           /\ OfKind(pending, kind) = <<>>
           /\ OfKind(delivered, kind) = IF kind \in wanted /\ ~Later(kind) THEN ContentOf(kind) ELSE <<>>
PbfInv == PbfTypeOK /\ InOrder /\ Accounted

\* The caller learns the order from a header it understands or from data.
LearnsOrder ==
  \E i \in DOMAIN file : /\ file[i].type = "OSMData" \/ (file[i].type = "OSMHeader" /\ file[i].supported)
                         /\ \A j \in 1 .. i - 1 : file[j].type # "OSMHeader" \/ file[j].supported
=============================================================================
