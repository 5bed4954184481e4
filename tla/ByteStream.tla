----------------------------- MODULE ByteStream -----------------------------
(***************************************************************************)
(* What a reader of bytes promises its caller, threads and buffers aside:  *)
(* each read hands out the next bytes of the source, which stay what they  *)
(* are until the next read; a read is refused only when too few are left,  *)
(* or when the source failed.                                              *)
(***************************************************************************)
EXTENDS Integers

CONSTANTS Sizes,          \* how many bytes a caller may ask for
          StreamLength,   \* how many bytes the source has
          SourceMayFail   \* whether the source may throw

VARIABLES phase,      \* "idle", "asked" or "gone"
          size,       \* how many bytes the caller asked for
          consumed,   \* how many bytes it was handed so far
          handed      \* what it holds: "bytes" and which, "end", "threw" or "nothing"

streamVars == <<phase, size, consumed, handed>>

Bytes(from, s) == [outcome |-> "bytes", bytes |-> [i \in 0 .. s - 1 |-> from + i]]
Only(outcome) == [outcome |-> outcome, bytes |-> [i \in {} |-> i]]

Init == phase = "idle" /\ size = 0 /\ consumed = 0 /\ handed = Only("nothing")

Ask == /\ phase = "idle" /\ phase' = "asked"
       /\ size' \in Sizes
       /\ handed' = Only("nothing")
       /\ UNCHANGED consumed

HandOut == /\ phase = "asked" /\ phase' = "idle"
           /\ consumed + size <= StreamLength
           /\ handed' = Bytes(consumed, size)
           /\ consumed' = consumed + size
           /\ UNCHANGED size

ReportEnd == /\ phase = "asked" /\ phase' = "idle"
             /\ consumed + size > StreamLength
             /\ handed' = Only("end")
             /\ UNCHANGED <<size, consumed>>

Throw == /\ phase = "asked" /\ phase' = "idle"
         /\ SourceMayFail
         /\ handed' = Only("threw")
         /\ UNCHANGED <<size, consumed>>

Close == /\ phase = "idle" /\ phase' = "gone"
         /\ handed' = Only("nothing")
         /\ UNCHANGED <<size, consumed>>

Next == Ask \/ HandOut \/ ReportEnd \/ Throw \/ Close
Spec == Init /\ [][Next]_streamVars
=============================================================================
