------------------------------ MODULE Chunking ------------------------------
(***************************************************************************)
(* chunk_document (rag/chunking.py): a text is cut into chunks of at most  *)
(* MaxChars characters, each starting Overlap characters before the one    *)
(* before it ended.                                                        *)
(*                                                                         *)
(* A text is its length, the set of positions (from 0) that hold blanks,   *)
(* and what it says.  It is normalised: neither end is blank.  A chunk is  *)
(* its bounds and the positions of the text it shows; its own blank ends   *)
(* are stripped, so that only those that are not blank count.              *)
(***************************************************************************)
EXTENDS Integers

CONSTANTS MaxChars, Overlap

\* The two checks chunk_document starts with.
ASSUME ChunkSizes == /\ MaxChars \in Nat \ {0} /\ Overlap \in Nat /\ Overlap < MaxChars

VARIABLES text, start, chunks, cutting

chunkVars == <<text, start, chunks, cutting>>

Positions(t) == 0 .. t.len - 1
Shown(t, from, to) == {p \in Positions(t) : from <= p /\ p < to /\ p \notin t.blank}

Text == [len : Nat, blank : SUBSET Nat, says : STRING]
Normalized(t) == t.len > 0 => 0 \notin t.blank /\ (t.len - 1) \notin t.blank

\* Mutant: the end is not held to the length of the text.
EndUnclipped(t, s) == s + MaxChars

\* The end of the chunk that starts at s.
EndOf(t, s) == IF s + MaxChars < t.len THEN s + MaxChars ELSE t.len

ChunkAt(t, s) == [start |-> s, end |-> EndOf(t, s), shown |-> Shown(t, s, EndOf(t, s))]

\* An empty text has no chunks.
Begin(t) ==
    /\ text' = t /\ start' = 0 /\ chunks' = {}
    /\ cutting' = (t.len > 0)

\* Mutant: no break at the end of the text.
EndsUnnoticed(t, s) == s >= t.len

EndsText(t, s) == EndOf(t, s) = t.len

\* One turn of the loop.
Cut ==
    /\ cutting
    /\ chunks' = chunks \cup {ChunkAt(text, start)}
    /\ IF EndsText(text, start) THEN cutting' = FALSE /\ UNCHANGED start
       ELSE start' = EndOf(text, start) - Overlap /\ UNCHANGED cutting
    /\ UNCHANGED text

\* The loop on its own, for any text.
ChunkInit(t) == text = t /\ start = 0 /\ chunks = {} /\ cutting = (t.len > 0)
ChunkSpec(t) == ChunkInit(t) /\ [][Cut]_chunkVars

\* Every character of the text that is not blank is in some chunk.
Covers(cs, t) == \A p \in Positions(t) : p \notin t.blank => \E c \in cs : p \in c.shown
=============================================================================
