------------------------------- MODULE SourceWalk ------------------------------
(***************************************************************************)
(* What the walk of the sources hands to the backup pipeline, as pure      *)
(* operators: every object that the file system shows becomes no entry,    *)
(* one entry, or the segments of a large file.  A source is a sequence of  *)
(* objects in the order of the walk.  An object is                         *)
(*    [name, type, size, cached]                                           *)
(* where the type is "file", "dir" (also a symlink: an item without data), *)
(* "special" (socket, device), "unreadable" (a soft error when it is       *)
(* listed or stat'ed: permission, not found, EIO) or "broken" (any other   *)
(* error), and cached tells whether the file cache or the parent reuse     *)
(* index has its chunks.  Which objects the exclude rules let through is   *)
(* not modelled.                                                           *)
(***************************************************************************)
EXTENDS Integers, Sequences

CONSTANT SegmentSize      \* bytes of a segment; a larger file is split

ASSUME SegmentSizeAssumption == SegmentSize \in Nat \ {0}

Objects == [name : STRING, type : {"file", "dir", "special", "unreadable", "broken"},
            size : Nat, cached : BOOLEAN]

\* A walk entry.  len is what the budget is charged with, offset and count are
\* those of a segment; the other kinds have offset 0, index 0 and count 1.
Entry(kind, name, len) ==
    [kind |-> kind, name |-> name, len |-> len, offset |-> 0, index |-> 0, count |-> 1]

\* u64::div_ceil
NumSegments(size) == (size + SegmentSize - 1) \div SegmentSize

\* WalkItems::Segments: offset and length of segment i
SegmentOffset(i) == i * SegmentSize
SegmentLen(size, i) ==
    IF size - SegmentOffset(i) < SegmentSize THEN size - SegmentOffset(i) ELSE SegmentSize

Segments(o) ==
    [k \in 1..NumSegments(o.size) |->
        [kind |-> "segment", name |-> o.name, len |-> SegmentLen(o.size, k - 1),
         offset |-> SegmentOffset(k - 1), index |-> k - 1, count |-> NumSegments(o.size)]]

\* walked_entry_to_walk_items, and the events of the walk that are no entries
WalkItems(o) ==
    CASE o.type = "special" -> << >>
      [] o.type = "unreadable" -> <<Entry("skipped", o.name, 0)>>
      [] o.type = "broken" -> <<Entry("error", o.name, 0)>>
      [] o.type = "dir" \/ (o.type = "file" /\ o.size = 0) -> <<Entry("nonfile", o.name, 0)>>
      [] o.type = "file" /\ o.size > 0 /\ o.cached -> <<Entry("cachehit", o.name, 0)>>
      [] o.type = "file" /\ o.size > SegmentSize /\ ~o.cached -> Segments(o)
      [] OTHER -> <<Entry("file", o.name, o.size)>>

\* walk_source: the entries of one source.  (The marks that build_walk_iter puts around
\* them only report progress.)
WalkOf(source) ==
    LET upto[n \in 0..Len(source)] ==
            IF n = 0 THEN << >> ELSE upto[n - 1] \o WalkItems(source[n])
    IN  upto[Len(source)]
================================================================================
