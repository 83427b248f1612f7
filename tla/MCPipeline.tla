------------------------------- MODULE MCPipeline ------------------------------
(* Sources for model checking: a file of three segments, two of which fill   *)
(* the budget, before another object; two large files; an unreadable object; *)
(* an error of the walk behind a large file; and enough objects without data *)
(* to fill the channels.                                                     *)
EXTENDS Pipeline

Object(name, type, size) == [name |-> name, type |-> type, size |-> size, cached |-> FALSE]
Cached(name, size) == [name |-> name, type |-> "file", size |-> size, cached |-> TRUE]

MCSources == {
    <<Object("a", "file", 5), Object("b", "dir", 0)>>,
    <<Object("a", "file", 3), Object("b", "file", 4)>>,
    <<Object("a", "unreadable", 0), Object("b", "file", 2)>>,
    <<Object("a", "file", 3), Object("b", "broken", 0)>>,
    <<Object("a", "dir", 0), Cached("b", 3), Object("c", "special", 0), Object("d", "file", 0),
      Object("e", "dir", 0), Object("f", "dir", 0)>>}
================================================================================
