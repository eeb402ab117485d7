------------------------------ MODULE MCGzNbd ------------------------------
(* Reads up to and beyond what the file and the buffer hold, and a write. *)
EXTENDS GzNbd

Read(from, len) == [type |-> "read", from |-> from, len |-> len]

SomeRequests == {Read(0, 1), Read(1, 2), Read(2, 2), Read(0, 3),
                 [type |-> "write", from |-> 1, len |-> 1]}
=============================================================================
