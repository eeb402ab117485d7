---------------------------- MODULE MCNbdServer ----------------------------
(* Small exports and the requests that tell their blocks apart. *)
EXTENDS NbdServer

Read(from, len) == [type |-> READ, from |-> from, len |-> len, value |-> 0]
Write(from, len, value) ==
    [type |-> WRITE, from |-> from, len |-> len, value |-> value]

(* Single blocks and runs, in sequence and not, two that go beyond the end *)
(* and one that is larger than the buffer.                                 *)
PlainRequests == {Read(0, 3), Read(0, 1), Read(1, 1), Read(0, 2), Read(2, 2),
                  Write(1, 1, 1), Write(2, 1, 2), Write(0, 2, 3),
                  Read(3, 1), Write(2, 2, 4)}

ReadOnlyRequests == {Read(0, 1), Read(1, 2), Read(0, 3), Write(0, 1, 1)}

(* Parts of pages, whole pages and runs over a page boundary. *)
CowRequests == {Read(0, 4), Read(0, 1), Read(2, 2), Read(1, 2), Write(0, 1, 1),
                Write(1, 2, 2), Write(2, 2, 3), Write(3, 1, 4)}

(* Runs over page boundaries, and pages that are apart. *)
CowWideRequests == {Read(0, 4), Read(6, 1), Read(3, 1), Write(0, 1, 1)}
=============================================================================
