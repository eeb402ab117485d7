--------------------------- MODULE MCFlashUpdate ---------------------------
(* A top-boot flash in units of 8K, scaled down: like the WL11000's it ends *)
(* in ever smaller blocks, with the configuration in the two smallest.      *)
EXTENDS FlashUpdate

MCRegions == <<[offset |-> 0, numblocks |-> 2, erasesize |-> 4],
               [offset |-> 8, numblocks |-> 1, erasesize |-> 2],
               [offset |-> 10, numblocks |-> 2, erasesize |-> 1],
               [offset |-> 12, numblocks |-> 1, erasesize |-> 2]>>

Line(start, length, save, file, image) ==
    [start |-> start, length |-> length, save |-> save, file |-> file, image |-> image]

MCRequests == {
    Line(0, 14, TRUE, TRUE, 14),    \* reflash -s
    Line(0, 14, FALSE, TRUE, 13),   \* reflash -o, a shorter image
    Line(10, 2, FALSE, FALSE, 0),   \* configfs commit and clear
    Line(4, 8, TRUE, TRUE, 5),      \* across three regions
    Line(8, 6, TRUE, FALSE, 0),     \* -s without an image
    Line(0, 0, TRUE, FALSE, 0),     \* nothing but the section
    Line(1, 7, FALSE, TRUE, 7),     \* start inside a block
    Line(0, 5, TRUE, TRUE, 5),      \* end inside a block
    Line(12, 4, FALSE, TRUE, 2),    \* beyond the device
    Line(0, 14, TRUE, TRUE, 15)}    \* an image longer than the device
=============================================================================
