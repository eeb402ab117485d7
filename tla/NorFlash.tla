----------------------------- MODULE NorFlash -----------------------------
(***************************************************************************)
(* What a program may do to the NOR flash chip behind /dev/mtd/0: a cell   *)
(* can be programmed only while it is blank, and becomes blank again only  *)
(* when the whole block it lies in is erased.  The chip and the kernel's   *)
(* MTD driver are not in the repository; this module is the discipline     *)
(* that update has to keep, stated as an abstract specification.           *)
(***************************************************************************)
EXTENDS Integers

CONSTANTS Cells,    \* the programmable units of the device
          BlockOf,  \* BlockOf[c]: the erase block (a set of cells) of cell c
          Contents, \* what a cell can hold, apart from the two below
          Blank,    \* an erased cell
          Garbage   \* a cell whose contents are undefined

VARIABLES flash,    \* flash[c]: the contents of cell c
          writable  \* the cells the program was asked to rewrite

NorInit == /\ flash \in [Cells -> Contents \union {Blank}]
           /\ writable \subseteq Cells

(* MEMERASE of one whole block that lies inside the area to be rewritten. *)
EraseBlock(c) ==
    /\ BlockOf[c] \subseteq writable
    /\ flash' = [d \in Cells |-> IF d \in BlockOf[c] THEN Blank ELSE flash[d]]

(* write(): it changes only blank cells of that area. *)
Program ==
    /\ flash' \in [Cells -> Contents \union {Blank, Garbage}]
    /\ \A c \in Cells : flash'[c] # flash[c] => c \in writable /\ flash[c] = Blank

(* An erase the chip did not complete: its block is undefined. *)
SpoilBlock(c) ==
    /\ BlockOf[c] \subseteq writable
    /\ flash' = [d \in Cells |-> IF d \in BlockOf[c] THEN Garbage ELSE flash[d]]

NorNext == /\ Program \/ \E c \in Cells : EraseBlock(c) \/ SpoilBlock(c)
           /\ UNCHANGED writable

NorSpec == NorInit /\ [][NorNext]_<<flash, writable>>
=============================================================================
