------------------------------ MODULE WrFlash ------------------------------
(***************************************************************************)
(* wrflash, the program that writes an image onto a PCMCIA linear flash    *)
(* card: a loop that reads a piece of the image, erases the blocks the     *)
(* piece reaches into (option -e) and writes it.  Units are a fraction of  *)
(* the 1024 bytes it reads at a time; a block has several such pieces.     *)
(***************************************************************************)
EXTENDS Integers

CONSTANTS CardSize,   \* region.RegionSize, in units
          BlockSize,  \* region.BlockSize
          ReadBuf,    \* READBUF
          Lengths,    \* lengths of the images it is given
          Starts,     \* values of option -s
          MaxFaults   \* bound on the system calls that fail

ASSUME WrFlashAssumption ==
  /\ {CardSize, BlockSize, ReadBuf} \subseteq Nat \ {0}
  /\ CardSize % BlockSize = 0
  /\ Lengths \union Starts \union {MaxFaults} \subseteq Nat

Cells == 0 .. CardSize - 1

(* What a cell of the card holds. *)
Image(i) == <<"image", i>>
Old   == <<"old", 0>>
Blank == <<"blank", 0>>
Junk  == <<"junk", 0>>

Programmed(was, new) == IF was = Blank THEN new ELSE Junk

VARIABLES cells,         \* the card
          asked,         \* the command line, and whether the card was blank before
          wr,            \* where the program is: its loop, or how it ended
          start_address, \* where the next piece goes
          length,        \* length of the piece just read
          offset,        \* erase.Offset
          interrogate,   \* the user has yet to confirm the erase
          tries,         \* failed erases of this block
          wrFaults       \* system calls that failed so far

wrVars == <<cells, asked, wr, start_address, length, offset, interrogate, tries, wrFaults>>

Before == IF asked.blank THEN Blank ELSE Old

WrInit ==
  /\ asked \in [erase: BOOLEAN, start: Starts, size: Lengths, blank: BOOLEAN]
  /\ cells = [c \in Cells |-> Before]
  /\ wr = "read" /\ start_address = asked.start /\ length = 0
  /\ offset = BlockSize * (asked.start \div BlockSize)
  /\ interrogate \in BOOLEAN /\ tries = 0 /\ wrFaults = 0

Fail == wrFaults < MaxFaults /\ wrFaults' = wrFaults + 1

(* How much of the image is still to be read. *)
Rest == asked.start + asked.size - start_address

(* read(): a pipe may give less than it was asked for. *)
Read ==
  /\ wr = "read"
  /\ \/ \E n \in 1 .. ReadBuf : /\ n <= Rest
                                /\ wr' = "piece" /\ length' = n
                                /\ UNCHANGED wrFaults
     \/ Rest = 0 /\ wr' = "success" /\ length' = 0 /\ UNCHANGED wrFaults
     \/ Fail /\ wr' = "failure" /\ length' = 0
  /\ UNCHANGED <<cells, asked, start_address, offset, interrogate, tries>>

(* A boundary test that reaches one block too far: for comparison. *)
ReachesIntoNext == asked.erase /\ offset <= start_address + length
ReachesInto == asked.erase /\ offset < start_address + length

Block(o) == o .. o + BlockSize - 1

(* The answer to "Confirm (y/n)" is no.  It is read from standard input (108); *)
(* without -f that is where the image comes from, and the two bytes behind the *)
(* first piece are taken for the answer.  They are seldom "y" and the end of a *)
(* line: Decline.  An image in which they are, and what it loses, is left out.  *)
Decline ==
  /\ wr = "piece" /\ ReachesInto /\ interrogate
  /\ wr' = "failure"
  /\ UNCHANGED <<cells, asked, start_address, length, offset, interrogate, tries, wrFaults>>

EraseBlock ==
  /\ wr = "piece" /\ ReachesInto
  /\ Block(offset) \subseteq Cells
  /\ cells' = [c \in Cells |-> IF c \in Block(offset) THEN Blank ELSE cells[c]]
  /\ offset' = offset + BlockSize
  /\ interrogate' = FALSE /\ tries' = 0
  /\ UNCHANGED <<asked, wr, start_address, length, wrFaults>>

(* MEMERASE fails, beyond the end of the card always; it is called three times. *)
EraseFails ==
  /\ wr = "piece" /\ ReachesInto
  /\ IF Block(offset) \subseteq Cells THEN Fail ELSE UNCHANGED wrFaults
  /\ cells' \in {cells, [c \in Cells |-> IF c \in Block(offset) THEN Junk ELSE cells[c]]}
  /\ wr' = IF tries = 2 THEN "failure" ELSE "piece"
  /\ tries' = (tries + 1) % 3
  /\ interrogate' = FALSE
  /\ UNCHANGED <<asked, start_address, length, offset>>

Written(n) ==
  [c \in Cells |-> IF c \in start_address .. start_address + n - 1
                     THEN Programmed(cells[c], Image(c - asked.start)) ELSE cells[c]]

(* lseek() and write() of a piece whose blocks are erased. *)
Write ==
  /\ wr = "piece" /\ ~ ReachesInto
  /\ start_address + length <= CardSize
  /\ cells' = Written(length)
  /\ start_address' = start_address + length
  /\ wr' = "read"
  /\ UNCHANGED <<asked, length, offset, interrogate, tries, wrFaults>>

(* Either fails, or the end of the card cuts the write short. *)
WriteFails ==
  /\ wr = "piece" /\ ~ ReachesInto
  /\ IF start_address + length <= CardSize THEN Fail ELSE UNCHANGED wrFaults
  /\ \E n \in 0 .. length - 1 : cells' = Written(n)
  /\ wr' = "failure"
  /\ UNCHANGED <<asked, start_address, length, offset, interrogate, tries>>

WrNext == Read \/ Decline \/ EraseBlock \/ EraseFails \/ Write \/ WriteFails
WrEnded == wr \in {"success", "failure"}
WrSpec == WrInit /\ [][WrNext]_wrVars
-----------------------------------------------------------------------------
(* Properties *)

(* What the variables of wrflash hold. *)
WrTypeOK ==
  /\ cells \in [Cells -> {Image(i) : i \in 0 .. CardSize} \union {Old, Blank, Junk}]
  /\ wr \in {"read", "piece", "success", "failure"}
  /\ start_address \in asked.start .. asked.start + asked.size
  /\ offset % BlockSize = 0 /\ length \in 0 .. ReadBuf
  /\ tries \in 0 .. 2 /\ wrFaults \in 0 .. MaxFaults

(* The cells wrflash may change: those of the image and, with -e, the rest *)
(* of their blocks.                                                        *)
Reach ==
  LET image == asked.start .. asked.start + asked.size - 1 IN
  IF asked.erase THEN {c \in Cells : Block(BlockSize * (c \div BlockSize)) \intersect image # {}}
                 ELSE image

(* "success" is only printed over the complete image, if the card was blank  *)
(* or is erased: no erase comes after the write of a cell of the same block, *)
(* and none is left out when a piece crosses the boundary of two blocks.     *)
ImageInPlace ==
  wr = "success" /\ (asked.erase \/ asked.blank) =>
    \A i \in 0 .. asked.size - 1 : cells[asked.start + i] = Image(i)

(* However it ends, the card is as before outside the blocks of the image. *)
OthersUntouched == \A c \in Cells \ Reach : cells[c] = Before

(* What format_partition promises of the card. *)
CardAsAsked == ImageInPlace /\ OthersUntouched
=============================================================================
