------------------------- MODULE InstallProofs -------------------------
(***************************************************************************)
(* wrflash: for every card, every image, every start address and any       *)
(* number of failing system calls, when it reports success the image is on *)
(* the card, and no cell outside the blocks of the image is ever changed   *)
(* (CardAsAsked).                                                          *)
(*                                                                         *)
(* The composition of wrflash with reflash and 00flash: for every card and *)
(* image wrflash is given, every number of releases, runs, failures and    *)
(* power failures, the flash of the access point holds a whole release     *)
(* unless update is at work or failed in the middle (OnboardWhole).        *)
(***************************************************************************)
EXTENDS Install, TLAPS

-----------------------------------------------------------------------------
(* Arithmetic of blocks. *)

LEMMA Floor ==
  \A s \in Nat, b \in Nat \ {0} :
    LET f == b * (s \div b) IN f \in Nat /\ f <= s /\ s < f + b /\ f % b = 0
  BY SMT

LEMMA ProductMod == \A k \in Nat, b \in Nat \ {0} : (b * k) % b = 0
  BY SMT

LEMMA NextBlock ==
  ASSUME NEW o \in Nat, NEW b \in Nat \ {0}, o % b = 0
  PROVE  (o + b) % b = 0
<1>1. o = b * (o \div b) /\ o \div b \in Nat
  BY SMT
<1>2. PICK k \in Nat : o = b * k
  BY <1>1
<1>3. PICK m \in Nat : m = k + 1
  OBVIOUS
<1>4. o + b = b * m
  BY <1>2, <1>3, SMT
<1>5. QED
  BY <1>4, ProductMod

LEMMA BlockOfCell ==
  \A o, c \in Nat, b \in Nat \ {0} :
    o % b = 0 /\ o <= c /\ c < o + b => b * (c \div b) = o
  BY SMT

LEMMA Sizes ==
  /\ CardSize \in Nat \ {0} /\ BlockSize \in Nat \ {0} /\ ReadBuf \in Nat \ {0}
  /\ Lengths \subseteq Nat /\ Starts \subseteq Nat /\ MaxFaults \in Nat
  BY WrFlashAssumption

-----------------------------------------------------------------------------
(* The inductive invariant. *)

Contents == {Image(i) : i \in 0 .. CardSize} \union {Old, Blank, Junk}

Typed ==
  /\ asked \in [erase: BOOLEAN, start: Starts, size: Lengths, blank: BOOLEAN]
  /\ cells \in [Cells -> Contents]
  /\ wr \in {"read", "piece", "success", "failure"}
  /\ start_address \in Nat /\ offset \in Nat /\ offset % BlockSize = 0
  /\ length \in 0 .. ReadBuf /\ interrogate \in BOOLEAN
  /\ tries \in 0 .. 2 /\ wrFaults \in 0 .. MaxFaults

(* How far the image has come. *)
Progress ==
  /\ asked.start <= start_address /\ start_address <= asked.start + asked.size
  /\ asked.start < start_address => start_address <= CardSize
  /\ wr = "piece" => 1 <= length /\ start_address + length <= asked.start + asked.size
  /\ wr = "success" => start_address = asked.start + asked.size

(* The erase is ahead of the writes, and began with the block of the start. *)
Ahead ==
  /\ asked.start < offset + BlockSize
  /\ asked.erase /\ asked.start < start_address => start_address <= offset

(* What is behind start_address is the image, what is before it and erased *)
(* is blank; a write that failed ends the loop.                            *)
Placed ==
  wr # "failure" /\ (asked.erase \/ asked.blank) =>
    \A c \in Cells : asked.start <= c /\ c < start_address => cells[c] = Image(c - asked.start)

Prepared ==
  wr # "failure" =>
    \A c \in Cells : start_address <= c /\ (IF asked.erase THEN c < offset ELSE asked.blank)
                       => cells[c] = Blank

WrInv == Typed /\ Progress /\ Ahead /\ Placed /\ Prepared /\ OthersUntouched

LEMMA AskedTypes ==
  ASSUME Typed
  PROVE  /\ asked.start \in Nat /\ asked.size \in Nat
         /\ asked.erase \in BOOLEAN /\ asked.blank \in BOOLEAN
         /\ start_address \in Nat /\ length \in Nat /\ offset \in Nat /\ tries \in Nat
<1>1. asked.start \in Starts /\ asked.size \in Lengths
  BY DEF Typed
<1>2. asked.erase \in BOOLEAN /\ asked.blank \in BOOLEAN
  BY DEF Typed
<1>3. start_address \in Nat /\ length \in Nat /\ offset \in Nat /\ tries \in Nat
  BY Sizes DEF Typed
<1>4. QED
  BY <1>1, <1>2, <1>3, Sizes

-----------------------------------------------------------------------------
LEMMA InitInv == WrInit => WrInv
<1> SUFFICES ASSUME WrInit PROVE WrInv
  OBVIOUS
<1>1. /\ asked.start \in Nat /\ asked.size \in Nat
      /\ offset \in Nat /\ offset <= asked.start
      /\ asked.start < offset + BlockSize /\ offset % BlockSize = 0
  BY Sizes, Floor DEF WrInit
<1>2. Typed
  BY <1>1, Sizes DEF WrInit, Typed, Contents, Before
<1>3. Progress /\ Ahead
  BY <1>1, Sizes DEF WrInit, Progress, Ahead
<1>4. Placed /\ Prepared
  BY <1>1, Sizes DEF WrInit, Placed, Prepared, Cells, Before
<1>5. OthersUntouched
  BY DEF WrInit, OthersUntouched
<1>6. QED
  BY <1>2, <1>3, <1>4, <1>5 DEF WrInv

(* The steps that leave the card alone. *)
LEMMA ReadStep == WrInv /\ Read => WrInv'
<1> SUFFICES ASSUME WrInv, Read PROVE WrInv'
  OBVIOUS
<1> USE DEF WrInv
<1>1. Typed'
  BY Sizes, AskedTypes DEF Read, Typed, Fail, Rest
<1>2. /\ asked' = asked /\ start_address' = start_address /\ offset' = offset
      /\ wr = "read"
      /\ wr' = "piece" => 1 <= length' /\ length' <= Rest
      /\ wr' = "success" => Rest = 0
  BY Sizes DEF Read
<1>3. Rest = asked.start + asked.size - start_address
  BY DEF Rest
<1>4. Progress'
  <2>1. length' \in Nat
    BY <1>1, Sizes DEF Typed
  <2>2. wr' = "piece" => start_address + length' <= asked.start + asked.size
    BY <1>2, <1>3, <2>1, AskedTypes
  <2>3. ASSUME wr' = "success" PROVE start_address = asked.start + asked.size
    <3>1. asked.start + asked.size - start_address = 0
      BY <1>2, <1>3, <2>3, Zenon
    <3>2. QED
      BY <3>1, AskedTypes
  <2>4. QED
    BY <1>2, <2>2, <2>3 DEF Progress
<1>5. Ahead'
  BY <1>2 DEF Ahead
<1>6. Placed' /\ Prepared'
  BY DEF Read, Placed, Prepared
<1>7. OthersUntouched'
  BY DEF Read, OthersUntouched, Reach, Before
<1>8. QED
  BY <1>1, <1>4, <1>5, <1>6, <1>7

LEMMA DeclineStep == WrInv /\ Decline => WrInv'
<1> SUFFICES ASSUME WrInv, Decline PROVE WrInv'
  OBVIOUS
<1>1. QED
  BY DEF WrInv, Decline, Typed, Progress, Ahead, Placed, Prepared, OthersUntouched, Reach, Before

(* A block that is erased, or spoiled by an erase, lies in the reach of the *)
(* command, and holds nothing that was written.                             *)
LEMMA BlockInReach ==
  ASSUME WrInv, wr = "piece", ReachesInto
  PROVE  /\ asked.erase
         /\ \A c \in Cells : c \in Block(offset) => c \in Reach
         /\ \A c \in Cells : c \in Block(offset) => ~ (asked.start <= c /\ c < start_address)
<1> USE DEF WrInv
<1>1. asked.erase /\ offset < start_address + length
  BY DEF ReachesInto
<1>2. start_address + length <= asked.start + asked.size /\ asked.start < offset + BlockSize
  BY DEF Progress, Ahead
<1>3. ASSUME NEW c \in Cells, c \in Block(offset)
      PROVE  c \in Reach
  <2>1. c \in Nat /\ offset <= c /\ c < offset + BlockSize
    BY <1>3, Sizes, AskedTypes DEF Block, Cells
  <2>2. BlockSize * (c \div BlockSize) = offset
    BY <2>1, Sizes, AskedTypes, BlockOfCell DEF Typed
  <2> DEFINE m == IF offset < asked.start THEN asked.start ELSE offset
  <2>3. m \in Block(offset) /\ m \in asked.start .. asked.start + asked.size - 1
    BY <1>1, <1>2, Sizes, AskedTypes DEF Block, Progress
  <2>4. QED
    BY <1>1, <2>2, <2>3 DEF Reach
<1>4. ASSUME NEW c \in Cells, c \in Block(offset), asked.start <= c, c < start_address
      PROVE  FALSE
  BY <1>1, <1>4, Sizes, AskedTypes DEF Ahead, Block, Cells
<1>5. QED
  BY <1>1, <1>3, <1>4

LEMMA EraseStep == WrInv /\ EraseBlock => WrInv'
<1> SUFFICES ASSUME WrInv, EraseBlock PROVE WrInv'
  OBVIOUS
<1> USE DEF WrInv
<1>1. Typed'
  <2>1. offset' = offset + BlockSize /\ offset' \in Nat /\ offset' % BlockSize = 0
    BY Sizes, AskedTypes, NextBlock DEF EraseBlock, Typed
  <2>2. cells' \in [Cells -> Contents]
    BY DEF EraseBlock, Typed, Contents
  <2>3. tries' \in 0 .. 2
    BY DEF EraseBlock
  <2>4. interrogate' \in BOOLEAN
    BY Zenon DEF EraseBlock
  <2>5. asked' = asked /\ wr' = wr /\ start_address' = start_address /\ length' = length
        /\ wrFaults' = wrFaults
    BY DEF EraseBlock
  <2>6. QED
    BY <2>1, <2>2, <2>3, <2>4, <2>5, Zenon DEF Typed
<1>2. Progress' /\ Ahead'
  BY Sizes, AskedTypes DEF EraseBlock, Progress, Ahead
<1>3. wr = "piece" /\ ReachesInto
  BY DEF EraseBlock
<1>4. Placed'
  BY <1>3, BlockInReach DEF EraseBlock, Placed
<1>5. Prepared'
  <2>1. ASSUME NEW c \in Cells, start_address <= c, c < offset + BlockSize
        PROVE  cells'[c] = Blank
    <3>1. CASE c < offset
      BY <1>3, <2>1, <3>1, BlockInReach DEF EraseBlock, Prepared
    <3>2. CASE ~ (c < offset)
      BY <2>1, <3>2, Sizes, AskedTypes DEF EraseBlock, Block, Cells
    <3>3. QED
      BY <3>1, <3>2
  <2>2. QED
    BY <1>3, <2>1, BlockInReach DEF EraseBlock, Prepared
<1>6. OthersUntouched'
  BY <1>3, BlockInReach DEF EraseBlock, OthersUntouched, Reach, Before
<1>7. QED
  BY <1>1, <1>2, <1>4, <1>5, <1>6

LEMMA EraseFailsStep == WrInv /\ EraseFails => WrInv'
<1> SUFFICES ASSUME WrInv, EraseFails PROVE WrInv'
  OBVIOUS
<1> USE DEF WrInv
<1>1. Typed'
  <2>1. tries' \in 0 .. 2 /\ wrFaults' \in 0 .. MaxFaults
    BY Sizes DEF EraseFails, Fail, Typed
  <2>2. cells' \in [Cells -> Contents]
    BY DEF EraseFails, Typed, Contents
  <2>3. QED
    BY <2>1, <2>2 DEF EraseFails, Typed
<1>2. Progress' /\ Ahead'
  BY DEF EraseFails, Progress, Ahead
<1>3. wr = "piece" /\ ReachesInto
  BY DEF EraseFails
<1>4. \A c \in Cells : c \notin Block(offset) => cells'[c] = cells[c]
  BY DEF EraseFails, Typed
<1>5. Placed'
  BY <1>3, <1>4, BlockInReach DEF EraseFails, Placed
<1>6. Prepared'
  <2>1. ASSUME NEW c \in Cells, c < offset
        PROVE  c \notin Block(offset)
    BY <2>1, Sizes, AskedTypes DEF Block, Cells
  <2>2. QED
    BY <1>3, <1>4, <2>1, BlockInReach DEF EraseFails, Prepared
<1>7. OthersUntouched'
  BY <1>3, <1>4, BlockInReach DEF EraseFails, OthersUntouched, Reach, Before
<1>8. QED
  BY <1>1, <1>2, <1>5, <1>6, <1>7

(* The cells a piece is written to are in the reach of the command, and blank *)
(* if the card was blank or is erased.                                        *)
LEMMA PieceInReach ==
  ASSUME WrInv, wr = "piece",
         NEW c \in Cells, start_address <= c, c < start_address + length
  PROVE  c \in Reach
<1> USE DEF WrInv
<1> DEFINE image == asked.start .. asked.start + asked.size - 1
<1>1. c \in image
  BY Sizes, AskedTypes DEF Progress, Cells
<1>2. CASE asked.erase
  <2> DEFINE o == BlockSize * (c \div BlockSize)
  <2>1. o \in Nat /\ o <= c /\ c < o + BlockSize
    BY Sizes, Floor DEF Cells
  <2>2. c \in Block(o)
    BY <2>1, Sizes DEF Block, Cells
  <2>3. QED
    BY <1>1, <1>2, <2>2 DEF Reach
<1>3. CASE ~ asked.erase
  BY <1>1, <1>3 DEF Reach
<1>4. QED
  BY <1>2, <1>3

LEMMA WriteStep == WrInv /\ Write => WrInv'
<1> SUFFICES ASSUME WrInv, Write PROVE WrInv'
  OBVIOUS
<1> USE DEF WrInv
<1> DEFINE piece == start_address .. start_address + length - 1
<1>0. wr = "piece" /\ ~ ReachesInto /\ start_address + length <= CardSize
  BY DEF Write
<1>1. \A c \in Cells : cells'[c] = IF c \in piece
                                     THEN Programmed(cells[c], Image(c - asked.start)) ELSE cells[c]
  BY DEF Write, Written
<1>2. Typed'
  <2>1. \A c \in Cells : c \in piece => c - asked.start \in 0 .. CardSize
    BY Sizes, AskedTypes DEF Cells, Progress
  <2>2. cells' \in [Cells -> Contents]
    <3>1. \A c \in Cells : c \in piece => Image(c - asked.start) \in Contents
      BY <2>1 DEF Contents
    <3>2. \A c \in Cells : cells[c] \in Contents /\ Junk \in Contents
      BY DEF Typed, Contents
    <3>3. cells' = [c \in Cells |-> cells'[c]]
      BY DEF Write, Written
    <3> HIDE DEF Contents
    <3>4. QED
      BY <1>1, <3>1, <3>2, <3>3 DEF Programmed
  <2>3. QED
    BY <2>2, AskedTypes DEF Write, Typed
<1>3. Progress' /\ Ahead'
  BY <1>0, Sizes, AskedTypes DEF Write, Progress, Ahead, ReachesInto
<1>4. Placed'
  <2> SUFFICES ASSUME asked.erase \/ asked.blank, NEW c \in Cells,
                      asked.start <= c, c < start_address + length
               PROVE  cells'[c] = Image(c - asked.start)
    BY DEF Write, Placed
  <2>1. CASE c < start_address
    BY <1>0, <1>1, <2>1, Sizes, AskedTypes DEF Placed, Cells
  <2>2. CASE ~ (c < start_address)
    <3>1. c \in piece
      BY <2>2, Sizes, AskedTypes DEF Cells
    <3>2. asked.erase => c < offset
      BY <1>0, Sizes, AskedTypes DEF ReachesInto, Cells
    <3>3. cells[c] = Blank
      BY <1>0, <2>2, <3>2, Sizes, AskedTypes DEF Prepared, Cells
    <3>4. QED
      BY <1>1, <3>1, <3>3 DEF Programmed
  <2>3. QED
    BY <2>1, <2>2
<1>5. Prepared'
  BY <1>0, <1>1, Sizes, AskedTypes DEF Write, Prepared, Cells
<1>6. OthersUntouched'
  <2>1. \A c \in Cells : c \in piece => c \in Reach
    BY <1>0, PieceInReach, Sizes, AskedTypes DEF Cells
  <2>2. QED
    BY <1>1, <2>1 DEF Write, OthersUntouched, Reach, Before
<1>7. QED
  BY <1>2, <1>3, <1>4, <1>5, <1>6

LEMMA WriteFailsStep == WrInv /\ WriteFails => WrInv'
<1> SUFFICES ASSUME WrInv, WriteFails PROVE WrInv'
  OBVIOUS
<1> USE DEF WrInv
<1>0. wr = "piece" /\ wr' = "failure"
  BY DEF WriteFails
<1>1. PICK n \in 0 .. length - 1 : cells' = Written(n)
  BY DEF WriteFails
<1> DEFINE piece == start_address .. start_address + n - 1
<1>2. \A c \in Cells : cells'[c] = IF c \in piece
                                     THEN Programmed(cells[c], Image(c - asked.start)) ELSE cells[c]
  BY <1>1 DEF Written
<1>3. Typed'
  <2>1. \A c \in Cells : c \in piece => c - asked.start \in 0 .. CardSize
    BY <1>0, Sizes, AskedTypes DEF Cells, Progress
  <2>2. cells' \in [Cells -> Contents]
    <3>1. \A c \in Cells : c \in piece => Image(c - asked.start) \in Contents
      BY <2>1 DEF Contents
    <3>2. \A c \in Cells : cells[c] \in Contents /\ Junk \in Contents
      BY DEF Typed, Contents
    <3>3. cells' = [c \in Cells |-> cells'[c]]
      BY <1>1 DEF Written
    <3> HIDE DEF Contents
    <3>4. QED
      BY <1>2, <3>1, <3>2, <3>3 DEF Programmed
  <2>3. QED
    BY <2>2, Sizes DEF WriteFails, Fail, Typed
<1>4. Progress' /\ Ahead'
  BY <1>0 DEF WriteFails, Progress, Ahead
<1>5. Placed' /\ Prepared'
  BY <1>0 DEF Placed, Prepared
<1>6. OthersUntouched'
  <2>1. \A c \in Cells : c \in piece => c \in Reach
    BY <1>0, PieceInReach, Sizes, AskedTypes DEF Cells
  <2>2. QED
    BY <1>2, <2>1 DEF WriteFails, OthersUntouched, Reach, Before
<1>7. QED
  BY <1>3, <1>4, <1>5, <1>6

LEMMA NextInv == WrInv /\ [WrNext]_wrVars => WrInv'
<1>1. ASSUME WrInv, UNCHANGED wrVars PROVE WrInv'
  BY <1>1 DEF WrInv, wrVars, Typed, Progress, Ahead, Placed, Prepared, OthersUntouched, Reach, Before
<1>2. QED
  BY <1>1, ReadStep, DeclineStep, EraseStep, EraseFailsStep, WriteStep, WriteFailsStep DEF WrNext

LEMMA InvImplies == WrInv => CardAsAsked
<1> SUFFICES ASSUME WrInv PROVE CardAsAsked
  OBVIOUS
<1>1. ASSUME wr = "success", asked.erase \/ asked.blank, NEW i \in 0 .. asked.size - 1
      PROVE  cells[asked.start + i] = Image(i)
  <2>1. PICK c \in Nat : c = asked.start + i
    BY Sizes, AskedTypes DEF WrInv
  <2>2. c \in Cells /\ asked.start <= c /\ c < start_address /\ c - asked.start = i
    BY <1>1, <2>1, Sizes, AskedTypes DEF WrInv, Progress, Cells
  <2>3. cells[c] = Image(c - asked.start)
    BY <1>1, <2>2 DEF WrInv, Placed
  <2>4. QED
    BY <2>1, <2>2, <2>3, Zenon
<1>2. QED
  BY <1>1 DEF WrInv, CardAsAsked, ImageInPlace

(* wrflash keeps its promise about the card: format_partition, line 57. *)
THEOREM CardIsAsAsked == WrSpec => []CardAsAsked
<1>1. WrSpec => []WrInv
  BY InitInv, NextInv, PTL DEF WrSpec
<1>2. QED
  BY <1>1, InvImplies, PTL

---------------------------------------------------------------------------
(* The composition. *)

(* A script is one record; only update leaves the first part behind. *)
Record == [pc |-> sh.pc, from |-> sh.from, retries |-> sh.retries, part |-> sh.part,
           failed |-> sh.failed]
Script1 ==
  /\ sh = Record /\ sh.part \in AP!Parts
  /\ sh.part = 2 => sh.pc = "program"

(* The flash has two parts. *)
Onboard2 == onboard = [p \in AP!Parts |-> onboard[p]]

(* update works on an image that was verified, and has programmed what is *)
(* behind it.                                                             *)
Verified ==
  /\ AP!Updating => AP!SumMatches
  /\ sh.part = 2 => onboard[1] = AP!Found.image[1]

(* Without power nothing runs. *)
Off == up = "off" => sh.pc = "idle"

OnboardInv == Script1 /\ Onboard2 /\ Verified /\ AP!OnboardWhole

(* A script that has ended, or goes on with another command, is a script. *)
LEMMA ScriptEnded == sh' = AP!Idle => Script1' /\ Verified' /\ ~ AP!Updating'
<1> SUFFICES ASSUME sh' = AP!Idle PROVE Script1' /\ Verified' /\ ~ AP!Updating'
  OBVIOUS
<1>1. sh'.pc = "idle" /\ sh'.part = 1 /\ sh' = Record'
  BY DEF AP!Idle, Record
<1>2. QED
  BY <1>1 DEF Script1, Verified, AP!Updating, AP!Parts

LEMMA ScriptGoesOn ==
  ASSUME Script1, NEW pc, sh.part = 1, sh' = [sh EXCEPT !.pc = pc]
  PROVE  /\ Script1' /\ sh'.pc = pc /\ sh'.part = 1 /\ sh'.from = sh.from
<1>1. sh' = [pc |-> pc, from |-> sh.from, retries |-> sh.retries, part |-> sh.part,
              failed |-> sh.failed]
  BY DEF Script1, Record
<1>2. QED
  BY <1>1 DEF Script1, Record, AP!Parts

LEMMA InitOnboard == AP!ReflashInit => OnboardInv
<1> SUFFICES ASSUME AP!ReflashInit PROVE OnboardInv
  OBVIOUS
<1>1. sh = AP!Idle /\ onboard = AP!Img(Vendor)
  BY DEF AP!ReflashInit
<1>2. Script1 /\ Verified
  <2>1. sh.pc = "idle" /\ sh.part = 1 /\ sh = Record
    BY <1>1 DEF AP!Idle, Record
  <2>2. QED
    BY <2>1 DEF Script1, Verified, AP!Updating, AP!Parts
<1>3. Onboard2 /\ AP!OnboardWhole
  BY <1>1 DEF Onboard2, AP!OnboardWhole, AP!Img
<1>4. QED
  BY <1>2, <1>3 DEF OnboardInv

(* The steps that neither touch the flash nor begin an update. *)
LEMMA ScriptQuiet ==
  ASSUME OnboardInv, ~ AP!Updating, Script1', ~ AP!Updating',
         onboard' = onboard, spoiled' = spoiled
  PROVE  OnboardInv'
<1>1. sh'.part # 2
  BY DEF Script1, AP!Updating
<1>2. Onboard2'
  BY DEF OnboardInv, Onboard2
<1>3. AP!OnboardWhole'
  BY DEF OnboardInv, AP!OnboardWhole, AP!Whole
<1>4. QED
  BY <1>1, <1>2, <1>3 DEF OnboardInv, Verified

(* The steps of others, while a script may be at work. *)
LEMMA OthersStep ==
  ASSUME OnboardInv, UNCHANGED <<CardFiles, local, tmp, onboard, sh, spoiled>>
  PROVE  OnboardInv'
<1>1. AP!Found' = AP!Found
  BY DEF AP!Found
<1>2. Script1' /\ Onboard2'
  BY DEF OnboardInv, Script1, Record, Onboard2
<1>3. Verified'
  BY <1>1 DEF OnboardInv, Verified, AP!Updating, AP!SumMatches
<1>4. AP!OnboardWhole'
  BY DEF OnboardInv, AP!OnboardWhole, AP!Updating, AP!Whole
<1>5. QED
  BY <1>2, <1>3, <1>4 DEF OnboardInv

LEMMA ScriptVerify == OnboardInv /\ AP!Verify => OnboardInv'
<1> SUFFICES ASSUME OnboardInv, AP!Verify PROVE OnboardInv'
  OBVIOUS
<1>1. sh.pc = "verify" /\ ~ AP!Updating /\ sh.part = 1
  BY DEF AP!Verify, AP!At, AP!Updating, OnboardInv, Script1, AP!Parts
<1>2. CASE AP!SumMatches
  <2>1. sh' = [sh EXCEPT !.pc = "erase"] /\ UNCHANGED <<CardFiles, local, tmp, onboard, spoiled>>
    BY <1>2 DEF AP!Verify, AP!Goto
  <2>2. Script1' /\ sh'.part = 1 /\ sh'.pc = "erase" /\ sh'.from = sh.from
    BY <1>1, <2>1, ScriptGoesOn DEF OnboardInv
  <2>3. AP!Found' = AP!Found
    BY <2>1, <2>2 DEF AP!Found
  <2>4. Verified'
    BY <1>2, <2>2, <2>3 DEF Verified, AP!SumMatches
  <2>5. Onboard2' /\ AP!OnboardWhole'
    BY <2>1, <2>2 DEF OnboardInv, Onboard2, AP!OnboardWhole, AP!Updating
  <2>6. QED
    BY <2>2, <2>4, <2>5 DEF OnboardInv
<1>3. CASE ~ AP!SumMatches /\ sh' = AP!Idle
  BY <1>1, <1>3, ScriptEnded, ScriptQuiet DEF AP!Verify
<1>4. CASE ~ AP!SumMatches /\ sh' # AP!Idle
  <2> DEFINE n  == AP!NextTry(sh.retries)
             f  == IF sh.failed < Attempts THEN sh.failed + 1 ELSE sh.failed
             pc == IF sh.from = "tftp" THEN "get_flash" ELSE "link"
  <2>1. sh' = [sh EXCEPT !.retries = n, !.failed = f, !.pc = pc]
    BY <1>4 DEF AP!Verify, AP!TestFtfp
  <2>2. sh' = [pc |-> pc, from |-> sh.from, retries |-> n, part |-> sh.part,
              failed |-> f]
    BY <2>1 DEF OnboardInv, Script1, Record
  <2>3. Script1' /\ ~ AP!Updating'
    <3>1. sh'.part = 1 /\ sh'.pc \in {"get_flash", "link"} /\ sh' = Record'
      BY <1>1, <2>2 DEF Record
    <3>2. QED
      BY <3>1 DEF Script1, AP!Updating, AP!Parts
  <2>4. QED
    BY <1>1, <2>3, ScriptQuiet DEF AP!Verify
<1>5. QED
  BY <1>2, <1>3, <1>4

LEMMA ScriptErase == OnboardInv /\ AP!Erase => OnboardInv'
<1> SUFFICES ASSUME OnboardInv, AP!Erase PROVE OnboardInv'
  OBVIOUS
<1>1. sh.pc = "erase" /\ AP!Updating /\ sh.part = 1
  BY DEF AP!Erase, AP!At, AP!Updating, OnboardInv, Script1, AP!Parts
<1>2. CASE onboard' = <<AP!Blank, AP!Blank>> /\ AP!Goto("program")
  <2>1. sh' = [sh EXCEPT !.pc = "program"] /\ UNCHANGED <<CardFiles, local, tmp>>
    BY <1>2 DEF AP!Goto, AP!Erase
  <2>2. Script1' /\ sh'.part = 1 /\ sh'.pc = "program" /\ sh'.from = sh.from
    BY <1>1, <2>1, ScriptGoesOn DEF OnboardInv
  <2>3. AP!Found' = AP!Found
    BY <2>1, <2>2 DEF AP!Found
  <2>4. Verified'
    BY <1>1, <2>2, <2>3 DEF OnboardInv, Verified, AP!SumMatches
  <2>5. Onboard2' /\ AP!OnboardWhole'
    BY <1>2, <2>2 DEF Onboard2, AP!OnboardWhole, AP!Updating, AP!Parts
  <2>6. QED
    BY <2>2, <2>4, <2>5 DEF OnboardInv
<1>3. CASE sh' = AP!Idle /\ spoiled' = TRUE /\ onboard' \in {onboard, <<AP!Blank, onboard[2]>>}
  <2>1. Script1' /\ Verified'
    BY <1>3, ScriptEnded
  <2>2. Onboard2'
    BY <1>3 DEF OnboardInv, Onboard2, AP!Parts
  <2>3. AP!OnboardWhole'
    BY <1>3 DEF AP!OnboardWhole
  <2>4. QED
    BY <2>1, <2>2, <2>3 DEF OnboardInv
<1>4. QED
  BY <1>2, <1>3 DEF AP!Erase

LEMMA ScriptProgram == OnboardInv /\ AP!Program => OnboardInv'
<1> SUFFICES ASSUME OnboardInv, AP!Program PROVE OnboardInv'
  OBVIOUS
<1>1. sh.pc = "program" /\ AP!Updating /\ sh.part \in AP!Parts
  BY DEF AP!Program, AP!At, AP!Updating, OnboardInv, Script1
<1>2. PICK r \in Releases : AP!Found = AP!File(AP!Img(r), r)
  BY <1>1 DEF OnboardInv, Verified, AP!SumMatches
<1>3. AP!Found.image[1] = r /\ AP!Found.image[2] = r
  BY <1>2 DEF AP!File, AP!Img, AP!Parts
<1>4. CASE /\ onboard' = [onboard EXCEPT ![sh.part] = AP!Found.image[sh.part]]
           /\ sh.part = 2 /\ sh' = AP!Idle /\ spoiled' = FALSE
  <2>1. Script1' /\ Verified'
    BY <1>4, ScriptEnded
  <2>2. onboard' = AP!Img(r)
    <3>1. onboard[1] = r
      BY <1>3, <1>4 DEF OnboardInv, Verified
    <3>2. onboard' = [p \in AP!Parts |-> IF p = 2 THEN r ELSE onboard[p]]
      BY <1>3, <1>4 DEF OnboardInv, Onboard2, AP!Parts
    <3>3. QED
      BY <3>1, <3>2 DEF AP!Img, AP!Parts
  <2>3. Onboard2' /\ AP!OnboardWhole'
    BY <2>2 DEF Onboard2, AP!OnboardWhole, AP!Whole, AP!Img
  <2>4. QED
    BY <2>1, <2>3 DEF OnboardInv
<1>5. CASE /\ onboard' = [onboard EXCEPT ![sh.part] = AP!Found.image[sh.part]]
           /\ sh.part # 2 /\ sh' = [sh EXCEPT !.part = sh.part + 1]
           /\ UNCHANGED <<CardFiles, local, tmp>>
  <2>0. sh' = [pc |-> sh.pc, from |-> sh.from, retries |-> sh.retries, part |-> sh.part + 1,
              failed |-> sh.failed]
    BY <1>5 DEF OnboardInv, Script1, Record
  <2>1. sh.part = 1 /\ sh'.part = 2 /\ sh'.pc = "program"
    BY <1>1, <1>5, <2>0 DEF AP!Parts
  <2>2. AP!Found' = AP!Found
    BY <1>5, <2>0 DEF AP!Found
  <2>3. Script1'
    BY <2>0, <2>1 DEF Script1, Record, AP!Parts
  <2>4. onboard' = [p \in AP!Parts |-> onboard'[p]] /\ onboard'[1] = AP!Found.image[1]
    <3>1. onboard' = [p \in AP!Parts |-> IF p = 1 THEN AP!Found.image[1] ELSE onboard[p]]
      BY <1>5, <2>1 DEF OnboardInv, Onboard2, AP!Parts
    <3>2. QED
      BY <3>1 DEF AP!Parts
  <2>5. Verified'
    BY <1>1, <2>2, <2>4 DEF OnboardInv, Verified, AP!SumMatches
  <2>6. Onboard2' /\ AP!OnboardWhole'
    BY <2>1, <2>4 DEF Onboard2, AP!OnboardWhole, AP!Updating
  <2>7. QED
    BY <2>3, <2>5, <2>6 DEF OnboardInv
<1>6. CASE sh' = AP!Idle /\ spoiled' = TRUE /\ onboard' = onboard
  BY <1>6, ScriptEnded DEF OnboardInv, Onboard2, AP!OnboardWhole
<1>7. QED
  BY <1>1, <1>4, <1>5, <1>6 DEF AP!Program

LEMMA ScriptPowerOff == OnboardInv /\ AP!PowerOff => OnboardInv'
<1> SUFFICES ASSUME OnboardInv, AP!PowerOff PROVE OnboardInv'
  OBVIOUS
<1>1. sh' = AP!Idle /\ onboard' = onboard /\ spoiled' = (spoiled \/ AP!Updating)
  BY DEF AP!PowerOff
<1>2. Script1' /\ Verified' /\ Onboard2'
  BY <1>1, ScriptEnded DEF OnboardInv, Onboard2
<1>3. AP!OnboardWhole'
  BY <1>1 DEF OnboardInv, AP!OnboardWhole, AP!Whole
<1>4. QED
  BY <1>2, <1>3 DEF OnboardInv

(* What is left of the script: none of it is update. *)
LEMMA ScriptFetch ==
  OnboardInv /\ Off /\ (AP!Start \/ AP!Prep \/ AP!GetFlash \/ AP!Receive \/ AP!GetSum \/ AP!Link \/ AP!BootCard) => OnboardInv'
<1> DEFINE Places == {"prep", "link", "get_flash", "receive", "get_sum", "verify"}
           Sources == {"tftp", "file", "tmp_flash", "card"}
<1> SUFFICES ASSUME OnboardInv, Off,
                    AP!Start \/ AP!Prep \/ AP!GetFlash \/ AP!Receive \/ AP!GetSum \/ AP!Link \/ AP!BootCard
             PROVE  OnboardInv'
  OBVIOUS
<1>1. ~ AP!Updating /\ UNCHANGED <<onboard, spoiled>>
  <2>1. CASE AP!BootCard
    BY <2>1 DEF AP!BootCard, Off, AP!Updating
  <2>2. CASE AP!Start \/ AP!Prep \/ AP!GetFlash \/ AP!Receive \/ AP!GetSum \/ AP!Link
    BY <2>2 DEF AP!Start, AP!Prep, AP!GetFlash, AP!Receive, AP!GetSum, AP!Link, AP!At, AP!Updating
  <2>3. QED
    BY <2>1, <2>2
<1>2. sh.part = 1 /\ Script1
  BY <1>1 DEF OnboardInv, Script1, AP!Updating, AP!Parts
<1>3. Script1' /\ ~ AP!Updating'
  <2>1. CASE \E pc \in Places : sh' = [sh EXCEPT !.pc = pc]
    BY <1>2, <2>1, ScriptGoesOn DEF AP!Updating
  <2>2. CASE \E pc \in Places, from \in Sources : sh' = [AP!Idle EXCEPT !.from = from, !.pc = pc]
    <3>1. PICK pc \in Places, from \in Sources : sh' = [pc |-> pc, from |-> from, retries |-> 1, part |-> 1, failed |-> 0]
      BY <2>2 DEF AP!Idle
    <3>2. QED
      BY <3>1 DEF Script1, Record, AP!Updating, AP!Parts
  <2>3. CASE UNCHANGED sh
    BY <1>1, <1>2, <2>3 DEF Script1, Record, AP!Updating
  <2>4. CASE AP!Start \/ AP!BootCard
    BY <2>2, <2>4 DEF AP!Start, AP!BootCard
  <2>5. CASE AP!Prep \/ AP!GetFlash \/ AP!Receive \/ AP!GetSum \/ AP!Link
    BY <2>1, <2>3, <2>5 DEF AP!Prep, AP!GetFlash, AP!Receive, AP!GetSum, AP!Link, AP!Goto
  <2>6. QED
    BY <2>4, <2>5
<1>4. QED
  BY <1>1, <1>3, ScriptQuiet

LEMMA NextOff ==
  ASSUME Off, Script1, [AP!ReflashNext]_(AP!vars)
  PROVE  Off'
<1>1. CASE AP!Publish \/ AP!CopyOn \/ AP!NewLocal \/ AP!Boot \/ UNCHANGED AP!vars
  BY <1>1 DEF AP!Publish, AP!CopyOn, AP!NewLocal, AP!Boot, AP!vars, Off
<1>2. CASE AP!Start \/ AP!Prep \/ AP!GetFlash \/ AP!Receive \/ AP!GetSum \/ AP!Link \/ AP!Verify \/ AP!Erase
  BY <1>2 DEF AP!Start, AP!Prep, AP!GetFlash, AP!Receive, AP!GetSum, AP!Link, AP!Verify, AP!Erase, AP!At, Off
<1>3. CASE AP!Program
  BY <1>3 DEF AP!Program, AP!At, Off, AP!Idle
<1>4. CASE AP!BootCard \/ AP!PowerOff
  BY <1>4 DEF AP!BootCard, AP!PowerOff, Off, AP!Idle
<1>5. QED
  BY <1>1, <1>2, <1>3, <1>4 DEF AP!ReflashNext, AP!Script

LEMMA NextOnboard == OnboardInv /\ Off /\ [AP!ReflashNext]_(AP!vars) => OnboardInv'
<1> SUFFICES ASSUME OnboardInv, Off, [AP!ReflashNext]_(AP!vars) PROVE OnboardInv'
  OBVIOUS
<1>1. CASE AP!Publish \/ AP!CopyOn \/ AP!Boot \/ UNCHANGED AP!vars
  BY <1>1, OthersStep DEF AP!Publish, AP!CopyOn, AP!Boot, AP!vars
<1>2. CASE AP!NewLocal
  <2>1. ~ AP!Updating /\ UNCHANGED <<onboard, sh, spoiled>>
    BY <1>2 DEF AP!NewLocal
  <2>2. Script1' /\ ~ AP!Updating'
    BY <2>1 DEF OnboardInv, Script1, Record, AP!Updating
  <2>3. QED
    BY <2>1, <2>2, ScriptQuiet
<1>3. QED
  BY <1>1, <1>2, ScriptFetch, ScriptVerify, ScriptErase, ScriptProgram, ScriptPowerOff
  DEF AP!ReflashNext, AP!Script

(* While the card is written the access point is still off. *)
Waiting == ~ WrEnded => sh.pc = "idle"

InstallInv == OnboardInv /\ Off /\ Waiting

LEMMA InitInstalled == Init => InstallInv
<1> SUFFICES ASSUME Init PROVE InstallInv
  OBVIOUS
<1>1. AP!ReflashInit
  BY DEF Init
<1>2. sh.pc = "idle"
  BY <1>1 DEF AP!ReflashInit, AP!Idle
<1>3. OnboardInv
  BY <1>1, InitOnboard
<1>4. QED
  BY <1>2, <1>3 DEF InstallInv, Waiting, Off

(* wrflash writes the card: no script reads it yet. *)
LEMMA WrStep == InstallInv /\ WrNext /\ UNCHANGED apVars => InstallInv'
<1> SUFFICES ASSUME InstallInv, WrNext, UNCHANGED apVars PROVE InstallInv'
  OBVIOUS
<1>1. ~ WrEnded
  BY DEF WrNext, WrEnded, Read, Decline, EraseBlock, EraseFails, Write, WriteFails
<1>2. sh.pc = "idle" /\ sh' = sh /\ UNCHANGED <<onboard, up, spoiled>>
  BY <1>1 DEF InstallInv, Waiting, apVars
<1>3. ~ AP!Updating /\ ~ AP!Updating'
  BY <1>2 DEF AP!Updating
<1>4. Script1'
  BY <1>2 DEF InstallInv, OnboardInv, Script1, Record
<1>5. OnboardInv'
  BY <1>2, <1>3, <1>4, ScriptQuiet DEF InstallInv
<1>6. QED
  BY <1>2, <1>5 DEF InstallInv, Waiting, Off

LEMMA NextInstalled == InstallInv /\ [Next]_vars => InstallInv'
<1> SUFFICES ASSUME InstallInv, [Next]_vars PROVE InstallInv'
  OBVIOUS
<1>1. CASE WrNext /\ UNCHANGED apVars
  BY <1>1, WrStep
<1>2. CASE WrEnded /\ UNCHANGED wrVars /\ AP!ReflashNext
  <2>1. [AP!ReflashNext]_(AP!vars)
    BY <1>2
  <2>2. OnboardInv' /\ Off'
    BY <2>1, NextOnboard, NextOff DEF InstallInv, OnboardInv
  <2>3. WrEnded'
    BY <1>2 DEF WrEnded, wrVars
  <2>4. QED
    BY <2>2, <2>3 DEF InstallInv, Waiting
<1>3. CASE UNCHANGED vars
  <2>1. UNCHANGED <<server, local, tmp, onboard, up, sh, count, spoiled>> /\ cells' = cells /\ wr' = wr
    BY <1>3 DEF vars, wrVars, apVars
  <2>2. CardFiles' = CardFiles
    BY <2>1 DEF CardFiles
  <2>3. [AP!ReflashNext]_(AP!vars)
    BY <2>1, <2>2 DEF AP!vars
  <2>4. OnboardInv' /\ Off'
    BY <2>3, NextOnboard, NextOff DEF InstallInv, OnboardInv
  <2>5. QED
    BY <2>1, <2>4 DEF InstallInv, Waiting, WrEnded
<1>4. QED
  BY <1>1, <1>2, <1>3 DEF Next

(* What reflash and 00flash leave in the flash is a whole release or the     *)
(* vendor's software, unless update failed or lost power in the middle: each *)
(* hands update an image only after md5sum has accepted that very image, and *)
(* nothing the server, the network or wrflash does can change it after that. *)
THEOREM FlashHoldsARelease == Spec => []OnboardWhole
<1>1. InstallInv => OnboardWhole
  BY DEF InstallInv, OnboardInv, OnboardWhole
<1>2. QED
  BY <1>1, InitInstalled, NextInstalled, PTL DEF Spec

(* Composed with the scripts wrflash still behaves as on its own, so what it *)
(* promises of the card stays true while the access point runs from it.      *)
THEOREM CardStaysAsAsked == Spec => []CardAsAsked
<1>1. Init => WrInit
  BY DEF Init
<1>2. [Next]_vars => [WrNext]_wrVars
  BY DEF Next, vars
<1>3. Spec => WrSpec
  BY <1>1, <1>2, PTL DEF Spec, WrSpec
<1>4. QED
  BY <1>3, CardIsAsAsked, PTL
===========================================================================
