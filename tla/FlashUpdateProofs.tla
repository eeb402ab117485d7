------------------------- MODULE FlashUpdateProofs -------------------------
(***************************************************************************)
(* For every layout of erase regions, every command line and any number of *)
(* failing system calls: the erase loop of update stays on block           *)
(* boundaries and inside the range it was given (NeverMidErase), no cell   *)
(* outside the target is changed (OutsideUntouched), success means a       *)
(* complete image (CompleteImage), and with -s the old configuration is    *)
(* always somewhere (ConfigKept).                                          *)
(*                                                                         *)
(* For every request whose image fits its range, or whose range ends with  *)
(* the device: update implements NorFlash (NorDiscipline).                 *)
(***************************************************************************)
EXTENDS FlashUpdate, SequenceTheorems, TLAPS

---------------------------------------------------------------------------
(* Arithmetic of blocks: a multiple of e, and one block less of it.        *)

LEMMA Multiple ==
    ASSUME NEW a \in Nat, NEW e \in Nat \ {0}, a % e = 0
    PROVE  \E k \in Nat : a = k * e
<1>1. a = e * (a \div e) + (a % e) /\ a \div e \in Int
  BY SMT
<1>2. a \div e \in Nat
  BY SMT
<1>3. QED
  BY <1>1, <1>2, SMT

LEMMA ProductMod == \A k \in Nat, e \in Nat \ {0} : (k * e) % e = 0
  BY SMT

LEMMA OneBlockLess ==
    ASSUME NEW k \in Nat, NEW m \in Nat, NEW e \in Nat \ {0}, m * e < k * e
    PROVE  /\ k - 1 \in Nat
           /\ k * e - e = (k - 1) * e
           /\ m * e <= k * e - e
<1>1. k > m
  BY SMT
<1>2. k - 1 >= m /\ (k - 1) * e = k * e - e
  BY <1>1, SMT
<1>3. (k - 1) * e >= m * e
  BY <1>2, SMT
<1>4. QED
  BY <1>1, <1>2, <1>3, SMT

---------------------------------------------------------------------------
(* The geometry of the device.                                             *)

LEMMA RegionTypes ==
    ASSUME NEW r \in RegionIds
    PROVE  /\ Regions[r].offset \in Nat
           /\ Regions[r].numblocks \in Nat \ {0}
           /\ Regions[r].erasesize \in Nat \ {0}
           /\ RegionEnd(r) \in Nat
           /\ Regions[r].offset < RegionEnd(r)
<1>1. /\ Regions[r].offset \in Nat
      /\ Regions[r].numblocks \in Nat \ {0}
      /\ Regions[r].erasesize \in Nat \ {0}
  <2> DEFINE Region == [offset: Nat, numblocks: Nat \ {0}, erasesize: Nat \ {0}]
  <2>1. Regions \in Seq(Region) /\ r \in 1..Len(Regions)
    BY RegionsAssumption DEF RegionIds
  <2>2. Regions[r] \in Region
    <3> HIDE DEF Region
    <3> QED BY <2>1, ElementOfSeq
  <2>3. QED
    BY <2>2
<1>2. /\ Regions[r].numblocks * Regions[r].erasesize \in Nat
      /\ Regions[r].numblocks * Regions[r].erasesize > 0
  <2>1. \A n, e \in Nat \ {0} : n * e \in Nat /\ n * e > 0
    BY SMT
  <2>2. QED
    BY <1>1, <2>1
<1>3. QED
  BY <1>1, <1>2, SMT DEF RegionEnd

LEMMA DeviceEnd ==
    /\ Len(Regions) \in RegionIds
    /\ DeviceSize \in Nat
    /\ \A r \in RegionIds : RegionEnd(r) <= DeviceSize
<1>1. Len(Regions) \in RegionIds
  BY RegionsAssumption DEF RegionIds
<1>2. ASSUME NEW r \in RegionIds
      PROVE  RegionEnd(r) <= DeviceSize
  <2>1. CASE r = Len(Regions)
    BY <1>1, <2>1, RegionTypes DEF DeviceSize
  <2>2. CASE r < Len(Regions)
    <3>1. RegionEnd(r) <= Regions[Len(Regions)].offset
      BY <1>1, <2>2, RegionsAssumption
    <3>2. QED
      BY <1>1, <3>1, RegionTypes, SMT DEF DeviceSize
  <2>3. r <= Len(Regions)
    BY RegionsAssumption DEF RegionIds
  <2>4. QED
    BY <1>1, <2>1, <2>2, <2>3, RegionsAssumption, SMT DEF RegionIds
<1>3. QED
  BY <1>1, <1>2, RegionTypes DEF DeviceSize

(* A boundary lies on the device. *)
LEMMA BoundaryOnDevice ==
    ASSUME NEW off \in Nat, BoundaryCheck(off)
    PROVE  off <= DeviceSize
<1>1. PICK r \in RegionIds : Lands(r, off)
  BY DEF BoundaryCheck
<1>2. RegionEnd(r) <= DeviceSize /\ RegionEnd(r) \in Nat /\ DeviceSize \in Nat
  BY DeviceEnd, RegionTypes
<1>3. QED
  BY <1>1, <1>2, SMT DEF Lands, DeviceSize

(* Before the end of the device a boundary lies in exactly the region that *)
(* boundary_check returns, a whole number of blocks before its end.        *)
LEMMA RegionOfBoundary ==
    ASSUME NEW off \in Nat, BoundaryCheck(off), off < DeviceSize
    PROVE  /\ RegionAt(off) \in RegionIds
           /\ Regions[RegionAt(off)].offset <= off
           /\ off < RegionEnd(RegionAt(off))
           /\ (RegionEnd(RegionAt(off)) - off) % Regions[RegionAt(off)].erasesize = 0
<1>1. RegionAt(off) \in RegionIds /\ Lands(RegionAt(off), off)
  BY DEF BoundaryCheck, RegionAt
<1>2. RegionEnd(Len(Regions)) # off
  BY DeviceEnd DEF DeviceSize
<1>3. QED
  BY <1>1, <1>2 DEF Lands

(* One round of the erase loop, from a boundary before the end boundary,   *)
(* arrives at the next boundary and does not pass the end.                 *)
LEMMA BlockStep ==
    ASSUME NEW off \in Nat, NEW end \in Nat, off < end,
           BoundaryCheck(off), BoundaryCheck(end)
    PROVE  /\ EraseSize(off) \in Nat \ {0}
           /\ After(off) \in Nat
           /\ After(off) <= end
           /\ BoundaryCheck(After(off))
<1> DEFINE r == RegionAt(off)
           e == Regions[r].erasesize
<1>1. end <= DeviceSize /\ off < DeviceSize /\ DeviceSize \in Nat
  BY BoundaryOnDevice, DeviceEnd, SMT
<1>2. /\ r \in RegionIds
      /\ Regions[r].offset <= off
      /\ off < RegionEnd(r)
      /\ (RegionEnd(r) - off) % e = 0
  BY <1>1, RegionOfBoundary
<1>3. /\ e \in Nat \ {0}
      /\ RegionEnd(r) \in Nat
      /\ Regions[r].offset \in Nat
  BY <1>2, RegionTypes
<1>4. PICK k \in Nat : RegionEnd(r) - off = k * e
  <2>1. RegionEnd(r) - off \in Nat
    BY <1>2, <1>3, SMT
  <2>2. QED
    BY <1>2, <1>3, <2>1, Multiple
<1>5. /\ k - 1 \in Nat
      /\ k * e - e = (k - 1) * e
      /\ 0 <= k * e - e
  <2>1. 0 * e = 0 /\ 0 * e < k * e
    BY <1>2, <1>3, <1>4, SMT
  <2>2. QED
    BY <1>3, <2>1, OneBlockLess
<1>6. /\ After(off) = off + e
      /\ After(off) \in Nat
      /\ After(off) <= RegionEnd(r)
      /\ RegionEnd(r) - After(off) = (k - 1) * e
  BY <1>3, <1>4, <1>5, SMT DEF After, EraseSize
<1>7. BoundaryCheck(After(off))
  <2>1. CASE After(off) < RegionEnd(r)
    <3>1. (RegionEnd(r) - After(off)) % e = 0
      BY <1>3, <1>5, <1>6, ProductMod
    <3>2. Regions[r].offset <= After(off)
      BY <1>2, <1>3, <1>6, SMT
    <3>3. QED
      BY <1>2, <2>1, <3>1, <3>2 DEF BoundaryCheck, Lands
  <2>2. CASE After(off) = RegionEnd(r) /\ r = Len(Regions)
    BY <1>2, <2>2 DEF BoundaryCheck, Lands
  <2>3. CASE After(off) = RegionEnd(r) /\ r # Len(Regions)
    <3>1. r + 1 \in RegionIds /\ r + 1 > 1 /\ (r + 1) - 1 = r
      <4>1. r \in 1..Len(Regions) /\ Len(Regions) \in Nat
        BY <1>2, RegionsAssumption, LenProperties DEF RegionIds
      <4>2. r # Len(Regions)
        BY <2>3
      <4> HIDE DEF r
      <4> QED
        BY <4>1, <4>2, SMT DEF RegionIds
    <3>2. Regions[r + 1].offset = After(off)
      BY <2>3, <3>1, RegionsAssumption
    <3>3. RegionEnd(r + 1) - After(off)
             = Regions[r + 1].numblocks * Regions[r + 1].erasesize
      <4>1. \A a \in Nat, b \in Int : (a + b) - a = b
        BY SMT
      <4>2. Regions[r + 1].numblocks * Regions[r + 1].erasesize \in Int
        BY <3>1, RegionTypes, SMT
      <4>3. QED
        BY <1>6, <3>2, <4>1, <4>2 DEF RegionEnd
    <3>4. (RegionEnd(r + 1) - After(off)) % Regions[r + 1].erasesize = 0
      BY <3>1, <3>3, RegionTypes, ProductMod
    <3>5. After(off) < RegionEnd(r + 1)
      BY <3>1, <3>2, RegionTypes
    <3>6. QED
      BY <1>6, <3>1, <3>2, <3>4, <3>5, SMT DEF BoundaryCheck, Lands
  <2>4. QED
    BY <1>3, <1>6, <2>1, <2>2, <2>3, SMT
<1>8. After(off) <= end
  <2>1. CASE end >= RegionEnd(r)
    BY <1>3, <1>6, <2>1, SMT
  <2>2. CASE end < RegionEnd(r)
    <3>1. end < DeviceSize
      BY <1>1, <1>2, <1>3, <2>2, DeviceEnd, SMT
    <3>2. /\ RegionAt(end) \in RegionIds
          /\ Regions[RegionAt(end)].offset <= end
          /\ end < RegionEnd(RegionAt(end))
          /\ (RegionEnd(RegionAt(end)) - end)
                % Regions[RegionAt(end)].erasesize = 0
      BY <3>1, RegionOfBoundary
    <3>3. RegionAt(end) = r
      <4>1. ~(r < RegionAt(end))
        <5>1. r < RegionAt(end) => RegionEnd(r) <= Regions[RegionAt(end)].offset
          BY <1>2, <3>2, RegionsAssumption
        <5>2. Regions[RegionAt(end)].offset \in Nat
          BY <3>2, RegionTypes
        <5>3. QED
          BY <1>2, <1>3, <2>2, <3>2, <5>1, <5>2, SMT
      <4>2. ~(RegionAt(end) < r)
        <5>1. RegionAt(end) < r => RegionEnd(RegionAt(end)) <= Regions[r].offset
          BY <1>2, <3>2, RegionsAssumption
        <5>2. RegionEnd(RegionAt(end)) \in Nat
          BY <3>2, RegionTypes
        <5>3. QED
          BY <1>2, <1>3, <3>2, <5>1, <5>2, SMT
      <4>3. QED
        BY <1>2, <3>2, <4>1, <4>2, SMT DEF RegionIds
    <3>4. PICK m \in Nat : RegionEnd(r) - end = m * e
      <4>1. RegionEnd(r) - end \in Nat
        BY <1>3, <2>2, SMT
      <4>2. QED
        BY <1>3, <3>2, <3>3, <4>1, Multiple
    <3>5. m * e < k * e
      BY <1>3, <1>4, <3>4, SMT
    <3>6. m * e <= k * e - e
      BY <1>3, <3>5, OneBlockLess
    <3>7. QED
      BY <1>3, <1>4, <1>6, <3>4, <3>6, SMT
  <2>3. QED
    BY <1>3, <2>1, <2>2, SMT
<1>9. QED
  BY <1>3, <1>6, <1>7, <1>8 DEF EraseSize

---------------------------------------------------------------------------
(* The invariant.                                                          *)

LEMMA EraseRange ==
    ASSUME TypeOK
    PROVE  /\ cmd \in Request
           /\ EraseStart \in Nat
           /\ EraseEnd \in Nat
           /\ EraseStart <= EraseEnd
<1>1. cmd \in Request
  BY RequestsAssumption DEF TypeOK
<1>2. QED
  BY <1>1, ConfigAssumption, SMT DEF Request, EraseStart, EraseEnd

(* A round of the loop erases only cells it was asked to erase. *)
LEMMA EraseInside ==
    ASSUME TypeOK, LoopInv, pc = "erase", offset < EraseEnd
    PROVE  /\ BlockFrom(offset) \subseteq Target
           /\ After(offset) \in Nat
           /\ EraseStart <= After(offset)
           /\ After(offset) <= EraseEnd
           /\ After(offset) \in 0..DeviceSize
           /\ BoundaryCheck(After(offset))
<1>1. /\ cmd \in Request
      /\ EraseStart \in Nat
      /\ EraseEnd \in Nat
      /\ EraseStart <= EraseEnd
  BY EraseRange
<1>2. /\ BoundaryCheck(EraseEnd) /\ BoundaryCheck(offset)
      /\ EraseStart <= offset
      /\ offset \in Nat
  BY DeviceEnd, SMT DEF LoopInv, Aligned, TypeOK
<1>3. /\ EraseSize(offset) \in Nat \ {0}
      /\ After(offset) \in Nat
      /\ After(offset) <= EraseEnd
      /\ BoundaryCheck(After(offset))
  BY <1>1, <1>2, BlockStep
<1>4. After(offset) = offset + EraseSize(offset)
  BY DEF After
<1>5. BlockFrom(offset) \subseteq EraseStart .. EraseEnd - 1
  BY <1>1, <1>2, <1>3, <1>4, SMT DEF BlockFrom
<1>6. EraseStart .. EraseEnd - 1 \subseteq Target
  <2> SUFFICES ASSUME NEW c \in EraseStart .. EraseEnd - 1
               PROVE  c \in Target
    OBVIOUS
  <2>1. CASE caller = "main"
    <3>1. EraseStart = cmd.start /\ EraseEnd = cmd.start + cmd.length
      BY <2>1 DEF EraseStart, EraseEnd
    <3>2. QED
      BY <1>1, <3>1, SMT DEF Request, Asked, Target
  <2>2. CASE caller # "main"
    <3>1. EraseStart = ConfigStart /\ EraseEnd = ConfigStart + ConfigLen
      BY <2>2 DEF EraseStart, EraseEnd
    <3>2. cmd.save
      BY <2>2 DEF TypeOK, LoopInv
    <3>3. QED
      BY <3>1, <3>2, ConfigAssumption, SMT DEF Cfg, Target
  <2>3. QED
    BY <2>1, <2>2
<1>7. After(offset) <= DeviceSize
  BY <1>3, BoundaryOnDevice
<1>8. EraseStart <= After(offset)
  BY <1>1, <1>2, <1>3, <1>4, SMT
<1>9. QED
  BY <1>3, <1>5, <1>6, <1>7, <1>8, DeviceEnd, SMT

LEMMA InitInv == Init => UpdateInv
<1> SUFFICES ASSUME Init PROVE UpdateInv
  OBVIOUS
<1>1. DeviceSize \in Nat
  BY DeviceEnd
<1>2. cmd \in Request
  BY RequestsAssumption DEF Init
<1>3. flash \in [Cells -> Content]
  BY <1>1, SMT DEF Init, Cells, Content, Old
<1>4. config \in [0..ConfigLen - 1 -> Content]
  BY SMT DEF Init, Content
<1>5. TypeOK
  BY <1>1, <1>2, <1>3, <1>4, MaxFaultsAssumption, SMT
     DEF Init, TypeOK, PCs, Request
<1>6. LoopInv
  BY DEF Init, LoopInv
<1>7. OutsideUntouched
  BY DEF Init, OutsideUntouched
<1>8. QED
  BY <1>5, <1>6, <1>7 DEF UpdateInv

LEMMA ContentClosed ==
    /\ Blank \in Content
    /\ Garbage \in Content
    /\ \A c \in Nat : Img(c) \in Content
    /\ \A a, b \in Content : Programmed(a, b) \in Content
  BY DEF Content, Blank, Garbage, Img, Programmed

LEMMA FilledType ==
    ASSUME TypeOK, NEW S, NEW v \in Content
    PROVE  /\ Filled(S, v) \in [Cells -> Content]
           /\ \A c \in Cells : c \notin S => Filled(S, v)[c] = flash[c]
  BY DEF TypeOK, Filled

(* The steps of main and of region_erase that write no flash. *)
LEMMA QuietStep ==
    ASSUME TypeOK, LoopInv, OutsideUntouched, UNCHANGED <<cmd, flash>>,
           TypeOK', LoopInv'
    PROVE  UpdateInv'
<1>1. OutsideUntouched'
  BY DEF OutsideUntouched, Fits, Target, Asked
<1>2. QED
  BY <1>1 DEF UpdateInv

LEMMA StepInv == UpdateInv /\ [Next]_vars => UpdateInv'
<1> SUFFICES ASSUME UpdateInv, [Next]_vars
             PROVE  UpdateInv'
  OBVIOUS
<1> USE DEF UpdateInv
<1>a. /\ cmd \in Request
      /\ EraseStart \in Nat
      /\ EraseEnd \in Nat
      /\ EraseStart <= EraseEnd
  BY EraseRange
<1>b. DeviceSize \in Nat
  BY DeviceEnd
<1>1. CASE Open
  <2>1. TypeOK'
    BY <1>1, MaxFaultsAssumption, SMT DEF Open, TypeOK, PCs, Fault, NoFault, Exit
  <2>2. LoopInv'
    BY <1>1 DEF Open, LoopInv, Exit, TypeOK
  <2>3. QED
    BY <1>1, <2>1, <2>2, QuietStep DEF Open
<1>2. CASE GetConfig
  <2>1. config' \in [0..ConfigLen - 1 -> Content]
    <3>1. \A i \in 0..ConfigLen - 1 : ConfigStart + i \in Cells
      BY <1>b, ConfigAssumption, SMT DEF Cells
    <3>2. QED
      BY <1>2, <3>1 DEF GetConfig, TypeOK
  <2>2. TypeOK'
    BY <1>2, MaxFaultsAssumption, <2>1, SMT DEF GetConfig, TypeOK, PCs, Fault, NoFault, Exit
  <2>3. LoopInv'
    BY <1>2 DEF GetConfig, LoopInv, Exit, TypeOK
  <2>4. QED
    BY <1>2, <2>2, <2>3, QuietStep DEF GetConfig
<1>3. CASE RegionErase
  <2>1. offset' \in 0..DeviceSize
    <3>1. Aligned => EraseStart \in 0..DeviceSize
      BY <1>a, <1>b, BoundaryOnDevice, SMT DEF Aligned
    <3>2. QED
      BY <1>3, <3>1 DEF RegionErase, TypeOK
  <2>2. TypeOK'
    BY <1>3, MaxFaultsAssumption, <2>1, SMT
       DEF RegionErase, TypeOK, PCs, Fault, NoFault, Exit, EraseFailed
  <2>3. LoopInv'
    BY <1>3, <1>a, SMT DEF RegionErase, LoopInv, EraseFailed, Exit, Aligned,
                           EraseStart, EraseEnd, TypeOK
  <2>4. QED
    BY <1>3, <2>2, <2>3, QuietStep DEF RegionErase
<1>4. CASE EraseStep
  <2>1. /\ pc = "erase" /\ offset < EraseEnd
        /\ UNCHANGED <<cmd, caller, copied, config>>
    BY <1>4 DEF EraseStep
  <2>2. /\ BlockFrom(offset) \subseteq Target
        /\ After(offset) \in Nat
        /\ EraseStart <= After(offset)
        /\ After(offset) <= EraseEnd
        /\ After(offset) \in 0..DeviceSize
        /\ BoundaryCheck(After(offset))
    BY <2>1, EraseInside
  <2>3. /\ flash' \in [Cells -> Content]
        /\ \A c \in Cells \ Target : flash'[c] = flash[c]
    BY <1>4, <2>2, FilledType, ContentClosed DEF EraseStep, TypeOK
  <2>4. offset' \in 0..DeviceSize
    BY <1>4, <2>2 DEF EraseStep, TypeOK
  <2>5. TypeOK'
    BY <1>4, MaxFaultsAssumption, <2>3, <2>4, SMT
       DEF EraseStep, TypeOK, PCs, Fault, NoFault, Exit, EraseFailed
  <2>6. LoopInv'
    <3>1. CASE offset' = After(offset) /\ UNCHANGED <<pc, exit>>
      BY <2>1, <2>2, <3>1 DEF LoopInv, Aligned, EraseStart, EraseEnd
    <3>2. CASE EraseFailed
      BY <2>1, <3>2 DEF LoopInv, EraseFailed, Exit
    <3>3. QED
      BY <1>4, <3>1, <3>2 DEF EraseStep
  <2>7. OutsideUntouched'
    BY <2>1, <2>3 DEF OutsideUntouched, Fits, Target, Asked
  <2>8. QED
    BY <2>5, <2>6, <2>7
<1>5. CASE EraseDone
  <2>1. TypeOK'
    BY <1>5, SMT DEF EraseDone, EraseReturned, AfterCopy, TypeOK, PCs
  <2>2. LoopInv'
    BY <1>5 DEF EraseDone, EraseReturned, AfterCopy, LoopInv, TypeOK
  <2>3. QED
    BY <1>5, <2>1, <2>2, QuietStep DEF EraseDone
<1>6. CASE CopySeek
  <2>1. TypeOK'
    BY <1>6, MaxFaultsAssumption, SMT DEF CopySeek, TypeOK, PCs, Fault, NoFault, Exit
  <2>2. LoopInv'
    BY <1>6 DEF CopySeek, LoopInv, Exit, TypeOK
  <2>3. QED
    BY <1>6, <2>1, <2>2, QuietStep DEF CopySeek
<1>7. CASE CopyBuffer
  <2> DEFINE u == cmd.start + copied
  <2>1. /\ copied < cmd.image
        /\ copied \in Nat
        /\ cmd.image \in Nat /\ cmd.start \in Nat /\ cmd.length \in Nat
        /\ UNCHANGED <<cmd, caller, offset, config>>
    BY <1>7, <1>a, SMT DEF CopyBuffer, TypeOK, Request
  <2>2. Fits => u \in Target
    BY <2>1, SMT DEF Fits, Target, Asked
  <2>3. /\ flash' \in [Cells -> Content]
        /\ \A c \in Cells : c # u => flash'[c] = flash[c]
    <3>1. Img(copied) \in Content
      BY <2>1, ContentClosed
    <3>2. u \in Cells => Programmed(flash[u], Img(copied)) \in Content
      BY <3>1, ContentClosed DEF TypeOK
    <3>3. QED
      BY <1>7, <3>2, ContentClosed DEF CopyBuffer, TypeOK
  <2>4. copied' \in 0..cmd.image'
    <3>1. copied' \in {copied, copied + 1}
      BY <1>7 DEF CopyBuffer
    <3>2. QED
      BY <2>1, <3>1, SMT
  <2>5. TypeOK'
    <3>1. pc' \in PCs
      BY <1>7 DEF CopyBuffer, ShortWrite, TypeOK, PCs, Exit
    <3>2. exit' \in -1..4
      <4>1. exit' \in {exit, 3, 4}
        BY <1>7 DEF CopyBuffer, ShortWrite, Exit
      <4>2. exit \in -1..4
        BY DEF TypeOK
      <4>3. QED
        BY <4>1, <4>2, SMT
    <3>3. faults' \in 0..MaxFaults
      <4>1. Fault \/ NoFault
        BY <1>7 DEF CopyBuffer
      <4>2. QED
        BY <4>1, MaxFaultsAssumption, SMT DEF TypeOK, Fault, NoFault
    <3>4. QED
      BY <2>1, <2>3, <2>4, <3>1, <3>2, <3>3 DEF TypeOK
  <2>6. LoopInv'
    <3>1. pc = "copy" /\ pc' \in {"copy", "exited"}
      BY <1>7 DEF CopyBuffer, ShortWrite, Exit
    <3>2. QED
      BY <2>1, <3>1 DEF LoopInv
  <2>7. OutsideUntouched'
    BY <2>1, <2>2, <2>3 DEF OutsideUntouched, Fits, Target, Asked
  <2>8. QED
    BY <2>5, <2>6, <2>7
<1>8. CASE CopyDone
  <2>1. TypeOK'
    BY <1>8, SMT DEF CopyDone, AfterCopy, TypeOK, PCs
  <2>2. LoopInv'
    BY <1>8 DEF CopyDone, AfterCopy, LoopInv, TypeOK
  <2>3. QED
    BY <1>8, <2>1, <2>2, QuietStep DEF CopyDone
<1>9. CASE WriteConfig
  <2>1. /\ flash' \in [Cells -> Content]
        /\ \A c \in Cells \ Cfg : flash'[c] = flash[c]
    <3>1. \A c \in Cfg : c - ConfigStart \in 0..ConfigLen - 1
      BY ConfigAssumption, SMT DEF Cfg
    <3>2. \A c \in Cells \intersect Cfg :
             Programmed(flash[c], config[c - ConfigStart]) \in Content
      BY <3>1, ContentClosed DEF TypeOK
    <3>3. QED
      BY <1>9, <3>2 DEF WriteConfig, TypeOK
  <2>2. TypeOK'
    BY <1>9, MaxFaultsAssumption, <2>1, SMT DEF WriteConfig, TypeOK, PCs, Fault, NoFault
  <2>3. LoopInv'
    BY <1>9 DEF WriteConfig, LoopInv, TypeOK
  <2>4. Cfg \subseteq Target
    BY <1>9 DEF WriteConfig, LoopInv, Target
  <2>5. OutsideUntouched'
    BY <1>9, <2>1, <2>4 DEF WriteConfig, OutsideUntouched, Fits, Target, Asked
  <2>6. QED
    BY <2>2, <2>3, <2>5
<1>10. CASE Finish
  <2>1. TypeOK'
    BY <1>10, SMT DEF Finish, TypeOK, PCs, Exit
  <2>2. LoopInv'
    BY <1>10 DEF Finish, LoopInv, Exit, TypeOK
  <2>3. QED
    BY <1>10, <2>1, <2>2, QuietStep DEF Finish
<1>11. CASE PowerLoss
  <2>1. /\ pc' = "off"
        /\ UNCHANGED <<cmd, caller, offset, copied, config, exit, faults>>
    BY <1>11 DEF PowerLoss
  <2>2. /\ flash' \in [Cells -> Content]
        /\ Fits => \A c \in Cells \ Target : flash'[c] = flash[c]
    <3>1. CASE flash' = flash
      BY <3>1 DEF TypeOK
    <3>2. CASE pc = "erase" /\ offset < EraseEnd
               /\ flash' = Filled(BlockFrom(offset), Garbage)
      BY <3>2, EraseInside, FilledType, ContentClosed
    <3>3. CASE pc = "copy" /\ copied < cmd.image
               /\ flash' = Filled({cmd.start + copied}, Garbage)
      <4>1. Fits => cmd.start + copied \in Target
        BY <1>a, <3>3, SMT DEF TypeOK, Fits, Target, Asked, Request
      <4>2. QED
        BY <3>3, <4>1, FilledType, ContentClosed
    <3>4. CASE pc = "write_config" /\ flash' = Filled(Cfg, Garbage)
      <4>1. Cfg \subseteq Target
        BY <3>4 DEF LoopInv, Target
      <4>2. QED
        BY <3>4, <4>1, FilledType, ContentClosed
    <3>5. QED
      BY <1>11, <3>1, <3>2, <3>3, <3>4 DEF PowerLoss
  <2>3. TypeOK'
    BY <2>1, <2>2 DEF TypeOK, PCs
  <2>4. LoopInv'
    BY <2>1 DEF LoopInv
  <2>5. OutsideUntouched'
    BY <2>1, <2>2 DEF OutsideUntouched, Fits, Target, Asked
  <2>6. QED
    BY <2>3, <2>4, <2>5
<1>12. CASE UNCHANGED vars
  <2>1. TypeOK'
    BY <1>12 DEF vars, TypeOK
  <2>2. LoopInv'
    BY <1>12 DEF vars, LoopInv, Aligned, EraseStart, EraseEnd
  <2>3. QED
    BY <1>12, <2>1, <2>2, QuietStep DEF vars
<1>13. QED
  BY <1>1, <1>2, <1>3, <1>4, <1>5, <1>6, <1>7, <1>8, <1>9, <1>10, <1>11, <1>12
     DEF Next, Steps

(* Every reachable state of update has the types of TypeOK, and the erase  *)
(* loop's offset stays on the device.                                      *)
THEOREM TypeCorrect == Spec => []TypeOK
<1>1. UpdateInv => TypeOK
  BY DEF UpdateInv
<1>2. QED
  BY <1>1, InitInv, StepInv, PTL DEF Spec

(* update never finds itself off a block boundary in the middle of an      *)
(* erase, whatever the erase regions of the device.                        *)
THEOREM MidEraseUnreachable == Spec => []NeverMidErase
<1>1. UpdateInv => NeverMidErase
  BY DEF UpdateInv, LoopInv, NeverMidErase
<1>2. QED
  BY <1>1, InitInv, StepInv, PTL DEF Spec

(* Whatever fails, and whenever the power fails, an update whose image     *)
(* fits changes no cell outside its target.                                *)
THEOREM OutsideIsSafe == Spec => []OutsideUntouched
<1>1. UpdateInv => OutsideUntouched
  BY DEF UpdateInv
<1>2. QED
  BY <1>1, InitInv, StepInv, PTL DEF Spec

---------------------------------------------------------------------------
(* What the flash holds on the way.                                        *)

Section == IF cmd.save THEN Cfg ELSE {}
Before(range, n) == \A c \in range : c < n => flash[c] = Blank
CopiedTo(n) == \A c \in Asked : flash[c] = IF c - cmd.start < n THEN Img(c - cmd.start)
                                                                ELSE Blank
Complete == \A c \in Asked \ Section :
               flash[c] = IF cmd.file /\ c - cmd.start < cmd.image
                          THEN Img(c - cmd.start) ELSE Blank

(* Where the program is when it works on the section, and when it is done. *)
Restoring == caller = "restore" /\ pc \in {"region_erase", "erase", "write_config"}
Done == pc \in {"finish", "rebooting"} \/ exit = 0

ControlInv ==
    /\ pc # "exited" => exit = -1
    /\ pc \in {"open", "get_config", "copy_seek", "copy"} => caller = "main"
    /\ caller = "main" /\ pc \in {"open", "get_config", "region_erase", "erase", "copy_seek"}
          => copied = 0
    /\ pc \in {"copy_seek", "copy"} => cmd.file
    /\ pc \in {"copy_seek", "copy"} \/ Restoring \/ Done => Asked \subseteq Cells

(* The erase leaves blanks behind it, the copy the image, and restoring    *)
(* the section does not touch the rest. *)
ImageInv ==
    /\ pc = "erase" => Before(EraseStart .. EraseEnd - 1, offset)
    /\ pc \in {"copy_seek", "copy"} => CopiedTo(copied)
    /\ pc = "write_config" => \A c \in Cfg : flash[c] = Blank
    /\ Restoring \/ Done => Complete

(* Where the old configuration is, until a system call fails. *)
InMemory == \A i \in 0..ConfigLen - 1 : config[i] = Old(ConfigStart + i)
SectionInv ==
    cmd.save /\ Fits /\ ConfigAligned /\ faults = 0 =>
        /\ pc \in {"open", "get_config", "finish", "rebooting", "exited"} => SectionKept
        /\ pc = "region_erase" /\ caller = "main" => SectionKept
        /\ pc \in {"region_erase", "erase", "copy_seek", "copy", "write_config"} => InMemory

ContentInv == UpdateInv /\ ControlInv /\ ImageInv /\ SectionInv

LEMMA Ranges ==
    ASSUME cmd \in Requests
    PROVE  /\ cmd.start \in Nat /\ cmd.length \in Nat /\ cmd.image \in Nat
           /\ Asked = {c \in Nat : cmd.start <= c /\ c < cmd.start + cmd.length}
           /\ Cells = {c \in Nat : c < DeviceSize}
           /\ Cfg = {c \in Nat : ConfigStart <= c /\ c < ConfigStart + ConfigLen}
           /\ Cfg \subseteq Cells
<1>1. cmd.start \in Nat /\ cmd.length \in Nat /\ cmd.image \in Nat
  BY RequestsAssumption DEF Request
<1>2. \A a, n \in Nat : a .. a + n - 1 = {c \in Nat : a <= c /\ c < a + n}
  BY SMT
<1>3. ConfigStart \in Nat /\ ConfigLen \in Nat /\ DeviceSize \in Nat
      /\ ConfigStart + ConfigLen <= DeviceSize
  BY ConfigAssumption, DeviceEnd
<1>4. Cells = {c \in Nat : c < DeviceSize}
  BY <1>3, SMT DEF Cells
<1>5. Cfg = {c \in Nat : ConfigStart <= c /\ c < ConfigStart + ConfigLen}
  BY <1>2, <1>3 DEF Cfg
<1>6. Cfg \subseteq Cells
  BY <1>3, <1>4, <1>5, SMT
<1>7. QED
  BY <1>1, <1>2, <1>4, <1>5, <1>6 DEF Asked

(* Both ends of the range have been checked when the loop runs. *)
LEMMA AskedOnDevice ==
    ASSUME TypeOK, LoopInv, pc = "erase", caller = "main"
    PROVE  Asked \subseteq Cells
<1>1. /\ cmd.start \in Nat /\ cmd.length \in Nat
      /\ Asked = {c \in Nat : cmd.start <= c /\ c < cmd.start + cmd.length}
      /\ Cells = {c \in Nat : c < DeviceSize}
  BY Ranges DEF TypeOK
<1>2. cmd.start + cmd.length <= DeviceSize
  <2>1. BoundaryCheck(cmd.start + cmd.length) /\ cmd.start + cmd.length \in Nat
    BY <1>1, SMT DEF LoopInv, Aligned, EraseEnd
  <2>2. QED
    BY <2>1, BoundaryOnDevice
<1>3. QED
  BY <1>1, <1>2, DeviceEnd, SMT

LEMMA ControlStep ==
    ASSUME UpdateInv, ControlInv, [Next]_vars
    PROVE  ControlInv'
<1> USE DEF ControlInv, Restoring, Done
<1>1. TypeOK /\ LoopInv
  BY DEF UpdateInv
<1>2. UNCHANGED cmd /\ Asked' = Asked
  BY DEF Asked, Next, Steps, vars, Open, GetConfig, RegionErase, EraseStep, EraseDone,
         CopySeek, CopyBuffer, CopyDone, WriteConfig, Finish, PowerLoss
<1>3. caller \in {"main", "restore"}
  BY <1>1 DEF TypeOK
<1>4. CASE Open
  BY <1>1, <1>2, <1>4 DEF Open, Exit
<1>5. CASE GetConfig
  BY <1>1, <1>2, <1>5 DEF GetConfig, Exit
<1>6. CASE RegionErase
  BY <1>2, <1>3, <1>6 DEF RegionErase, EraseFailed, Exit
<1>7. CASE EraseStep
  BY <1>2, <1>3, <1>7 DEF EraseStep, EraseFailed, Exit
<1>8. CASE EraseDone
  BY <1>1, <1>2, <1>3, <1>8, AskedOnDevice DEF EraseDone, EraseReturned, AfterCopy
<1>9. CASE CopySeek
  BY <1>2, <1>9 DEF CopySeek, Exit
<1>10. CASE CopyBuffer
  BY <1>2, <1>10 DEF CopyBuffer, ShortWrite, Exit
<1>11. CASE CopyDone
  BY <1>2, <1>11 DEF CopyDone, AfterCopy
<1>12. CASE WriteConfig
  BY <1>1, <1>2, <1>12 DEF WriteConfig, LoopInv
<1>13. CASE Finish
  BY <1>2, <1>13 DEF Finish, Exit
<1>14. CASE PowerLoss
  BY <1>2, <1>14 DEF PowerLoss, Running
<1>15. CASE UNCHANGED vars
  BY <1>2, <1>15 DEF vars
<1>16. QED
  BY <1>4, <1>5, <1>6, <1>7, <1>8, <1>9, <1>10, <1>11, <1>12, <1>13, <1>14, <1>15
     DEF Next, Steps

(* What happens to the section or to no cell at all leaves the image. *)
LEMMA CompleteStays ==
    ASSUME Complete, Asked \subseteq Cells, UNCHANGED cmd,
           \A c \in Cells \ Section : flash'[c] = flash[c]
    PROVE  Complete'
  BY DEF Complete, Asked, Section

(* A round of the loop works inside the range of its call. *)
LEMMA BlockInRange ==
    ASSUME TypeOK, LoopInv, pc = "erase", offset < EraseEnd
    PROVE  /\ BlockFrom(offset) \subseteq EraseStart .. EraseEnd - 1
           /\ BlockFrom(offset) \subseteq Cells
           /\ \A c \in Nat : c < After(offset) => c < offset \/ c \in BlockFrom(offset)
<1>1. /\ EraseStart \in Nat /\ EraseEnd \in Nat
  BY EraseRange
<1>2. /\ BoundaryCheck(EraseEnd) /\ BoundaryCheck(offset)
      /\ EraseStart <= offset /\ offset \in Nat
  BY DeviceEnd, SMT DEF LoopInv, Aligned, TypeOK
<1>3. /\ EraseSize(offset) \in Nat \ {0}
      /\ After(offset) \in Nat /\ After(offset) <= EraseEnd
  BY <1>1, <1>2, BlockStep
<1>4. After(offset) = offset + EraseSize(offset)
  BY DEF After
<1>5. EraseEnd <= DeviceSize /\ DeviceSize \in Nat
  BY <1>1, <1>2, BoundaryOnDevice, DeviceEnd
<1>6. QED
  BY <1>1, <1>2, <1>3, <1>4, <1>5, SMT DEF BlockFrom, Cells

LEMMA RangeOfCall ==
    ASSUME TypeOK
    PROVE  /\ caller = "main" => EraseStart .. EraseEnd - 1 = Asked
           /\ caller = "restore" => EraseStart .. EraseEnd - 1 = Cfg
<1>1. EraseStart .. EraseEnd - 1 = {c \in Nat : EraseStart <= c /\ c < EraseEnd}
  BY EraseRange, SMT
<1>2. CASE caller = "main"
  <2>1. EraseStart = cmd.start /\ EraseEnd = cmd.start + cmd.length
    BY <1>2 DEF EraseStart, EraseEnd
  <2>2. EraseStart .. EraseEnd - 1 = Asked
    BY <1>1, <2>1, Ranges DEF TypeOK
  <2>3. QED
    BY <1>2, <2>2
<1>3. CASE caller # "main"
  <2>1. EraseStart = ConfigStart /\ EraseEnd = ConfigStart + ConfigLen
    BY <1>3 DEF EraseStart, EraseEnd
  <2>2. EraseStart .. EraseEnd - 1 = Cfg
    BY <1>1, <2>1, Ranges DEF TypeOK
  <2>3. QED
    BY <1>3, <2>2
<1>4. QED
  BY <1>2, <1>3

LEMMA ImageStep ==
    ASSUME UpdateInv, ControlInv, ImageInv, [Next]_vars, TypeOK'
    PROVE  ImageInv'
<1>1. TypeOK /\ LoopInv /\ cmd \in Requests
  BY DEF UpdateInv, TypeOK
<1>2. UNCHANGED cmd /\ Asked' = Asked /\ Section' = Section
  BY DEF Asked, Section, Next, Steps, vars, Open, GetConfig, RegionErase, EraseStep,
         EraseDone, CopySeek, CopyBuffer, CopyDone, WriteConfig, Finish, PowerLoss
<1>3. caller \in {"main", "restore"} /\ copied \in Nat /\ offset \in Nat
      /\ flash \in [Cells -> Content]
  <2>1. cmd.image \in Nat /\ DeviceSize \in Nat
    BY <1>1, Ranges, DeviceEnd
  <2>2. QED
    BY <1>1, <2>1, SMT DEF TypeOK
<1>c. ASSUME Complete, Asked \subseteq Cells, \A c \in Cells \ Section : flash'[c] = flash[c]
      PROVE  Complete'
  BY <1>2, <1>c, CompleteStays
<1>4. CASE Open \/ GetConfig
  BY <1>4 DEF Open, GetConfig, Exit, ControlInv, ImageInv, Restoring, Done
<1>5. CASE RegionErase
  <2>1. flash' = flash /\ caller' = caller /\ pc = "region_erase" /\ exit = -1
    BY <1>5 DEF RegionErase, ControlInv
  <2>2. CASE pc' = "erase" /\ offset' = EraseStart /\ UNCHANGED exit
    <3>1. Before(EraseStart .. EraseEnd - 1, offset)'
      <4>1. (EraseStart .. EraseEnd - 1)' = EraseStart .. EraseEnd - 1
        BY <1>2, <2>1 DEF EraseStart, EraseEnd
      <4>2. \A c \in EraseStart .. EraseEnd - 1 : ~ c < EraseStart
        BY <1>1, EraseRange, SMT
      <4>3. QED
        BY <2>2, <4>1, <4>2 DEF Before
    <3>2. caller = "restore" => Complete'
      BY <1>c, <2>1 DEF ControlInv, ImageInv, Restoring
    <3>3. QED
      BY <1>3, <2>1, <2>2, <3>1, <3>2 DEF ImageInv, Restoring, Done
  <2>3. CASE EraseFailed
    <3>1. caller = "restore" => Complete'
      BY <1>c, <2>1 DEF ControlInv, ImageInv, Restoring
    <3>2. QED
      BY <1>3, <2>1, <2>3, <3>1 DEF EraseFailed, Exit, ImageInv, Restoring, Done
  <2>4. QED
    BY <1>5, <2>2, <2>3 DEF RegionErase
<1>6. CASE EraseStep
  <2>1. /\ pc = "erase" /\ offset < EraseEnd /\ exit = -1
        /\ UNCHANGED <<cmd, caller, copied, config>>
    BY <1>6 DEF EraseStep, ControlInv
  <2>2. /\ BlockFrom(offset) \subseteq EraseStart .. EraseEnd - 1
        /\ BlockFrom(offset) \subseteq Cells
        /\ \A c \in Nat : c < After(offset) => c < offset \/ c \in BlockFrom(offset)
    BY <1>1, <2>1, BlockInRange
  <2>3. \A c \in Cells \ BlockFrom(offset) : flash'[c] = flash[c]
    BY <1>1, <1>6, FilledType, ContentClosed DEF EraseStep
  <2>4. caller = "restore" => Complete'
    <3> SUFFICES ASSUME caller = "restore" PROVE Complete'
      OBVIOUS
    <3>1. EraseStart .. EraseEnd - 1 = Section
      BY <1>1, RangeOfCall DEF LoopInv, Section
    <3>2. Complete /\ Asked \subseteq Cells
      BY <2>1 DEF ControlInv, ImageInv, Restoring
    <3>3. QED
      BY <1>c, <2>2, <2>3, <3>1, <3>2
  <2>5. CASE EraseFailed
    BY <1>3, <2>1, <2>4, <2>5 DEF EraseFailed, Exit, ImageInv, Restoring, Done
  <2>6. CASE /\ flash' = Filled(BlockFrom(offset), Blank)
             /\ offset' = After(offset) /\ UNCHANGED <<pc, exit>>
    <3>1. (EraseStart .. EraseEnd - 1)' = EraseStart .. EraseEnd - 1
      BY <1>2, <2>1 DEF EraseStart, EraseEnd
    <3>2. \A c \in EraseStart .. EraseEnd - 1 : c \in Nat
      BY <1>1, EraseRange, SMT
    <3>3. \A c \in EraseStart .. EraseEnd - 1 : c < offset => flash[c] = Blank
      BY <2>1 DEF ImageInv, Before
    <3>4. EraseStart .. EraseEnd - 1 \subseteq Cells
      <4>1. EraseEnd <= DeviceSize
        BY <1>1, <2>1, EraseRange, BoundaryOnDevice DEF LoopInv, Aligned
      <4>2. QED
        BY <1>1, <4>1, EraseRange, DeviceEnd, SMT DEF Cells
    <3>6. \A c \in EraseStart .. EraseEnd - 1 : c < offset' => flash'[c] = Blank
      BY <2>2, <2>6, <3>2, <3>3, <3>4 DEF Filled
    <3>7. Before(EraseStart .. EraseEnd - 1, offset)'
      BY <3>1, <3>6 DEF Before
    <3>8. QED
      BY <1>3, <2>1, <2>4, <2>6, <3>7 DEF ImageInv, Restoring, Done
  <2>7. QED
    BY <1>6, <2>5, <2>6 DEF EraseStep
<1>7. CASE EraseDone
  <2>1. pc = "erase" /\ flash' = flash /\ copied' = copied /\ exit' = -1
    BY <1>7 DEF EraseDone, EraseReturned, ControlInv
  <2>2. \A c \in EraseStart .. EraseEnd - 1 : flash[c] = Blank
    <3>1. offset >= EraseEnd /\ EraseEnd \in Nat
      BY <1>1, <1>7, EraseRange DEF EraseDone
    <3>2. \A c \in EraseStart .. EraseEnd - 1 : c < offset
      BY <1>1, <1>3, <3>1, EraseRange, SMT
    <3>3. QED
      BY <2>1, <3>2 DEF ImageInv, Before
  <2>3. CASE caller = "restore"
    <3>1. EraseStart .. EraseEnd - 1 = Cfg
      BY <1>1, <2>3, RangeOfCall
    <3>2. pc' = "write_config" /\ caller' = caller
      BY <1>7, <2>3 DEF EraseDone, EraseReturned
    <3>3. Complete'
      BY <1>c, <2>1, <2>3 DEF ControlInv, ImageInv, Restoring
    <3>4. QED
      BY <2>1, <2>2, <2>3, <3>1, <3>2, <3>3 DEF ImageInv, Restoring, Done
  <2>4. CASE caller = "main"
    <3>1. EraseStart .. EraseEnd - 1 = Asked /\ copied = 0
      BY <1>1, <2>1, <2>4, RangeOfCall DEF ControlInv
    <3>2. \A c \in Asked : flash'[c] = Blank /\ ~ c - cmd.start < 0
      <4>1. \A c \in Asked : ~ c - cmd.start < 0
        BY <1>1, Ranges, SMT
      <4>2. QED
        BY <2>1, <2>2, <3>1, <4>1
    <3>3. CASE cmd.file
      <4>1. pc' = "copy_seek"
        BY <1>7, <2>4, <3>3 DEF EraseDone, EraseReturned
      <4>2. CopiedTo(copied)'
        BY <1>2, <2>1, <3>1, <3>2 DEF CopiedTo
      <4>3. QED
        BY <2>1, <4>1, <4>2 DEF ImageInv, Restoring, Done
    <3>4. CASE ~ cmd.file
      <4>1. pc' = AfterCopy
        BY <1>7, <2>4, <3>4 DEF EraseDone, EraseReturned
      <4>2. Complete'
        BY <1>2, <3>2, <3>4 DEF Complete
      <4>3. QED
        BY <2>1, <4>1, <4>2 DEF AfterCopy, ImageInv
    <3>5. QED
      BY <3>3, <3>4
  <2>5. QED
    BY <1>3, <2>3, <2>4
<1>8. CASE CopySeek
  <2>1. /\ pc = "copy_seek" /\ flash' = flash /\ copied' = copied /\ exit = -1
        /\ caller = "main" /\ caller' = caller
    BY <1>8 DEF CopySeek, ControlInv
  <2>2. CopiedTo(copied)'
    BY <1>2, <2>1 DEF ImageInv, CopiedTo
  <2>3. QED
    BY <1>8, <2>1, <2>2 DEF CopySeek, Exit, ImageInv, Restoring, Done
<1>9. CASE CopyBuffer
  <2> DEFINE u == cmd.start + copied
  <2>1. /\ pc = "copy" /\ exit = -1 /\ caller = "main" /\ caller' = caller
    BY <1>9 DEF CopyBuffer, ControlInv
  <2>2. CASE /\ u \in Cells /\ flash' = [flash EXCEPT ![u] = Programmed(@, Img(copied))]
             /\ copied' = copied + 1 /\ UNCHANGED <<pc, exit>>
    <3>1. Asked \subseteq Cells /\ CopiedTo(copied)
      BY <2>1 DEF ControlInv, ImageInv
    <3>2. \A c \in Asked : /\ c # u => (c - cmd.start < copied + 1 <=> c - cmd.start < copied)
                           /\ c = u => /\ c - cmd.start = copied /\ ~ copied < copied
                                       /\ copied < copied + 1
      BY <1>1, <1>3, Ranges, SMT
    <3>3. ASSUME NEW c \in Asked
          PROVE  flash'[c] = IF c - cmd.start < copied + 1 THEN Img(c - cmd.start) ELSE Blank
      <4>1. CASE c = u
        <5>1. flash[u] = Blank
          BY <3>1, <3>2, <3>3, <4>1 DEF CopiedTo
        <5>2. flash'[u] = Img(copied)
          BY <1>3, <2>2, <5>1 DEF Programmed
        <5>3. QED
          BY <3>2, <3>3, <4>1, <5>2
      <4>2. CASE c # u
        BY <1>3, <2>2, <3>1, <3>2, <3>3, <4>2 DEF CopiedTo
      <4>3. QED
        BY <4>1, <4>2
    <3>4. CopiedTo(copied)'
      BY <1>2, <2>2, <3>3 DEF CopiedTo
    <3>5. QED
      BY <2>1, <2>2, <3>4 DEF ImageInv, Restoring, Done
  <2>3. CASE Exit(3) \/ Exit(4)
    BY <2>1, <2>3 DEF Exit, ImageInv, Restoring, Done
  <2>4. QED
    BY <1>9, <2>2, <2>3 DEF CopyBuffer, ShortWrite
<1>10. CASE CopyDone
  <2>1. /\ pc = "copy" /\ exit' = -1 /\ flash' = flash /\ copied = cmd.image /\ cmd.file
        /\ pc' \in {"region_erase", "finish"}
    BY <1>10 DEF CopyDone, AfterCopy, ControlInv
  <2>2. Complete'
    BY <1>2, <2>1 DEF ImageInv, CopiedTo, Complete
  <2>3. QED
    BY <2>1, <2>2 DEF ImageInv
<1>11. CASE WriteConfig
  <2>1. /\ pc = "write_config" /\ pc' = "finish" /\ caller = "restore"
        /\ \A c \in Cells \ Cfg : flash'[c] = flash[c]
    BY <1>1, <1>11 DEF WriteConfig, LoopInv
  <2>2. Section = Cfg
    BY <1>1, <2>1 DEF LoopInv, Section
  <2>3. Complete'
    BY <1>c, <2>1, <2>2 DEF ControlInv, ImageInv, Restoring
  <2>4. QED
    BY <2>1, <2>3 DEF ImageInv
<1>12. CASE Finish
  <2>1. pc = "finish" /\ flash' = flash /\ pc' \in {"rebooting", "exited"}
    BY <1>12 DEF Finish, Exit
  <2>2. Complete'
    BY <1>c, <2>1 DEF ControlInv, ImageInv, Done
  <2>3. QED
    BY <2>1, <2>2 DEF ImageInv
<1>13. CASE PowerLoss
  BY <1>13 DEF PowerLoss, Running, ControlInv, ImageInv, Restoring, Done
<1>14. CASE UNCHANGED vars
  <2>1. UNCHANGED <<cmd, pc, caller, offset, copied, exit, flash>>
    BY <1>14 DEF vars
  <2>2. QED
    BY <2>1 DEF ImageInv, Before, EraseStart, EraseEnd, CopiedTo, Complete, Asked, Section,
       Restoring, Done
<1>15. QED
  BY <1>4, <1>5, <1>6, <1>7, <1>8, <1>9, <1>10, <1>11, <1>12, <1>13, <1>14 DEF Next, Steps

LEMMA SectionStep ==
    ASSUME UpdateInv, ControlInv, ImageInv, SectionInv, [Next]_vars
    PROVE  SectionInv'
<1>1. TypeOK /\ LoopInv /\ cmd \in Requests
  BY DEF UpdateInv, TypeOK
<1>2. UNCHANGED cmd
  BY DEF Next, Steps, vars, Open, GetConfig, RegionErase, EraseStep, EraseDone,
         CopySeek, CopyBuffer, CopyDone, WriteConfig, Finish, PowerLoss
<1>3. /\ faults \in Nat /\ caller \in {"main", "restore"} /\ copied \in Nat
      /\ cmd.start \in Nat /\ cmd.image \in Nat /\ cmd.length \in Nat
      /\ config \in [0..ConfigLen - 1 -> Content] /\ flash \in [Cells -> Content]
  BY <1>1, Ranges, MaxFaultsAssumption, SMT DEF TypeOK
<1> DEFINE Where ==
      /\ pc \in {"open", "get_config", "finish", "rebooting", "exited"} => SectionKept
      /\ pc = "region_erase" /\ caller = "main" => SectionKept
      /\ pc \in {"region_erase", "erase", "copy_seek", "copy", "write_config"} => InMemory
<1>4. SUFFICES ASSUME cmd.save, Fits, ConfigAligned, faults' = 0
               PROVE  Where'
  BY <1>2 DEF SectionInv, Fits, ConfigAligned
<1>5. ~ Fault
  BY <1>3, <1>4, SMT DEF Fault
<1>6. ASSUME NoFault
      PROVE  Where
  BY <1>4, <1>6 DEF SectionInv, NoFault
<1>7. flash' = flash => SectionKept' = SectionKept
  BY DEF SectionKept
<1>8. config' = config => InMemory' = InMemory
  BY DEF InMemory
<1>9. CASE Open
  BY <1>4, <1>5, <1>6, <1>7, <1>9 DEF Open
<1>10. CASE GetConfig
  <2>1. SectionKept /\ flash' = flash /\ pc' = "region_erase"
        /\ config' = [i \in 0..ConfigLen - 1 |-> flash[ConfigStart + i]]
    BY <1>5, <1>6, <1>10 DEF GetConfig
  <2>2. \A i \in 0..ConfigLen - 1 : ConfigStart + i \in Cfg
    BY ConfigAssumption, SMT DEF Cfg
  <2>3. InMemory'
    BY <2>1, <2>2 DEF InMemory, SectionKept
  <2>4. QED
    BY <1>7, <2>1, <2>3
<1>11. CASE RegionErase
  <2>1. caller = "restore" => Aligned
    BY <1>4 DEF ConfigAligned, Aligned, EraseStart, EraseEnd
  <2>2. Where /\ UNCHANGED <<flash, config, caller>> /\ pc = "region_erase"
    BY <1>5, <1>6, <1>11 DEF RegionErase
  <2>3. pc' = "erase" \/ (caller = "main" /\ pc' = "exited")
    BY <1>3, <1>5, <1>11, <2>1 DEF RegionErase, EraseFailed, Exit
  <2>4. QED
    BY <1>7, <1>8, <2>2, <2>3
<1>12. CASE EraseStep
  <2>1. pc = "erase" /\ pc' = "erase" /\ NoFault /\ config' = config
    BY <1>1, <1>5, <1>12 DEF EraseStep, LoopInv
  <2>2. QED
    BY <1>6, <1>8, <2>1
<1>13. CASE EraseDone
  <2>1. /\ pc = "erase" /\ config' = config /\ faults' = faults
        /\ pc' \in {"write_config", "copy_seek"} \/ (pc' = "region_erase" /\ caller' = "restore")
    BY <1>3, <1>4, <1>13 DEF EraseDone, EraseReturned, AfterCopy
  <2>2. QED
    BY <1>6, <1>8, <2>1 DEF NoFault
<1>14. CASE CopySeek
  BY <1>5, <1>6, <1>8, <1>14 DEF CopySeek
<1>15. CASE CopyBuffer
  <2>1. cmd.start + copied \in Cells
    <3>1. cmd.start + copied \in Asked
      BY <1>1, <1>3, <1>4, <1>15, Ranges, SMT DEF Fits, CopyBuffer
    <3>2. QED
      BY <1>15, <3>1 DEF CopyBuffer, ControlInv
  <2>2. pc = "copy" /\ pc' = "copy" /\ NoFault /\ config' = config
    BY <1>5, <1>15, <2>1 DEF CopyBuffer
  <2>3. QED
    BY <1>6, <1>8, <2>2
<1>16. CASE CopyDone
  <2>1. /\ pc = "copy" /\ config' = config /\ faults' = faults
        /\ pc' = "region_erase" /\ caller' = "restore"
    BY <1>4, <1>16 DEF CopyDone, AfterCopy
  <2>2. QED
    BY <1>6, <1>8, <2>1 DEF NoFault
<1>17. CASE WriteConfig
  <2>1. /\ pc = "write_config" /\ pc' = "finish" /\ NoFault
        /\ flash' = [c \in Cells |-> IF c \in Cfg
                       THEN Programmed(flash[c], config[c - ConfigStart]) ELSE flash[c]]
    BY <1>5, <1>17 DEF WriteConfig
  <2>2. InMemory /\ \A c \in Cfg : flash[c] = Blank
    BY <1>6, <2>1 DEF ImageInv
  <2>3. \A c \in Cfg : /\ c \in Cells /\ c - ConfigStart \in 0..ConfigLen - 1
                       /\ ConfigStart + (c - ConfigStart) = c
    BY <1>1, Ranges, ConfigAssumption, SMT
  <2>4. \A c \in Cfg : flash'[c] = config[c - ConfigStart]
    BY <2>1, <2>2, <2>3 DEF Programmed
  <2>5. SectionKept'
    BY <2>2, <2>3, <2>4 DEF InMemory, SectionKept
  <2>6. QED
    BY <2>1, <2>5
<1>18. CASE Finish
  <2>1. pc = "finish" /\ pc' \in {"rebooting", "exited"} /\ flash' = flash /\ NoFault
    BY <1>18 DEF Finish, Exit, NoFault
  <2>2. QED
    BY <1>6, <1>7, <2>1
<1>19. CASE PowerLoss
  BY <1>19 DEF PowerLoss
<1>20. CASE UNCHANGED vars
  <2>1. UNCHANGED <<pc, caller, config, flash>> /\ NoFault
    BY <1>20 DEF vars, NoFault
  <2>2. QED
    BY <1>6, <1>7, <1>8, <2>1
<1>21. QED
  BY <1>9, <1>10, <1>11, <1>12, <1>13, <1>14, <1>15, <1>16, <1>17, <1>18, <1>19, <1>20
     DEF Next, Steps

LEMMA InitContent == Init => ContentInv
<1> SUFFICES ASSUME Init PROVE ContentInv
  OBVIOUS
<1>1. UpdateInv
  BY InitInv
<1>2. ControlInv /\ ImageInv
  BY DEF Init, ControlInv, ImageInv, Restoring, Done
<1>3. SectionKept
  <2>1. Cfg \subseteq Cells
    BY Ranges DEF Init
  <2>2. QED
    BY <2>1 DEF Init, SectionKept
<1>4. SectionInv
  BY <1>3 DEF Init, SectionInv
<1>5. QED
  BY <1>1, <1>2, <1>4 DEF ContentInv

LEMMA NextContent == ContentInv /\ [Next]_vars => ContentInv'
  BY StepInv, ControlStep, ImageStep, SectionStep DEF ContentInv, UpdateInv

LEMMA ContentInvariant == Spec => []ContentInv
  BY InitContent, NextContent, PTL DEF Spec

(* Whatever failed before, update reboots or exits with 0 only when every   *)
(* cell of the range that is not the section's holds its unit of the image  *)
(* or, behind the image's end, is blank.                                    *)
THEOREM SuccessMeansComplete == Spec => []CompleteImage
<1>1. ContentInv => CompleteImage
  BY DEF ContentInv, ImageInv, Done, Complete, CompleteImage, Section
<1>2. QED
  BY <1>1, ContentInvariant, PTL

(* With -s and until a system call fails or the power does, the             *)
(* configuration is in the flash or in the memory of a program that is      *)
(* going to write it back.                                                  *)
THEOREM ConfigIsKept == Spec => []ConfigKept
<1>1. ContentInv => ConfigKept
  <2>1. ContentInv => pc \in PCs
    BY DEF ContentInv, UpdateInv, TypeOK
  <2>2. QED
    BY <2>1 DEF ContentInv, SectionInv, InMemory, ConfigKept, Running, PCs
<1>2. QED
  BY <1>1, ContentInvariant, PTL

---------------------------------------------------------------------------
(* The discipline of the flash.                                            *)

LEMMA ProductDiv == \A k \in Nat, e \in Nat \ {0} : (k * e) \div e = k
  BY SMT

LEMMA Difference ==
    ASSUME NEW n \in Nat, NEW k \in Nat, NEW e \in Nat \ {0}, k * e <= n * e
    PROVE  n - k \in Nat /\ n * e - k * e = (n - k) * e
<1>1. k <= n
  BY SMT
<1>2. n * e - k * e = (n - k) * e
  BY <1>1, SMT
<1>3. QED
  BY <1>1, <1>2, SMT

(* What update erases from a boundary is the block the chip has there. *)
LEMMA BlockAtBoundary ==
    ASSUME NEW off \in Nat, BoundaryCheck(off), off < DeviceSize
    PROVE  off \in Cells /\ BlockOf[off] = BlockFrom(off)
<1> DEFINE r == RegionAt(off)
           e == Regions[r].erasesize
           o == Regions[r].offset
           n == Regions[r].numblocks
<1>1. r \in RegionIds /\ o <= off /\ off < RegionEnd(r) /\ (RegionEnd(r) - off) % e = 0
  BY RegionOfBoundary
<1>2. e \in Nat \ {0} /\ o \in Nat /\ n \in Nat \ {0} /\ RegionEnd(r) \in Nat
  BY <1>1, RegionTypes
<1>3. off \in Cells
  BY DeviceEnd, SMT DEF Cells
<1>4. r = CHOOSE q \in RegionIds : Regions[q].offset <= off /\ off < RegionEnd(q)
  <2>1. ASSUME NEW q \in RegionIds, Regions[q].offset <= off, off < RegionEnd(q)
        PROVE  q = r
    <3>1. /\ Regions[q].offset \in Nat /\ RegionEnd(q) \in Nat
      BY <2>1, RegionTypes
    <3>2. ~ q < r
      <4>1. q < r => RegionEnd(q) <= o
        BY <1>1, <2>1, RegionsAssumption
      <4>2. QED
        BY <1>1, <1>2, <2>1, <3>1, <4>1, SMT
    <3>3. ~ r < q
      <4>1. r < q => RegionEnd(r) <= Regions[q].offset
        BY <1>1, <2>1, RegionsAssumption
      <4>2. QED
        BY <1>1, <1>2, <2>1, <3>1, <4>1, SMT
    <3>4. q \in Int /\ r \in Int
      BY <1>1, <2>1, RegionsAssumption DEF RegionIds
    <3> HIDE DEF r
    <3>5. QED
      BY <3>2, <3>3, <3>4, SMT
  <2> HIDE DEF r
  <2>2. QED
    BY <1>1, <2>1
<1>5. o + ((off - o) \div e) * e = off
  <2>1. PICK k \in Nat : RegionEnd(r) - off = k * e
    <3>1. RegionEnd(r) - off \in Nat
      BY <1>1, <1>2, SMT
    <3>2. QED
      BY <1>1, <1>2, <3>1, Multiple
  <2>2. RegionEnd(r) = o + n * e
    BY DEF RegionEnd
  <2>3. n * e \in Nat /\ k * e \in Nat
    BY <1>2, SMT
  <2>4. off - o = n * e - k * e
    <3> HIDE DEF o, n, e
    <3> QED
      BY <1>2, <2>1, <2>2, <2>3, SMT
  <2>5. k * e <= n * e
    <3> HIDE DEF o, n, e
    <3> QED
      BY <1>1, <1>2, <2>3, <2>4, SMT
  <2>6. n - k \in Nat /\ off - o = (n - k) * e
    BY <1>2, <2>4, <2>5, Difference
  <2>7. (off - o) \div e = n - k
    BY <1>2, <2>6, ProductDiv
  <2> HIDE DEF o, n, e
  <2>8. QED
    BY <1>2, <2>6, <2>7, SMT
<1>6. BlockOf[off] = o + ((off - o) \div e) * e .. o + ((off - o) \div e) * e + e - 1
  BY <1>3, <1>4 DEF BlockOf
<1>7. QED
  BY <1>3, <1>5, <1>6 DEF BlockFrom, EraseSize

(* copy does not compare the image with the range.  The discipline holds   *)
(* for the images that fit, and for a range that ends with the device: the *)
(* kernel refuses what is beyond it.                                       *)
Suited == Fits \/ cmd.start + cmd.length >= DeviceSize

LEMMA SuitedStays == Suited /\ [Next]_vars => Suited'
<1> SUFFICES ASSUME Suited, [Next]_vars PROVE Suited'
  OBVIOUS
<1>1. UNCHANGED cmd
  BY DEF Next, Steps, vars, Open, GetConfig, RegionErase, EraseStep, EraseDone,
         CopySeek, CopyBuffer, CopyDone, WriteConfig, Finish, PowerLoss
<1>2. QED
  BY <1>1 DEF Suited, Fits

(* The cell copy is about to write was asked for, and is blank. *)
LEMMA CopyWritesBlank ==
    ASSUME ContentInv, Suited, pc = "copy", copied < cmd.image,
           cmd.start + copied \in Cells
    PROVE  /\ cmd.start + copied \in Target \intersect Cells
           /\ flash[cmd.start + copied] = Blank
<1> DEFINE u == cmd.start + copied
<1>1. TypeOK /\ cmd \in Requests /\ CopiedTo(copied)
  BY DEF ContentInv, UpdateInv, TypeOK, ImageInv
<1>2. /\ cmd.start \in Nat /\ cmd.length \in Nat /\ cmd.image \in Nat
      /\ Asked = {c \in Nat : cmd.start <= c /\ c < cmd.start + cmd.length}
      /\ Cells = {c \in Nat : c < DeviceSize} /\ DeviceSize \in Nat
  BY <1>1, Ranges, DeviceEnd
<1>3. copied \in Nat
  BY <1>1, <1>2, SMT DEF TypeOK
<1>4. u \in Asked
  <2>1. CASE Fits
    BY <1>2, <1>3, <2>1, SMT DEF Fits
  <2>2. CASE cmd.start + cmd.length >= DeviceSize
    BY <1>2, <1>3, <2>2, SMT
  <2>3. QED
    BY <2>1, <2>2 DEF Suited
<1>5. u - cmd.start = copied /\ ~ copied < copied
  BY <1>2, <1>3, SMT
<1>6. QED
  BY <1>1, <1>4, <1>5 DEF CopiedTo, Target

LEMMA InitNor == Init => Nor!NorInit
<1> SUFFICES ASSUME Init PROVE Nor!NorInit
  OBVIOUS
<1>1. flash \in [Cells -> Content]
  BY InitInv DEF UpdateInv, TypeOK
<1>2. QED
  BY <1>1 DEF Nor!NorInit

(* Programming is a step of the chip when it changes only blank cells that *)
(* may be written. *)
LEMMA ProgramStep ==
    ASSUME flash' \in [Cells -> Content], UNCHANGED cmd,
           \A c \in Cells : flash'[c] # flash[c] => c \in Target /\ flash[c] = Blank
    PROVE  Nor!NorNext
<1>1. Target' = Target
  BY DEF Target, Asked
<1>2. QED
  BY <1>1 DEF Nor!NorNext, Nor!Program

LEMMA BlockEraseStep ==
    ASSUME ContentInv, pc = "erase", offset < EraseEnd, UNCHANGED cmd,
           \/ flash' = Filled(BlockFrom(offset), Blank)
           \/ flash' = Filled(BlockFrom(offset), Garbage)
    PROVE  Nor!NorNext
<1>1. /\ TypeOK /\ LoopInv /\ offset \in Nat
  BY DeviceEnd, SMT DEF ContentInv, UpdateInv, TypeOK
<1>2. /\ BlockFrom(offset) \subseteq Target /\ BlockFrom(offset) \subseteq Cells
  BY <1>1, EraseInside, BlockInRange
<1>3. BoundaryCheck(offset) /\ offset < DeviceSize
  <2>1. BoundaryCheck(offset) /\ BoundaryCheck(EraseEnd) /\ EraseEnd \in Nat
    BY <1>1, EraseRange DEF LoopInv, Aligned
  <2>2. EraseEnd <= DeviceSize /\ DeviceSize \in Nat
    BY <2>1, BoundaryOnDevice, DeviceEnd
  <2>3. QED
    BY <1>1, <2>1, <2>2, SMT
<1>4. offset \in Cells /\ BlockOf[offset] = BlockFrom(offset)
  BY <1>1, <1>3, BlockAtBoundary
<1>5. Target' = Target
  BY DEF Target, Asked
<1>6. Nor!EraseBlock(offset) \/ Nor!SpoilBlock(offset)
  BY <1>2, <1>4 DEF Nor!EraseBlock, Nor!SpoilBlock, Filled
<1>7. QED
  BY <1>4, <1>5, <1>6 DEF Nor!NorNext

LEMMA StepNor ==
    ASSUME ContentInv, ContentInv', Suited, [Next]_vars
    PROVE  [Nor!NorNext]_<<flash, Target \intersect Cells>>
<1>1. /\ TypeOK /\ LoopInv /\ cmd \in Requests
      /\ flash \in [Cells -> Content] /\ flash' \in [Cells -> Content]
  BY DEF ContentInv, UpdateInv, TypeOK
<1>2. UNCHANGED cmd
  BY DEF Next, Steps, vars, Open, GetConfig, RegionErase, EraseStep, EraseDone,
         CopySeek, CopyBuffer, CopyDone, WriteConfig, Finish, PowerLoss
<1>3. UNCHANGED flash => UNCHANGED <<flash, Target \intersect Cells>>
  BY <1>2 DEF Target, Asked
<1>4. CASE Open \/ GetConfig \/ RegionErase \/ EraseDone \/ CopySeek \/ CopyDone \/ Finish
           \/ UNCHANGED vars
  BY <1>3, <1>4 DEF Open, GetConfig, RegionErase, EraseDone, CopySeek, CopyDone, Finish, vars
<1>5. CASE EraseStep
  BY <1>2, <1>3, <1>5, BlockEraseStep DEF EraseStep
<1>6. CASE CopyBuffer
  <2> DEFINE u == cmd.start + copied
  <2>1. CASE flash' = flash
    BY <1>3, <2>1
  <2>2. CASE flash' # flash
    <3>1. /\ u \in Cells /\ pc = "copy" /\ copied < cmd.image
          /\ \E v : flash' = [flash EXCEPT ![u] = v]
      BY <1>6, <2>2 DEF CopyBuffer
    <3>2. u \in Target /\ flash[u] = Blank
      BY <3>1, CopyWritesBlank
    <3>3. \A c \in Cells : flash'[c] # flash[c] => c = u
      BY <1>1, <3>1
    <3>4. QED
      BY <1>1, <1>2, <3>2, <3>3, ProgramStep
  <2>3. QED
    BY <2>1, <2>2
<1>7. ASSUME pc = "write_config", \A c \in Cells : flash'[c] # flash[c] => c \in Cfg
      PROVE  Nor!NorNext
  <2>1. Cfg \subseteq Target /\ \A c \in Cfg : flash[c] = Blank
    BY <1>7 DEF ContentInv, UpdateInv, LoopInv, ImageInv, Target
  <2>2. QED
    BY <1>1, <1>2, <1>7, <2>1, ProgramStep
<1>8. CASE WriteConfig
  <2>1. pc = "write_config" /\ \A c \in Cells : flash'[c] # flash[c] => c \in Cfg
    BY <1>8 DEF WriteConfig
  <2>2. QED
    BY <1>7, <2>1
<1>9. CASE PowerLoss
  <2>1. CASE flash' = flash
    BY <1>3, <2>1
  <2>2. CASE pc = "erase" /\ offset < EraseEnd /\ flash' = Filled(BlockFrom(offset), Garbage)
    BY <1>2, <2>2, BlockEraseStep
  <2>3. CASE /\ pc = "copy" /\ copied < cmd.image /\ cmd.start + copied \in Cells
             /\ flash' = Filled({cmd.start + copied}, Garbage)
    <3>1. cmd.start + copied \in Target /\ flash[cmd.start + copied] = Blank
      BY <2>3, CopyWritesBlank
    <3>2. \A c \in Cells : flash'[c] # flash[c] => c = cmd.start + copied
      BY <1>1, <2>3, FilledType, ContentClosed
    <3>3. QED
      BY <1>1, <1>2, <3>1, <3>2, ProgramStep
  <2>4. CASE pc = "write_config" /\ flash' = Filled(Cfg, Garbage)
    BY <1>1, <1>7, <2>4, FilledType, ContentClosed
  <2>5. QED
    BY <1>9, <2>1, <2>2, <2>3, <2>4 DEF PowerLoss
<1>10. QED
  BY <1>4, <1>5, <1>6, <1>8, <1>9 DEF Next, Steps

(* update implements the discipline of the flash for every request whose   *)
(* image fits the range or whose range ends with the device: each of its   *)
(* steps erases, or spoils, one whole block it was asked to rewrite, or    *)
(* programs blank cells of it.                                             *)
THEOREM KeepsDiscipline == Suited /\ Spec => NorDiscipline
<1>1. ContentInv /\ ContentInv' /\ Suited /\ [Next]_vars
        => [Nor!NorNext]_<<flash, Target \intersect Cells>>
  BY StepNor
<1>2. QED
  BY <1>1, InitNor, SuitedStays, ContentInvariant, PTL DEF Spec, NorDiscipline, Nor!NorSpec
=============================================================================
