---------------------------- MODULE FlashUpdate ----------------------------
(***************************************************************************)
(* aptools/update.c: the program every flash write of the access point     *)
(* goes through (reflash, 00flash and 20.configfs all exec it).            *)
(*                                                                         *)
(*     update [-s] <device> <start> <length> [ - | <image> ]               *)
(*                                                                         *)
(* erases [start, start+length), copies the image there, and with -s keeps *)
(* the configuration section in RAM meanwhile and puts it back at the end. *)
(* The unit of address is one copy buffer (COPY_BUFSIZ); every address of  *)
(* the program is a multiple of it.                                        *)
(***************************************************************************)
EXTENDS Integers, Sequences

CONSTANTS
    Regions,      \* the erase regions MEMGETREGIONINFO reports, in order
    ConfigStart,  \* CONFIG_START
    ConfigLen,    \* CONFIG_LEN
    Requests,     \* the command lines update is run with
    MaxFaults     \* bound on the system calls that fail in a behaviour

RegionIds == 1..Len(Regions)
RegionEnd(r) == Regions[r].offset + Regions[r].numblocks * Regions[r].erasesize
DeviceSize == RegionEnd(Len(Regions))
Cells == 0..DeviceSize - 1

(* The regions tile the device, in order, without a gap or an overlap. *)
ASSUME RegionsAssumption ==
    /\ Regions \in Seq([offset: Nat, numblocks: Nat \ {0}, erasesize: Nat \ {0}])
    /\ Len(Regions) > 0
    /\ Regions[1].offset = 0
    /\ \A r \in RegionIds : r > 1 => Regions[r].offset = RegionEnd(r - 1)
    /\ \A r, q \in RegionIds : r < q => RegionEnd(r) <= Regions[q].offset

(* The configuration section is part of the device. *)
ASSUME ConfigAssumption ==
    /\ ConfigStart \in Nat
    /\ ConfigLen \in Nat \ {0}
    /\ ConfigStart + ConfigLen <= DeviceSize

(* save: -s was given.  file: an image was named; image is its length. *)
Request == [start: Nat, length: Nat, save: BOOLEAN, file: BOOLEAN, image: Nat]

ASSUME RequestsAssumption == Requests \subseteq Request
ASSUME MaxFaultsAssumption == MaxFaults \in Nat

---------------------------------------------------------------------------
(* Contents of the flash.  Old(c) is what cell c held before update ran,   *)
(* Img(i) the i-th unit of the image.                                      *)
Old(c) == <<"old", c>>
Img(i) == <<"img", i>>
Blank == <<"blank", 0>>
Garbage == <<"garbage", 0>>
Content == ({"old", "img"} \X Nat) \union {Blank, Garbage}

(* Programming can only clear bits: onto anything but a blank cell the     *)
(* result is undefined.                                                    *)
Programmed(was, new) == IF was = Blank THEN new ELSE Garbage

Cfg == ConfigStart .. ConfigStart + ConfigLen - 1

---------------------------------------------------------------------------
(* boundary_check: does offset off start a block of region r, or end the   *)
(* device?                                                                 *)
Lands(r, off) ==
    \/ r = Len(Regions) /\ off = RegionEnd(r)
    \/ /\ Regions[r].offset <= off /\ off < RegionEnd(r)
       /\ (RegionEnd(r) - off) % Regions[r].erasesize = 0

BoundaryCheck(off) == \E r \in RegionIds : Lands(r, off)

(* *ret_region: the region that matches (they are disjoint: only one can). *)
RegionAt(off) == CHOOSE r \in RegionIds : Lands(r, off)

VARIABLES
    cmd,      \* the command line
    pc,       \* where in main, region_erase or copy the program is
    caller,   \* which call of region_erase: "main" or "restore"
    offset,   \* region_erase: the block to erase next
    copied,   \* copy: units of the image read and written so far
    config,   \* the copy of the configuration section get_config made
    exit,     \* the exit status (-1: still running)
    flash,    \* flash[c]: contents of cell c
    faults    \* system calls that have failed so far

vars == <<cmd, pc, caller, offset, copied, config, exit, flash, faults>>

(* The range the current call of region_erase was asked to erase. *)
EraseStart == IF caller = "main" THEN cmd.start ELSE ConfigStart
EraseEnd == IF caller = "main" THEN cmd.start + cmd.length
                               ELSE ConfigStart + ConfigLen

PCs == {"open", "get_config", "region_erase", "erase", "copy_seek", "copy",
        "write_config", "finish", "rebooting", "exited", "off"}

Running == pc \notin {"rebooting", "exited", "off"}

---------------------------------------------------------------------------
Init ==
    /\ cmd \in Requests
    /\ pc = "open"
    /\ caller = "main"
    /\ offset = 0
    /\ copied = 0
    /\ config = [i \in 0..ConfigLen - 1 |-> Garbage]    \* malloc'ed memory
    /\ exit = -1
    /\ flash = [c \in Cells |-> Old(c)]
    /\ faults = 0

Fault == /\ faults < MaxFaults
         /\ faults' = faults + 1
NoFault == UNCHANGED faults

Exit(status) == /\ pc' = "exited"
                /\ exit' = status

AfterCopyNoRestore == "finish"
AfterCopy == IF cmd.save THEN "region_erase" ELSE "finish"

(* Opening the device and the image. *)
Open ==
    /\ pc = "open"
    /\ \/ /\ NoFault
          /\ pc' = IF cmd.save THEN "get_config" ELSE "region_erase"
          /\ UNCHANGED exit
       \/ Fault /\ Exit(1)
    /\ UNCHANGED <<cmd, caller, offset, copied, config, flash>>

(* get_config: a failing malloc exits; the result of read is not looked at. *)
GetConfig ==
    /\ pc = "get_config"
    /\ \/ /\ NoFault
          /\ config' = [i \in 0..ConfigLen - 1 |-> flash[ConfigStart + i]]
          /\ pc' = "region_erase"
          /\ UNCHANGED exit
       \/ /\ Fault
          /\ pc' = "region_erase"
          /\ UNCHANGED <<config, exit>>
       \/ Fault /\ Exit(1) /\ UNCHANGED config
    /\ UNCHANGED <<cmd, caller, offset, copied, flash>>

(* Where main goes when region_erase returns: a failure in the first call  *)
(* is the program's exit status, one in the second is only a message.      *)
EraseFailed == IF caller = "main" THEN Exit(1)
                                  ELSE pc' = "finish" /\ UNCHANGED exit
EraseReturned ==
    /\ UNCHANGED exit
    /\ IF caller = "restore" THEN pc' = "write_config" /\ UNCHANGED caller
       ELSE IF cmd.file THEN pc' = "copy_seek" /\ UNCHANGED caller
       ELSE pc' = AfterCopy /\ caller' = IF cmd.save THEN "restore" ELSE caller

(* The safety checks before the loop: both ends lie on a block boundary. *)
AlignedNoEndCheck == BoundaryCheck(EraseStart)
AlignedNoStartCheck == BoundaryCheck(EraseEnd)
Aligned == BoundaryCheck(EraseStart) /\ BoundaryCheck(EraseEnd)

(* region_erase up to its loop: the two ioctls and the safety checks. *)
RegionErase ==
    /\ pc = "region_erase"
    /\ \/ /\ Aligned /\ NoFault
          /\ offset' = EraseStart
          /\ pc' = "erase"
          /\ UNCHANGED exit
       \/ /\ ~Aligned /\ NoFault /\ EraseFailed /\ UNCHANGED offset
       \/ Fault /\ EraseFailed /\ UNCHANGED offset
    /\ UNCHANGED <<cmd, caller, copied, config, flash>>

(* erase.length: the block size of the region the offset lies in. *)
EraseSizeOfFirst(off) == Regions[1].erasesize
EraseSize(off) == Regions[RegionAt(off)].erasesize
BlockFrom(off) == off .. off + EraseSize(off) - 1
AfterStuck(off) == off
After(off) == off + EraseSize(off)
Filled(cells, v) == [c \in Cells |-> IF c \in cells THEN v ELSE flash[c]]

(* One round of the erase loop; an erase that fails leaves its block as it *)
(* was or undefined.                                                       *)
EraseStep ==
    /\ pc = "erase"
    /\ offset < EraseEnd
    /\ \/ /\ BoundaryCheck(offset) /\ NoFault
          /\ flash' = Filled(BlockFrom(offset), Blank)
          /\ offset' = After(offset)
          /\ UNCHANGED <<pc, exit>>
       \/ /\ BoundaryCheck(offset) /\ Fault
          /\ flash' \in {flash, Filled(BlockFrom(offset), Garbage)}
          /\ EraseFailed /\ UNCHANGED offset
       \/ /\ ~BoundaryCheck(offset) /\ NoFault         \* "in middle of erase"
          /\ EraseFailed /\ UNCHANGED <<offset, flash>>
    /\ UNCHANGED <<cmd, caller, copied, config>>

EraseDone ==
    /\ pc = "erase"
    /\ offset >= EraseEnd
    /\ EraseReturned
    /\ UNCHANGED <<cmd, offset, copied, config, flash, faults>>

---------------------------------------------------------------------------
(* copy: seek, then one buffer at a time until the image ends. *)
CopySeek ==
    /\ pc = "copy_seek"
    /\ \/ NoFault /\ pc' = "copy" /\ UNCHANGED exit
       \/ Fault /\ Exit(2)
    /\ UNCHANGED <<cmd, caller, offset, copied, config, flash>>

ShortWriteIgnored == UNCHANGED <<pc, exit>>
ShortWrite == Exit(4)

CopyBuffer ==
    /\ pc = "copy"
    /\ copied < cmd.image
    /\ LET c == cmd.start + copied IN
       \/ /\ c \in Cells /\ NoFault
          /\ flash' = [flash EXCEPT ![c] = Programmed(@, Img(copied))]
          /\ copied' = copied + 1
          /\ UNCHANGED <<pc, exit>>
       \/ Fault /\ Exit(3) /\ UNCHANGED <<flash, copied>>        \* read
       \/ /\ c \in Cells /\ Fault /\ ShortWrite                  \* write
          /\ flash' \in {flash, [flash EXCEPT ![c] = Garbage]}
          /\ copied' = copied + 1
       \/ /\ c \notin Cells /\ NoFault /\ ShortWrite  \* past the device's end
          /\ copied' = copied + 1
          /\ UNCHANGED flash
    /\ UNCHANGED <<cmd, caller, offset, config>>

CopyDone ==
    /\ pc = "copy"
    /\ copied = cmd.image
    /\ pc' = AfterCopy
    /\ caller' = IF cmd.save THEN "restore" ELSE caller
    /\ UNCHANGED <<cmd, offset, copied, config, exit, flash, faults>>

(* Restoring the section; a failed seek only prints, a failed or short     *)
(* write is not noticed.                                                   *)
WriteConfig ==
    /\ pc = "write_config"
    /\ pc' = "finish"
    /\ \/ /\ NoFault
          /\ flash' = [c \in Cells |-> IF c \in Cfg
                         THEN Programmed(flash[c], config[c - ConfigStart])
                         ELSE flash[c]]
       \/ /\ Fault
          /\ \E n \in 0..ConfigLen - 1 :
               flash' = [c \in Cells |-> IF c \in Cfg /\ c < ConfigStart + n
                           THEN Programmed(flash[c], config[c - ConfigStart])
                           ELSE flash[c]]
    /\ UNCHANGED <<cmd, caller, offset, copied, config, exit>>

(* A full-size update reboots; anything else exits with 0. *)
Finish ==
    /\ pc = "finish"
    /\ IF cmd.length = DeviceSize
       THEN pc' = "rebooting" /\ UNCHANGED exit
       ELSE Exit(0)
    /\ UNCHANGED <<cmd, caller, offset, copied, config, flash, faults>>

(* Power fails: what the chip was working on is undefined. *)
PowerLoss ==
    /\ Running
    /\ pc' = "off"
    /\ flash' \in {flash}
         \union (IF pc = "erase" /\ offset < EraseEnd /\ BoundaryCheck(offset)
                   THEN {Filled(BlockFrom(offset), Garbage)} ELSE {})
         \union (IF pc = "copy" /\ copied < cmd.image /\ cmd.start + copied \in Cells
                   THEN {Filled({cmd.start + copied}, Garbage)} ELSE {})
         \union (IF pc = "write_config" THEN {Filled(Cfg, Garbage)} ELSE {})
    /\ UNCHANGED <<cmd, caller, offset, copied, config, exit, faults>>

Steps == Open \/ GetConfig \/ RegionErase \/ EraseStep \/ EraseDone
         \/ CopySeek \/ CopyBuffer \/ CopyDone \/ WriteConfig \/ Finish

Next == Steps \/ PowerLoss

Spec == Init /\ [][Next]_vars
(* update is an ordinary process: unless power fails it keeps running, and *)
(* no system call is obliged to fail.                                      *)
FairSpec == Spec /\ WF_vars(Steps /\ NoFault)

---------------------------------------------------------------------------
(* Properties.                                                             *)

Asked == cmd.start .. cmd.start + cmd.length - 1
Target == Asked \union (IF cmd.save THEN Cfg ELSE {})
(* The image is no longer than the range; copy does not check this itself. *)
Fits == cmd.image <= cmd.length
ConfigAligned == BoundaryCheck(ConfigStart) /\ BoundaryCheck(ConfigStart + ConfigLen)
SectionKept == \A c \in Cfg : flash[c] = Old(c)

(* The variables have their types; an erase never works past the device's  *)
(* end.                                                                    *)
TypeOK ==
    /\ cmd \in Requests
    /\ pc \in PCs
    /\ caller \in {"main", "restore"}
    /\ offset \in 0..DeviceSize
    /\ copied \in 0..cmd.image
    /\ config \in [0..ConfigLen - 1 -> Content]
    /\ exit \in -1..4
    /\ flash \in [Cells -> Content]
    /\ faults \in 0..MaxFaults

(* Whatever fails and whenever power goes, an update with an image that    *)
(* fits leaves every cell outside the requested range (and outside the     *)
(* configuration section, with -s) as it was: the erase loop steps over    *)
(* regions of different block sizes and must not run over the end.         *)
OutsideUntouched == Fits => \A c \in Cells \ Target : flash[c] = Old(c)

(* The exit "could not find region in middle of erase" is never taken: the *)
(* checks on both ends imply one for every block in between.               *)
NeverMidErase == pc = "erase" /\ offset < EraseEnd => BoundaryCheck(offset)

(* The invariant that makes the two above inductive: while the loop runs   *)
(* both ends and the current offset are boundaries and the offset is       *)
(* between the ends, and the second call is only ever made with -s.        *)
LoopInv ==
    /\ pc = "erase" => /\ Aligned
                       /\ BoundaryCheck(offset)
                       /\ EraseStart <= offset /\ offset <= EraseEnd
    /\ caller = "restore" => cmd.save
    /\ pc = "write_config" => caller = "restore"

UpdateInv == TypeOK /\ LoopInv /\ OutsideUntouched

(* With -s, as long as no system call fails and the power stays on, the    *)
(* old configuration is in the flash or (until main restores it) in the    *)
(* program's memory, and when the program is through it is in the flash.   *)
ConfigKept ==
    cmd.save /\ Fits /\ ConfigAligned /\ faults = 0 /\ pc # "off" =>
        \/ SectionKept
        \/ /\ Running /\ pc # "finish"
           /\ \A i \in 0..ConfigLen - 1 : config[i] = Old(ConfigStart + i)

(* Whatever failed before, update reboots or reports success only over a   *)
(* complete image: every cell of the range it does not restore holds its   *)
(* unit of the image, or is blank where the image has ended.               *)
CompleteImage ==
    (pc = "rebooting" \/ exit = 0) /\ Fits =>
        \A c \in Asked \ (IF cmd.save THEN Cfg ELSE {}) :
            flash[c] = IF cmd.file /\ c - cmd.start < cmd.image
                       THEN Img(c - cmd.start) ELSE Blank

(* update keeps the discipline of the flash: it erases whole blocks of the *)
(* area it may rewrite and programs only blank cells of it.                *)
BlockOf == [c \in Cells |->
    LET r == CHOOSE q \in RegionIds : Regions[q].offset <= c /\ c < RegionEnd(q)
        first == Regions[r].offset
                   + ((c - Regions[r].offset) \div Regions[r].erasesize)
                     * Regions[r].erasesize
    IN  first .. first + Regions[r].erasesize - 1]
Nor == INSTANCE NorFlash WITH Contents <- Content, writable <- Target \intersect Cells
NorDiscipline == Nor!NorSpec

(* Unless power fails, update comes to an end. *)
Terminates == <>~Running

(* reflash's usage text for -s, "Save (do not overwrite) config data": when *)
(* update -s ends because copy could not read or write the image (its exit  *)
(* statuses 3 and 4), the section is as it was.                             *)
CopyFailed == pc = "exited" /\ exit \in {3, 4}
SavedConfigSurvives == cmd.save /\ CopyFailed => SectionKept
=============================================================================
