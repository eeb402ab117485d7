------------------------------ MODULE Install ------------------------------
(***************************************************************************)
(* From the bench to the flash: wrflash writes the software with 00flash   *)
(* onto a card, the access point boots from it and puts Linux into its     *)
(* flash, and reflash replaces that later.  The card is all that the two   *)
(* programs share.                                                         *)
(***************************************************************************)
EXTENDS WrFlash, Sequences

CONSTANTS Releases, First, Vendor, Attempts, MaxNew, MaxRuns, MaxUpdateFaults, MaxCrashes

ASSUME InstallAssumption ==
  /\ First \in Releases /\ Vendor \notin Releases
  /\ {Attempts, MaxNew, MaxRuns, MaxUpdateFaults, MaxCrashes} \subseteq Nat

VARIABLES server, local, tmp, onboard, up, sh, count, spoiled

apVars == <<server, local, tmp, onboard, up, sh, count, spoiled>>

(* The units of the card's software: the system, the two parts of /flash and *)
(* /flash.md5; it boots from the bottom of the card.                         *)
Release(cell, i) == IF cell = Image(i) THEN First ELSE "damaged"

CardFiles == [boots |-> cells[0] = Image(0),
              image |-> [p \in 1 .. 2 |-> Release(cells[p], p)],
              sum   |-> Release(cells[3], 3)]

AP == INSTANCE Reflash WITH card <- CardFiles, MaxFaults <- MaxUpdateFaults

Init == WrInit /\ AP!ReflashInit

(* The card is in the access point from the moment wrflash has ended. *)
Next == \/ WrNext /\ UNCHANGED apVars
        \/ WrEnded /\ UNCHANGED wrVars /\ AP!ReflashNext

vars == <<wrVars, apVars>>

Spec == Init /\ [][Next]_vars

(* Each program is one process that waits for nobody; the server's *)
(* administrator finishes what he began to copy.                   *)
FairSpec ==
  /\ Spec
  /\ WF_vars(WrEnded /\ UNCHANGED wrVars /\ AP!Script)
  /\ WF_vars(WrEnded /\ UNCHANGED wrVars /\ AP!CopyOn)
-----------------------------------------------------------------------------
(* What the variables of both programs hold. *)
TypeOK == WrTypeOK /\ AP!ReflashTypeOK

(* The flash of the access point holds one release, whole, unless update is *)
(* at work or failed in the middle: see Reflash.                            *)
OnboardWhole == AP!OnboardWhole

(* reflash by tftp gets to update, loses power or fails Attempts times: see *)
(* Reflash.                                                                  *)
TriesAgain == AP!TriesAgain
=============================================================================
