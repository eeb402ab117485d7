------------------------------ MODULE Reflash ------------------------------
(***************************************************************************)
(* How new software gets into the flash of the access point: reflash       *)
(* fetches an image and its md5 sum by tftp, or links them from a file,    *)
(* verifies the image and runs update; 00flash does the same, once, with   *)
(* the files on the card the access point was booted from.  update itself  *)
(* is FlashUpdate; here it is what that module's CompleteImage leaves of   *)
(* it: the flash is erased, programmed part by part, or it fails half-way. *)
(***************************************************************************)
EXTENDS Integers, Sequences

CONSTANTS Releases,   \* what can be in the tftp directory
          First,      \* the release that is there at the beginning
          Vendor,     \* the software the access point was sold with
          Attempts,   \* bound on the failed attempts that are counted
          MaxNew,     \* bounds on the releases published meanwhile,
          MaxRuns,    \*   the runs of reflash and 00flash,
          MaxFaults,  \*   on failing transfers and updates,
          MaxCrashes  \*   and on power failures

(* An image is a sequence of two parts, of the same release if it is whole. *)
Parts == 1 .. 2
Img(r) == [p \in Parts |-> r]
Blank == "blank"
Whole(image) == \E r \in Releases : image = Img(r)

(* A file in /tmp: what it holds, or a symbolic link to the user's file or *)
(* to itself.                                                              *)
File(image, sum) == [image |-> image, sum |-> sum]
Nothing == "nothing"
Copied == "copied"
Linked == "linked"
Looped == "looped"

VARIABLES
  server,    \* the tftp directory: image, md5 sum, parts still to be copied
  card,      \* the card's software: does it boot, its /flash and /flash.md5
  local,     \* the user's image and md5 sum, for reflash -f
  tmp,       \* /tmp/flash and /tmp/flash.md5
  onboard,   \* the flash
  up,        \* what the access point runs: its flash, the card, or nothing
  sh,        \* the script: where it is, its source, retries, the part it is at,
             \*   and (history) the attempts of this run that failed
  count,     \* new releases, runs, faults and crashes so far
  spoiled    \* history: update failed or lost power since it last succeeded

vars == <<server, card, local, tmp, onboard, up, sh, count, spoiled>>

Idle == [pc |-> "idle", from |-> "tftp", retries |-> 1, part |-> 1, failed |-> 0]

ReflashInit ==
  /\ server = [image |-> Img(First), sum |-> First, todo |-> <<>>]
  /\ local \in {File(Img(r), First) : r \in Releases}
  /\ tmp = [how |-> Nothing, image |-> <<>>, sum |-> Nothing]
  /\ onboard = Img(Vendor)
  /\ up = "off"
  /\ sh = Idle
  /\ count = [new |-> 0, runs |-> 0, faults |-> 0, crashes |-> 0]
  /\ spoiled = FALSE

At(pc) == up # "off" /\ sh.pc = pc
Goto(pc) == sh' = [sh EXCEPT !.pc = pc]
Fault == count.faults < MaxFaults /\ count' = [count EXCEPT !.faults = @ + 1]
-----------------------------------------------------------------------------
(* The tftp server's administrator copies flash, then flash.md5 (external). *)

Publish ==
  /\ server.todo = <<>> /\ count.new < MaxNew
  /\ \E r \in Releases : /\ r # server.sum
                         /\ server' = [server EXCEPT !.image = <<>>, !.todo = <<r, r, r>>]
  /\ count' = [count EXCEPT !.new = @ + 1]
  /\ UNCHANGED <<card, local, tmp, onboard, up, sh, spoiled>>

CopyOn ==
  /\ server.todo # <<>>
  /\ LET r == Head(server.todo) IN
     server' = [todo  |-> Tail(server.todo),
                image |-> IF Len(server.todo) > 1 THEN Append(server.image, r) ELSE server.image,
                sum   |-> IF Len(server.todo) > 1 THEN server.sum ELSE r]
  /\ UNCHANGED <<card, local, tmp, onboard, up, sh, count, spoiled>>
-----------------------------------------------------------------------------
(* reflash *)

Updating == sh.pc \in {"erase", "program"}

(* The command line is checked before anything is done. *)
Start ==
  /\ At("idle") /\ up = "flash" /\ count.runs < MaxRuns
  /\ \E from \in {"tftp", "file", "tmp_flash"} :
        sh' = [Idle EXCEPT !.from = from, !.pc = IF from = "tftp" THEN "prep" ELSE "link"]
  /\ count' = [count EXCEPT !.runs = @ + 1]
  /\ UNCHANGED <<server, card, local, tmp, onboard, up, spoiled>>

(* tftp_prep empties /tmp; the services /etc/rc 1 stops are not in the model. *)
Prep ==
  /\ At("prep")
  /\ tmp' = [how |-> Nothing, image |-> <<>>, sum |-> Nothing]
  /\ Goto("get_flash")
  /\ UNCHANGED <<server, card, local, onboard, up, count, spoiled>>

(* tftp opens the local file, which empties it, or finds no server first. *)
GetFlash ==
  /\ At("get_flash")
  /\ \/ tmp' = [tmp EXCEPT !.how = Copied, !.image = <<>>] /\ Goto("receive") /\ UNCHANGED count
     \/ Fault /\ Goto("get_sum") /\ UNCHANGED tmp
  /\ UNCHANGED <<server, card, local, onboard, up, spoiled>>

(* What the server's file has next, or the end of the transfer: complete or *)
(* not, the script does not look at the exit status.                        *)
Receive ==
  /\ At("receive")
  /\ LET n == Len(tmp.image) + 1 IN
     \/ /\ n <= Len(server.image)
        /\ tmp' = [tmp EXCEPT !.image = Append(@, server.image[n])]
        /\ UNCHANGED <<sh, count>>
     \/ n > Len(server.image) /\ Goto("get_sum") /\ UNCHANGED <<tmp, count>>
     \/ Fault /\ Goto("get_sum") /\ UNCHANGED tmp
  /\ UNCHANGED <<server, card, local, onboard, up, spoiled>>

(* flash.md5, one packet: it comes, it is left empty, or is as it was. *)
GetSum ==
  /\ At("get_sum")
  /\ \/ tmp' = [tmp EXCEPT !.sum = server.sum] /\ UNCHANGED count
     \/ Fault /\ tmp' \in {tmp, [tmp EXCEPT !.sum = Nothing]}
  /\ Goto("verify")
  /\ UNCHANGED <<server, card, local, onboard, up, spoiled>>

(* ln -sf: of /tmp/flash to itself, it loses the file. *)
Link ==
  /\ At("link")
  /\ tmp' = [tmp EXCEPT !.how = IF sh.from = "file" THEN Linked ELSE Looped]
  /\ Goto("verify")
  /\ UNCHANGED <<server, card, local, onboard, up, count, spoiled>>

(* What md5sum and update read. *)
Found ==
  CASE sh.from = "card"  -> File(card.image, card.sum)
    [] tmp.how = Linked  -> local
    [] tmp.how = Looped  -> File(<<>>, Nothing)
    [] OTHER             -> File(tmp.image, tmp.sum)

(* md5sum -c flash.md5, and the same taking any sum for the image's. *)
SumIsThere == Found.sum # Nothing /\ Len(Found.image) = 2
SumMatches == \E r \in Releases : Found = File(Img(r), r)

(* [ "$ftfp" != "TRUE"] : without a blank before the bracket the test is an  *)
(* error, and nothing aborts.  With it, the test would always be true: the   *)
(* variable is called tftp.                                                  *)
TestOfUnset == TRUE
TestFtfp == FALSE

(* expr $retries - 1: away from the limit of 4, which is not reached. *)
NextTry(n) == IF n > 1 - Attempts THEN n - 1 ELSE n

Verify ==
  /\ At("verify")
  /\ IF SumMatches THEN Goto("erase")
     ELSE IF sh.from = "card" THEN sh' = Idle
     ELSE LET n == IF TestFtfp THEN 4 ELSE NextTry(sh.retries)
          IN  sh' = IF n >= 4 THEN Idle
                    ELSE [sh EXCEPT !.retries = n,
                                    !.failed = IF @ < Attempts THEN @ + 1 ELSE @,
                                    !.pc = IF sh.from = "tftp" THEN "get_flash" ELSE "link"]
  /\ UNCHANGED <<server, card, local, tmp, onboard, up, count, spoiled>>
-----------------------------------------------------------------------------
(* exec update: the script is gone whatever it returns. *)

Erase ==
  /\ At("erase")
  /\ \/ /\ onboard' = <<Blank, Blank>> /\ Goto("program") /\ UNCHANGED <<count, spoiled>>
     \/ /\ Fault /\ sh' = Idle /\ spoiled' = TRUE
        /\ onboard' \in {onboard, <<Blank, onboard[2]>>}
  /\ UNCHANGED <<server, card, local, tmp, up>>

(* A full update reboots when it is done. *)
Program ==
  /\ At("program")
  /\ LET p == sh.part IN
     \/ /\ onboard' = [onboard EXCEPT ![p] = Found.image[p]]
        /\ IF p = 2 THEN sh' = Idle /\ up' = "off" /\ spoiled' = FALSE
                         /\ tmp' = [how |-> Nothing, image |-> <<>>, sum |-> Nothing]
           ELSE sh' = [sh EXCEPT !.part = p + 1] /\ UNCHANGED <<up, spoiled, tmp>>
        /\ UNCHANGED count
     \/ /\ Fault /\ sh' = Idle /\ spoiled' = TRUE
        /\ UNCHANGED <<onboard, up, tmp>>
  /\ UNCHANGED <<server, card, local>>
-----------------------------------------------------------------------------
(* The access point starts from its flash, or with the jumper JP2 from the  *)
(* card, whose run level 6 is 00flash.  Somebody without JP2 restarts it if *)
(* it does not run (external).                                              *)

Boot ==
  /\ up = "off" /\ Whole(onboard) /\ up' = "flash"
  /\ UNCHANGED <<server, card, local, tmp, onboard, sh, count, spoiled>>

BootCard ==
  /\ up = "off" /\ card.boots /\ count.runs < MaxRuns
  /\ up' = "card"
  /\ sh' = [Idle EXCEPT !.from = "card", !.pc = "verify"]
  /\ count' = [count EXCEPT !.runs = @ + 1]
  /\ UNCHANGED <<server, card, local, tmp, onboard, spoiled>>

(* The power fails or is switched off; what was in RAM is lost. *)
PowerOff ==
  /\ up # "off" /\ count.crashes < MaxCrashes
  /\ count' = [count EXCEPT !.crashes = @ + 1]
  /\ up' = "off" /\ sh' = Idle
  /\ tmp' = [how |-> Nothing, image |-> <<>>, sum |-> Nothing]
  /\ spoiled' = (spoiled \/ Updating)
  /\ UNCHANGED <<server, card, local, onboard>>

(* The user replaces the image of reflash -f, but not while it is written. *)
NewLocal ==
  /\ ~ Updating
  /\ \E r \in Releases : local' = File(Img(r), r)
  /\ UNCHANGED <<server, card, tmp, onboard, up, sh, count, spoiled>>

Script == Prep \/ GetFlash \/ Receive \/ GetSum \/ Link \/ Verify \/ Erase \/ Program
ReflashNext == Script \/ Publish \/ CopyOn \/ Start \/ Boot \/ BootCard \/ PowerOff \/ NewLocal
-----------------------------------------------------------------------------
(* Properties *)

(* What the variables of the scripts hold; retries only goes down. *)
ReflashTypeOK ==
  /\ Len(server.image) <= 2 /\ server.todo \in {<<>>} \union UNION {[1 .. n -> Releases] : n \in 1 .. 3}
  /\ local.sum \in Releases
  /\ tmp.how \in {Nothing, Copied, Linked, Looped} /\ Len(tmp.image) <= 2
  /\ onboard \in [Parts -> Releases \union {Vendor, Blank}]
  /\ up \in {"off", "flash", "card"} /\ (up = "off" => sh = Idle)
  /\ sh.retries \in 1 - Attempts .. 1 /\ sh.failed \in 0 .. Attempts /\ sh.part \in Parts

(* The flash holds one release, whole, unless update is at work or failed in *)
(* the middle: whatever the server published meanwhile, the network lost, an *)
(* earlier run left in /tmp, or wrflash left on the card.                    *)
OnboardWhole == Whole(onboard) \/ onboard = Img(Vendor) \/ Updating \/ spoiled

(* A reflash by tftp does not give up early: it gets to update, unless the  *)
(* power fails, or Attempts times the server, the network or what an earlier *)
(* attempt left in /tmp has given it an image that does not match its sum:   *)
(* three, by `while [ $retries -lt 4 ]` and "attempt = $retries".  That it   *)
(* stops then, as the script means to, is not claimed: see NextTry.          *)
TriesAgain == sh.pc = "get_flash" ~> Updating \/ up = "off" \/ sh.failed = Attempts
=============================================================================
