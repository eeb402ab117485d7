---------------------------- MODULE ConfigStore ----------------------------
(***************************************************************************)
(* Where the access point keeps its configuration: the files of /etc/rw,   *)
(* in RAM, packed by the SAVE button or by save_config into the last but   *)
(* one 16K of the flash (20.configfs commit) and unpacked at boot          *)
(* (20.configfs start) over the defaults.                                  *)
(*                                                                         *)
(* A session is one shell or CGI process running 20.configfs; sessions run *)
(* at the same time and share /tmp/etc.tar and /tmp/etc.tar.gz.            *)
(***************************************************************************)
EXTENDS Naturals

CONSTANTS
    Sessions,     \* processes that may run 20.configfs
    Web,          \* those of them that are the CGI's SAVE: they reboot after it
    Files,        \* the files of /etc/rw
    Values,       \* what a file can hold
    None,         \* a file that does not exist
    Defaults,     \* Defaults[f]: the file in /RW.default
    BlocksOf(_),  \* the size in flash blocks of the packed configuration
    Slots,        \* blocks of the section (count=2)
    MaxEdits,     \* bounds on the edits, the sessions' runs, the failures
    MaxRuns,      \*   of update or dd, and the power failures
    MaxFaults,
    MaxCrashes

Config == [Files -> Values \union {None}]

ASSUME StoreAssumption ==
    /\ Web \subseteq Sessions
    /\ None \notin Values
    /\ Defaults \in Config
    /\ \A c \in Config : BlocksOf(c) \in Nat \ {0}
    /\ Slots \in Nat \ {0}
    /\ {MaxEdits, MaxRuns, MaxFaults, MaxCrashes} \subseteq Nat

Empty == [f \in Files |-> None]

(* A file in /tmp: absent, or a (packed) configuration. *)
NoFile == [there |-> FALSE, files |-> Empty]
Archive(c) == [there |-> TRUE, files |-> c]

(* A block of the section: a part of an archive, blank or undefined. *)
Part(c, i) == <<"part", c, i>>
Blank == <<"blank", Empty, 0>>
Garbage == <<"garbage", Empty, 0>>
Blocks == 0..Slots - 1

Programmed(was, new) == IF was = Blank THEN new ELSE Garbage

VARIABLES
    rw,        \* /etc/rw
    tar,       \* /tmp/etc.tar
    owner,     \* the session whose tar process opened it last
    gz,        \* /tmp/etc.tar.gz
    section,   \* section[i]: the configuration's blocks of the flash
    up,        \* the system is running
    sh,        \* sh[s]: session s, a record (see Session)
    count,     \* edits, runs, faults and crashes so far
    kept       \* history: configuration the section must hold, if known

tmpVars == <<tar, owner, gz>>
vars == <<rw, tmpVars, section, up, sh, count, kept>>

(* A session: where it is in the script, its argument, the files its tar   *)
(* has yet to read, the archive its dd has open, and the block its update  *)
(* or dd works on.  The rest is history: the /etc/rw a commit or a start   *)
(* began with, whether there was no edit and no failed command since, and  *)
(* no other session.                                                       *)
PCs == {"idle", "rm", "open_tar", "pack", "gzip", "erase", "dd_open", "dd",
        "cleanup", "reboot", "stop", "defaults", "dd_in", "unpack", "drop"}
Ops == {"commit", "clear", "start", "stop", "restart"}
Session == [pc: PCs, op: Ops, todo: SUBSET Files, in: Config,
            block: 0..Slots, goal: Config, quiet: BOOLEAN, alone: BOOLEAN]
Idle == [pc |-> "idle", op |-> "commit", todo |-> {}, in |-> Empty, block |-> 0,
         goal |-> Empty, quiet |-> FALSE, alone |-> FALSE]

Active(s) == sh[s].pc # "idle"
At(s, where) == up /\ sh[s].pc = where
Goto(s, where) == sh' = [sh EXCEPT ![s].pc = where]
GotoBlock(s, where, b) == sh' = [sh EXCEPT ![s].pc = where, ![s].block = b]

(* What start finds in the section: gunzip -t accepts only an archive that *)
(* is there to its end.                                                    *)
Loads(c) == BlocksOf(c) <= Slots /\ \A i \in 0..BlocksOf(c) - 1 : section[i] = Part(c, i)
Loaded == IF \E c \in Config : Loads(c) THEN CHOOSE c \in Config : Loads(c) ELSE Empty

(* The saved files are unpacked over the defaults. *)
Over(c, d) == [f \in Files |-> IF c[f] # None THEN c[f] ELSE d[f]]

Bump(what, max) == count[what] < max /\ count' = [count EXCEPT ![what] = @ + 1]

Init ==
    /\ rw = Defaults
    /\ tar = NoFile /\ gz = NoFile /\ owner = None
    /\ section = [i \in Blocks |-> Blank]
    /\ up = TRUE
    /\ sh = [s \in Sessions |-> Idle]
    /\ count = [edits |-> 0, runs |-> 0, faults |-> 0, crashes |-> 0]
    /\ kept = NoFile

---------------------------------------------------------------------------
(* The user changes a file, through the CGI's OK or on the console. *)
Edit(f, v) ==
    /\ up /\ v # rw[f] /\ Bump("edits", MaxEdits)
    /\ rw' = [rw EXCEPT ![f] = v]
    /\ sh' = [s \in Sessions |-> [sh[s] EXCEPT !.quiet = FALSE]]
    /\ UNCHANGED <<tmpVars, section, up, kept>>

(* SAVE, save_config, or 20.configfs on the console. *)
First == [commit |-> "rm", clear |-> "erase", start |-> "defaults", stop |-> "stop",
          restart |-> "stop"]

Start(s, what) ==
    /\ At(s, "idle") /\ Bump("runs", MaxRuns)
    /\ what # "commit" => s \notin Web
    /\ LET alone == \A r \in Sessions : ~Active(r) IN
       sh' = [r \in Sessions |->
                IF r = s THEN [Idle EXCEPT !.pc = First[what], !.op = what, !.quiet = TRUE,
                                           !.alone = alone,
                                           !.goal = IF what \in {"commit", "start"} THEN rw
                                                    ELSE Empty]
                         ELSE [sh[r] EXCEPT !.alone = FALSE]]
    /\ UNCHANGED <<rw, tmpVars, section, up, kept>>

(* rm -f $CONF, before packing. *)
RemoveOld(s) ==
    /\ At(s, "rm")
    /\ gz' = NoFile
    /\ Goto(s, "open_tar")
    /\ UNCHANGED <<rw, tar, owner, section, up, count, kept>>

(* tar cvf /tmp/etc.tar * creates or truncates its output... *)
OpenTar(s) ==
    /\ At(s, "open_tar")
    /\ tar' = Archive(Empty) /\ owner' = s
    /\ sh' = [sh EXCEPT ![s].pc = "pack", ![s].todo = {f \in Files : rw[f] # None}]
    /\ UNCHANGED <<rw, gz, section, up, count, kept>>

(* ... and reads the files one by one.  A tar file another session has     *)
(* opened since is spoiled: its first header is gone and it unpacks to     *)
(* nothing; one another session has removed takes no more.                 *)
Pack(s, f) ==
    /\ At(s, "pack") /\ f \in sh[s].todo
    /\ sh' = [sh EXCEPT ![s].todo = @ \ {f}]
    /\ tar' = IF ~tar.there THEN tar
              ELSE IF owner # s THEN Archive(Empty)
              ELSE [tar EXCEPT !.files[f] = rw[f]]
    /\ UNCHANGED <<rw, owner, gz, section, up, count, kept>>

Packed(s) ==
    /\ At(s, "pack") /\ sh[s].todo = {}
    /\ Goto(s, "gzip")
    /\ UNCHANGED <<rw, tmpVars, section, up, count, kept>>

(* gzip does not overwrite an existing .gz; done, it removes its input. *)
Gzip(s) ==
    /\ At(s, "gzip")
    /\ IF tar.there /\ ~gz.there THEN gz' = tar /\ tar' = NoFile /\ owner' = None
                                 ELSE UNCHANGED tmpVars
    /\ Goto(s, "erase")
    /\ UNCHANGED <<rw, section, up, count, kept>>

(* update: one block at a time; the script ignores its failure. *)
EraseFirstOnly == 1
EraseBlocks == Slots

Erased(s, quiet) ==
    sh' = [sh EXCEPT ![s] = IF @.op = "clear" THEN Idle
                            ELSE [@ EXCEPT !.pc = "dd_open", !.block = 0, !.quiet = quiet]]

Erase(s) ==
    /\ At(s, "erase") /\ sh[s].block < EraseBlocks
    /\ LET b == sh[s].block IN
       \/ /\ section' = [section EXCEPT ![b] = Blank]
          /\ GotoBlock(s, "erase", b + 1)
          /\ UNCHANGED count
       \/ /\ Bump("faults", MaxFaults)
          /\ section' \in {section, [section EXCEPT ![b] = Garbage]}
          /\ Erased(s, FALSE)
    /\ kept' = NoFile
    /\ UNCHANGED <<rw, tmpVars, up>>

EraseDone(s) ==
    /\ At(s, "erase") /\ sh[s].block = EraseBlocks
    /\ Erased(s, sh[s].quiet)
    /\ UNCHANGED <<rw, tmpVars, section, up, count, kept>>

(* dd if=$CONF of=$MTD0: it fails when another session has removed $CONF. *)
DdOpen(s) ==
    /\ At(s, "dd_open")
    /\ sh' = [sh EXCEPT ![s].pc = IF gz.there THEN "dd" ELSE "cleanup",
                        ![s].in = gz.files]
    /\ UNCHANGED <<rw, tmpVars, section, up, count, kept>>

(* dd ends, well or not: its file and its place in the section go with it. *)
DdEnds(s, quiet) ==
    sh' = [sh EXCEPT ![s] = [@ EXCEPT !.pc = "cleanup", !.in = Empty, !.block = 0,
                                      !.quiet = quiet]]

Last(s) == sh[s].block >= BlocksOf(sh[s].in) \/ sh[s].block = Slots

Dd(s) ==
    /\ At(s, "dd") /\ ~Last(s)
    /\ LET b == sh[s].block IN
       \/ /\ section' = [section EXCEPT ![b] = Programmed(@, Part(sh[s].in, b))]
          /\ GotoBlock(s, "dd", b + 1)
          /\ UNCHANGED count
       \/ /\ Bump("faults", MaxFaults)
          /\ section' \in {section, [section EXCEPT ![b] = Garbage]}
          /\ DdEnds(s, FALSE)
    /\ kept' = NoFile
    /\ UNCHANGED <<rw, tmpVars, up>>

DdDone(s) ==
    /\ At(s, "dd") /\ Last(s)
    /\ DdEnds(s, sh[s].quiet)
    /\ UNCHANGED <<rw, tmpVars, section, up, count, kept>>

(* The last rm -f $CONF; save_config of setup.c goes on to reboot. *)
Fits(c) == BlocksOf(c) <= Slots
NeverReboots(s) == FALSE
ThenReboots(s) == s \in Web

Cleanup(s) ==
    /\ At(s, "cleanup")
    /\ gz' = NoFile
    /\ sh' = [sh EXCEPT ![s] = IF ThenReboots(s) THEN [@ EXCEPT !.pc = "reboot"] ELSE Idle]
    /\ kept' = IF sh[s].quiet /\ sh[s].alone /\ Fits(sh[s].goal)
               THEN Archive(sh[s].goal) ELSE kept
    /\ UNCHANGED <<rw, tar, owner, section, up, count>>

---------------------------------------------------------------------------
(* stop, start and restart on a running system.  What they do to /etc/rw is *)
(* an edit to the sessions that are packing it.                             *)
OthersNotQuiet(s, next) ==
    sh' = [r \in Sessions |-> IF r = s THEN next ELSE [sh[r] EXCEPT !.quiet = FALSE]]

Stop(s) ==
    /\ At(s, "stop")
    /\ rw' = Empty
    /\ OthersNotQuiet(s, IF sh[s].op = "restart" THEN [sh[s] EXCEPT !.pc = "defaults"]
                         ELSE Idle)
    /\ UNCHANGED <<tmpVars, section, up, count, kept>>

LoadDefaults(s) ==
    /\ At(s, "defaults")
    /\ rw' = Over(Defaults, rw)
    /\ OthersNotQuiet(s, [sh[s] EXCEPT !.pc = "dd_in"])
    /\ UNCHANGED <<tmpVars, section, up, count, kept>>

(* dd of=$CONF truncates the file there: a dd that is reading it may find   *)
(* what this one writes.                                                    *)
DdIn(s) ==
    /\ At(s, "dd_in")
    /\ gz' = Archive(Loaded)
    /\ \E cut \in SUBSET {r \in Sessions : sh[r].pc = "dd" /\ gz.there} :
          sh' = [r \in Sessions |-> IF r = s THEN [sh[r] EXCEPT !.pc = "unpack"]
                                    ELSE IF r \in cut THEN [sh[r] EXCEPT !.in = Loaded]
                                    ELSE sh[r]]
    /\ UNCHANGED <<rw, tar, owner, section, up, count, kept>>

(* An archive that another session has put in its place is unpacked, one    *)
(* that it has removed is not missed.                                       *)
SavedLast == Over(rw, gz.files)
Unpacked  == Over(gz.files, rw)

Unpack(s) ==
    /\ At(s, "unpack")
    /\ rw' = IF gz.there THEN Unpacked ELSE rw
    /\ OthersNotQuiet(s, [sh[s] EXCEPT !.pc = "drop"])
    /\ UNCHANGED <<tmpVars, section, up, count, kept>>

Drop(s) ==
    /\ At(s, "drop")
    /\ gz' = NoFile
    /\ sh' = [sh EXCEPT ![s] = Idle]
    /\ UNCHANGED <<rw, tar, owner, section, up, count, kept>>

---------------------------------------------------------------------------
(* The system goes down: every process and the RAM are gone, a block that  *)
(* is being erased or written may be undefined.                            *)
InWork == {sh[s].block : s \in {r \in Sessions :
             \/ sh[r].pc = "erase" /\ sh[r].block < EraseBlocks
             \/ sh[r].pc = "dd" /\ ~Last(r)}}

Down ==
    /\ up /\ up' = FALSE
    /\ \E spoilt \in SUBSET InWork :
          /\ section' = [i \in Blocks |-> IF i \in spoilt THEN Garbage ELSE section[i]]
          /\ kept' = IF spoilt = {} THEN kept ELSE NoFile
    /\ rw' = Empty /\ tar' = NoFile /\ gz' = NoFile /\ owner' = None
    /\ sh' = [s \in Sessions |-> Idle]

Reboot(s) == At(s, "reboot") /\ Down /\ UNCHANGED count
PowerLoss == Down /\ Bump("crashes", MaxCrashes)

(* 10.sysinit and 20.configfs start. *)
DefaultsLast == Over(Defaults, Loaded)
Configuration == Over(Loaded, Defaults)

Boot ==
    /\ ~up /\ up' = TRUE
    /\ rw' = Configuration
    /\ UNCHANGED <<tmpVars, section, sh, count, kept>>

Step(s) ==
    \/ RemoveOld(s) \/ OpenTar(s) \/ (\E f \in Files : Pack(s, f)) \/ Packed(s)
    \/ Gzip(s) \/ Erase(s) \/ EraseDone(s) \/ DdOpen(s) \/ Dd(s) \/ DdDone(s)
    \/ Cleanup(s) \/ Reboot(s)
    \/ Stop(s) \/ LoadDefaults(s) \/ DdIn(s) \/ Unpack(s) \/ Drop(s)

Next ==
    \/ \E f \in Files, v \in Values \union {None} : Edit(f, v)
    \/ \E s \in Sessions : Step(s) \/ \E what \in Ops : Start(s, what)
    \/ PowerLoss \/ Boot

Spec == Init /\ [][Next]_vars
(* Every session is a process the kernel schedules; a machine that is down *)
(* is switched on or resets.                                               *)
FairSpec == Spec /\ (\A s \in Sessions : WF_vars(Step(s))) /\ WF_vars(Boot)

---------------------------------------------------------------------------
(* Properties.                                                             *)

BlockContent == {Part(c, i) : c \in Config, i \in Blocks} \union {Blank, Garbage}
TmpFile == [there: BOOLEAN, files: Config]

TypeOK ==
    /\ rw \in Config
    /\ tar \in TmpFile /\ gz \in TmpFile /\ owner \in Sessions \union {None}
    /\ section \in [Blocks -> BlockContent]
    /\ up \in BOOLEAN
    /\ sh \in [Sessions -> Session]
    /\ count \in [edits: 0..MaxEdits, runs: 0..MaxRuns,
                  faults: 0..MaxFaults, crashes: 0..MaxCrashes]
    /\ kept \in TmpFile

(* A save that ran alone, undisturbed and without a failure is what the    *)
(* section holds until the next erase begins: through power failures while *)
(* the next save is still packing, and after earlier saves that raced and  *)
(* left their files in /tmp.                                               *)
Durable == kept.there => Loads(kept.files)

(* A boot brings back the configuration of such a save, file for file: a   *)
(* default shows through only for a file that was not saved.               *)
BootRestores ==
    [][~up /\ up' /\ kept.there =>
          \A f \in Files : rw'[f] = IF kept.files[f] # None THEN kept.files[f]
                                    ELSE Defaults[f]]_vars

(* start and restart on a running system, alone with it, bring back the     *)
(* configuration of such a save over the defaults, and only start keeps a   *)
(* file that is in neither.                                                 *)
StartRestores ==
    [][\A s \in Sessions :
          up' /\ At(s, "drop") /\ sh'[s].pc = "idle" /\ sh[s].alone /\ sh[s].quiet /\ kept.there
            => rw' = Over(kept.files, Over(Defaults, sh[s].goal))]_vars

(* A SAVE of the web ends in a restart of the system, whatever fails and   *)
(* whatever the other sessions do to its files in /tmp.                    *)
SaveReboots == \A s \in Web : sh[s].pc = "rm" ~> ~up
=============================================================================
