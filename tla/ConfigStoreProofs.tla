------------------------- MODULE ConfigStoreProofs -------------------------
(***************************************************************************)
(* A configuration that was saved undisturbed stays in the flash and comes *)
(* back with a boot, a start or a restart: for every set of files, values  *)
(* and sessions, every size of the archives and every number of edits,     *)
(* runs, failures and power failures.                                      *)
(*                                                                         *)
(* The history variables alone and quiet say which runs these are.  A run  *)
(* that is alone has no other session beside it, so whatever it leaves for *)
(* its next command - in /etc/rw, in /tmp, in the section - is still there *)
(* when that command starts: Stage says what that is at every point of the *)
(* script, and the rest follows.                                           *)
(***************************************************************************)
EXTENDS ConfigStore, TLAPS

(* Only a system that is up runs sessions, and one that is alone runs one. *)
OnlyWhenUp == ~ up => \A s \in Sessions : ~ Active(s)
OnlyAlone  == \A s, r \in Sessions :
                 Active(s) /\ sh[s].alone /\ Active(r) => r = s

(* What /etc/rw, /tmp and the section hold while session s, alone and      *)
(* undisturbed, is at each point of its script.                            *)
PackedSoFar(c, todo) == [f \in Files |-> IF f \in todo THEN None ELSE c[f]]
ErasedTo(n) == \A b \in Blocks : b < n => section[b] = Blank
WrittenTo(c, n) == \A b \in Blocks : section[b] = IF b < n THEN Part(c, b) ELSE Blank

Holds(s, pc, goal) ==
    /\ pc \in {"rm", "open_tar", "pack", "gzip", "defaults"} => rw = goal
    /\ pc \in {"rm", "open_tar", "pack", "gzip"} => sh[s].block = 0
    /\ pc = "stop" => goal = Empty
    /\ pc \in {"open_tar", "pack", "gzip"} => gz = NoFile
    /\ pc = "pack" => owner = s /\ tar = Archive(PackedSoFar(goal, sh[s].todo))
    /\ pc = "gzip" => tar = Archive(goal)
    /\ pc = "erase" /\ sh[s].op # "clear" => gz = Archive(goal)
    /\ pc = "erase" => ErasedTo(sh[s].block)
    /\ pc = "dd_open" => gz = Archive(goal) /\ sh[s].block = 0 /\ WrittenTo(goal, 0)
    /\ pc = "dd" => sh[s].in = goal /\ WrittenTo(goal, sh[s].block)
    /\ pc = "cleanup" /\ Fits(goal) => Loads(goal)
    /\ pc \in {"dd_in", "unpack"} => rw = Over(Defaults, goal)
    /\ pc = "unpack" => gz = Archive(Loaded)
    /\ pc = "drop" => rw = Over(Loaded, Over(Defaults, goal))

Stage(s) == sh[s].alone /\ sh[s].quiet => Holds(s, sh[s].pc, sh[s].goal)

StoreInv ==
    /\ TypeOK
    /\ OnlyWhenUp
    /\ OnlyAlone
    /\ \A s \in Sessions : Stage(s)
    /\ Durable

---------------------------------------------------------------------------
(* Types. *)

LEMMA ConfigTypes ==
    /\ Empty \in Config /\ NoFile \in TmpFile
    /\ \A c \in Config : Archive(c) \in TmpFile
    /\ \A c, d \in Config : Over(c, d) \in Config
    /\ Loaded \in Config
<1>1. Empty \in Config
  BY DEF Empty, Config
<1>2. NoFile \in TmpFile /\ \A c \in Config : Archive(c) \in TmpFile
  BY <1>1 DEF NoFile, Archive, TmpFile
<1>3. \A c, d \in Config : Over(c, d) \in Config
  BY DEF Over, Config
<1>4. Loaded \in Config
  BY <1>1 DEF Loaded
<1>5. QED
  BY <1>1, <1>2, <1>3, <1>4

(* A step that gives one session a record and leaves the other sessions    *)
(* theirs, or takes only their quiet from them. *)
LEMMA SessionTypes ==
    ASSUME sh \in [Sessions -> Session], NEW s \in Sessions, NEW next \in Session
    PROVE  /\ [sh EXCEPT ![s] = next] \in [Sessions -> Session]
           /\ OthersNotQuiet(s, next) => sh' \in [Sessions -> Session]
<1>1. \A r \in Sessions : [sh[r] EXCEPT !.quiet = FALSE] \in Session
  BY DEF Session
<1>2. QED
  BY <1>1 DEF OthersNotQuiet

LEMMA IdleType == Idle \in Session
<1>1. 0 \in 0..Slots
  BY StoreAssumption, SMT
<1>2. "idle" \in PCs /\ "commit" \in Ops
  BY DEF PCs, Ops
<1>3. QED
  BY <1>1, <1>2, ConfigTypes DEF Idle, Session

LEMMA InitType == Init => TypeOK
<1> SUFFICES ASSUME Init PROVE TypeOK
  OBVIOUS
<1>1. rw \in Config /\ tar \in TmpFile /\ gz \in TmpFile /\ kept \in TmpFile
  BY ConfigTypes, StoreAssumption DEF Init
<1>2. sh \in [Sessions -> Session]
  BY IdleType DEF Init
<1>3. section \in [Blocks -> BlockContent]
  BY DEF Init, BlockContent
<1>4. count \in [edits: 0..MaxEdits, runs: 0..MaxRuns, faults: 0..MaxFaults, crashes: 0..MaxCrashes]
  BY StoreAssumption, SMT DEF Init
<1>5. QED
  BY <1>1, <1>2, <1>3, <1>4 DEF Init, TypeOK

Counts == [edits: 0..MaxEdits, runs: 0..MaxRuns, faults: 0..MaxFaults, crashes: 0..MaxCrashes]

LEMMA BumpType ==
    ASSUME count \in Counts
    PROVE  /\ Bump("edits", MaxEdits) => count' \in Counts
           /\ Bump("runs", MaxRuns) => count' \in Counts
           /\ Bump("faults", MaxFaults) => count' \in Counts
           /\ Bump("crashes", MaxCrashes) => count' \in Counts
<1>1. \A n, m \in Nat : \A i \in 0..m : i < m => i + 1 \in 0..m
  BY SMT
<1>2. MaxEdits \in Nat /\ MaxRuns \in Nat /\ MaxFaults \in Nat /\ MaxCrashes \in Nat
  BY StoreAssumption
<1>3. QED
  BY <1>1, <1>2 DEF Bump, Counts

(* The blocks erase and dd work on. *)
LEMMA BlockTypes ==
    ASSUME TypeOK
    PROVE  /\ Blank \in BlockContent /\ Garbage \in BlockContent
           /\ \A c \in Config, b \in Blocks : \A x :
                  Programmed(x, Part(c, b)) \in BlockContent
           /\ \A s \in Sessions : sh[s].block < Slots =>
                  sh[s].block \in Blocks /\ sh[s].block + 1 \in 0..Slots
<1>1. \A b \in 0..Slots : b < Slots => b \in Blocks /\ b + 1 \in 0..Slots
  BY StoreAssumption, SMT DEF Blocks
<1>2. \A s \in Sessions : sh[s].block \in 0..Slots
  BY DEF TypeOK, Session
<1>3. QED
  BY <1>1, <1>2 DEF BlockContent, Programmed

LEMMA EditType ==
    ASSUME TypeOK, NEW f \in Files, NEW v \in Values \union {None}, Edit(f, v)
    PROVE  TypeOK'
<1>1. rw' \in Config
  BY DEF TypeOK, Edit, Config
<1>2. sh' \in [Sessions -> Session]
  BY DEF TypeOK, Edit, Session
<1>3. count' \in Counts
  BY BumpType DEF TypeOK, Edit, Counts
<1>4. QED
  BY <1>1, <1>2, <1>3 DEF TypeOK, Edit, tmpVars, Counts

LEMMA StartType ==
    ASSUME TypeOK, NEW s \in Sessions, NEW what \in Ops, Start(s, what)
    PROVE  TypeOK'
<1>1. \A alone \in BOOLEAN, c \in Config :
         [Idle EXCEPT !.pc = First[what], !.op = what, !.quiet = TRUE, !.alone = alone,
                      !.goal = c] \in Session
  <2>1. First[what] \in PCs
    BY DEF First, Ops, PCs
  <2> HIDE DEF First, PCs, Ops
  <2>2. QED
    BY <2>1, IdleType DEF Session
<1>2. \A r \in Sessions : [sh[r] EXCEPT !.alone = FALSE] \in Session
  BY DEF TypeOK, Session
<1>3. rw \in Config /\ Empty \in Config
  BY ConfigTypes DEF TypeOK
<1>4. (\A r \in Sessions : ~ Active(r)) \in BOOLEAN
  OBVIOUS
<1>5. sh' \in [Sessions -> Session]
  <2> DEFINE mine == [Idle EXCEPT !.pc = First[what], !.op = what, !.quiet = TRUE,
                                  !.alone = \A r \in Sessions : ~ Active(r),
                                  !.goal = IF what \in {"commit", "start"} THEN rw ELSE Empty]
  <2>1. mine \in Session
    BY <1>1, <1>3, <1>4
  <2>2. sh' = [r \in Sessions |-> IF r = s THEN mine ELSE [sh[r] EXCEPT !.alone = FALSE]]
    BY DEF Start
  <2> HIDE DEF mine
  <2>3. QED
    BY <1>2, <2>1, <2>2
<1>6. count' \in Counts
  BY BumpType DEF TypeOK, Start, Counts
<1>7. QED
  BY <1>5, <1>6 DEF TypeOK, Start, tmpVars, Counts

(* Every process is gone, and RAM with it. *)
LEMMA DownType ==
    ASSUME TypeOK, Down, count' \in Counts
    PROVE  TypeOK'
<1>1. sh' \in [Sessions -> Session]
  BY IdleType DEF Down
<1>2. section' \in [Blocks -> BlockContent]
  BY BlockTypes DEF Down, TypeOK
<1>3. QED
  BY <1>1, <1>2, ConfigTypes DEF Down, TypeOK, Counts

(* The steps of a session.  Each gives it a record of the type, or changes *)
(* a field of the one it has. *)
LEMMA StepType ==
    ASSUME TypeOK, NEW s \in Sessions, Step(s)
    PROVE  TypeOK'
<1>t. /\ rw \in Config /\ tar \in TmpFile /\ gz \in TmpFile /\ kept \in TmpFile
      /\ owner \in Sessions \union {None}
      /\ section \in [Blocks -> BlockContent] /\ up \in BOOLEAN
      /\ sh \in [Sessions -> Session] /\ count \in Counts /\ sh[s] \in Session
  BY DEF TypeOK, Counts
<1>p. \A pc \in PCs : [sh EXCEPT ![s].pc = pc] \in [Sessions -> Session]
  BY <1>t DEF Session
<1>g. ASSUME NEW pc \in PCs, Goto(s, pc)
      PROVE  sh' \in [Sessions -> Session]
  BY <1>p, <1>g DEF Goto
<1>1. CASE RemoveOld(s)
  <2>1. sh' \in [Sessions -> Session]
    BY <1>1, <1>g DEF RemoveOld, PCs
  <2>2. QED
    BY <1>1, <1>t, <2>1, ConfigTypes DEF RemoveOld, TypeOK, Counts
<1>2. CASE OpenTar(s)
  <2>1. sh' \in [Sessions -> Session]
    BY <1>2, <1>t DEF OpenTar, Session, PCs
  <2>2. QED
    BY <1>2, <1>t, <2>1, ConfigTypes DEF OpenTar, TypeOK, Counts
<1>3. ASSUME NEW f \in Files, Pack(s, f)
      PROVE  TypeOK'
  <2>1. sh' \in [Sessions -> Session]
    BY <1>3, <1>t DEF Pack, Session
  <2>2. [tar EXCEPT !.files[f] = rw[f]] \in TmpFile
    BY <1>t DEF TmpFile, Config
  <2>3. tar' \in TmpFile
    BY <1>3, <1>t, <2>2, ConfigTypes DEF Pack
  <2>4. QED
    BY <1>3, <1>t, <2>1, <2>3 DEF Pack, TypeOK, Counts
<1>4. CASE Packed(s)
  <2>1. sh' \in [Sessions -> Session]
    BY <1>4, <1>g DEF Packed, PCs
  <2>2. QED
    BY <1>4, <1>t, <2>1 DEF Packed, TypeOK, tmpVars, Counts
<1>5. CASE Gzip(s)
  <2>1. sh' \in [Sessions -> Session]
    BY <1>5, <1>g DEF Gzip, PCs
  <2>2. tar' \in TmpFile /\ gz' \in TmpFile /\ owner' \in Sessions \union {None}
    BY <1>5, <1>t, ConfigTypes DEF Gzip, tmpVars
  <2>3. QED
    BY <1>5, <1>t, <2>1, <2>2 DEF Gzip, TypeOK, Counts
<1>6. ASSUME NEW quiet \in BOOLEAN, Erased(s, quiet)
      PROVE  sh' \in [Sessions -> Session]
  <2>1. 0 \in 0..Slots
    BY StoreAssumption, SMT
  <2>2. [sh[s] EXCEPT !.pc = "dd_open", !.block = 0, !.quiet = quiet] \in Session
    BY <1>t, <2>1 DEF Session, PCs
  <2>3. QED
    BY <1>6, <1>t, <2>2, IdleType, SessionTypes DEF Erased
<1>7. ASSUME NEW pc \in PCs, sh[s].block < Slots, GotoBlock(s, pc, sh[s].block + 1)
      PROVE  sh' \in [Sessions -> Session]
  <2>1. sh[s].block + 1 \in 0..Slots
    BY <1>7, BlockTypes
  <2>2. QED
    BY <1>7, <1>t, <2>1 DEF GotoBlock, Session
<1>8. CASE Erase(s)
  <2> DEFINE b == sh[s].block
  <2>1. b < Slots /\ b \in Blocks
    BY <1>8, BlockTypes DEF Erase, EraseBlocks
  <2>2. section' \in [Blocks -> BlockContent]
    BY <1>8, <1>t, <2>1, BlockTypes DEF Erase
  <2>3. sh' \in [Sessions -> Session]
    BY <1>8, <1>6, <1>7, <2>1 DEF Erase, PCs
  <2>4. count' \in Counts
    BY <1>8, <1>t, BumpType DEF Erase
  <2>5. QED
    BY <1>8, <1>t, <2>2, <2>3, <2>4, ConfigTypes DEF Erase, TypeOK, tmpVars, Counts
<1>9. CASE EraseDone(s)
  <2>1. sh' \in [Sessions -> Session]
    BY <1>9, <1>t, <1>6 DEF EraseDone, Session
  <2>2. QED
    BY <1>9, <1>t, <2>1 DEF EraseDone, TypeOK, tmpVars, Counts
<1>10. CASE DdOpen(s)
  <2>1. gz.files \in Config
    BY <1>t DEF TmpFile
  <2>2. sh' \in [Sessions -> Session]
    BY <1>10, <1>t, <2>1 DEF DdOpen, Session, PCs
  <2>3. QED
    BY <1>10, <1>t, <2>2 DEF DdOpen, TypeOK, tmpVars, Counts
<1>11. ASSUME NEW quiet \in BOOLEAN, DdEnds(s, quiet)
       PROVE  sh' \in [Sessions -> Session]
  <2>1. 0 \in 0..Slots
    BY StoreAssumption, SMT
  <2>2. [sh[s] EXCEPT !.pc = "cleanup", !.in = Empty, !.block = 0, !.quiet = quiet] \in Session
    BY <1>t, <2>1, ConfigTypes DEF Session, PCs
  <2>3. QED
    BY <1>11, <1>t, <2>2, SessionTypes DEF DdEnds
<1>12. CASE Dd(s)
  <2> DEFINE b == sh[s].block
  <2>1. b < Slots
    <3>1. b \in 0..Slots /\ b # Slots
      BY <1>12, <1>t DEF Dd, Last, Session
    <3>2. QED
      BY <3>1, StoreAssumption, SMT
  <2>2. b \in Blocks
    BY <2>1, BlockTypes
  <2>3. \A x : Programmed(x, Part(sh[s].in, b)) \in BlockContent
    BY <1>t, <2>2, BlockTypes DEF Session
  <2>4. section' \in [Blocks -> BlockContent]
    BY <1>12, <1>t, <2>2, <2>3, BlockTypes DEF Dd
  <2>5. sh' \in [Sessions -> Session]
    BY <1>12, <1>7, <1>11, <2>1 DEF Dd, PCs
  <2>6. count' \in Counts
    BY <1>12, <1>t, BumpType DEF Dd
  <2>7. QED
    BY <1>12, <1>t, <2>4, <2>5, <2>6, ConfigTypes DEF Dd, TypeOK, tmpVars, Counts
<1>13. CASE DdDone(s)
  <2>1. sh' \in [Sessions -> Session]
    BY <1>13, <1>t, <1>11 DEF DdDone, Session
  <2>2. QED
    BY <1>13, <1>t, <2>1 DEF DdDone, TypeOK, tmpVars, Counts
<1>14. CASE Cleanup(s)
  <2>1. [sh[s] EXCEPT !.pc = "reboot"] \in Session
    BY <1>t DEF Session, PCs
  <2>2. sh' \in [Sessions -> Session]
    BY <1>14, <1>t, <2>1, IdleType, SessionTypes DEF Cleanup
  <2>3. kept' \in TmpFile
    BY <1>14, <1>t, ConfigTypes DEF Cleanup, Session
  <2>4. QED
    BY <1>14, <1>t, <2>2, <2>3, ConfigTypes DEF Cleanup, TypeOK, Counts
<1>15. CASE Reboot(s)
  BY <1>15, <1>t, DownType DEF Reboot
<1>16. CASE Stop(s)
  <2>1. [sh[s] EXCEPT !.pc = "defaults"] \in Session
    BY <1>t DEF Session, PCs
  <2>2. sh' \in [Sessions -> Session]
    BY <1>16, <1>t, <2>1, IdleType, SessionTypes DEF Stop
  <2>3. QED
    BY <1>16, <1>t, <2>2, ConfigTypes DEF Stop, TypeOK, tmpVars, Counts
<1>17. CASE LoadDefaults(s)
  <2>1. [sh[s] EXCEPT !.pc = "dd_in"] \in Session
    BY <1>t DEF Session, PCs
  <2>2. sh' \in [Sessions -> Session]
    BY <1>17, <1>t, <2>1, SessionTypes DEF LoadDefaults
  <2>3. QED
    BY <1>17, <1>t, <2>2, ConfigTypes, StoreAssumption DEF LoadDefaults, TypeOK, tmpVars, Counts
<1>18. CASE DdIn(s)
  <2>1. \A r \in Sessions : /\ [sh[r] EXCEPT !.pc = "unpack"] \in Session
                            /\ [sh[r] EXCEPT !.in = Loaded] \in Session
    BY <1>t, ConfigTypes DEF Session, PCs
  <2>2. sh' \in [Sessions -> Session]
    BY <1>18, <1>t, <2>1 DEF DdIn
  <2>3. QED
    BY <1>18, <1>t, <2>2, ConfigTypes DEF DdIn, TypeOK, Counts
<1>19. CASE Unpack(s)
  <2>1. [sh[s] EXCEPT !.pc = "drop"] \in Session
    BY <1>t DEF Session, PCs
  <2>2. sh' \in [Sessions -> Session]
    BY <1>19, <1>t, <2>1, SessionTypes DEF Unpack
  <2>3. rw' \in Config
    BY <1>19, <1>t, ConfigTypes DEF Unpack, Unpacked, TmpFile
  <2>4. QED
    BY <1>19, <1>t, <2>2, <2>3 DEF Unpack, TypeOK, tmpVars, Counts
<1>20. CASE Drop(s)
  <2>1. sh' \in [Sessions -> Session]
    BY <1>20, <1>t, IdleType, SessionTypes DEF Drop
  <2>2. QED
    BY <1>20, <1>t, <2>1, ConfigTypes DEF Drop, TypeOK, Counts
<1>21. QED
  BY <1>1, <1>2, <1>3, <1>4, <1>5, <1>8, <1>9, <1>10, <1>12, <1>13, <1>14, <1>15, <1>16,
     <1>17, <1>18, <1>19, <1>20 DEF Step

LEMMA NextType == TypeOK /\ [Next]_vars => TypeOK'
<1> SUFFICES ASSUME TypeOK, [Next]_vars PROVE TypeOK'
  OBVIOUS
<1>1. ASSUME NEW f \in Files, NEW v \in Values \union {None}, Edit(f, v)
      PROVE  TypeOK'
  BY <1>1, EditType
<1>2. ASSUME NEW s \in Sessions, Step(s)
      PROVE  TypeOK'
  BY <1>2, StepType
<1>3. ASSUME NEW s \in Sessions, NEW what \in Ops, Start(s, what)
      PROVE  TypeOK'
  BY <1>3, StartType
<1>4. CASE PowerLoss
  BY <1>4, DownType, BumpType DEF PowerLoss, TypeOK, Counts
<1>5. CASE Boot
  BY <1>5, ConfigTypes, StoreAssumption DEF Boot, TypeOK, tmpVars, Configuration
<1>6. CASE UNCHANGED vars
  BY <1>6 DEF vars, tmpVars, TypeOK
<1>7. QED
  BY <1>1, <1>2, <1>3, <1>4, <1>5, <1>6 DEF Next

(* The variables keep their types. *)
THEOREM StoreTypes == Spec => []TypeOK
  BY InitType, NextType, PTL DEF Spec

---------------------------------------------------------------------------
(* One session at a time. *)

(* What the section holds is one archive at most. *)
LEMMA OneArchive ==
    ASSUME NEW c \in Config, NEW d \in Config, Loads(c), Loads(d)
    PROVE  c = d
<1>1. \A n \in Nat \ {0} : 0 \in 0..n - 1
  BY SMT
<1>2. section[0] = Part(c, 0) /\ section[0] = Part(d, 0)
  BY <1>1, StoreAssumption DEF Loads
<1>3. QED
  BY <1>2 DEF Part

LEMMA LoadedIs ==
    ASSUME NEW c \in Config, Loads(c)
    PROVE  Loaded = c
  BY OneArchive DEF Loaded

(* What a session becomes when its command works a block, or ends. *)
LEMMA SessionBecomes ==
    ASSUME sh \in [Sessions -> Session], NEW s \in Sessions
    PROVE  /\ \A next : sh' = [sh EXCEPT ![s] = next] =>
                  sh'[s] = next /\ \A r \in Sessions \ {s} : sh'[r] = sh[r]
           /\ \A quiet, b :
                 LET next == [sh[s] EXCEPT !.pc = "dd_open", !.block = b, !.quiet = quiet]
                 IN  /\ next.pc = "dd_open" /\ next.block = b /\ next.quiet = quiet
                     /\ next.op = sh[s].op /\ next.goal = sh[s].goal
                     /\ next.alone = sh[s].alone
           /\ \A quiet, b, in :
                 LET next == [sh[s] EXCEPT !.pc = "cleanup", !.in = in, !.block = b,
                                           !.quiet = quiet]
                 IN  /\ next.pc = "cleanup" /\ next.quiet = quiet
                     /\ next.goal = sh[s].goal /\ next.alone = sh[s].alone
<1> sh[s] \in Session
  OBVIOUS
<1> QED
  BY DEF Session

(* A step of one session leaves the others where they are, unless the      *)
(* system goes down. *)
LEMMA StepOfOne ==
    ASSUME TypeOK, NEW s \in Sessions, Step(s)
    PROVE  /\ up /\ Active(s)
           /\ \/ Down
              \/ /\ up'
                 /\ sh'[s].alone => sh[s].alone
                 /\ \A r \in Sessions \ {s} : sh'[r].pc = sh[r].pc /\ sh'[r].alone = sh[r].alone
<1>1. sh \in [Sessions -> Session]
  BY DEF TypeOK
<1>2. up /\ Active(s)
  BY DEF Step, RemoveOld, OpenTar, Pack, Packed, Gzip, Erase, EraseDone, DdOpen, Dd, DdDone,
         Cleanup, Reboot, Stop, LoadDefaults, DdIn, Unpack, Drop, At, Active
<1>3. CASE RemoveOld(s) \/ Packed(s) \/ Gzip(s)
  BY <1>1, <1>2, <1>3 DEF RemoveOld, Packed, Gzip, Goto, Session
<1>9. CASE OpenTar(s)
  BY <1>1, <1>2, <1>9 DEF OpenTar, Session
<1>10. ASSUME NEW f \in Files, Pack(s, f)
       PROVE  up' /\ sh'[s].alone = sh[s].alone
              /\ \A r \in Sessions \ {s} : sh'[r].pc = sh[r].pc /\ sh'[r].alone = sh[r].alone
  BY <1>1, <1>2, <1>10 DEF Pack, Session
<1>4. CASE Erase(s) \/ EraseDone(s)
  <2>1. ASSUME GotoBlock(s, "erase", sh[s].block + 1)
        PROVE  /\ sh'[s].alone = sh[s].alone
               /\ \A r \in Sessions \ {s} : sh'[r] = sh[r]
    BY <1>1, <2>1 DEF GotoBlock, Session
  <2>2. ASSUME NEW quiet, Erased(s, quiet)
        PROVE  /\ sh'[s].alone => sh[s].alone
               /\ \A r \in Sessions \ {s} : sh'[r] = sh[r]
    BY <1>1, <2>2, SessionBecomes DEF Erased, Idle
  <2>3. QED
    BY <1>2, <1>4, <2>1, <2>2 DEF Erase, EraseDone
<1>11. CASE DdOpen(s) \/ Cleanup(s)
  <2>1. CASE DdOpen(s)
    BY <1>1, <1>2, <2>1 DEF DdOpen, Session
  <2>2. CASE Cleanup(s)
    <3>1. [sh[s] EXCEPT !.pc = "reboot"].alone = sh[s].alone
      BY <1>1 DEF Session
    <3>2. QED
      BY <1>1, <1>2, <2>2, <3>1, SessionBecomes DEF Cleanup, Idle
  <2>3. QED
    BY <1>11, <2>1, <2>2
<1>12. CASE Dd(s) \/ DdDone(s)
  <2>1. ASSUME GotoBlock(s, "dd", sh[s].block + 1)
        PROVE  /\ sh'[s].alone = sh[s].alone
               /\ \A r \in Sessions \ {s} : sh'[r] = sh[r]
    BY <1>1, <2>1 DEF GotoBlock, Session
  <2>2. ASSUME NEW quiet, DdEnds(s, quiet)
        PROVE  /\ sh'[s].alone => sh[s].alone
               /\ \A r \in Sessions \ {s} : sh'[r] = sh[r]
    BY <1>1, <2>2, SessionBecomes DEF DdEnds
  <2>3. up' = up
    BY <1>12 DEF Dd, DdDone
  <2>4. \/ GotoBlock(s, "dd", sh[s].block + 1)
        \/ DdEnds(s, FALSE) \/ DdEnds(s, sh[s].quiet)
    BY <1>12 DEF Dd, DdDone
  <2>5. QED
    BY <1>2, <2>1, <2>2, <2>3, <2>4
<1>5. CASE Stop(s) \/ LoadDefaults(s) \/ Unpack(s)
  <2>1. \A next : OthersNotQuiet(s, next) =>
           /\ sh'[s] = next
           /\ \A r \in Sessions \ {s} : sh'[r].pc = sh[r].pc /\ sh'[r].alone = sh[r].alone
    BY <1>1 DEF OthersNotQuiet, Session
  <2>2. \A pc : [sh[s] EXCEPT !.pc = pc].alone = sh[s].alone
    BY <1>1 DEF Session
  <2>3. CASE Stop(s)
    <3> DEFINE next == IF sh[s].op = "restart" THEN [sh[s] EXCEPT !.pc = "defaults"] ELSE Idle
    <3>3. ~ Idle.alone
      BY DEF Idle
    <3>4. next.alone => sh[s].alone
      BY <2>2, <3>3
    <3>5. up' = up /\ OthersNotQuiet(s, next)
      BY <2>3 DEF Stop
    <3> HIDE DEF next
    <3>1. up' /\ (sh'[s].alone => sh[s].alone)
      BY <1>2, <2>1, <3>4, <3>5
    <3>2. QED
      BY <1>2, <2>1, <2>3, <3>1 DEF Stop
  <2>4. CASE LoadDefaults(s)
    <3> DEFINE next == [sh[s] EXCEPT !.pc = "dd_in"]
    <3>1. next.alone = sh[s].alone
      BY <2>2
    <3>2. up' = up /\ OthersNotQuiet(s, next)
      BY <2>4 DEF LoadDefaults
    <3> HIDE DEF next
    <3>3. QED
      BY <1>2, <2>1, <3>1, <3>2
  <2>5. CASE Unpack(s)
    <3> DEFINE next == [sh[s] EXCEPT !.pc = "drop"]
    <3>1. next.alone = sh[s].alone
      BY <2>2
    <3>2. up' = up /\ OthersNotQuiet(s, next)
      BY <2>5 DEF Unpack
    <3> HIDE DEF next
    <3>3. QED
      BY <1>2, <2>1, <3>1, <3>2
  <2>6. QED
    BY <1>5, <2>3, <2>4, <2>5
<1>13. CASE Drop(s)
  BY <1>1, <1>2, <1>13 DEF Drop, Idle
<1>6. CASE DdIn(s)
  BY <1>1, <1>2, <1>6 DEF DdIn, Session
<1>7. CASE Reboot(s)
  BY <1>2, <1>7 DEF Reboot
<1>8. QED
  BY <1>2, <1>3, <1>4, <1>5, <1>6, <1>7, <1>9, <1>10, <1>11, <1>12, <1>13 DEF Step

LEMMA DownOnly ==
    ASSUME Down
    PROVE  /\ OnlyWhenUp' /\ OnlyAlone'
           /\ \A s \in Sessions : ~ sh'[s].alone
  BY DEF Down, OnlyWhenUp, OnlyAlone, Active, Idle

LEMMA StepOnly ==
    ASSUME StoreInv, NEW s \in Sessions, Step(s)
    PROVE  /\ OnlyWhenUp' /\ OnlyAlone'
           /\ \A r \in Sessions \ {s} : sh'[r].alone => sh'[r].pc = "idle"
  BY StepOfOne, DownOnly DEF StoreInv, OnlyWhenUp, OnlyAlone, Active

LEMMA IdleStage ==
    ASSUME NEW s \in Sessions, sh[s].pc = "idle"
    PROVE  Stage(s)
  BY DEF Stage, Holds

LEMMA InitStore == Init => StoreInv
<1> SUFFICES ASSUME Init PROVE StoreInv
  OBVIOUS
<1>1. \A s \in Sessions : sh[s].pc = "idle"
  BY DEF Init, Idle
<1>2. Durable
  BY DEF Init, NoFile, Durable
<1>3. QED
  BY <1>1, <1>2, InitType, IdleStage DEF StoreInv, OnlyWhenUp, OnlyAlone, Active, Init

---------------------------------------------------------------------------
(* What a command leaves for the next one. *)

LEMMA PackOne ==
    ASSUME NEW c \in Config, NEW f \in Files, NEW v \in Values \union {None}
    PROVE  [Archive(c) EXCEPT !.files[f] = v] = Archive([c EXCEPT ![f] = v])
<1>1. \A file \in TmpFile : [file EXCEPT !.files[f] = v]
                             = [there |-> file.there, files |-> [file.files EXCEPT ![f] = v]]
  BY DEF TmpFile, Config
<1>2. Archive(c) \in TmpFile /\ Archive(c).there = TRUE /\ Archive(c).files = c
  BY DEF Archive, TmpFile
<1>3. QED
  BY <1>1, <1>2 DEF Archive

(* A commit, as far as gzip. *)
LEMMA PackingStage ==
    ASSUME StoreInv, NEW s \in Sessions,
           \/ RemoveOld(s) \/ OpenTar(s) \/ Packed(s) \/ Gzip(s)
           \/ \E f \in Files : Pack(s, f)
    PROVE  Stage(s)' /\ Durable'
<1>1. /\ sh \in [Sessions -> Session] /\ sh[s] \in Session /\ tar \in TmpFile
      /\ rw \in Config
  BY DEF StoreInv, TypeOK
<1>2. UNCHANGED <<rw, section, kept>>
  BY DEF RemoveOld, OpenTar, Packed, Gzip, Pack
<1>3. Durable'
  BY <1>2 DEF StoreInv, Durable, Loads
<1>4. SUFFICES ASSUME sh'[s].alone, sh'[s].quiet
               PROVE  Holds(s, sh[s].pc, sh[s].goal)'
  BY <1>3 DEF Stage
<1>5. /\ sh[s].alone /\ sh[s].quiet
      /\ sh'[s].goal = sh[s].goal /\ sh'[s].block = sh[s].block
      /\ Holds(s, sh[s].pc, sh[s].goal)
  <2>1. /\ sh'[s].alone = sh[s].alone /\ sh'[s].quiet = sh[s].quiet
        /\ sh'[s].goal = sh[s].goal /\ sh'[s].block = sh[s].block
    BY <1>1 DEF RemoveOld, OpenTar, Packed, Gzip, Pack, Goto, Session
  <2>2. QED
    BY <1>4, <2>1 DEF StoreInv, Stage
<1>6. CASE RemoveOld(s)
  <2>1. sh[s].pc = "rm" /\ sh'[s].pc = "open_tar"
    BY <1>1, <1>6 DEF RemoveOld, At, Goto
  <2>2. QED
    BY <1>2, <1>5, <1>6, <2>1 DEF RemoveOld, Holds
<1>7. CASE OpenTar(s)
  <2>1. /\ sh[s].pc = "open_tar" /\ sh'[s].pc = "pack"
        /\ sh'[s].todo = {f \in Files : rw[f] # None}
    BY <1>1, <1>7 DEF OpenTar, At, Session
  <2>2. rw = sh[s].goal /\ gz = NoFile
    BY <1>5, <2>1 DEF Holds
  <2>3. PackedSoFar(rw, {f \in Files : rw[f] # None}) = Empty
    BY DEF PackedSoFar, Empty
  <2>4. QED
    BY <1>2, <1>5, <1>7, <2>1, <2>2, <2>3 DEF OpenTar, Holds
<1>8. ASSUME NEW f \in Files, Pack(s, f)
      PROVE  Holds(s, sh[s].pc, sh[s].goal)'
  <2>1. /\ sh[s].pc = "pack" /\ sh'[s].pc = "pack"
        /\ sh'[s].todo = sh[s].todo \ {f}
    BY <1>1, <1>8 DEF Pack, At, Session
  <2> DEFINE c == sh[s].goal
             todo == sh[s].todo
  <2>2. rw = c /\ gz = NoFile /\ owner = s /\ tar = Archive(PackedSoFar(c, todo))
    BY <1>5, <2>1 DEF Holds
  <2>3. [Archive(PackedSoFar(c, todo)) EXCEPT !.files[f] = c[f]]
          = Archive(PackedSoFar(c, todo \ {f}))
    <3>1. [PackedSoFar(c, todo) EXCEPT ![f] = c[f]] = PackedSoFar(c, todo \ {f})
      BY <1>8 DEF PackedSoFar
    <3>2. PackedSoFar(c, todo) \in Config /\ c[f] \in Values \union {None}
      BY <1>1, <1>8 DEF PackedSoFar, Config, Session
    <3>3. QED
      BY <1>8, <3>1, <3>2, PackOne
  <2>4. tar' = Archive(PackedSoFar(c, todo \ {f}))
    BY <1>8, <2>2, <2>3 DEF Pack, Archive
  <2>5. owner' = owner /\ gz' = gz
    BY <1>8 DEF Pack
  <2>6. QED
    BY <1>2, <1>5, <2>1, <2>2, <2>4, <2>5 DEF Holds
<1>9. CASE Packed(s)
  <2>1. sh[s].pc = "pack" /\ sh'[s].pc = "gzip" /\ sh[s].todo = {}
    BY <1>1, <1>9 DEF Packed, At, Goto
  <2>2. /\ rw = sh[s].goal /\ gz = NoFile
        /\ tar = Archive(PackedSoFar(sh[s].goal, {}))
    BY <1>5, <2>1 DEF Holds
  <2>3. PackedSoFar(sh[s].goal, {}) = sh[s].goal
    BY <1>1 DEF Session, Config, PackedSoFar
  <2>4. tar' = tar /\ gz' = gz
    BY <1>9 DEF Packed, tmpVars
  <2>5. QED
    BY <1>2, <1>5, <2>1, <2>2, <2>3, <2>4 DEF Holds
<1>10. CASE Gzip(s)
  <2>1. sh[s].pc = "gzip" /\ sh'[s].pc = "erase" /\ sh'[s].block = sh[s].block
    BY <1>1, <1>10 DEF Gzip, At, Goto, Session
  <2>2. gz = NoFile /\ tar = Archive(sh[s].goal)
    BY <1>5, <2>1 DEF Holds
  <2>3. gz' = Archive(sh[s].goal)
    BY <1>10, <2>2 DEF Gzip, Archive, NoFile
  <2>4. sh[s].block = 0 /\ ErasedTo(0)'
    <3>1. \A b \in Blocks : ~ b < 0
      BY SMT DEF Blocks
    <3>2. QED
      BY <1>5, <2>1, <3>1 DEF Holds, ErasedTo
  <2>5. QED
    BY <1>2, <1>5, <2>1, <2>3, <2>4 DEF Holds
<1>11. QED
  BY <1>6, <1>7, <1>8, <1>9, <1>10

LEMMA DurableStep ==
    ASSUME Durable, kept' = NoFile \/ UNCHANGED <<section, kept>>
    PROVE  Durable'
  BY DEF Durable, Loads, NoFile

(* Erasing the section: a step that fails takes the session's quiet. *)
LEMMA ErasingStage ==
    ASSUME StoreInv, NEW s \in Sessions, Erase(s) \/ EraseDone(s)
    PROVE  Stage(s)' /\ Durable'
<1> DEFINE me == sh[s]
           b  == sh[s].block
<1>1. /\ sh \in [Sessions -> Session] /\ me \in Session
      /\ section \in [Blocks -> BlockContent] /\ b \in 0..Slots /\ me.pc = "erase"
  BY DEF StoreInv, TypeOK, Session, Erase, EraseDone, At
<1>2. Durable'
  BY DurableStep DEF Erase, EraseDone, StoreInv
<1>3. SUFFICES ASSUME sh'[s].alone, sh'[s].quiet
               PROVE  Holds(s, sh[s].pc, sh[s].goal)'
  BY <1>2 DEF Stage
<1>4. ASSUME me.alone, me.quiet
      PROVE  ErasedTo(b) /\ (me.op # "clear" => gz = Archive(me.goal))
  BY <1>1, <1>4 DEF StoreInv, Stage, Holds
<1>5. ASSUME NEW quiet, Erased(s, quiet)
      PROVE  \/ sh'[s].pc = "idle"
             \/ /\ me.op # "clear" /\ sh'[s].pc = "dd_open" /\ sh'[s].block = 0
                /\ sh'[s].goal = me.goal /\ sh'[s].alone = me.alone /\ sh'[s].quiet = quiet
  <2>1. CASE me.op = "clear"
    BY <1>1, <1>5, <2>1 DEF Erased, Idle
  <2>2. CASE me.op # "clear"
    BY <1>1, <1>5, <2>2, SessionBecomes DEF Erased
  <2>3. QED
    BY <2>1, <2>2
<1>6. CASE EraseDone(s)
  <2>1. Erased(s, me.quiet) /\ b = Slots /\ UNCHANGED <<section, gz>>
    BY <1>6 DEF EraseDone, EraseBlocks, tmpVars
  <2>2. CASE sh'[s].pc = "idle"
    BY <2>2 DEF Holds
  <2>3. CASE sh'[s].pc = "dd_open"
    <3>1. /\ me.op # "clear" /\ sh'[s].block = 0 /\ sh'[s].goal = me.goal
          /\ me.alone /\ me.quiet
      BY <1>3, <1>5, <2>1, <2>3
    <3>2. gz' = Archive(me.goal) /\ ErasedTo(Slots)
      BY <1>4, <2>1, <3>1
    <3>3. \A i \in Blocks : i < Slots /\ ~ i < 0
      BY StoreAssumption, SMT DEF Blocks
    <3>4. WrittenTo(me.goal, 0)'
      BY <2>1, <3>2, <3>3 DEF ErasedTo, WrittenTo
    <3>5. QED
      BY <2>3, <3>1, <3>2, <3>4 DEF Holds
  <2>4. QED
    BY <1>5, <2>1, <2>2, <2>3
<1>7. CASE Erase(s)
  <2>1. CASE Erased(s, FALSE)
    BY <1>3, <1>5, <2>1 DEF Holds
  <2>2. CASE GotoBlock(s, "erase", b + 1) /\ section' = [section EXCEPT ![b] = Blank]
    <3>1. /\ sh'[s].pc = "erase" /\ sh'[s].block = b + 1 /\ sh'[s].goal = me.goal
          /\ sh'[s].op = me.op /\ me.alone /\ me.quiet
      BY <1>1, <1>3, <2>2 DEF GotoBlock, Session
    <3>2. gz' = gz
      BY <1>7 DEF Erase, tmpVars
    <3>3. \A i \in Blocks : i < b + 1 => i < b \/ i = b
      BY <1>1, StoreAssumption, SMT DEF Blocks
    <3>4. ErasedTo(b)'
      BY <1>1, <1>4, <2>2, <3>1, <3>3 DEF ErasedTo
    <3>5. QED
      BY <1>4, <3>1, <3>2, <3>4 DEF Holds
  <2>3. QED
    BY <1>7, <2>1, <2>2 DEF Erase
<1>8. QED
  BY <1>6, <1>7

(* Programming it: dd writes the blocks in order and stops behind the      *)
(* archive or behind the section. *)
LEMMA WritingStage ==
    ASSUME StoreInv, NEW s \in Sessions, DdOpen(s) \/ Dd(s) \/ DdDone(s)
    PROVE  Stage(s)' /\ Durable'
<1> DEFINE me == sh[s]
           b  == sh[s].block
<1>1. /\ sh \in [Sessions -> Session] /\ me \in Session
      /\ section \in [Blocks -> BlockContent] /\ b \in 0..Slots /\ me.goal \in Config
  BY DEF StoreInv, TypeOK, Session
<1>2. Durable'
  BY DurableStep DEF DdOpen, Dd, DdDone, StoreInv
<1>3. SUFFICES ASSUME sh'[s].alone, sh'[s].quiet
               PROVE  Holds(s, sh[s].pc, sh[s].goal)'
  BY <1>2 DEF Stage
<1>4. ASSUME me.alone, me.quiet
      PROVE  Holds(s, me.pc, me.goal)
  BY <1>4 DEF StoreInv, Stage
<1>5. ASSUME NEW quiet, DdEnds(s, quiet)
      PROVE  /\ sh'[s].pc = "cleanup" /\ sh'[s].goal = me.goal
             /\ sh'[s].alone = me.alone /\ sh'[s].quiet = quiet
  BY <1>1, <1>5, SessionBecomes DEF DdEnds
<1>6. CASE DdOpen(s)
  <2>1. /\ me.pc = "dd_open" /\ sh'[s].goal = me.goal /\ sh'[s].block = b
        /\ me.alone /\ me.quiet
        /\ gz.there => sh'[s].pc = "dd"
        /\ sh'[s].in = gz.files /\ UNCHANGED section
    BY <1>1, <1>3, <1>6 DEF DdOpen, At, Session
  <2>2. gz = Archive(me.goal) /\ b = 0 /\ WrittenTo(me.goal, 0)
    BY <1>4, <2>1 DEF Holds
  <2>3. WrittenTo(me.goal, 0)'
    BY <2>1, <2>2 DEF WrittenTo
  <2>4. QED
    BY <2>1, <2>2, <2>3 DEF Holds, Archive
<1>7. CASE DdDone(s)
  <2>1. /\ me.pc = "dd" /\ DdEnds(s, me.quiet) /\ Last(s) /\ UNCHANGED section
    BY <1>7 DEF DdDone, At
  <2>2. /\ sh'[s].pc = "cleanup" /\ sh'[s].goal = me.goal /\ me.alone /\ me.quiet
    BY <1>3, <1>5, <2>1
  <2>3. me.in = me.goal /\ WrittenTo(me.goal, b)
    BY <1>4, <2>1, <2>2 DEF Holds
  <2>4. ASSUME Fits(me.goal)
        PROVE  Loads(me.goal)'
    <3>1. BlocksOf(me.goal) \in Nat /\ Slots \in Nat
      BY <1>1, StoreAssumption
    <3>2. \A n \in Nat : n <= Slots /\ (b >= n \/ b = Slots) =>
             \A i \in 0..n - 1 : i \in Blocks /\ i < b
      BY <1>1, <3>1, SMT DEF Blocks
    <3>3. \A i \in 0..BlocksOf(me.goal) - 1 : i \in Blocks /\ i < b
      BY <2>1, <2>3, <2>4, <3>1, <3>2 DEF Last, Fits
    <3>4. \A i \in 0..BlocksOf(me.goal) - 1 : section'[i] = Part(me.goal, i)
      BY <2>1, <2>3, <3>3 DEF WrittenTo
    <3>5. QED
      BY <2>2, <2>4, <3>4 DEF Loads, Fits
  <2>5. QED
    BY <2>2, <2>4 DEF Holds
<1>8. CASE Dd(s)
  <2>1. CASE DdEnds(s, FALSE)
    BY <1>3, <1>5, <2>1
  <2>2. CASE /\ GotoBlock(s, "dd", b + 1)
             /\ section' = [section EXCEPT ![b] = Programmed(@, Part(me.in, b))]
    <3>1. /\ sh'[s].pc = "dd" /\ sh'[s].block = b + 1 /\ sh'[s].goal = me.goal
          /\ sh'[s].in = me.in /\ me.alone /\ me.quiet
      BY <1>1, <1>3, <2>2 DEF GotoBlock, Session
    <3>2. me.pc = "dd" /\ b # Slots
      BY <1>8 DEF Dd, At, Last
    <3>3. me.in = me.goal /\ WrittenTo(me.goal, b)
      BY <1>4, <3>1, <3>2 DEF Holds
    <3>4. /\ b \in Blocks /\ ~ b < b /\ b < b + 1
          /\ \A i \in Blocks : i # b => (i < b + 1 <=> i < b)
      BY <1>1, <3>2, StoreAssumption, SMT DEF Blocks
    <3>5. section[b] = Blank
      BY <3>3, <3>4 DEF WrittenTo
    <3>6. section' = [section EXCEPT ![b] = Part(me.goal, b)]
      BY <1>1, <2>2, <3>3, <3>4, <3>5 DEF Programmed
    <3>7. WrittenTo(me.goal, b)'
      BY <1>1, <3>1, <3>3, <3>4, <3>6 DEF WrittenTo
    <3>8. QED
      BY <3>1, <3>3, <3>7 DEF Holds
  <2>3. QED
    BY <1>8, <2>1, <2>2 DEF Dd
<1>9. QED
  BY <1>6, <1>7, <1>8

(* The commit ends: what it was to save is in the section, if it fits. *)
LEMMA CleanupStage ==
    ASSUME StoreInv, NEW s \in Sessions, Cleanup(s)
    PROVE  Stage(s)' /\ Durable'
<1>1. /\ sh \in [Sessions -> Session] /\ sh[s] \in Session
      /\ sh[s].pc = "cleanup" /\ UNCHANGED section
  BY DEF StoreInv, TypeOK, Cleanup, At
<1>2. sh'[s].pc \in {"idle", "reboot"}
  <2>1. [sh[s] EXCEPT !.pc = "reboot"].pc = "reboot" /\ Idle.pc = "idle"
    BY <1>1 DEF Session, Idle
  <2>2. QED
    BY <1>1, <2>1, SessionBecomes DEF Cleanup
<1>3. Stage(s)'
  BY <1>2 DEF Stage, Holds
<1> SUFFICES Durable'
  BY <1>3
<1>4. CASE sh[s].quiet /\ sh[s].alone /\ Fits(sh[s].goal)
  <2>1. Loads(sh[s].goal)
    BY <1>1, <1>4 DEF StoreInv, Stage, Holds
  <2>2. kept'.files = sh[s].goal
    BY <1>4 DEF Cleanup, Archive
  <2>3. QED
    BY <1>1, <2>1, <2>2 DEF Durable, Loads
<1>5. CASE ~ (sh[s].quiet /\ sh[s].alone /\ Fits(sh[s].goal))
  BY <1>1, <1>5, DurableStep DEF Cleanup, StoreInv
<1>6. QED
  BY <1>4, <1>5

(* stop, start and restart. *)
LEMMA RunningStage ==
    ASSUME StoreInv, NEW s \in Sessions,
           Stop(s) \/ LoadDefaults(s) \/ DdIn(s) \/ Unpack(s) \/ Drop(s)
    PROVE  Stage(s)' /\ Durable'
<1> DEFINE me == sh[s]
<1>1. sh \in [Sessions -> Session] /\ me \in Session /\ rw \in Config
  BY DEF StoreInv, TypeOK
<1>2. UNCHANGED <<section, kept>>
  BY DEF Stop, LoadDefaults, DdIn, Unpack, Drop
<1>3. Durable' /\ Loaded' = Loaded
  BY <1>2, DurableStep DEF StoreInv, Loaded, Loads
<1>4. SUFFICES ASSUME sh'[s].alone, sh'[s].quiet
               PROVE  Holds(s, sh[s].pc, sh[s].goal)'
  BY <1>3 DEF Stage
<1>5. ASSUME me.alone, me.quiet
      PROVE  Holds(s, me.pc, me.goal)
  BY <1>5 DEF StoreInv, Stage
<1>6. \A pc : LET next == [me EXCEPT !.pc = pc]
              IN  /\ next.pc = pc /\ next.goal = me.goal
                  /\ next.alone = me.alone /\ next.quiet = me.quiet
  BY <1>1 DEF Session
<1>7. \A next : OthersNotQuiet(s, next) => sh'[s] = next
  BY DEF OthersNotQuiet
<1>8. CASE Stop(s)
  <2>1. me.pc = "stop" /\ rw' = Empty
    BY <1>8 DEF Stop, At
  <2>2. CASE me.op = "restart"
    <3>1. sh'[s] = [me EXCEPT !.pc = "defaults"]
      BY <1>7, <1>8, <2>2 DEF Stop
    <3>2. me.goal = Empty
      BY <1>4, <1>5, <1>6, <2>1, <3>1 DEF Holds
    <3>3. sh'[s].pc = "defaults" /\ sh'[s].goal = Empty
      BY <1>6, <3>1, <3>2
    <3>4. QED
      BY <2>1, <3>3 DEF Holds
  <2>3. CASE me.op # "restart"
    <3>1. sh'[s].pc = "idle"
      BY <1>7, <1>8, <2>3 DEF Stop, Idle
    <3>2. QED
      BY <3>1 DEF Holds
  <2>4. QED
    BY <2>2, <2>3
<1>9. CASE LoadDefaults(s)
  <2>1. me.pc = "defaults" /\ sh'[s] = [me EXCEPT !.pc = "dd_in"] /\ rw' = Over(Defaults, rw)
    BY <1>7, <1>9 DEF LoadDefaults, At
  <2>2. rw = me.goal
    BY <1>4, <1>5, <1>6, <2>1 DEF Holds
  <2>3. sh'[s].pc = "dd_in" /\ sh'[s].goal = me.goal
    BY <1>6, <2>1
  <2>4. QED
    BY <2>1, <2>2, <2>3 DEF Holds
<1>10. CASE DdIn(s)
  <2>1. /\ me.pc = "dd_in" /\ sh'[s] = [me EXCEPT !.pc = "unpack"]
        /\ gz' = Archive(Loaded) /\ rw' = rw
    BY <1>1, <1>10 DEF DdIn, At
  <2>2. rw = Over(Defaults, me.goal)
    BY <1>4, <1>5, <1>6, <2>1 DEF Holds
  <2>3. sh'[s].pc = "unpack" /\ sh'[s].goal = me.goal
    BY <1>6, <2>1
  <2>4. QED
    BY <1>3, <2>1, <2>2, <2>3 DEF Holds
<1>11. CASE Unpack(s)
  <2>1. /\ me.pc = "unpack" /\ sh'[s] = [me EXCEPT !.pc = "drop"]
        /\ rw' = IF gz.there THEN Unpacked ELSE rw
    BY <1>7, <1>11 DEF Unpack, At
  <2>2. rw = Over(Defaults, me.goal) /\ gz = Archive(Loaded)
    BY <1>4, <1>5, <1>6, <2>1 DEF Holds
  <2>3. rw' = Over(Loaded, Over(Defaults, me.goal))
    BY <2>1, <2>2 DEF Unpacked, Archive
  <2>4. sh'[s].pc = "drop" /\ sh'[s].goal = me.goal
    BY <1>6, <2>1
  <2>5. QED
    BY <1>3, <2>3, <2>4 DEF Holds
<1>12. CASE Drop(s)
  <2>1. sh'[s].pc = "idle"
    BY <1>1, <1>12 DEF Drop, Idle
  <2>2. QED
    BY <2>1 DEF Holds
<1>13. QED
  BY <1>8, <1>9, <1>10, <1>11, <1>12

(* The processes die with the system, which may spoil the block in work. *)
LEMMA DownStage ==
    ASSUME TypeOK, Durable, Down
    PROVE  (\A s \in Sessions : Stage(s))' /\ Durable'
<1>1. (\A s \in Sessions : Stage(s))'
  BY DEF Down, Idle, Stage
<1> SUFFICES Durable'
  BY <1>1
<1>2. PICK spoilt \in SUBSET InWork :
         /\ section' = [i \in Blocks |-> IF i \in spoilt THEN Garbage ELSE section[i]]
         /\ kept' = IF spoilt = {} THEN kept ELSE NoFile
  BY DEF Down
<1>3. CASE spoilt = {}
  <2>1. /\ kept' = kept
        /\ \A i \in Blocks : section'[i] = section[i]
    BY <1>2, <1>3
  <2>2. ASSUME NEW c \in Config, Loads(c)
        PROVE  Loads(c)'
    <3>1. \A n \in Nat : n <= Slots => 0..n - 1 \subseteq Blocks
      BY StoreAssumption, SMT DEF Blocks
    <3>2. QED
      BY <2>1, <2>2, <3>1, StoreAssumption DEF Loads
  <2>3. kept.there => kept.files \in Config
    BY DEF TypeOK, TmpFile
  <2>4. QED
    BY <2>1, <2>2, <2>3 DEF Durable
<1>4. CASE spoilt # {}
  BY <1>2, <1>4, DurableStep
<1>5. QED
  BY <1>3, <1>4

(* A new session: the ones that run lose their claim to be alone. *)
LEMMA StartStage ==
    ASSUME StoreInv, NEW s \in Sessions, NEW what \in Ops, Start(s, what)
    PROVE  OnlyAlone' /\ (\A r \in Sessions : Stage(r))'
<1> DEFINE alone == \A r \in Sessions : ~ Active(r)
           goal  == IF what \in {"commit", "start"} THEN rw ELSE Empty
<1>1. sh \in [Sessions -> Session]
  BY DEF StoreInv, TypeOK
<1>2. /\ sh'[s] = [Idle EXCEPT !.pc = First[what], !.op = what, !.quiet = TRUE,
                               !.alone = alone, !.goal = goal]
      /\ \A r \in Sessions \ {s} : sh'[r] = [sh[r] EXCEPT !.alone = FALSE]
  BY DEF Start
<1>3. \A r \in Sessions \ {s} : ~ sh'[r].alone /\ sh'[r].pc = sh[r].pc
  <2>1. \A r \in Sessions : LET next == [sh[r] EXCEPT !.alone = FALSE]
                            IN  ~ next.alone /\ next.pc = sh[r].pc
    BY <1>1 DEF Session
  <2>2. TAKE r \in Sessions \ {s}
  <2>3. sh'[r] = [sh[r] EXCEPT !.alone = FALSE] /\ r \in Sessions
    BY <1>2
  <2>4. QED
    BY <2>1, <2>3
<1>4. /\ sh'[s].pc = First[what] /\ sh'[s].op = what /\ sh'[s].alone = alone
      /\ sh'[s].goal = goal /\ sh'[s].block = 0
  <2> HIDE DEF alone, goal
  <2>1. QED
    BY <1>2 DEF Idle
<1>5. OnlyAlone'
  BY <1>3, <1>4 DEF OnlyAlone, Active
<1>6. ASSUME NEW r \in Sessions \ {s}
      PROVE  Stage(r)'
  BY <1>3 DEF Stage
<1>7. Stage(s)'
  <2>1. ~ \E b \in Blocks : b < 0
    BY SMT DEF Blocks
  <2>2. rw' = rw
    BY DEF Start
  <2>3. CASE what \in {"commit", "start"}
    BY <1>4, <2>2, <2>3 DEF First, Stage, Holds
  <2>4. CASE what = "clear"
    BY <1>4, <2>1, <2>4 DEF First, Stage, Holds, ErasedTo
  <2>5. CASE what \in {"stop", "restart"}
    BY <1>4, <2>5 DEF First, Stage, Holds
  <2>6. QED
    BY <2>3, <2>4, <2>5 DEF Ops
<1>8. QED
  BY <1>5, <1>6, <1>7

LEMMA StepStage ==
    ASSUME StoreInv, NEW s \in Sessions, Step(s)
    PROVE  Stage(s)' /\ Durable'
<1>1. CASE Reboot(s)
  BY <1>1, DownStage DEF Reboot, StoreInv
<1>2. CASE \/ RemoveOld(s) \/ OpenTar(s) \/ Packed(s) \/ Gzip(s)
           \/ \E f \in Files : Pack(s, f)
  BY <1>2, PackingStage
<1>3. QED
  BY <1>1, <1>2, ErasingStage, WritingStage, CleanupStage, RunningStage DEF Step

LEMMA NextStore == StoreInv /\ [Next]_vars => StoreInv'
<1> SUFFICES ASSUME StoreInv, [Next]_vars PROVE StoreInv'
  OBVIOUS
<1>1. TypeOK /\ TypeOK'
  BY NextType DEF StoreInv
<1>2. ASSUME NEW s \in Sessions, Step(s)
      PROVE  StoreInv'
  <2>1. ASSUME NEW r \in Sessions \ {s}
        PROVE  Stage(r)'
    BY <1>2, StepOnly DEF Stage, Holds
  <2>2. QED
    BY <1>1, <1>2, <2>1, StepOnly, StepStage DEF StoreInv
<1>3. ASSUME NEW s \in Sessions, NEW what \in Ops, Start(s, what)
      PROVE  StoreInv'
  <2>1. UNCHANGED <<section, kept>> /\ up' /\ up
    BY <1>3 DEF Start, At
  <2>2. QED
    BY <1>1, <1>3, <2>1, StartStage, DurableStep DEF StoreInv, OnlyWhenUp
<1>4. ASSUME NEW f \in Files, NEW v \in Values \union {None}, Edit(f, v)
      PROVE  StoreInv'
  <2>1. UNCHANGED <<section, kept>> /\ up' = up
    BY <1>4 DEF Edit
  <2>2. \A r \in Sessions : /\ sh'[r].pc = sh[r].pc /\ sh'[r].alone = sh[r].alone
                            /\ ~ sh'[r].quiet
    BY <1>1, <1>4 DEF Edit, TypeOK, Session
  <2>3. OnlyWhenUp' /\ OnlyAlone' /\ (\A r \in Sessions : Stage(r))'
    BY <2>1, <2>2 DEF StoreInv, OnlyWhenUp, OnlyAlone, Active, Stage
  <2>4. QED
    BY <1>1, <2>1, <2>3, DurableStep DEF StoreInv
<1>5. CASE PowerLoss
  BY <1>1, <1>5, DownOnly, DownStage DEF PowerLoss, StoreInv
<1>6. CASE Boot
  <2>1. UNCHANGED <<section, kept, sh>> /\ ~ up /\ up'
    BY <1>6 DEF Boot
  <2>2. \A s \in Sessions : sh'[s].pc = "idle"
    BY <2>1 DEF StoreInv, OnlyWhenUp, Active
  <2>3. OnlyWhenUp' /\ OnlyAlone' /\ (\A r \in Sessions : Stage(r))'
    BY <2>1, <2>2 DEF OnlyWhenUp, OnlyAlone, Active, Stage, Holds
  <2>4. QED
    BY <1>1, <2>1, <2>3, DurableStep DEF StoreInv
<1>7. CASE UNCHANGED vars
  <2>1. UNCHANGED <<rw, tar, owner, gz, section, up, sh, kept>>
    BY <1>7 DEF vars, tmpVars
  <2>2. OnlyWhenUp' /\ OnlyAlone' /\ Loaded' = Loaded
    BY <2>1 DEF StoreInv, OnlyWhenUp, OnlyAlone, Active, Loaded, Loads
  <2>3. ASSUME NEW s \in Sessions
        PROVE  Stage(s)'
    BY <2>1, <2>2 DEF StoreInv, Stage, Holds, ErasedTo, WrittenTo, Loads
  <2>4. QED
    BY <1>1, <2>1, <2>2, <2>3, DurableStep DEF StoreInv
<1>8. QED
  BY <1>2, <1>3, <1>4, <1>5, <1>6, <1>7 DEF Next

LEMMA StoreInvariant == Spec => []StoreInv
  BY InitStore, NextStore, PTL DEF Spec

---------------------------------------------------------------------------
(* What 20.configfs promises. *)

(* The section holds the last save that ran alone, undisturbed and without *)
(* a failure, until the next erase begins: no edit, no earlier race, no    *)
(* file a session left in /tmp and no power failure takes it away. *)
THEOREM SavedIsDurable == Spec => []Durable
<1>1. StoreInv => Durable
  BY DEF StoreInv
<1>2. QED
  BY <1>1, StoreInvariant, PTL

(* What a boot or a start unpacks is that save. *)
LEMMA LoadedKept ==
    ASSUME StoreInv, kept.there
    PROVE  Loaded = kept.files
  BY LoadedIs DEF StoreInv, Durable, TypeOK, TmpFile

(* 10.sysinit and 20.configfs start bring that save back file for file. *)
THEOREM BootBringsBack == Spec => BootRestores
<1> DEFINE Back == ~ up /\ up' /\ kept.there =>
                      \A f \in Files : rw'[f] = IF kept.files[f] # None THEN kept.files[f]
                                                ELSE Defaults[f]
<1>1. ASSUME StoreInv, [Next]_vars, ~ up, up', kept.there
      PROVE  \A f \in Files : rw'[f] = IF kept.files[f] # None THEN kept.files[f]
                                       ELSE Defaults[f]
  <2>1. ~ PowerLoss /\ ~ UNCHANGED vars
    BY <1>1 DEF PowerLoss, Down, vars
  <2>2. \A s \in Sessions : ~ Step(s)
    BY <1>1, StepOfOne DEF StoreInv
  <2>3. \A s \in Sessions, what \in Ops : ~ Start(s, what)
    BY <1>1 DEF Start, At
  <2>4. \A f \in Files, v \in Values \union {None} : ~ Edit(f, v)
    BY <1>1 DEF Edit
  <2>5. Boot
    BY <1>1, <2>1, <2>2, <2>3, <2>4 DEF Next
  <2>6. QED
    BY <1>1, <2>5, LoadedKept DEF Boot, Configuration, Over
<1>2. StoreInv /\ [Next]_vars => [Back]_vars
  BY <1>1
<1>3. QED
  BY <1>2, StoreInvariant, PTL DEF Spec, BootRestores

(* start and restart, alone with the running system, bring it back over    *)
(* the defaults; only start keeps a file that is in neither. *)
THEOREM StartBringsBack == Spec => StartRestores
<1> DEFINE Back == \A s \in Sessions :
          up' /\ At(s, "drop") /\ sh'[s].pc = "idle" /\ sh[s].alone /\ sh[s].quiet /\ kept.there
            => rw' = Over(kept.files, Over(Defaults, sh[s].goal))
<1>1. ASSUME StoreInv, [Next]_vars, NEW s \in Sessions,
             up', At(s, "drop"), sh'[s].pc = "idle", sh[s].alone, sh[s].quiet, kept.there
      PROVE  rw' = Over(kept.files, Over(Defaults, sh[s].goal))
  <2>1. rw = Over(kept.files, Over(Defaults, sh[s].goal))
    BY <1>1, LoadedKept DEF StoreInv, Stage, Holds, At
  <2>2. sh \in [Sessions -> Session] /\ up /\ sh[s].pc = "drop" /\ ~ Down
    BY <1>1 DEF StoreInv, TypeOK, At, Down
  <2>3. ~ PowerLoss /\ ~ UNCHANGED vars /\ ~ Boot
    BY <1>1, <2>2 DEF PowerLoss, vars, Boot
  <2>4. ASSUME NEW f \in Files, NEW v \in Values \union {None}, Edit(f, v)
        PROVE  FALSE
    BY <1>1, <2>2, <2>4 DEF Edit, Session
  <2>5. ASSUME NEW r \in Sessions, NEW what \in Ops, Start(r, what)
        PROVE  FALSE
    <3>1. r # s
      BY <2>2, <2>5 DEF Start, At
    <3>2. sh'[s] = [sh[s] EXCEPT !.alone = FALSE]
      BY <2>5, <3>1 DEF Start
    <3>3. QED
      BY <1>1, <2>2, <3>2 DEF Session
  <2>6. ASSUME NEW r \in Sessions, Step(r)
        PROVE  rw' = rw
    <3>1. r = s
      BY <1>1, <2>2, <2>6, StepOfOne DEF StoreInv, OnlyAlone, Active
    <3>2. Drop(s)
      BY <2>2, <2>6, <3>1 DEF Step, RemoveOld, OpenTar, Pack, Packed, Gzip, Erase, EraseDone,
         DdOpen, Dd, DdDone, Cleanup, Reboot, Stop, LoadDefaults, DdIn, Unpack, At
    <3>3. QED
      BY <3>2 DEF Drop
  <2>7. rw' = rw
    BY <1>1, <2>3, <2>4, <2>5, <2>6 DEF Next
  <2>8. QED
    BY <2>1, <2>7
<1>2. StoreInv /\ [Next]_vars => [Back]_vars
  BY <1>1
<1>3. QED
  BY <1>2, StoreInvariant, PTL DEF Spec, StartRestores
=============================================================================
