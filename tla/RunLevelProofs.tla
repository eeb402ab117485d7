--------------------------- MODULE RunLevelProofs ---------------------------
(***************************************************************************)
(* What run level 1 leaves behind when no other /etc/rc is at work: no     *)
(* service whose setting was there all along, and no DHCP client, so that  *)
(* no address changes under reflash's transfer.  For every set of          *)
(* configurations, offers and levels to boot, and every number of edits,   *)
(* runs and leases.                                                        *)
(***************************************************************************)
EXTENDS RunLevel, SequenceTheorems, TLAPS

Scripts == {"primary", "secondary", "tftpcfg", "iw_watch",
            "telnetd", "httpd", "dhcpd", "tcpsrv", "udhcpc"}

(* The scripts level 1 does not run. *)
UpScripts == {"primary", "secondary", "tftpcfg", "iw_watch"}

ProcState == [lvl : 0..4, todo : Seq(Scripts), pc : {"next", "ask", "hook"},
              static : BOOLEAN, alone : BOOLEAN]

(* What the variables hold, as far as the rest needs it; only primary and  *)
(* secondary wait for udhcpc.                                              *)
RunTypes ==
    /\ rc \in [Procs -> ProcState]
    /\ hook \in [Ifaces -> Hooks]
    /\ addr \in [Ifaces -> {"none", "static", "lease"}]
    /\ running \subseteq Services
    /\ \A p \in Procs : rc[p].pc # "next" => Script(p) \in {"primary", "secondary"}

(* The scripts of level 1 are run up to the k-th: what they look after is  *)
(* stopped, or went out of their sight.                                    *)
StoppedTo(k) ==
    /\ rc["login"].todo = SubSeq(SingleScripts, k, 5)
    /\ \A i \in 1..k - 1 : SingleScripts[i] \in running => SingleScripts[i] \in unseen
    /\ k = 6 => \A i \in Ifaces : clients[i] = 0

GoesSingle == rc["login"].lvl = 1 /\ rc["login"].alone

(* A run of /etc/rc that began alone remains alone: the boot is over, and  *)
(* one login has one run at a time.                                        *)
AloneInv == rc["login"].alone => rc["boot"].todo = <<>>
SingleInv == GoesSingle => \E k \in 1..6 : StoppedTo(k)

RunInv == RunTypes /\ AloneInv /\ SingleInv

---------------------------------------------------------------------------
(* The scripts of a level, and the way through them. *)

LEMMA SingleList ==
    /\ SingleScripts \in Seq(Scripts) /\ Len(SingleScripts) = 5
    /\ SingleScripts[1] = "telnetd" /\ SingleScripts[2] = "httpd"
    /\ SingleScripts[3] = "dhcpd" /\ SingleScripts[4] = "tcpsrv"
    /\ SingleScripts[5] = "udhcpc"
BY DEF SingleScripts, Scripts

LEMMA SingleWay ==
    /\ SubSeq(SingleScripts, 1, 5) = SingleScripts
    /\ SubSeq(SingleScripts, 6, 5) = <<>>
    /\ \A k \in 1..5 : /\ SubSeq(SingleScripts, k, 5) # <<>>
                       /\ Head(SubSeq(SingleScripts, k, 5)) = SingleScripts[k]
                       /\ Tail(SubSeq(SingleScripts, k, 5)) = SubSeq(SingleScripts, k + 1, 5)
<1>1. SingleScripts \in Seq(Scripts) /\ Len(SingleScripts) = 5
  BY SingleList
<1>2. SubSeq(SingleScripts, 1, 5) = SingleScripts
  BY <1>1, SubSeqFull
<1>3. SubSeq(SingleScripts, 6, 5) = <<>>
  BY <1>1, SubSeqEmpty
<1>4. ASSUME NEW k \in 1..5
      PROVE  /\ SubSeq(SingleScripts, k, 5) # <<>>
             /\ Head(SubSeq(SingleScripts, k, 5)) = SingleScripts[k]
             /\ Tail(SubSeq(SingleScripts, k, 5)) = SubSeq(SingleScripts, k + 1, 5)
  <2>1. k \in 1..Len(SingleScripts) /\ 5 \in k..Len(SingleScripts)
    BY <1>1
  <2>2. /\ Head(SubSeq(SingleScripts, k, 5)) = SingleScripts[k]
        /\ Tail(SubSeq(SingleScripts, k, 5)) = SubSeq(SingleScripts, k + 1, 5)
    BY <1>1, <2>1, HeadTailOfSubSeq
  <2>3. Len(SubSeq(SingleScripts, k, 5)) = 5 - k + 1
    <3>1. \A i \in k..5 : SingleScripts[i] \in Scripts
      BY <1>1, <2>1, ElementOfSeq
    <3>2. QED
      BY <2>1, <3>1, SubSeqProperties
  <2>4. SubSeq(SingleScripts, k, 5) # <<>>
    <3>1. <<>> \in Seq(Scripts) /\ Len(<<>>) = 0
      BY EmptySeq
    <3>2. 5 - k + 1 # 0
      OBVIOUS
    <3>3. QED
      BY <2>3, <3>1, <3>2
  <2>5. QED
    BY <2>2, <2>4
<1>5. QED
  BY <1>2, <1>3, <1>4

LEMMA LinksType == \A lvl \in 1..4 : Links(lvl) \in Seq(Scripts)
<1>1. /\ RouterScripts \in Seq(Scripts) /\ BridgeScripts \in Seq(Scripts)
      /\ SingleScripts \in Seq(Scripts)
  BY DEF RouterScripts, BridgeScripts, SingleScripts, Scripts
<1>2. QED
  BY <1>1 DEF Links

(* A process is at a script exactly when it has scripts to finish. *)
LEMMA AtScript ==
    ASSUME RunTypes, NEW p \in Procs
    PROVE  /\ rc[p] \in ProcState
           /\ Script(p) # "none" <=> rc[p].todo # <<>>
           /\ Script(p) # "none" => Script(p) = Head(rc[p].todo) /\ Script(p) \in Scripts
<1>1. rc[p] \in ProcState /\ rc[p].todo \in Seq(Scripts)
  BY DEF RunTypes, ProcState
<1>2. rc[p].todo # <<>> => Head(rc[p].todo) \in Scripts
  BY <1>1, HeadTailProperties
<1>3. QED
  BY <1>1, <1>2 DEF Script, Scripts

(* On to the next script. *)
LEMMA GoOnFacts ==
    ASSUME NEW r \in ProcState, r.todo # <<>>
    PROVE  /\ GoOn(r) \in ProcState /\ GoOn(r).pc = "next" /\ GoOn(r).todo = Tail(r.todo)
           /\ GoOn(r).lvl = r.lvl /\ GoOn(r).alone = r.alone
<1>1. r.todo \in Seq(Scripts)
  BY DEF ProcState
<1>2. Tail(r.todo) \in Seq(Scripts)
  BY <1>1, HeadTailProperties
<1>3. QED
  BY <1>2 DEF GoOn, ProcState

(* In level 1, entered alone: the boot is at no script, and the login at   *)
(* the next one of SingleScripts, or through.                              *)
LEMMA SinglePlace ==
    ASSUME RunInv, GoesSingle
    PROVE  /\ Script("boot") = "none"
           /\ \A k \in 1..6 : StoppedTo(k) =>
                Script("login") = IF k = 6 THEN "none" ELSE SingleScripts[k]
<1>1. "boot" \in Procs /\ "login" \in Procs
  BY DEF Procs
<1>2. Script("boot") = "none"
  BY DEF RunInv, AloneInv, GoesSingle, Script
<1>3. ASSUME NEW k \in 1..6, StoppedTo(k)
      PROVE  Script("login") = IF k = 6 THEN "none" ELSE SingleScripts[k]
  BY <1>3, SingleWay DEF StoppedTo, Script
<1>4. QED
  BY <1>2, <1>3

(* So whoever is at a script of the other levels is not in level 1 alone. *)
LEMMA NotSingle ==
    ASSUME RunInv, NEW p \in Procs, Script(p) \in UpScripts
    PROVE  ~GoesSingle
<1>1. SUFFICES ASSUME GoesSingle PROVE FALSE
  OBVIOUS
<1>2. p = "login"
  BY <1>1, SinglePlace DEF Procs, UpScripts
<1>3. PICK k \in 1..6 : StoppedTo(k)
  BY <1>1 DEF RunInv, SingleInv
<1>4. Script("login") = IF k = 6 THEN "none" ELSE SingleScripts[k]
  BY <1>1, <1>3, SinglePlace
<1>5. k \in {1, 2, 3, 4, 5, 6}
  OBVIOUS
<1>6. QED
  BY <1>2, <1>4, <1>5, SingleList DEF UpScripts

---------------------------------------------------------------------------
(* The steps that disturb little. *)

LEMMA RunInit == Init => RunInv
<1> SUFFICES ASSUME Init PROVE RunInv
  OBVIOUS
<1>1. PICK lvl \in Levels : rc = Booted(lvl)
  BY DEF Init
<1>2. lvl \in 2..4 /\ Links(lvl) \in Seq(Scripts) /\ <<>> \in Seq(Scripts)
  BY RunLevelAssumption, LinksType, EmptySeq
<1>3. Proc(lvl, Links(lvl), FALSE) \in ProcState /\ None \in ProcState
  BY <1>2 DEF Proc, None, ProcState
<1>4. /\ rc \in [Procs -> ProcState]
      /\ \A p \in Procs : rc[p].pc = "next" /\ ~rc[p].alone
  BY <1>1, <1>3 DEF Booted, Proc, None, Procs
<1>5. "login" \in Procs
  BY DEF Procs
<1>6. RunTypes
  BY <1>4 DEF Init, RunTypes, Hooks, Script
<1>7. QED
  BY <1>4, <1>5, <1>6 DEF RunInv, AloneInv, SingleInv, GoesSingle

(* Neither process moves. *)
LEMMA RunQuiet ==
    ASSUME RunInv, RunTypes', UNCHANGED <<rc, running>>,
           UNCHANGED unseen \/ Remember,
           \A i \in Ifaces : clients[i] = 0 => clients'[i] = 0
    PROVE  RunInv'
<1>1. AloneInv'
  BY DEF RunInv, AloneInv
<1>2. SingleInv'
  <2>1. SUFFICES ASSUME GoesSingle' PROVE \E k \in 1..6 : StoppedTo(k)'
    BY DEF SingleInv
  <2>2. PICK k \in 1..6 : StoppedTo(k)
    BY <2>1 DEF RunInv, SingleInv, GoesSingle
  <2>3. \A s : s \in running' /\ (s \in running => s \in unseen) => s \in unseen'
    BY DEF Remember, RunInv
  <2>4. StoppedTo(k)'
    BY <2>2, <2>3 DEF StoppedTo
  <2>5. QED
    BY <2>4
<1>3. QED
  BY <1>1, <1>2 DEF RunInv
(* A process leaves a script that is none of level 1's. *)
LEMMA RunUpScript ==
    ASSUME RunInv, RunTypes', NEW p \in Procs, Script(p) \in UpScripts,
           NEW r, r.lvl = rc[p].lvl, r.alone = rc[p].alone,
           rc' = [rc EXCEPT ![p] = r]
    PROVE  RunInv'
<1>1. ~GoesSingle
  BY NotSingle
<1>2. "boot" \in Procs /\ "login" \in Procs /\ rc \in [Procs -> ProcState]
  BY DEF Procs, RunInv, RunTypes
<1>3. /\ rc'["login"].lvl = rc["login"].lvl /\ rc'["login"].alone = rc["login"].alone
      /\ p # "boot" => rc'["boot"] = rc["boot"]
  BY <1>2
<1>4. SingleInv'
  BY <1>1, <1>3 DEF SingleInv, GoesSingle
<1>5. Script(p) # "none"
  BY DEF UpScripts
<1>6. AloneInv'
  BY <1>3, <1>5 DEF RunInv, AloneInv, Script
<1>7. QED
  BY <1>4, <1>6 DEF RunInv

LEMMA LeaveTypes ==
    ASSUME RunTypes, NEW p \in Procs, Script(p) # "none", Leave(p)
    PROVE  /\ GoOn(rc[p]) \in ProcState /\ rc' = [rc EXCEPT ![p] = GoOn(rc[p])]
           /\ GoOn(rc[p]).lvl = rc[p].lvl /\ GoOn(rc[p]).alone = rc[p].alone
           /\ GoOn(rc[p]).todo = Tail(rc[p].todo)
           /\ rc' \in [Procs -> ProcState]
           /\ \A q \in Procs : rc'[q].pc # "next" => Script(q)' \in {"primary", "secondary"}
<1>1. rc[p] \in ProcState /\ rc[p].todo # <<>>
  BY AtScript
<1>2. rc \in [Procs -> ProcState] /\ rc' = [rc EXCEPT ![p] = GoOn(rc[p])]
  BY DEF RunTypes, Leave
<1>3. /\ GoOn(rc[p]) \in ProcState /\ GoOn(rc[p]).pc = "next"
      /\ GoOn(rc[p]).lvl = rc[p].lvl /\ GoOn(rc[p]).alone = rc[p].alone
      /\ GoOn(rc[p]).todo = Tail(rc[p].todo)
  BY <1>1, GoOnFacts
<1>4. rc' \in [Procs -> ProcState]
  BY <1>2, <1>3
<1>5. ASSUME NEW q \in Procs, rc'[q].pc # "next"
      PROVE  Script(q)' \in {"primary", "secondary"}
  <2>1. q # p /\ rc'[q] = rc[q]
    BY <1>2, <1>3, <1>5
  <2>2. Script(q)' = Script(q)
    BY <2>1 DEF Script
  <2>3. QED
    BY <1>5, <2>1, <2>2 DEF RunTypes
<1>6. QED
  BY <1>2, <1>3, <1>4, <1>5

(* primary and secondary are at work. *)
LEMMA AtUp ==
    ASSUME NEW p \in Procs, NEW pc
    PROVE  /\ Configures(p, pc) =>
                Script(p) \in {"primary", "secondary"} /\ rc[p].pc = pc
           /\ Script(p) \in {"primary", "secondary"} => Script(p) \in UpScripts
           /\ Script(p) \in UpScripts => Script(p) # "none"
BY DEF Configures, At, UpScripts

LEMMA AddrTypes ==
    ASSUME RunTypes, NEW p \in Procs, NEW static \in BOOLEAN
    PROVE  WithStatic(p, static) \in [Ifaces -> {"none", "static", "lease"}]
BY DEF RunTypes, WithStatic

(* primary, secondary, tftpcfg and iw_watch, when they are through. *)
LEMMA LeaveStep ==
    ASSUME RunInv, NEW p \in Procs,
           Static(p) \/ NoSecondary(p) \/ Bound(p) \/ NoAnswer(p) \/ TftpCfg(p) \/ IwWatch(p)
    PROVE  RunInv'
<1>1. /\ Script(p) \in UpScripts /\ Leave(p) /\ UNCHANGED <<hook, running>>
  BY AtUp DEF Static, NoSecondary, Bound, NoAnswer, TftpCfg, IwWatch, At, UpScripts, netVars
<1>2. RunTypes
  BY DEF RunInv
<1>3. addr' \in [Ifaces -> {"none", "static", "lease"}]
  <2>1. HasAddress(p) \in BOOLEAN
    BY DEF HasAddress
  <2>2. FallsBack(p) \in BOOLEAN
    BY <1>2 DEF FallsBack, RunTypes, ProcState
  <2>3. \/ addr' = addr
        \/ addr' = WithStatic(p, HasAddress(p))
        \/ addr' = WithStatic(p, FallsBack(p))
    BY DEF Static, NoSecondary, Bound, NoAnswer, TftpCfg, IwWatch, netVars
  <2>4. QED
    BY <1>2, <2>1, <2>2, <2>3, AddrTypes DEF RunTypes
<1>4. RunTypes'
  BY <1>1, <1>2, <1>3, AtUp, LeaveTypes DEF RunTypes
<1>5. QED
  BY <1>1, <1>2, <1>4, AtUp, LeaveTypes, RunUpScript

(* udhcpc is started, or answered, and its hook called. *)
LEMMA CallStep ==
    ASSUME RunInv, NEW p \in Procs, Ask(p) \/ Answered(p)
    PROVE  RunInv'
<1>1. RunTypes /\ rc \in [Procs -> ProcState] /\ rc[p] \in ProcState
  BY DEF RunInv, RunTypes
<1>2. /\ Script(p) \in {"primary", "secondary"} /\ UNCHANGED <<addr, running>>
      /\ Call(Iface(p), Deconfig) \/ Call(Iface(p), Bind)
  BY AtUp DEF Ask, Answered
<1>3. PICK pc \in {"ask", "hook"}, static \in BOOLEAN :
               rc' = [rc EXCEPT ![p].pc = pc, ![p].static = static]
  <2>1. CASE Ask(p)
    <3>1. HasAddress(p) \in BOOLEAN
      BY DEF HasAddress
    <3>2. QED
      BY <2>1, <3>1 DEF Ask
  <2>2. CASE Answered(p)
    <3>1. rc[p].static \in BOOLEAN
      BY <1>1 DEF ProcState
    <3>2. rc' = [rc EXCEPT ![p].pc = "hook", ![p].static = rc[p].static]
      BY <1>1, <2>2 DEF Answered, ProcState
    <3>3. QED
      BY <3>1, <3>2
  <2>3. QED
    BY <2>1, <2>2
<1> DEFINE r == [rc[p] EXCEPT !.pc = pc, !.static = static]
<1>4. /\ rc' = [rc EXCEPT ![p] = r] /\ r \in ProcState
      /\ r.lvl = rc[p].lvl /\ r.alone = rc[p].alone /\ r.todo = rc[p].todo
  <2>1. /\ r \in ProcState
        /\ r.lvl = rc[p].lvl /\ r.alone = rc[p].alone /\ r.todo = rc[p].todo
    <3>1. rc[p] \in ProcState /\ pc \in {"next", "ask", "hook"}
      BY <1>1
    <3>2. PICK x \in ProcState : x = rc[p]
      BY <3>1
    <3> DEFINE w == [x EXCEPT !.pc = pc, !.static = static]
    <3>3. w \in ProcState /\ w.lvl = x.lvl /\ w.alone = x.alone /\ w.todo = x.todo
      BY <3>1 DEF ProcState
    <3>4. r = w
      BY <3>2
    <3> HIDE DEF r, w
    <3>5. QED
      BY <3>2, <3>3, <3>4
  <2>2. rc' = [rc EXCEPT ![p] = r]
    BY <1>3
  <2>3. QED
    BY <2>1, <2>2
<1> HIDE DEF r
<1>5. hook' \in [Ifaces -> Hooks]
  <2>1. Deconfig \in Hooks /\ Bind \in Hooks
    BY DEF Hooks
  <2>2. PICK what \in Hooks : hook' = [hook EXCEPT ![Iface(p)] = what]
    BY <1>2, <2>1 DEF Call
  <2>3. hook \in [Ifaces -> Hooks]
    BY <1>1 DEF RunTypes
  <2>4. QED
    BY <2>2, <2>3
<1>6. rc' \in [Procs -> ProcState]
  BY <1>1, <1>4
<1>7. \A q \in Procs : rc'[q].pc # "next" => Script(q)' \in {"primary", "secondary"}
  <2> TAKE q \in Procs
  <2>1. rc'[q].todo = rc[q].todo /\ (q # p => rc'[q] = rc[q])
    BY <1>1, <1>4
  <2>2. Script(q)' = Script(q)
    BY <2>1 DEF Script
  <2>3. QED
    BY <1>1, <1>2, <2>1, <2>2 DEF RunTypes
<1>8. RunTypes'
  BY <1>1, <1>2, <1>5, <1>6, <1>7 DEF RunTypes
<1>9. QED
  BY <1>2, <1>4, <1>8, AtUp, RunUpScript
---------------------------------------------------------------------------
(* The scripts of level 1. *)

(* What a step adds to unseen, and never takes from it while it runs. *)
LEMMA Remembered ==
    ASSUME RunTypes, Remember, NEW s
    PROVE  /\ s \in unseen /\ s \in running' => s \in unseen'
           /\ s \in running' /\ ~Wanted(s, conf', lease') => s \in unseen'
BY DEF Remember

(* killall udhcpc. *)
LEMMA KillStep ==
    ASSUME RunInv, Remember, NEW p \in Procs, KillClients(p)
    PROVE  RunInv'
<1>1. /\ Script(p) = "udhcpc" /\ UNCHANGED <<hook, addr, running>>
      /\ \A i \in Ifaces : clients'[i] = 0
      /\ rc' = [q \in Procs |-> IF q = p \/ rc[q].pc # "next" THEN GoOn(rc[q]) ELSE rc[q]]
  BY DEF KillClients, At
<1>2. RunTypes /\ "login" \in Procs /\ "boot" \in Procs
  BY DEF RunInv, Procs
<1>3. \A q \in Procs : q = p \/ rc[q].pc # "next" => rc[q].todo # <<>>
  <2> SUFFICES ASSUME NEW q \in Procs, q = p \/ rc[q].pc # "next"
               PROVE  rc[q].todo # <<>>
    OBVIOUS
  <2>1. Script(q) # "none"
    BY <1>1, <1>2 DEF RunTypes
  <2>2. QED
    BY <1>2, <2>1, AtScript
<1>4. ASSUME NEW q \in Procs
      PROVE  /\ rc'[q] \in ProcState
             /\ rc'[q].lvl = rc[q].lvl /\ rc'[q].alone = rc[q].alone
             /\ rc'[q].pc = "next"
             /\ rc'[q] = rc[q] \/ q = p \/ rc[q].pc # "next"
  <2>1. rc[q] \in ProcState /\ rc[q].todo # <<>> => GoOn(rc[q]) \in ProcState
                                   /\ GoOn(rc[q]).pc = "next"
                                   /\ GoOn(rc[q]).lvl = rc[q].lvl
                                   /\ GoOn(rc[q]).alone = rc[q].alone
    BY GoOnFacts
  <2>2. rc[q] \in ProcState
    BY <1>2 DEF RunTypes
  <2>3. CASE q = p \/ rc[q].pc # "next"
    BY <1>1, <1>3, <2>1, <2>2, <2>3
  <2>4. CASE ~(q = p \/ rc[q].pc # "next")
    BY <1>1, <2>2, <2>4
  <2>5. QED
    BY <2>3, <2>4
<1>5. rc' \in [Procs -> ProcState]
  BY <1>1, <1>4
<1>6. RunTypes'
  BY <1>1, <1>2, <1>4, <1>5 DEF RunTypes
<1>7. AloneInv'
  <2>1. SUFFICES ASSUME rc'["login"].alone PROVE rc'["boot"].todo = <<>>
    BY DEF AloneInv
  <2>2. rc["boot"].todo = <<>>
    BY <1>2, <1>4, <2>1 DEF RunInv, AloneInv
  <2>3. rc'["boot"] = rc["boot"]
    BY <1>2, <1>3, <1>4, <2>2
  <2>4. QED
    BY <2>2, <2>3
<1>8. SingleInv'
  <2>1. SUFFICES ASSUME GoesSingle' PROVE StoppedTo(6)'
    <3>1. 6 \in 1..6
      OBVIOUS
    <3>2. QED
      BY <2>1, <3>1 DEF SingleInv
  <2>2. GoesSingle
    BY <1>2, <1>4, <2>1 DEF GoesSingle
  <2>3. p = "login"
    BY <1>1, <2>2, SinglePlace DEF Procs
  <2>4. PICK k \in 1..6 : StoppedTo(k)
    BY <2>2 DEF RunInv, SingleInv
  <2>5. k = 5
    <3>1. Script("login") = IF k = 6 THEN "none" ELSE SingleScripts[k]
      BY <2>2, <2>4, SinglePlace
    <3>2. k \in {1, 2, 3, 4, 5, 6}
      OBVIOUS
    <3>3. QED
      BY <1>1, <2>3, <3>1, <3>2, SingleList
  <2>6. rc'["login"].todo = SubSeq(SingleScripts, 6, 5)
    <3>1. GoOn(rc["login"]).todo = Tail(rc["login"].todo)
      <4>1. rc["login"] \in ProcState /\ rc["login"].todo # <<>>
        BY <1>2, <1>3, <2>3 DEF RunTypes
      <4>2. QED
        BY <4>1, GoOnFacts
    <3>2. rc["login"].todo = SubSeq(SingleScripts, 5, 5)
      BY <2>4, <2>5 DEF StoppedTo
    <3>3. Tail(SubSeq(SingleScripts, 5, 5)) = SubSeq(SingleScripts, 5 + 1, 5) /\ 5 + 1 = 6
      BY SingleWay
    <3>4. rc'["login"] = GoOn(rc["login"])
      BY <1>1, <1>2, <2>3
    <3>5. QED
      BY <3>1, <3>2, <3>3, <3>4
  <2>7. \A i \in 1..6 - 1 : SingleScripts[i] \in running' => SingleScripts[i] \in unseen'
    <3> SUFFICES ASSUME NEW i \in 1..6 - 1, SingleScripts[i] \in running'
                 PROVE  SingleScripts[i] \in unseen'
      OBVIOUS
    <3>1. i \in 1..4 \/ i = 5
      OBVIOUS
    <3>2. i # 5
      BY <1>1, <1>2, SingleList DEF RunTypes, Services
    <3>3. i \in 1..k - 1
      BY <2>5, <3>1, <3>2
    <3>4. SingleScripts[i] \in unseen
      BY <1>1, <2>4, <3>3 DEF StoppedTo
    <3>5. QED
      BY <1>2, <3>4, Remembered
  <2>8. QED
    BY <1>1, <2>6, <2>7 DEF StoppedTo
<1>9. QED
  BY <1>6, <1>7, <1>8 DEF RunInv
(* A service is started or stopped; with telnetd the login may go. *)
LEMMA ServiceStep ==
    ASSUME RunInv, Remember, NEW p \in Procs, NEW s \in Services, Service(p, s)
    PROVE  RunInv'
<1>1. /\ Script(p) = s /\ Script(p) # "none" /\ UNCHANGED <<conf, lease, hook, addr>>
      /\ running' \subseteq running \union {s}
      /\ Leave(p) \/ (p = "login" /\ rc' = [rc EXCEPT ![p] = None])
  BY DEF Service, At, netVars, Services
<1>2. /\ RunTypes /\ "login" \in Procs /\ "boot" \in Procs /\ p \in {"boot", "login"}
      /\ rc \in [Procs -> ProcState]
  BY DEF RunInv, Procs, RunTypes
<1>3. running' \subseteq Services
  BY <1>1, <1>2 DEF RunTypes
<1>4. CASE Leave(p)
  <2>1. /\ rc' = [rc EXCEPT ![p] = GoOn(rc[p])] /\ rc' \in [Procs -> ProcState]
        /\ GoOn(rc[p]).lvl = rc[p].lvl /\ GoOn(rc[p]).alone = rc[p].alone
        /\ GoOn(rc[p]).todo = Tail(rc[p].todo)
        /\ \A q \in Procs : rc'[q].pc # "next" => Script(q)' \in {"primary", "secondary"}
    BY <1>1, <1>2, <1>4, LeaveTypes
  <2>2. RunTypes'
    BY <1>1, <1>2, <1>3, <2>1 DEF RunTypes
  <2>3. /\ rc'["login"].lvl = rc["login"].lvl /\ rc'["login"].alone = rc["login"].alone
        /\ p = "login" => rc'["boot"] = rc["boot"]
    BY <1>2, <2>1
  <2>4. AloneInv'
    <3>1. p = "boot" => ~rc["login"].alone
      BY <1>1 DEF RunInv, AloneInv, Script
    <3>2. QED
      BY <1>2, <2>3, <3>1 DEF RunInv, AloneInv
  <2>5. SingleInv'
    <3>1. SUFFICES ASSUME GoesSingle' PROVE \E k \in 1..6 : StoppedTo(k)'
      BY DEF SingleInv
    <3>2. GoesSingle
      BY <2>3, <3>1 DEF GoesSingle
    <3>3. p = "login"
      BY <1>1, <1>2, <3>2, SinglePlace
    <3>4. PICK k \in 1..6 : StoppedTo(k)
      BY <3>2 DEF RunInv, SingleInv
    <3>5. k # 6 /\ SingleScripts[k] = s
      BY <1>1, <3>2, <3>3, <3>4, SinglePlace
    <3>6. k \in 1..4 /\ k + 1 \in 1..6 /\ k + 1 # 6
      <4>1. k \in 1..4 \/ k = 5
        BY <3>5
      <4>2. QED
        BY <3>5, <4>1, SingleList DEF Services
    <3>7. rc'["login"].todo = SubSeq(SingleScripts, k + 1, 5)
      <4>1. rc["login"].todo = SubSeq(SingleScripts, k, 5)
        BY <3>4 DEF StoppedTo
      <4>2. k \in 1..5
        BY <3>6
      <4>3. Tail(SubSeq(SingleScripts, k, 5)) = SubSeq(SingleScripts, k + 1, 5)
        BY <4>2, SingleWay
      <4>4. rc'["login"] = GoOn(rc["login"])
        BY <1>2, <2>1, <3>3
      <4>5. QED
        BY <2>1, <3>3, <4>1, <4>3, <4>4
    <3>8. ASSUME NEW i \in 1..(k + 1) - 1, SingleScripts[i] \in running'
          PROVE  SingleScripts[i] \in unseen'
      <4>1. rc[p].lvl = 1
        BY <3>2, <3>3 DEF GoesSingle
      <4>2. running' = IF Wanted(s, conf, lease) THEN running \ {s} ELSE running
        BY <4>1 DEF Service
      <4>3. CASE i = k
        <5>1. ~Wanted(s, conf', lease')
          BY <1>1, <3>5, <3>8, <4>2, <4>3
        <5>2. QED
          BY <1>2, <3>5, <3>8, <4>3, <5>1, Remembered
      <4>4. CASE i # k
        <5>1. i \in 1..k - 1
          BY <3>6, <4>4
        <5>2. SingleScripts[i] \in unseen
          BY <3>4, <3>8, <4>2, <5>1 DEF StoppedTo
        <5>3. QED
          BY <1>2, <3>8, <5>2, Remembered
      <4>5. QED
        BY <4>3, <4>4
    <3>9. StoppedTo(k + 1)'
      BY <3>6, <3>7, <3>8 DEF StoppedTo
    <3>10. QED
      BY <3>6, <3>9
  <2>6. QED
    BY <2>2, <2>4, <2>5 DEF RunInv
<1>5. CASE p = "login" /\ rc' = [rc EXCEPT ![p] = None]
  <2>1. None \in ProcState /\ None.pc = "next" /\ ~None.alone
    <3>1. <<>> \in Seq(Scripts)
      BY EmptySeq
    <3>2. QED
      BY <3>1 DEF None, Proc, ProcState
  <2>2. rc' \in [Procs -> ProcState]
    BY <1>2, <1>5, <2>1
  <2>3. \A q \in Procs : rc'[q].pc # "next" => Script(q)' \in {"primary", "secondary"}
    <3> SUFFICES ASSUME NEW q \in Procs, rc'[q].pc # "next"
                 PROVE  Script(q)' \in {"primary", "secondary"}
      OBVIOUS
    <3>1. rc'[q] = rc[q]
      BY <1>2, <1>5, <2>1
    <3>2. Script(q)' = Script(q)
      BY <3>1 DEF Script
    <3>3. QED
      BY <1>2, <3>1, <3>2 DEF RunTypes
  <2>4. RunTypes'
    BY <1>1, <1>2, <1>3, <2>2, <2>3 DEF RunTypes
  <2>5. ~rc'["login"].alone
    BY <1>2, <1>5, <2>1
  <2>6. QED
    BY <2>4, <2>5 DEF RunInv, AloneInv, SingleInv, GoesSingle
<1>6. QED
  BY <1>1, <1>4, <1>5

---------------------------------------------------------------------------
(* The hooks, the user and the watchdog. *)

LEMMA HookTypes ==
    ASSUME RunInv, NEW i \in Ifaces, HookStep(i) \/ Renew(i) \/ Expire(i)
    PROVE  RunTypes' /\ UNCHANGED <<rc, running, clients>>
<1>1. UNCHANGED <<rc, running, clients>> /\ RunTypes
  BY DEF HookStep, Deconfigured, BeginLease, EndLease, Renew, Expire, RunInv
<1>2. hook' \in [Ifaces -> Hooks] /\ addr' \in [Ifaces -> {"none", "static", "lease"}]
  BY <1>1 DEF HookStep, Deconfigured, BeginLease, EndLease, Renew, Expire, Call,
              RunTypes, Hooks
<1>3. \A p \in Procs : Script(p)' = Script(p)
  BY <1>1 DEF Script
<1>4. QED
  BY <1>1, <1>2, <1>3 DEF RunTypes

(* A level is entered. *)
LEMMA EnterStep ==
    ASSUME RunInv, NEW lvl \in 1..4, Enter(lvl)
    PROVE  RunInv'
<1> DEFINE r == Proc(lvl, Links(lvl), Script("boot") = "none")
<1>1. /\ RunTypes /\ "login" \in Procs /\ "boot" \in Procs /\ rc \in [Procs -> ProcState]
      /\ rc' = [rc EXCEPT !["login"] = r] /\ UNCHANGED <<hook, addr, running>>
  BY DEF Enter, RunInv, RunTypes, Procs, netVars
<1>2. /\ r \in ProcState /\ r.pc = "next" /\ r.lvl = lvl /\ r.todo = Links(lvl)
      /\ r.alone = (Script("boot") = "none")
  BY LinksType DEF Proc, ProcState
<1> HIDE DEF r
<1>3. rc' \in [Procs -> ProcState] /\ rc'["login"] = r /\ rc'["boot"] = rc["boot"]
  BY <1>1, <1>2
<1>4. \A q \in Procs : rc'[q].pc # "next" => Script(q)' \in {"primary", "secondary"}
  <2> SUFFICES ASSUME NEW q \in Procs, rc'[q].pc # "next"
               PROVE  Script(q)' \in {"primary", "secondary"}
    OBVIOUS
  <2>1. rc'[q] = rc[q]
    BY <1>1, <1>2
  <2>2. Script(q)' = Script(q)
    BY <2>1 DEF Script
  <2>3. QED
    BY <1>1, <2>1, <2>2 DEF RunTypes
<1>5. RunTypes'
  BY <1>1, <1>3, <1>4 DEF RunTypes
<1>6. AloneInv'
  <2>1. SUFFICES ASSUME rc'["login"].alone PROVE rc'["boot"].todo = <<>>
    BY DEF AloneInv
  <2>2. Script("boot") = "none"
    BY <1>2, <1>3, <2>1
  <2>3. QED
    BY <1>1, <1>3, <2>2, AtScript
<1>7. SingleInv'
  <2>1. SUFFICES ASSUME GoesSingle' PROVE StoppedTo(1)'
    <3>1. 1 \in 1..6
      OBVIOUS
    <3>2. QED
      BY <2>1, <3>1 DEF SingleInv
  <2>2. lvl = 1
    BY <1>2, <1>3, <2>1 DEF GoesSingle
  <2>3. Links(lvl) = SingleScripts
    BY <2>2 DEF Links
  <2>4. rc'["login"].todo = SubSeq(SingleScripts, 1, 5)
    BY <1>2, <1>3, <2>3, SingleWay
  <2>5. \A i \in 1..1 - 1 : FALSE
    OBVIOUS
  <2>6. QED
    BY <2>4, <2>5 DEF StoppedTo
<1>8. QED
  BY <1>5, <1>6, <1>7 DEF RunInv

(* A reboot. *)
LEMMA WatchStep ==
    ASSUME RunInv, Fresh
    PROVE  RunInv' /\ rc'["login"] = None
<1>1. PICK lvl \in Levels : rc' = Booted(lvl)
  BY DEF Fresh
<1>2. lvl \in 2..4 /\ Links(lvl) \in Seq(Scripts) /\ <<>> \in Seq(Scripts)
  BY RunLevelAssumption, LinksType, EmptySeq
<1>3. Proc(lvl, Links(lvl), FALSE) \in ProcState /\ None \in ProcState
  BY <1>2 DEF Proc, None, ProcState
<1>4. /\ rc' \in [Procs -> ProcState]
      /\ \A p \in Procs : rc'[p].pc = "next" /\ ~rc'[p].alone
  BY <1>1, <1>3 DEF Booted, Proc, None, Procs
<1>5. "login" \in Procs /\ rc'["login"] = None
  BY <1>1 DEF Procs, Booted
<1>6. RunTypes'
  BY <1>4 DEF Fresh, RunTypes, Hooks
<1>7. QED
  BY <1>4, <1>5, <1>6 DEF RunInv, AloneInv, SingleInv, GoesSingle

(* The watchdog's other steps are its own. *)
LEMMA WatchQuiet ==
    ASSUME WatchTest \/ WatchAgain, ~ Fresh
    PROVE  UNCHANGED <<rc, hook, addr, running, clients>>
  BY DEF WatchTest, WatchAgain, netVars

LEMMA RunStep == RunInv /\ [Next]_vars => RunInv'
<1> SUFFICES ASSUME RunInv, [Next]_vars
             PROVE  RunInv'
  OBVIOUS
<1>1. CASE UNCHANGED vars
  <2>1. UNCHANGED <<rc, hook, addr, running, clients, unseen>>
    BY <1>1 DEF vars, netVars
  <2>2. RunTypes'
    BY <2>1 DEF RunInv, RunTypes, Script
  <2>3. QED
    BY <2>1, <2>2, RunQuiet
<1>2. ASSUME NEW p \in Procs, Step(p), Remember
      PROVE  RunInv'
  BY <1>2, LeaveStep, CallStep, KillStep, ServiceStep DEF Step
<1>3. ASSUME NEW i \in Ifaces, HookStep(i) \/ Renew(i) \/ Expire(i), Remember
      PROVE  RunInv'
  <2>1. RunTypes' /\ UNCHANGED <<rc, running, clients>>
    BY <1>3, HookTypes
  <2>2. QED
    BY <1>3, <2>1, RunQuiet
<1>4. ASSUME NEW lvl \in 1..4, Enter(lvl)
      PROVE  RunInv'
  BY <1>4, EnterStep
<1>5. CASE (Edit \/ CardFails \/ WatchTest \/ WatchAgain) /\ ~ Fresh /\ Remember
  <2>1. UNCHANGED <<rc, hook, addr, running, clients>>
    BY <1>5, WatchQuiet DEF Edit, CardFails, netVars
  <2>2. RunTypes'
    BY <2>1 DEF RunInv, RunTypes, Script
  <2>3. QED
    BY <1>5, <2>1, <2>2, RunQuiet
<1>6. CASE Fresh
  BY <1>6, WatchStep
<1>7. QED
  BY <1>1, <1>2, <1>3, <1>4, <1>5, <1>6 DEF Next, Act

---------------------------------------------------------------------------
(* Run level 1 leaves no service running but one whose setting was gone at *)
(* some moment since it was started, however its scripts interleave with   *)
(* edits of the configuration, renewed leases and the end of the boot.     *)
THEOREM SingleUserStops == Spec => []SingleStops
<1>1. RunInv => SingleStops
  <2> SUFFICES ASSUME RunInv, Single, NEW s \in running
               PROVE  s \in unseen
    BY DEF SingleStops
  <2>1. PICK k \in 1..6 : StoppedTo(k)
    BY DEF RunInv, SingleInv, Single, GoesSingle
  <2>2. k = 6
    <3>1. k \in 1..5 \/ k = 6
      OBVIOUS
    <3>2. QED
      BY <2>1, <3>1, SingleWay DEF StoppedTo, Single
  <2>3. s \in Services
    BY DEF RunInv, RunTypes
  <2>4. PICK i \in 1..4 : SingleScripts[i] = s
    BY <2>3, SingleList DEF Services
  <2>5. i \in 1..k - 1
    BY <2>2
  <2>6. QED
    BY <2>1, <2>4, <2>5 DEF StoppedTo
<1>2. QED
  BY <1>1, RunInit, RunStep, PTL DEF Spec

(* Once level 1 is over, a reboot apart, no hook begins and no address     *)
(* changes but by a hook already at work: there is no udhcpc left to call  *)
(* one, and no script that would start one.                                *)
THEOREM SingleUserKeepsAddress == Spec => SingleKeepsAddress
<1>1. ASSUME RunInv, [Next]_vars, Single, rc'["login"] = rc["login"],
             NEW i \in Ifaces, hook[i] = NoHook
      PROVE  hook'[i] = NoHook /\ addr'[i] = addr[i]
  <2>1. GoesSingle /\ RunTypes
    BY <1>1 DEF Single, GoesSingle, RunInv
  <2>2. PICK k \in 1..6 : StoppedTo(k)
    BY <1>1, <2>1 DEF RunInv, SingleInv
  <2>3. k = 6
    <3>1. k \in 1..5 \/ k = 6
      OBVIOUS
    <3>2. QED
      BY <1>1, <2>2, <3>1, SingleWay DEF StoppedTo, Single
  <2>4. \A p \in Procs : Script(p) = "none"
    BY <1>1, <2>1, <2>2, <2>3, SinglePlace DEF Procs
  <2>5. \A p \in Procs : ~Step(p)
    <3> SUFFICES ASSUME NEW p \in Procs, Step(p)
                 PROVE  FALSE
      OBVIOUS
    <3>1. CASE \E s \in Services : Service(p, s)
      BY <2>4, <3>1 DEF Service, At, Services
    <3>2. CASE KillClients(p) \/ TftpCfg(p) \/ IwWatch(p) \/ NoSecondary(p)
      BY <2>4, <3>2 DEF KillClients, TftpCfg, IwWatch, NoSecondary, At
    <3>3. CASE Static(p) \/ Ask(p) \/ Answered(p) \/ Bound(p) \/ NoAnswer(p)
      BY <2>4, <3>3, AtUp DEF Static, Ask, Answered, Bound, NoAnswer
    <3>4. QED
      BY <3>1, <3>2, <3>3 DEF Step
  <2>6. \A j \in Ifaces : ~Renew(j) /\ ~Expire(j)
    <3>1. \A j \in Ifaces : clients[j] = 0
      BY <2>2, <2>3 DEF StoppedTo
    <3>2. QED
      BY <3>1 DEF Renew, Expire
  <2>7. ~Fresh
    <3>1. rc["login"].lvl = 1 /\ None.lvl = 0
      BY <2>1 DEF GoesSingle, None, Proc
    <3>2. QED
      BY <1>1, <3>1, WatchStep
  <2>8. ASSUME NEW j \in Ifaces, HookStep(j)
        PROVE  hook'[i] = NoHook /\ addr'[i] = addr[i]
    <3>1. hook[j] # NoHook
      BY <2>8, RunLevelAssumption DEF HookStep, Deconfigured, BeginLease, EndLease,
                  NoHook, Deconfig, Bind
    <3>2. j # i
      BY <1>1, <3>1
    <3>3. QED
      BY <1>1, <2>1, <2>8, <3>2 DEF HookStep, Deconfigured, BeginLease, EndLease, RunTypes
  <2>9. CASE \/ Edit \/ CardFails \/ WatchTest \/ WatchAgain
             \/ UNCHANGED vars \/ \E lvl \in 1..4 : Enter(lvl)
    <3>1. UNCHANGED <<hook, addr>>
      BY <2>7, <2>9, WatchQuiet DEF Edit, CardFails, Enter, vars, netVars
    <3>2. QED
      BY <1>1, <3>1
  <2>10. QED
    BY <1>1, <2>5, <2>6, <2>7, <2>8, <2>9 DEF Next, Act
<1>2. RunInv /\ [Next]_vars
        => [Single /\ rc'["login"] = rc["login"] =>
              \A i \in Ifaces : hook[i] = NoHook => hook'[i] = NoHook /\ addr'[i] = addr[i]]_vars
  BY <1>1
<1>3. QED
  BY <1>2, RunInit, RunStep, PTL DEF Spec, SingleKeepsAddress
=============================================================================
