------------------------------ MODULE RunLevel ------------------------------
(***************************************************************************)
(* /etc/rc and the scripts it runs: run levels 2, 3 and 4 bring up the     *)
(* network interfaces, with DHCP or without, and the services; run level 1 *)
(* takes the services down, and reflash enters it before it fetches an     *)
(* image.  Each script looks at the configuration of the moment, and some  *)
(* at what the DHCP client has stored.                                     *)
(***************************************************************************)
EXTENDS Integers, Sequences, TLC

CONSTANTS
  Configs,    \* configurations: sets of settings that are there, or enabled
  Offers,     \* what DHCP servers send besides the address
  Levels,     \* the run levels in the file runlevel
  MaxEdits,   \* bounds on the changes of the configuration,
  MaxRuns,    \*   the runs of /etc/rc by hand,
  MaxEvents   \*   leases renewed and expired and wireless cards that fail

Settings == {"p_dhcp", "p_address", "s_dhcp", "s_address", "logsvr", "tftphost",
             "hosts", "udhcpd", "wlan0"}

ASSUME RunLevelAssumption ==
  /\ Configs \subseteq SUBSET Settings /\ Offers \subseteq SUBSET {"serverid", "logsvr"}
  /\ Levels \subseteq 2 .. 4 /\ {MaxEdits, MaxRuns, MaxEvents} \subseteq Nat

Ifaces == {"eth0", "wlan0", "br0"}

(* default.script is not at work, has been called with deconfig, or with bound *)
(* or renew, or writes the lease file and has these variables still to write.   *)
NoHook   == {"none"}
Deconfig == {"deconfig"}
Bind     == {"bound"}
Hooks    == {NoHook, Deconfig, Bind} \union Offers

Procs  == {"boot", "login"}  \* /etc/rc of inittab; one by hand or by reflash

VARIABLES
  conf,      \* what is set in $CFGD: netcfg, telnetd.hosts, udhcpd.conf, wlan
  lease,     \* what /var/udhcpc.lease sets
  hook,      \* default.script of each interface
  addr,      \* the address of each interface
  clients,   \* how many udhcpc are in the background on each interface
  running,   \* the services
  watchdogs, \* how many iw_watchdog are about to test the card, and asleep
  card,      \* the wireless card: its driver may die in two ways
  rc,        \* the two processes
  count,     \* edits, runs and events so far
  unseen     \* history: services that run and whose setting was gone meanwhile

netVars == <<lease, hook, addr, clients>>
vars == <<conf, netVars, running, watchdogs, card, rc, count, unseen>>

(* The links of rc.d (links.tgz), by their numbers; wlan, br0, route,   *)
(* netswap, iptables, tweak and done are not in the model.                   *)
RouterScripts == <<"primary", "tftpcfg", "secondary", "tcpsrv", "dhcpd", "httpd",
                   "telnetd", "iw_watch">>
BridgeScripts == <<"secondary", "primary", "dhcpd", "tcpsrv", "telnetd", "httpd",
                   "iw_watch">>

(* Level 1 takes down the services and the DHCP clients; the first two     *)
(* would forget the clients, and the log.                                  *)
SingleNoClients == <<"telnetd", "httpd", "dhcpd", "tcpsrv">>
SingleNoLog     == <<"telnetd", "httpd", "dhcpd", "udhcpc">>
SingleScripts == <<"telnetd", "httpd", "dhcpd", "tcpsrv", "udhcpc">>

Links(lvl) == CASE lvl \in {2, 4} -> RouterScripts
                [] lvl = 3        -> BridgeScripts
                [] lvl = 1        -> SingleScripts

NoWatchdog == [awake |-> 0, asleep |-> 0]

(* A process of /etc/rc: its level, the scripts it has not finished, whether *)
(* udhcpc or its hook is at work for it, whether the script found a static   *)
(* address when it read netcfg, and whether it began alone (history).        *)
Proc(lvl, todo, alone) ==
  [lvl |-> lvl, todo |-> todo, pc |-> "next", static |-> FALSE, alone |-> alone]
None == Proc(0, <<>>, FALSE)

Booted(lvl) == [p \in Procs |-> IF p = "boot" THEN Proc(lvl, Links(lvl), FALSE) ELSE None]

Fresh ==
  /\ conf' \in Configs
  /\ lease' = {} /\ hook' = [i \in Ifaces |-> NoHook]
  /\ addr' = [i \in Ifaces |-> "none"] /\ clients' = [i \in Ifaces |-> 0]
  /\ running' = {} /\ watchdogs' = NoWatchdog /\ card' = "alive"
  /\ \E lvl \in Levels : rc' = Booted(lvl)

Init ==
  /\ conf \in Configs
  /\ lease = {} /\ hook = [i \in Ifaces |-> NoHook]
  /\ addr = [i \in Ifaces |-> "none"] /\ clients = [i \in Ifaces |-> 0]
  /\ running = {} /\ watchdogs = NoWatchdog /\ card = "alive"
  /\ \E lvl \in Levels : rc = Booted(lvl)
  /\ count = [edits |-> 0, runs |-> 0, events |-> 0]
  /\ unseen = {}

Bump(what, max) == count[what] < max /\ count' = [count EXCEPT ![what] = @ + 1]

(* A process is at a script, alone or with udhcpc; it goes on to the next. *)
Script(p) == IF rc[p].todo = <<>> THEN "none" ELSE Head(rc[p].todo)
At(p, script, pc) == Script(p) = script /\ rc[p].pc = pc
GoOn(r) == [r EXCEPT !.todo = Tail(@), !.pc = "next", !.static = FALSE]
Leave(p) == rc' = [rc EXCEPT ![p] = GoOn(@)]
-----------------------------------------------------------------------------
(* primary and secondary *)

(* The interface each one configures, at level 3 the bridge alone. *)
IfaceOf(script, lvl) ==
  CASE script = "primary"   -> (2 :> "wlan0" @@ 3 :> "br0" @@ 4 :> "eth0")[lvl]
    [] script = "secondary" -> (2 :> "eth0" @@ 3 :> "none" @@ 4 :> "wlan0")[lvl]
Iface(p) == IfaceOf(Script(p), rc[p].lvl)

Configures(p, pc) ==
  \/ At(p, "primary", pc)
  \/ At(p, "secondary", pc) /\ Iface(p) # "none"

HasAddress(p) == (IF Script(p) = "primary" THEN "p_address" ELSE "s_address") \in conf
AsksDhcp(p)   == (IF Script(p) = "primary" THEN "p_dhcp" ELSE "s_dhcp") \in conf

(* The interface of p with its static address, if there is one. *)
WithStatic(p, static) == IF static THEN [addr EXCEPT ![Iface(p)] = "static"] ELSE addr

Static(p) ==
  /\ Configures(p, "next") /\ ~ AsksDhcp(p)
  /\ addr' = WithStatic(p, HasAddress(p))
  /\ Leave(p)
  /\ UNCHANGED <<conf, lease, hook, clients, running, watchdogs, card, count>>

(* Bridge mode has no secondary interface. *)
NoSecondary(p) ==
  /\ At(p, "secondary", "next") /\ Iface(p) = "none"
  /\ Leave(p)
  /\ UNCHANGED <<conf, netVars, running, watchdogs, card, count>>

(* udhcpc calls default.script, and waits for it. *)
Call(i, what) == hook[i] = NoHook /\ hook' = [hook EXCEPT ![i] = what]

(* udhcpc -n -i: the first thing it does is deconfig. *)
Ask(p) ==
  /\ Configures(p, "next") /\ AsksDhcp(p)
  /\ Call(Iface(p), Deconfig)
  /\ rc' = [rc EXCEPT ![p].pc = "ask", ![p].static = HasAddress(p)]
  /\ UNCHANGED <<conf, lease, addr, clients, running, watchdogs, card, count>>

Answered(p) ==
  /\ Configures(p, "ask")
  /\ Call(Iface(p), Bind)
  /\ rc' = [rc EXCEPT ![p].pc = "hook"]
  /\ UNCHANGED <<conf, lease, addr, clients, running, watchdogs, card, count>>

Bound(p) ==
  /\ Configures(p, "hook") /\ hook[Iface(p)] = NoHook
  /\ clients' = [clients EXCEPT ![Iface(p)] = @ + 1]
  /\ Leave(p)
  /\ UNCHANGED <<conf, lease, hook, addr, running, watchdogs, card, count>>

(* No answer: udhcpc -n gives up, with exit status 1. *)
NoFallback(p) == FALSE
FallsBack(p)  == rc[p].static

NoAnswer(p) ==
  /\ Configures(p, "ask") /\ hook[Iface(p)] = NoHook
  /\ addr' = WithStatic(p, FallsBack(p))
  /\ Leave(p)
  /\ UNCHANGED <<conf, lease, hook, clients, running, watchdogs, card, count>>
-----------------------------------------------------------------------------
(* default.script, and what makes a udhcpc in the background call it *)

Deconfigured(i) ==
  /\ hook[i] = Deconfig
  /\ addr' = [addr EXCEPT ![i] = "none"]
  /\ hook' = [hook EXCEPT ![i] = NoHook]
  /\ UNCHANGED <<conf, lease, clients, running, watchdogs, card, rc, count>>

(* The address is set, and the lease file begun anew. *)
BeginLease(i) ==
  /\ hook[i] = Bind
  /\ addr' = [addr EXCEPT ![i] = "lease"]
  /\ lease' = {}
  /\ \E offer \in Offers : hook' = [hook EXCEPT ![i] = offer]
  /\ UNCHANGED <<conf, clients, running, watchdogs, card, rc, count>>

EndLease(i) ==
  /\ hook[i] \in Offers
  /\ lease' = lease \union hook[i]
  /\ hook' = [hook EXCEPT ![i] = NoHook]
  /\ UNCHANGED <<conf, addr, clients, running, watchdogs, card, rc, count>>

HookStep(i) == Deconfigured(i) \/ BeginLease(i) \/ EndLease(i)

Renew(i) ==
  /\ clients[i] > 0 /\ Bump("events", MaxEvents)
  /\ Call(i, Bind)
  /\ UNCHANGED <<conf, lease, addr, clients, running, watchdogs, card, rc>>

Expire(i) ==
  /\ clients[i] > 0 /\ Bump("events", MaxEvents)
  /\ Call(i, Deconfig)
  /\ UNCHANGED <<conf, lease, addr, clients, running, watchdogs, card, rc>>

(* killall udhcpc: also one that another process is waiting for, whose exit *)
(* status is not 1.                                                         *)
KillClients(p) ==
  /\ At(p, "udhcpc", "next")
  /\ clients' = [i \in Ifaces |-> 0]
  /\ rc' = [q \in Procs |-> IF q = p \/ rc[q].pc # "next" THEN GoOn(rc[q]) ELSE rc[q]]
  /\ UNCHANGED <<conf, lease, hook, addr, running, watchdogs, card, count>>
-----------------------------------------------------------------------------
(* tftpcfg and the services *)

(* A new configuration, or some files of it, from a host that netcfg or the *)
(* lease names.                                                             *)
TftpCfg(p) ==
  /\ At(p, "tftpcfg", "next")
  /\ IF "tftphost" \in conf \/ "serverid" \in lease THEN conf' \in Configs ELSE conf' = conf
  /\ Leave(p)
  /\ UNCHANGED <<netVars, running, watchdogs, card, count>>

Services == {"telnetd", "httpd", "dhcpd", "tcpsrv"}

(* What a script looks for before it starts or stops its service. *)
Wanted(s, c, l) == CASE s = "telnetd" -> "hosts" \in c
                     [] s = "httpd"   -> TRUE
                     [] s = "dhcpd"   -> "udhcpd" \in c
                     [] s = "tcpsrv"  -> "logsvr" \in c \union l

Service(p, s) ==
  /\ At(p, s, "next")
  /\ running' = IF ~ Wanted(s, conf, lease) THEN running
                ELSE IF rc[p].lvl # 1 THEN running \union {s}
                ELSE running \ {s}
  /\ \/ Leave(p)
     \* with telnetd goes the shell of a telnet session
     \/ p = "login" /\ "telnetd" \in running \ running' /\ rc' = [rc EXCEPT ![p] = None]
  /\ UNCHANGED <<conf, netVars, watchdogs, card, count>>

(* iw_watch starts an iw_watchdog if there is a file for wlan0; one that    *)
(* sets no channel, with which iw_watchdog ends at once, is as none here.   *)
IwWatch(p) ==
  /\ At(p, "iw_watch", "next")
  /\ watchdogs' = IF "wlan0" \in conf THEN [watchdogs EXCEPT !.awake = @ + 1] ELSE watchdogs
  /\ Leave(p)
  /\ UNCHANGED <<conf, netVars, running, card, count>>

Step(p) ==
  \/ Static(p) \/ NoSecondary(p) \/ Ask(p) \/ Answered(p) \/ Bound(p) \/ NoAnswer(p)
  \/ KillClients(p) \/ TftpCfg(p) \/ (\E s \in Services : Service(p, s)) \/ IwWatch(p)
-----------------------------------------------------------------------------
(* The user enters a run level, or reflash level 1: on the console when the *)
(* boot is over, by telnet as soon as there is a telnetd.                   *)
Enter(lvl) ==
  /\ Script("login") = "none" /\ Bump("runs", MaxRuns)
  /\ Script("boot") = "none" \/ "telnetd" \in running
  /\ rc' = [rc EXCEPT !["login"] = Proc(lvl, Links(lvl), Script("boot") = "none")]
  /\ UNCHANGED <<conf, netVars, running, watchdogs, card>>

(* OK on a page of the CGI, or an editor. *)
Edit ==
  /\ Bump("edits", MaxEdits)
  /\ conf' \in Configs \ {conf}
  /\ UNCHANGED <<netVars, running, watchdogs, card, rc>>

(* The two known symptoms: iwconfig has no rate to show, or setting the     *)
(* channel fails.                                                           *)
CardFails ==
  /\ card = "alive" /\ Bump("events", MaxEvents)
  /\ card' \in {"no rate", "no channel"}
  /\ UNCHANGED <<conf, netVars, running, watchdogs, rc>>

(* The condition of iw_watchdog: "&" puts the first test into the           *)
(* background, and what it finds is not looked at.                          *)
EitherPasses == card # "no rate" \/ card # "no channel"
TestPasses == card # "no channel"

WatchTest ==
  /\ watchdogs.awake > 0
  /\ IF TestPasses
     THEN /\ watchdogs' = [awake |-> watchdogs.awake - 1, asleep |-> watchdogs.asleep + 1]
          /\ UNCHANGED <<conf, netVars, running, card, rc>>
     ELSE Fresh                                                     \* reboot
  /\ UNCHANGED count

WatchAgain ==
  /\ watchdogs.asleep > 0
  /\ watchdogs' = [awake |-> watchdogs.awake + 1, asleep |-> watchdogs.asleep - 1]
  /\ UNCHANGED <<conf, netVars, running, card, rc, count>>

Act == \/ \E p \in Procs : Step(p)
       \/ \E i \in Ifaces : HookStep(i) \/ Renew(i) \/ Expire(i)
       \/ \E lvl \in 1 .. 4 : Enter(lvl)
       \/ Edit \/ CardFails \/ WatchTest \/ WatchAgain

Remember == unseen' = {s \in running' : s \in unseen \/ ~ Wanted(s, conf', lease')}

Next == Act /\ Remember

Spec == Init /\ [][Next]_vars

(* Every process is one the kernel schedules; udhcpc -n waits for an answer *)
(* a limited time.                                                          *)
FairSpec ==
  /\ Spec
  /\ \A p \in Procs : WF_vars(Step(p) /\ Remember)
  /\ \A i \in Ifaces : WF_vars(HookStep(i) /\ Remember)
  /\ WF_vars(WatchTest /\ Remember) /\ WF_vars(WatchAgain /\ Remember)
-----------------------------------------------------------------------------
(* Properties *)

(* Run level 1 has been entered, with no other /etc/rc at work, and is over. *)
Single == rc["login"].lvl = 1 /\ rc["login"].todo = <<>> /\ rc["login"].alone

(* What the variables hold. *)
TypeOK ==
  /\ conf \in Configs /\ lease \subseteq {"serverid", "logsvr"}
  /\ hook \in [Ifaces -> Hooks]
  /\ addr \in [Ifaces -> {"none", "static", "lease"}]
  /\ clients \in [Ifaces -> 0 .. 2 + MaxRuns]
  /\ running \subseteq Services /\ watchdogs \in [awake : 0 .. 1 + MaxRuns, asleep : 0 .. 1 + MaxRuns]
  /\ \A p \in Procs : rc[p].pc # "next" => Script(p) \in {"primary", "secondary"}
  /\ unseen \subseteq running

(* Run level 1 leaves no service running, but one whose setting was gone at *)
(* some moment since it was started: its script does not stop it either.    *)
(* The moment may be that between a renewed lease's first line and the line *)
(* that names the log server.                                               *)
SingleStops == Single => running \subseteq unseen

(* After run level 1 no address changes, but by a hook that is at work       *)
(* already, and no hook begins: reflash's transfer is not cut by a lease     *)
(* that expires, or is renewed with another address.                         *)
SingleKeepsAddress ==
  [][Single /\ rc'["login"] = rc["login"] =>
       \A i \in Ifaces : hook[i] = NoHook => hook'[i] = NoHook /\ addr'[i] = addr[i]]_vars

(* An interface that has a static address beside DHCP gets that one or a    *)
(* leased one, also when no server answers; unless somebody enters level 1, *)
(* which kills its udhcpc, or the watchdog reboots.                         *)
Asking(i) ==
  /\ hook[i] = NoHook
  /\ \E p \in Procs : Configures(p, "ask") /\ rc[p].static /\ Iface(p) = i
ComesUp ==
  \A i \in Ifaces :
    Asking(i) ~> addr[i] # "none" \/ rc["login"].lvl = 1 \/ card = "no channel"

(* A card that no longer takes a channel makes the access point restart,    *)
(* however far its start has come when the card dies, and whatever run level *)
(* is entered then: unless wlan0 is taken out of the configuration before    *)
(* iw_watch has read it.  (A rate that is missing does not: see TestPasses.) *)
Watched ==
  \/ watchdogs # NoWatchdog
  \/ "wlan0" \in conf /\ \E p \in Procs, n \in 1 .. Len(RouterScripts) :
                            n <= Len(rc[p].todo) /\ rc[p].todo[n] = "iw_watch"
WatchReboots == card = "no channel" /\ Watched ~> card = "alive" \/ ~ Watched
=============================================================================
