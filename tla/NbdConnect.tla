---------------------------- MODULE NbdConnect ----------------------------
(***************************************************************************)
(* Connections: the process of nbd/nbd-server.c that accepts them, the     *)
(* processes it forks to serve them, and at the other end nbd/nbd-client.c *)
(* with the block device of its kernel.                                    *)
(*                                                                         *)
(* What travels to the client is counted in units: a word (the password,   *)
(* the magic number or the size) is two of them, a read gets any number of *)
(* the units that have arrived.  Requests are single blocks, and a block   *)
(* is a page of the diff file; NbdServer has the loop that serves them in  *)
(* detail.                                                                 *)
(***************************************************************************)
EXTENDS Integers, Sequences, FiniteSets, SequencesExt

CONSTANTS
  Connections,  \* every connection of a behaviour
  Hosts,        \* addresses of clients, as sequences
  AuthFile,     \* the lines of nbd_server.allow
  NoFile,       \* there is no such file
  Exports,      \* values of exportname: one file, or a file per client (%s)
  Blocks,       \* the blocks of an exported file
  Missing,      \* hosts without a file of their own
  Pids,         \* the process table's room for children
  EarlierZombies,  \* children that ended before: sets of Pids
  MaxRequests, MaxFaults    \* bounds: requests of a connection, failures

PerClient == <<"%s">>
NoNumber == 0
NoName == <<>>

ASSUME HostAssumption == Missing \subseteq Hosts /\ PerClient \notin Hosts
ASSUME RoomAssumption == IsFiniteSet(Pids) /\ Pids \subseteq Nat \ {NoNumber}
                         /\ EarlierZombies \subseteq SUBSET Pids
ASSUME NumberAssumption == NoNumber \notin Connections

VARIABLES
  exportname,  \* the second argument of nbd-server
  cow,         \* F_COPYONWRITE
  listener,    \* the accepting process: pc, net, exportname2 and clientname
  backlog,     \* connections the kernel holds for accept
  host,        \* the address each connection comes from
  down, up,    \* what is under way to the client, and to the server
  lost,        \* connections that were reset
  session,     \* the process that serves each connection
  zombies,     \* children that ended and that nobody waited for
  files,       \* exported files
  diffs,       \* diff files, by name
  device,      \* nbd-client and the device it has set up
  faults,      \* restarts of the server, failures of fork, resets and so on
  own          \* history: what each client last wrote, or found at first

server == <<listener, backlog, session, zombies, files, diffs, own>>
vars == <<exportname, cow, listener, backlog, host, down, up, lost, session,
          zombies, files, diffs, device, faults, own>>
---------------------------------------------------------------------------
(* What is sent in the negotiation, in the order of mainloop *)
Password == <<<<"NBD">>, <<"MAGIC">>>>
Magic    == <<<<"cliserv">>, <<"magic">>>>
Size     == <<<<"size", 1>>, <<"size", 2>>>>
Reserved == <<<<"zero">>, <<"zero">>>>
Negotiation == Password \o Magic \o Size \o Reserved
Reply(v) == <<"reply", v>>

Word == [password |-> Password, magic |-> Magic, size |-> Size, reserved |-> Reserved]
Phases == <<"password", "magic", "size", "reserved">>
After(phase) == [password |-> "magic", magic |-> "size", size |-> "reserved",
                 reserved |-> "setup"][phase]

Orig(b) == <<"orig", b>>

FileOf(client) == IF exportname = PerClient THEN client ELSE exportname

NoSession == [pc |-> "none", exportname2 |-> NoName, clientname |-> NoName, pid |-> NoNumber,
              orphan |-> FALSE,
              difmap |-> [b \in Blocks |-> NoNumber], difffilelen |-> 0]
NoDevice  == [pc |-> "off", size |-> "none", asked |-> <<>>, sent |-> 0, answered |-> FALSE]

Init ==
  /\ exportname \in Exports
  /\ cow \in BOOLEAN
  /\ listener = [pc |-> "accept", net |-> NoNumber, exportname2 |-> NoName, clientname |-> NoName]
  /\ backlog = <<>>
  /\ host = [c \in Connections |-> NoName]
  /\ down = [c \in Connections |-> <<>>] /\ up = [c \in Connections |-> <<>>]
  /\ lost = {}
  /\ session = [c \in Connections |-> NoSession]
  /\ zombies \in EarlierZombies
  /\ files = [f \in (Hosts \ Missing) \cup (Exports \ {PerClient}) |-> [b \in Blocks |-> Orig(b)]]
  /\ diffs = <<>>
  /\ device = [c \in Connections |-> NoDevice]
  /\ faults = 0
  /\ own = [c \in Connections |-> [b \in Blocks |-> Orig(b)]]

(* The two ends of a connection *)
ServerHolds(c) == \/ c \in ToSet(backlog)
                  \/ listener.net = c
                  \/ session[c].pc \notin {"none", "exited"}
ClientHolds(c) == device[c].pc \notin {"off", "failed", "done"}
Ended(c, end)  == c \in lost \/ ~ end
---------------------------------------------------------------------------
(* connectme *)

Listener(pc) == listener' = [listener EXCEPT !.pc = pc, !.net = NoNumber]

(* The accepting process ends.  Its ended children are gone with it, those *)
(* that run go on; connections it has not forked for are reset.            *)
ListenerGone ==
  /\ lost' = lost \cup ToSet(backlog) \cup ({listener.net} \ {NoNumber})
  /\ backlog' = <<>>
  /\ zombies' = {}
  /\ session' = [c \in Connections |-> [session[c] EXCEPT !.orphan = TRUE]]

Accept ==
  /\ listener.pc = "accept" /\ backlog # <<>>
  /\ listener' = [listener EXCEPT !.pc = "peer", !.net = Head(backlog)]
  /\ backlog' = Tail(backlog)
  /\ UNCHANGED <<exportname, cow, host, down, up, lost, session, zombies, files,
                 diffs, device, faults, own>>

(* set_peername: exportname2 and clientname are the listener's globals *)
NamesKept(c)  == [listener EXCEPT !.pc = "auth", !.clientname = host[c],
                    !.exportname2 = IF @ = NoName THEN FileOf(host[c]) ELSE @]
NamesOf(c)    == [listener EXCEPT !.pc = "auth", !.clientname = host[c],
                    !.exportname2 = FileOf(host[c])]

SetPeername ==
  /\ listener.pc = "peer"
  /\ \/ /\ listener.net \notin lost
        /\ listener' = NamesOf(listener.net)
        /\ UNCHANGED <<backlog, lost, session, zombies>>
     \/ /\ listener.net \in lost           \* getpeername fails
        /\ Listener("exited")
        /\ ListenerGone
  /\ UNCHANGED <<exportname, cow, host, down, up, files, diffs, device, faults, own>>

Authorized(name) == AuthFile = NoFile \/ \E line \in AuthFile : IsPrefix(name, line)

Children == (zombies \cup {session[c].pid : c \in Connections}) \ {NoNumber}

(* fork; nobody waits for the children, so they keep their place *)
KeepConnection  == listener' = [listener EXCEPT !.pc = "accept"]
AfterFailedFork == Listener("accept")

Fork ==
  /\ listener.pc = "auth" /\ Authorized(listener.clientname)
  /\ \E pid \in Pids \ Children :
       session' = [session EXCEPT ![listener.net] =
                     [NoSession EXCEPT !.pc = "start", !.pid = pid,
                                       !.exportname2 = listener.exportname2,
                                       !.clientname = listener.clientname]]
  /\ Listener("accept")
  /\ UNCHANGED <<exportname, cow, backlog, host, down, up, lost, zombies, files,
                 diffs, device, faults, own>>

Refuse ==
  /\ listener.pc = "auth" /\ ~ Authorized(listener.clientname)
  /\ Listener("accept")
  /\ UNCHANGED <<exportname, cow, backlog, host, down, up, lost, session, zombies,
                 files, diffs, device, faults, own>>

ForkFails ==
  /\ listener.pc = "auth" /\ Authorized(listener.clientname)
  /\ \/ Pids \subseteq Children /\ UNCHANGED faults
     \/ ~ Pids \subseteq Children /\ faults < MaxFaults /\ faults' = faults + 1
  /\ AfterFailedFork
  /\ UNCHANGED <<exportname, cow, backlog, host, down, up, lost, session, zombies,
                 files, diffs, device, own>>

(* nbd-server is started again while its children go on: SO_REUSEADDR *)
Restart ==
  /\ faults < MaxFaults /\ faults' = faults + 1
  /\ listener' = [pc |-> "accept", net |-> NoNumber,
                  exportname2 |-> NoName, clientname |-> NoName]
  /\ ListenerGone
  /\ UNCHANGED <<exportname, cow, host, down, up, files, diffs, device, own>>
---------------------------------------------------------------------------
(* The process of one connection *)

At(c, pc) == session[c].pc = pc
Goto(c, pc) == session' = [session EXCEPT ![c].pc = pc]
Exit(c) == /\ session' = [session EXCEPT ![c] = [NoSession EXCEPT !.pc = "exited"]]
           /\ zombies' = IF session[c].orphan THEN zombies
                         ELSE zombies \cup {session[c].pid}

DiffNameNoPid(s) == <<s.exportname2, s.clientname>>
DiffName(s)      == <<s.exportname2, s.clientname, s.pid>>

(* serveconnection *)
ServeConnection(c) ==
  /\ At(c, "start")
  /\ IF session[c].exportname2 \notin DOMAIN files
     THEN Exit(c) /\ UNCHANGED diffs
     ELSE /\ Goto(c, "negotiate")
          /\ diffs' = IF cow THEN [f \in DOMAIN diffs \cup {DiffName(session[c])} |->
                                     IF f = DiffName(session[c]) THEN <<>> ELSE diffs[f]]
                      ELSE diffs
          /\ UNCHANGED zombies
  /\ UNCHANGED <<exportname, cow, listener, backlog, host, down, up, lost, files,
                 device, faults, own>>

(* The four writes that begin mainloop.  They are one step, as a read can  *)
(* end after any of their units anyway.                                    *)
Negotiate(c) ==
  /\ At(c, "negotiate")
  /\ IF Ended(c, ClientHolds(c))
     THEN Exit(c) /\ UNCHANGED down
     ELSE /\ down' = [down EXCEPT ![c] = Negotiation]
          /\ Goto(c, "loop")
          /\ UNCHANGED zombies
  /\ UNCHANGED <<exportname, cow, listener, backlog, host, up, lost, files, diffs,
                 device, faults, own>>

(* A session's view of its export *)
ViewOf(s, b) == IF cow /\ s.difmap[b] # NoNumber THEN diffs[DiffName(s)][s.difmap[b]]
                ELSE files[s.exportname2][b]

ReadBlock(c, b) ==
  /\ down' = [down EXCEPT ![c] = Append(@, Reply(ViewOf(session[c], b)))]
  /\ UNCHANGED <<session, zombies, files, diffs, own>>

WriteBlock(c, b, v) ==
  LET s == session[c]
      n == IF s.difmap[b] # NoNumber THEN s.difmap[b] ELSE s.difffilelen + 1
  IN  /\ down' = [down EXCEPT ![c] = Append(@, Reply("done"))]
      /\ own' = [own EXCEPT ![c][b] = v]
      /\ IF cow
         THEN /\ session' = [session EXCEPT ![c].difmap[b] = n,
                               ![c].difffilelen = IF n > @ THEN n ELSE @]
              /\ diffs' = [diffs EXCEPT ![DiffName(s)] =
                             [i \in DOMAIN @ \cup {n} |-> IF i = n THEN v ELSE @[i]]]
              /\ UNCHANGED files
         ELSE files' = [files EXCEPT ![s.exportname2][b] = v] /\ UNCHANGED <<session, diffs>>
      /\ UNCHANGED zombies

Disconnected(c) ==
  /\ Exit(c)
  /\ diffs' = [f \in DOMAIN diffs \ {DiffName(session[c])} |-> diffs[f]]
  /\ UNCHANGED <<down, files, own>>

ServeRequest(c) ==
  /\ At(c, "loop") /\ c \notin lost /\ up[c] # <<>>
  /\ up' = [up EXCEPT ![c] = Tail(@)]
  /\ LET r == Head(up[c])
     IN  \/ r.type = "read"  /\ ReadBlock(c, r.block)
         \/ r.type = "write" /\ WriteBlock(c, r.block, r.value)
         \/ r.type = "disc"  /\ Disconnected(c)
  /\ UNCHANGED <<exportname, cow, listener, backlog, host, lost, device, faults>>

(* readit fails *)
ReadFails(c) ==
  /\ At(c, "loop") /\ (c \in lost \/ (~ ClientHolds(c) /\ up[c] = <<>>))
  /\ Exit(c)
  /\ UNCHANGED <<exportname, cow, listener, backlog, host, down, up, lost, files,
                 diffs, device, faults, own>>
---------------------------------------------------------------------------
(* nbd-client, and the device of its kernel *)

Device(c, pc) == device' = [device EXCEPT ![c].pc = pc]
Gone(c, pc)   == /\ device' = [device EXCEPT ![c] = [NoDevice EXCEPT !.pc = pc]]
                 /\ down' = [down EXCEPT ![c] = <<>>]
Is(c, pc)     == device[c].pc = pc

(* opennet: refused when nobody listens *)
Connect(c, h) ==
  /\ Is(c, "off")
  /\ host' = [host EXCEPT ![c] = h]
  /\ IF listener.pc = "exited"
     THEN Device(c, "failed") /\ UNCHANGED backlog
     ELSE Device(c, "password") /\ backlog' = Append(backlog, c)
  /\ UNCHANGED <<exportname, cow, listener, down, up, lost, session, zombies, files,
                 diffs, faults, own>>

(* How much a read asks for: 8, 8, 8 and 128 bytes *)
AskedWholeBuffer(phase) == IF phase = "reserved" THEN 4 ELSE Len(Word[phase])
AskedFor(phase)         == Len(Word[phase])

(* The password is compared as a string in a buffer of zeros.  The magic    *)
(* number and the size keep what was on the stack where nothing was read;   *)
(* a size may be too large for the device.  Nobody looks at the reserve.    *)
Understood(phase, got) ==
  CASE got = Word[phase]                                 -> {After(phase)}
    [] got # Word[phase] /\ phase = "password"           -> {"failed"}
    [] got # Word[phase] /\ phase = "magic"              ->
         {"failed"} \cup (IF Len(got) < Len(Magic) THEN {"size"} ELSE {})
    [] got # Word[phase] /\ phase = "size"               -> {"failed", "reserved"}
    [] got # Word[phase] /\ phase = "reserved"           -> {"setup"}

(* One read, of whatever has arrived, or of nothing at the end *)
CanRead(c, n) ==
  /\ device[c].pc \in ToSet(Phases) /\ c \notin lost
  /\ n <= AskedFor(device[c].pc) /\ n <= Len(down[c])
  /\ n = 0 <=> down[c] = <<>> /\ ~ ServerHolds(c)

ReadWord(c, n) ==
  /\ CanRead(c, n)
  /\ LET got == SubSeq(down[c], 1, n) IN
     \/ /\ "failed" \in Understood(device[c].pc, got)
        /\ Gone(c, "failed")
     \/ \E next \in Understood(device[c].pc, got) \ {"failed"} :
          /\ down' = [down EXCEPT ![c] = SubSeq(@, n + 1, Len(@))]
          /\ device' = [device EXCEPT ![c].pc = next,
                          ![c].size = IF ~ Is(c, "size") THEN @
                                      ELSE IF got = Size THEN "right" ELSE "wrong"]
  /\ UNCHANGED <<server, exportname, cow, host, up, lost, faults>>

(* A read that fails; a device or a socket that the kernel refuses *)
ClientFails(c) ==
  /\ \/ device[c].pc \in ToSet(Phases) /\ c \in lost
     \/ Is(c, "setup") /\ faults < MaxFaults
  /\ faults' = IF c \in lost THEN faults ELSE faults + 1
  /\ Gone(c, "failed")
  /\ UNCHANGED <<server, exportname, cow, host, up, lost>>

(* SET_BLKSIZE, SET_SIZE_BLOCKS, SET_SOCK, and DO_IT in a child *)
SetUp(c) ==
  /\ Is(c, "setup")
  /\ Device(c, "up")
  /\ UNCHANGED <<server, exportname, cow, host, down, up, lost, faults>>

(* The kernel sends a request, one at a time *)
Ask(c, r) ==
  /\ Is(c, "up") /\ device[c].asked = <<>> /\ device[c].sent < MaxRequests
  /\ device' = [device EXCEPT ![c].asked = <<r>>, ![c].sent = @ + 1]
  /\ up' = [up EXCEPT ![c] = Append(@, r)]
  /\ UNCHANGED <<server, exportname, cow, host, down, lost, faults>>

(* ... and reads replies: anything else ends DO_IT, as does the end *)
Receive(c) ==
  /\ Is(c, "up")
  /\ \/ /\ down[c] # <<>> /\ Head(down[c])[1] = "reply"
        /\ device' = [device EXCEPT ![c].asked = <<>>, ![c].answered = TRUE]
        /\ down' = [down EXCEPT ![c] = Tail(@)]
     \/ /\ down[c] # <<>> /\ Head(down[c])[1] # "reply"
        /\ Device(c, "closing") /\ UNCHANGED down
     \/ /\ down[c] = <<>> /\ Ended(c, ServerHolds(c))
        /\ Device(c, "closing") /\ UNCHANGED down
  /\ UNCHANGED <<server, exportname, cow, host, up, lost, faults>>

(* nbd-client -d from another process: CLEAR_QUE, DISCONNECT, CLEAR_SOCK *)
Disconnect(c) ==
  /\ Is(c, "up") /\ c \notin lost
  /\ device' = [device EXCEPT ![c].asked = <<>>, ![c].pc = "closing"]
  /\ up' = [up EXCEPT ![c] = Append(@, [type |-> "disc", block |-> 0, value |-> 0])]
  /\ UNCHANGED <<server, exportname, cow, host, down, lost, faults>>

(* DO_IT has returned: CLEAR_QUE, CLEAR_SOCK, and the child ends *)
Closed(c) ==
  /\ Is(c, "closing")
  /\ Gone(c, "done")
  /\ UNCHANGED <<server, exportname, cow, host, up, lost, faults>>

(* The connection is reset *)
Lose(c) ==
  /\ c \notin lost /\ ClientHolds(c)
  /\ faults < MaxFaults /\ faults' = faults + 1
  /\ lost' = lost \cup {c}
  /\ down' = [down EXCEPT ![c] = <<>>] /\ up' = [up EXCEPT ![c] = <<>>]
  /\ UNCHANGED <<server, exportname, cow, host, device>>
---------------------------------------------------------------------------
Listening  == Accept \/ SetPeername \/ Fork \/ Refuse \/ ForkFails
Serving(c) == ServeConnection(c) \/ Negotiate(c) \/ ServeRequest(c) \/ ReadFails(c)

Written(c) == <<"data", c, device[c].sent>>
Requests(c) == {[type |-> "read", block |-> b, value |-> 0] : b \in Blocks}
                 \cup {[type |-> "write", block |-> b, value |-> Written(c)] : b \in Blocks}

Client(c) == \/ \E h \in Hosts : Connect(c, h)
             \/ (\E n \in 0 .. 4 : ReadWord(c, n)) \/ ClientFails(c) \/ SetUp(c)
             \/ \E r \in Requests(c) : Ask(c, r)
             \/ Receive(c) \/ Disconnect(c) \/ Closed(c) \/ Lose(c)

Next == Listening \/ Restart \/ \E c \in Connections : Serving(c) \/ Client(c)

Reading(c) == (\E n \in 0 .. 4 : ReadWord(c, n)) \/ (c \in lost /\ ClientFails(c))

Fairness == /\ WF_vars(Listening)
            /\ \A c \in Connections : WF_vars(Serving(c)) /\ WF_vars(Reading(c))

Spec == Init /\ [][Next]_vars
FairSpec == Spec /\ Fairness
---------------------------------------------------------------------------
(* Properties *)

(* What the variables hold; a process that runs has a number of its own, *)
(* which no child that nobody waited for holds either.                   *)
TypeOK ==
  /\ listener.pc \in {"accept", "peer", "auth", "exited"}
  /\ backlog \in Seq(Connections) /\ lost \subseteq Connections /\ zombies \subseteq Pids
  /\ \A c \in Connections :
       /\ session[c].pc \in {"none", "start", "negotiate", "loop", "exited"}
       /\ session[c].pid \in Pids \cup {NoNumber}
       /\ session[c].difffilelen \in 0 .. Cardinality(Blocks)
       /\ device[c].pc \in ToSet(Phases)
            \cup {"off", "setup", "up", "closing", "failed", "done"}
       /\ device[c].size \in {"none", "right", "wrong"}
       /\ session[c].pid # NoNumber =>
            /\ session[c].pid \notin zombies
            /\ \A e \in Connections \ {c} : session[e].pid # session[c].pid
  /\ faults \in 0 .. MaxFaults

(* With a file per client, a session serves the file of the machine at the *)
(* other end, whatever connections were accepted, refused or reset before. *)
OwnExport ==
  \A c \in Connections : session[c].pc \notin {"none", "exited"} =>
    session[c].clientname = host[c] /\ session[c].exportname2 = FileOf(host[c])

(* A device that has completed a request has the size of the export: a     *)
(* negotiation cut short or read in pieces leaves a device with a size     *)
(* from the stack, but its kernel then meets the rest of the negotiation,  *)
(* or the end, where it expects a reply.                                   *)
SizeRight == \A c \in Connections : device[c].answered => device[c].size = "right"

(* Copy on write: what a session shows its client is what that client last *)
(* wrote, or the export as it was; sessions of other clients, and of the   *)
(* same one, and diff files that earlier processes left, do not show.      *)
CowPrivate ==
  cow => \A c \in Connections : At(c, "loop") =>
           \A b \in Blocks :
             /\ session[c].difmap[b] # NoNumber =>
                  /\ DiffName(session[c]) \in DOMAIN diffs
                  /\ session[c].difmap[b] \in DOMAIN diffs[DiffName(session[c])]
             /\ ViewOf(session[c], b) = own[c][b]

(* A client that connects gets its device or an error, however the server  *)
(* goes on: refused, without a process, without a file, restarted.         *)
Settled ==
  \A c \in Connections :
    device[c].pc \in ToSet(Phases) ~> device[c].pc \notin ToSet(Phases)
===========================================================================
