------------------------- MODULE NbdConnectProofs -------------------------
(***************************************************************************)
(* For every number of connections and hosts, with a file for each or one  *)
(* for all, with -c or without, whatever is refused, reset, cut short or   *)
(* restarted: a session serves the file of the machine at its other end    *)
(* (OwnExport), a device that has completed a request has the size of the  *)
(* export (SizeRight), and with -c a session shows its client what that    *)
(* client wrote and nobody else's writes (CowPrivate).                     *)
(***************************************************************************)
EXTENDS NbdConnect, SequenceTheorems, TLAPS

Names == Hosts \cup Exports \cup {NoName}

Process == [pc : {"none", "start", "negotiate", "loop", "exited"},
            exportname2 : Names, clientname : Names, pid : Pids \cup {NoNumber},
            orphan : BOOLEAN, difmap : [Blocks -> Nat], difffilelen : Nat]

DevicePcs == {"off", "password", "magic", "size", "reserved", "setup", "up",
              "closing", "failed", "done"}

(* A sequence, of whatever elements. *)
IsSeq(s) == Len(s) \in Nat /\ s = [i \in 1..Len(s) |-> s[i]]

(* What the variables of the two ends hold. *)
ServerTypes ==
  /\ exportname \in Exports /\ cow \in BOOLEAN
  /\ listener \in [pc : {"accept", "peer", "auth", "exited"},
                   net : Connections \cup {NoNumber},
                   exportname2 : Names, clientname : Names]
  /\ backlog \in Seq(Connections)
  /\ zombies \subseteq Pids
  /\ host \in [Connections -> Hosts \cup {NoName}]
  /\ session \in [Connections -> Process]
  /\ \A f \in DOMAIN files : DOMAIN files[f] = Blocks
  /\ DOMAIN own = Connections /\ \A c \in Connections : DOMAIN own[c] = Blocks

ClientOf(c) ==
  /\ DOMAIN device[c] = {"pc", "size", "asked", "sent", "answered"}
  /\ device[c].pc \in DevicePcs
  /\ IsSeq(down[c]) /\ IsSeq(up[c])
  /\ \A i \in 1..Len(up[c]) :
       up[c][i].type \in {"read", "write"} => up[c][i].block \in Blocks

ClientTypes ==
  /\ DOMAIN device = Connections /\ DOMAIN down = Connections /\ DOMAIN up = Connections
  /\ \A c \in Connections : ClientOf(c)

(* A connection is in one place: not begun, in the backlog, the one the    *)
(* listener works on, or with its own process.                             *)
InBacklog(c) == \E i \in 1..Len(backlog) : backlog[i] = c
PlaceInv ==
  /\ \A i, j \in 1..Len(backlog) : backlog[i] = backlog[j] => i = j
  /\ listener.pc \in {"peer", "auth"} <=> listener.net # NoNumber
  /\ \A c \in Connections :
       /\ InBacklog(c) \/ listener.net = c => session[c].pc = "none"
       /\ InBacklog(c) => listener.net # c
       /\ device[c].pc = "off" =>
            ~ InBacklog(c) /\ listener.net # c /\ session[c].pc = "none"

NameInv ==
  /\ listener.pc = "auth" => /\ listener.clientname = host[listener.net]
                             /\ listener.exportname2 = FileOf(host[listener.net])
  /\ OwnExport

(* Whose process number is whose. *)
Serves(c) == session[c].pc \in {"start", "negotiate", "loop"}
PidOf(c) ==
  /\ Serves(c) => session[c].pid # NoNumber
  /\ session[c].pid # NoNumber =>
       /\ session[c].pid \notin zombies
       /\ \A e \in Connections \ {c} : session[e].pid # session[c].pid

PidInv == \A c \in Connections : PidOf(c)

(* The page map of a session, its diff file and what its client wrote. *)
MapOf(c) ==
  LET s == session[c]
  IN  /\ DiffName(s) \in DOMAIN diffs
      /\ \A b \in Blocks :
           IF s.difmap[b] = NoNumber THEN own[c][b] = Orig(b)
           ELSE /\ s.difmap[b] <= s.difffilelen
                /\ s.difmap[b] \in DOMAIN diffs[DiffName(s)]
                /\ diffs[DiffName(s)][s.difmap[b]] = own[c][b]
      /\ \A b, d \in Blocks : s.difmap[b] = s.difmap[d] /\ s.difmap[b] # NoNumber => b = d

CowOf(c) ==
  /\ session[c].pc \in {"none", "start"} => \A b \in Blocks : own[c][b] = Orig(b)
  /\ session[c].pc = "start" => \A b \in Blocks : session[c].difmap[b] = NoNumber
  /\ session[c].pc \in {"negotiate", "loop"} => session[c].exportname2 \in DOMAIN files
  /\ cow /\ session[c].pc \in {"negotiate", "loop"} => MapOf(c)

CowInv ==
  /\ cow => \A f \in DOMAIN files : \A b \in Blocks : files[f][b] = Orig(b)
  /\ \A c \in Connections : CowOf(c)

(* What is under way to a client begins with the last m units of the       *)
(* negotiation.                                                            *)
Left(c, m) ==
  m <= Len(down[c]) /\ \A i \in 1..m : down[c][i] = Negotiation[8 - m + i]

(* How much of the negotiation is left when the client is in a phase; a    *)
(* wrong size leaves at least one unit for the kernel.                     *)
Stream(c) ==
  /\ session[c].pc \in {"none", "start", "negotiate"} =>
       /\ down[c] = <<>>
       /\ device[c].pc \in {"off", "password", "failed", "done"}
  /\ c \in lost => down[c] = <<>>
  /\ device[c].answered => device[c].pc \in {"up", "closing"} /\ device[c].size = "right"
  /\ device[c].pc \in {"reserved", "setup", "up"} => device[c].size \in {"right", "wrong"}
  /\ c \notin lost =>
       CASE device[c].pc = "password" -> Left(c, 8) \/ (down[c] = <<>> /\ session[c].pc # "loop")
         [] device[c].pc = "magic"    -> Left(c, 6)
         [] device[c].pc = "size"     -> Left(c, 4) \/ Left(c, 5)
         [] device[c].pc = "reserved" -> \/ Left(c, 2) /\ device[c].size = "right"
                                         \/ Left(c, 3) \/ Left(c, 4)
         [] device[c].pc \in {"setup", "up"} ->
              device[c].size = "wrong" => \E m \in 1..4 : Left(c, m)
         [] OTHER -> TRUE

StreamInv == \A c \in Connections : Stream(c)

ConnInv == ServerTypes /\ ClientTypes /\ PlaceInv /\ NameInv /\ PidInv /\ CowInv /\ StreamInv
---------------------------------------------------------------------------
(* Sequences. *)

LEMMA FunSeq ==
  ASSUME NEW S, NEW n \in Nat, NEW t \in [1..n -> S]
  PROVE  t \in Seq(S) /\ Len(t) = n
<1>1. t \in Seq(S)
  BY SeqDef
<1>2. DOMAIN t = 1..n /\ DOMAIN t = 1..Len(t) /\ Len(t) \in Nat
  BY <1>1, LenProperties
<1>3. QED
  BY <1>1, <1>2, SMT

LEMMA AsSeq == ASSUME NEW s, IsSeq(s) PROVE s \in Seq({s[i] : i \in 1..Len(s)})
<1> DEFINE S == {s[i] : i \in 1..Len(s)}
           n == Len(s)
<1>1. n \in Nat /\ s = [i \in 1..n |-> s[i]] /\ \A i \in 1..n : s[i] \in S
  BY DEF IsSeq
<1> HIDE DEF S, n
<1>2. s \in [1..n -> S]
  BY <1>1
<1>3. s \in Seq(S)
  BY <1>1, <1>2, FunSeq
<1>4. QED
  BY <1>3 DEF S

LEMMA OfSeq == ASSUME NEW S, NEW s \in Seq(S) PROVE IsSeq(s)
  BY LenProperties DEF IsSeq

LEMMA EmptyIs == IsSeq(<<>>) /\ Len(<<>>) = 0
<1>1. <<>> \in Seq({})
  BY EmptySeq
<1>2. Len(<<>>) = 0
  BY EmptySeq
<1>3. QED
  BY <1>1, <1>2, OfSeq

LEMMA LongIs == ASSUME NEW s, IsSeq(s), s # <<>> PROVE Len(s) \in Nat \ {0}
<1> DEFINE S == {s[i] : i \in 1..Len(s)}
<1>1. s \in Seq(S)
  BY AsSeq
<1> HIDE DEF S
<1>2. QED
  BY <1>1, EmptySeq, LenProperties, SMT

LEMMA AppendIs ==
  ASSUME NEW s, NEW v, IsSeq(s)
  PROVE  /\ IsSeq(Append(s, v))
         /\ Len(Append(s, v)) = Len(s) + 1
         /\ \A i \in 1..Len(s) : Append(s, v)[i] = s[i]
         /\ Append(s, v)[Len(s) + 1] = v
<1> DEFINE S == {s[i] : i \in 1..Len(s)} \cup {v}
<1>1. s \in Seq(S)
  BY DEF IsSeq
<1>2. v \in S
  OBVIOUS
<1> HIDE DEF S
<1>3. Append(s, v) \in Seq(S) /\ Len(Append(s, v)) = Len(s) + 1
  BY <1>1, <1>2, AppendProperties
<1>4. \A i \in 1..Len(s) : Append(s, v)[i] = s[i]
  BY <1>1, <1>2, AppendProperties
<1>5. Append(s, v)[Len(s) + 1] = v
  BY <1>1, <1>2, AppendProperties
<1>6. QED
  BY <1>3, <1>4, <1>5, OfSeq

LEMMA RestIs ==
  ASSUME NEW s, NEW n \in Nat, IsSeq(s), n <= Len(s)
  PROVE  /\ IsSeq(SubSeq(s, n + 1, Len(s)))
         /\ Len(SubSeq(s, n + 1, Len(s))) = Len(s) - n
         /\ \A i \in 1..(Len(s) - n) : SubSeq(s, n + 1, Len(s))[i] = s[n + i]
<1> DEFINE S == {s[i] : i \in 1..Len(s)}
           t == SubSeq(s, n + 1, Len(s))
<1>1. s \in Seq(S) /\ Len(s) \in Nat
  BY DEF IsSeq
<1>2. t = [i \in 1..(Len(s) - n) |-> s[n + i]]
  BY <1>1, SMT
<1>3. Len(s) - n \in Nat
  BY <1>1
<1>4. \A i \in 1..(Len(s) - n) : s[n + i] \in S
  BY <1>1, <1>3
<1> HIDE DEF S
<1>5. t \in [1..(Len(s) - n) -> S]
  BY <1>2, <1>4
<1>6. t \in Seq(S) /\ Len(t) = Len(s) - n
  BY <1>3, <1>5, FunSeq
<1>7. QED
  BY <1>2, <1>6, OfSeq

LEMMA FirstIs ==
  ASSUME NEW s, NEW n \in Nat, IsSeq(s), n <= Len(s)
  PROVE  /\ Len(SubSeq(s, 1, n)) = n
         /\ SubSeq(s, 1, n) = [i \in 1..n |-> s[i]]
<1>1. s \in Seq({s[i] : i \in 1..Len(s)}) /\ Len(s) \in Nat
  BY DEF IsSeq
<1>2. QED
  BY <1>1, SMT

LEMMA TailIs ==
  ASSUME NEW s, IsSeq(s), s # <<>>
  PROVE  /\ IsSeq(Tail(s)) /\ Len(Tail(s)) = Len(s) - 1
         /\ \A i \in 1..(Len(s) - 1) : Tail(s)[i] = s[i + 1]
         /\ Head(s) = s[1]
<1> DEFINE S == {s[i] : i \in 1..Len(s)}
<1>1. s \in Seq(S)
  BY DEF IsSeq
<1> HIDE DEF S
<1>2. Tail(s) \in Seq(S) /\ Len(Tail(s)) = Len(s) - 1
  BY <1>1, HeadTailProperties
<1>3. Head(s) = s[1] /\ \A i \in 1..Len(Tail(s)) : Tail(s)[i] = s[i + 1]
  BY <1>1, HeadTailProperties
<1>4. QED
  BY <1>2, <1>3, OfSeq

(* Two more units behind s. *)
Joins(r, s, t) ==
  /\ Len(r) = Len(s) + 2
  /\ \A i \in 1..Len(s) : r[i] = s[i]
  /\ r[Len(s) + 1] = t[1] /\ r[Len(s) + 2] = t[2]

LEMMA Joined ==
  ASSUME NEW S, NEW s \in Seq(S), NEW t \in Seq(S), Len(t) = 2
  PROVE  s \o t \in Seq(S) /\ Joins(s \o t, s, t)
<1>1. /\ s \o t \in Seq(S) /\ Len(s \o t) = Len(s) + Len(t)
      /\ \A i \in 1 .. Len(s) + Len(t) : (s \o t)[i] = IF i <= Len(s) THEN s[i] ELSE t[i - Len(s)]
  BY ConcatProperties
<1>2. Len(s) \in Nat
  BY LenProperties
<1>3. QED
  BY <1>1, <1>2, SMT DEF Joins

(* The negotiation, unit by unit. *)
LEMMA NegotiationIs ==
  /\ IsSeq(Negotiation) /\ Len(Negotiation) = 8
  /\ Negotiation[1] = <<"NBD">> /\ Negotiation[2] = <<"MAGIC">>
  /\ Negotiation[3] = <<"cliserv">> /\ Negotiation[4] = <<"magic">>
  /\ Negotiation[5] = <<"size", 1>> /\ Negotiation[6] = <<"size", 2>>
  /\ Negotiation[7] = <<"zero">> /\ Negotiation[8] = <<"zero">>
<1> DEFINE S == {Password[1], Password[2], Magic[1], Magic[2], Size[1], Size[2],
                 Reserved[1], Reserved[2]}
<1>1. Password \in Seq(S) /\ Magic \in Seq(S) /\ Size \in Seq(S) /\ Reserved \in Seq(S)
  BY DEF Password, Magic, Size, Reserved
<1>2. Len(Password) = 2 /\ Len(Magic) = 2 /\ Len(Size) = 2 /\ Len(Reserved) = 2
  BY DEF Password, Magic, Size, Reserved
<1> HIDE DEF S
<1> DEFINE p == Password \o Magic
           q == p \o Size
           r == q \o Reserved
<1>3. /\ p \in Seq(S) /\ Len(p) = 4 /\ (\A i \in 1..2 : p[i] = Password[i])
      /\ p[3] = Magic[1] /\ p[4] = Magic[2]
  <2>1. p \in Seq(S) /\ Joins(p, Password, Magic)
    BY <1>1, <1>2, Joined
  <2> HIDE DEF p
  <2>2. QED
    BY <1>2, <2>1, SMT DEF Joins
<1> HIDE DEF p
<1>4. /\ q \in Seq(S) /\ Len(q) = 6 /\ (\A i \in 1..4 : q[i] = p[i])
      /\ q[5] = Size[1] /\ q[6] = Size[2]
  <2>1. q \in Seq(S) /\ Joins(q, p, Size)
    BY <1>1, <1>2, <1>3, Joined
  <2> HIDE DEF q
  <2>2. QED
    BY <1>2, <2>1, <1>3, SMT DEF Joins
<1> HIDE DEF q
<1>5. /\ r \in Seq(S) /\ Len(r) = 8 /\ (\A i \in 1..6 : r[i] = q[i])
      /\ r[7] = Reserved[1] /\ r[8] = Reserved[2]
  <2>1. r \in Seq(S) /\ Joins(r, q, Reserved)
    BY <1>1, <1>2, <1>4, Joined
  <2> HIDE DEF r
  <2>2. QED
    BY <1>2, <2>1, <1>4, SMT DEF Joins
<1> HIDE DEF r
<1>6. /\ r[1] = Password[1] /\ r[2] = Password[2] /\ r[3] = Magic[1] /\ r[4] = Magic[2]
      /\ r[5] = Size[1] /\ r[6] = Size[2]
  BY <1>3, <1>4, <1>5
<1>7. r = Negotiation
  BY DEF r, q, p, Negotiation
<1>8. QED
  BY <1>5, <1>6, <1>7, OfSeq DEF Password, Magic, Size, Reserved

LEMMA NoReply == \A i \in 1..8 : Negotiation[i][1] # "reply"
<1>1. \A i \in 1..8 : i = 1 \/ i = 2 \/ i = 3 \/ i = 4 \/ i = 5 \/ i = 6 \/ i = 7 \/ i = 8
  BY SMT
<1>2. QED
  BY <1>1, NegotiationIs
---------------------------------------------------------------------------
(* The beginning. *)

LEMMA NameTypes ==
  /\ NoName \in Names
  /\ exportname \in Exports => \A h \in Hosts \cup {NoName} : FileOf(h) \in Names
  BY DEF Names, FileOf

LEMMA SessionTypes == NoSession \in Process
  BY NameTypes DEF NoSession, Process, NoNumber

LEMMA InitServer == Init => ServerTypes
<1> SUFFICES ASSUME Init PROVE ServerTypes
  OBVIOUS
<1>1. listener \in [pc : {"accept", "peer", "auth", "exited"},
                    net : Connections \cup {NoNumber},
                    exportname2 : Names, clientname : Names]
  BY NameTypes DEF Init
<1>2. backlog \in Seq(Connections)
  BY EmptySeq DEF Init
<1>3. zombies \subseteq Pids
  BY RoomAssumption DEF Init
<1>4. session \in [Connections -> Process]
  BY SessionTypes DEF Init
<1>5. host \in [Connections -> Hosts \cup {NoName}]
  BY DEF Init
<1>6. \A f \in DOMAIN files : DOMAIN files[f] = Blocks
  BY DEF Init
<1>7. DOMAIN own = Connections /\ \A c \in Connections : DOMAIN own[c] = Blocks
  BY DEF Init
<1>8. exportname \in Exports /\ cow \in BOOLEAN
  BY DEF Init
<1>9. QED
  BY <1>1, <1>2, <1>3, <1>4, <1>5, <1>6, <1>7, <1>8 DEF ServerTypes

LEMMA InitClient == Init => ClientTypes
<1> SUFFICES ASSUME Init PROVE ClientTypes
  OBVIOUS
<1>1. DOMAIN device = Connections /\ DOMAIN down = Connections /\ DOMAIN up = Connections
  BY DEF Init
<1>2. SUFFICES ASSUME NEW c \in Connections PROVE ClientOf(c)
  BY <1>1 DEF ClientTypes
<1>3. device[c] = NoDevice /\ down[c] = <<>> /\ up[c] = <<>>
  BY DEF Init
<1>4. IsSeq(down[c]) /\ IsSeq(up[c]) /\ Len(up[c]) = 0
  BY <1>3, EmptyIs
<1>5. QED
  BY <1>3, <1>4 DEF ClientOf, NoDevice, DevicePcs

LEMMA InitStream == Init => StreamInv
<1> SUFFICES ASSUME Init, NEW c \in Connections PROVE Stream(c)
  BY DEF StreamInv
<1>1. /\ device[c].pc = "off" /\ device[c].answered = FALSE /\ down[c] = <<>>
      /\ lost = {} /\ session[c].pc = "none"
  BY DEF Init, NoDevice, NoSession
<1>2. QED
  BY <1>1 DEF Stream

LEMMA InitConn == Init => ConnInv
<1> SUFFICES ASSUME Init PROVE ConnInv
  OBVIOUS
<1>1. Len(backlog) = 0
  BY EmptySeq DEF Init
<1>2. \A c \in Connections : session[c] = NoSession
  BY DEF Init
<1>3. PlaceInv
  BY <1>1, <1>2, NumberAssumption DEF Init, PlaceInv, InBacklog, NoSession, NoNumber
<1>4. NameInv
  BY <1>2 DEF Init, NameInv, OwnExport, NoSession
<1>5. PidInv
  BY <1>2 DEF PidInv, PidOf, Serves, NoSession
<1>6. CowInv
  BY <1>2 DEF Init, CowInv, CowOf, NoSession
<1>7. QED
  BY <1>3, <1>4, <1>5, <1>6, InitServer, InitClient, InitStream DEF ConnInv

---------------------------------------------------------------------------
(* What a step leaves alone. *)

LEMMA SameStream ==
  ASSUME NEW e, Stream(e), device'[e] = device[e], down'[e] = down[e],
         session'[e].pc \in {"none", "start", "negotiate"} =>
           session[e].pc \in {"none", "start", "negotiate"},
         session'[e].pc = "loop" => session[e].pc = "loop",
         e \in lost => e \in lost',
         e \in lost' => e \in lost \/ down[e] = <<>>
  PROVE  Stream(e)'
<1>1. \A m : Left(e, m) => Left(e, m)'
  BY DEF Left
<1>2. QED
  BY <1>1 DEF Stream

(* A step of the clients, their kernels or the network. *)
LEMMA ClientSide ==
  ASSUME ConnInv, UNCHANGED <<server, exportname, cow, host>>,
         \A c \in Connections : device'[c].pc = "off" => device[c].pc = "off"
  PROVE  ServerTypes' /\ PlaceInv' /\ NameInv' /\ PidInv' /\ CowInv'
<1>1. UNCHANGED <<listener, backlog, session, zombies, files, diffs, own, exportname, cow, host>>
  BY DEF server
<1>2. ServerTypes'
  BY <1>1 DEF ConnInv, ServerTypes
<1>3. PlaceInv'
  BY <1>1 DEF ConnInv, PlaceInv, InBacklog
<1>4. NameInv'
  BY <1>1 DEF ConnInv, NameInv, OwnExport, FileOf
<1>5. PidInv'
  BY <1>1 DEF ConnInv, PidInv, PidOf, Serves
<1>6. CowInv'
  BY <1>1 DEF ConnInv, CowInv, CowOf, MapOf, DiffName
<1>7. QED
  BY <1>2, <1>3, <1>4, <1>5, <1>6
(* A step of the client of connection c, its kernel or its network. *)
Alone(c) ==
  /\ DOMAIN device' = Connections /\ DOMAIN down' = Connections /\ DOMAIN up' = Connections
  /\ \A e \in Connections \ {c} :
       /\ device'[e] = device[e] /\ down'[e] = down[e] /\ up'[e] = up[e]
       /\ e \in lost' <=> e \in lost

LEMMA ClientStep ==
  ASSUME ConnInv, NEW c \in Connections, UNCHANGED <<server, exportname, cow, host>>,
         Alone(c), device[c].pc # "off", device'[c].pc # "off", ClientOf(c)', Stream(c)'
  PROVE  ConnInv'
<1>1. \A e \in Connections \ {c} : ClientOf(e)'
  BY DEF ConnInv, ClientTypes, ClientOf, Alone
<1>2. ClientTypes'
  BY <1>1 DEF ClientTypes, Alone
<1>3. session' = session
  BY DEF server
<1>4. \A e \in Connections \ {c} : Stream(e)'
  BY <1>3, SameStream DEF ConnInv, StreamInv, Alone
<1>5. StreamInv'
  BY <1>4 DEF StreamInv
<1>6. \A e \in Connections : device'[e].pc = "off" => device[e].pc = "off"
  BY DEF Alone
<1>7. QED
  BY <1>2, <1>5, <1>6, ClientSide DEF ConnInv

(* The device is dropped: nothing is left to read. *)
LEMMA GoneStep ==
  ASSUME ConnInv, NEW c \in Connections, NEW pc \in {"failed", "done"}, Gone(c, pc),
         UNCHANGED <<server, exportname, cow, host, up, lost>>, device[c].pc # "off"
  PROVE  ConnInv'
<1>1. ClientTypes /\ ClientOf(c)
  BY DEF ConnInv, ClientTypes
<1>2. /\ device'[c] = [NoDevice EXCEPT !.pc = pc] /\ down'[c] = <<>> /\ up'[c] = up[c]
      /\ Alone(c)
  BY <1>1 DEF ClientTypes, Gone, Alone
<1>3. /\ device'[c].pc = pc /\ device'[c].answered = FALSE
      /\ DOMAIN device'[c] = {"pc", "size", "asked", "sent", "answered"}
  BY <1>2 DEF NoDevice
<1>4. ClientOf(c)'
  BY <1>1, <1>2, <1>3, EmptyIs DEF ClientOf, DevicePcs
<1>5. Stream(c)'
  BY <1>2, <1>3 DEF Stream
<1>6. QED
  BY <1>2, <1>3, <1>4, <1>5, ClientStep

LEMMA ClientFailsStep ==
  ASSUME ConnInv, NEW c \in Connections, ClientFails(c) PROVE ConnInv'
<1>1. device[c].pc # "off"
  BY DEF ClientFails, Is, Phases, ToSet
<1>2. QED
  BY <1>1, GoneStep DEF ClientFails

LEMMA ClosedStep == ASSUME ConnInv, NEW c \in Connections, Closed(c) PROVE ConnInv'
  BY GoneStep DEF Closed, Is

(* Nothing changes but the device's place. *)
LEMMA SetUpStep == ASSUME ConnInv, NEW c \in Connections, SetUp(c) PROVE ConnInv'
<1>1. ClientTypes /\ ClientOf(c) /\ Stream(c) /\ device[c].pc = "setup"
  BY DEF ConnInv, ClientTypes, StreamInv, SetUp, Is
<1>2. /\ device'[c] = [device[c] EXCEPT !.pc = "up"] /\ down'[c] = down[c] /\ up'[c] = up[c]
      /\ Alone(c) /\ UNCHANGED <<server, exportname, cow, host, lost, down, up>>
  BY <1>1 DEF ClientTypes, SetUp, Device, Alone
<1>3. /\ device'[c].pc = "up" /\ device'[c].answered = device[c].answered
      /\ device'[c].size = device[c].size
      /\ DOMAIN device'[c] = {"pc", "size", "asked", "sent", "answered"}
  BY <1>1, <1>2 DEF ClientOf
<1>4. ClientOf(c)'
  BY <1>1, <1>2, <1>3 DEF ClientOf, DevicePcs
<1>5. session' = session /\ \A m : Left(c, m) => Left(c, m)'
  BY <1>2 DEF server, Left
<1>6. Stream(c)'
  BY <1>1, <1>2, <1>3, <1>5 DEF Stream
<1>7. QED
  BY <1>1, <1>2, <1>3, <1>4, <1>6, ClientStep

LEMMA AskStep ==
  ASSUME ConnInv, NEW c \in Connections, NEW r \in Requests(c), Ask(c, r) PROVE ConnInv'
<1>1. ClientTypes /\ ClientOf(c) /\ Stream(c) /\ device[c].pc = "up"
  BY DEF ConnInv, ClientTypes, StreamInv, Ask, Is
<1>2. /\ device'[c] = [device[c] EXCEPT !.asked = <<r>>, !.sent = @ + 1]
      /\ up'[c] = Append(up[c], r) /\ down'[c] = down[c]
      /\ Alone(c) /\ UNCHANGED <<server, exportname, cow, host, lost, down>>
  BY <1>1 DEF ClientTypes, Ask, Alone
<1>3. /\ device'[c].pc = "up" /\ device'[c].answered = device[c].answered
      /\ device'[c].size = device[c].size
      /\ DOMAIN device'[c] = {"pc", "size", "asked", "sent", "answered"}
  BY <1>1, <1>2 DEF ClientOf
<1>4. /\ IsSeq(up'[c])
      /\ \A i \in 1..Len(up'[c]) :
           up'[c][i].type \in {"read", "write"} => up'[c][i].block \in Blocks
  <2>1. r.block \in Blocks
    BY DEF Requests
  <2>2. /\ IsSeq(up'[c]) /\ Len(up'[c]) = Len(up[c]) + 1
        /\ (\A i \in 1..Len(up[c]) : up'[c][i] = up[c][i]) /\ up'[c][Len(up[c]) + 1] = r
    BY <1>1, <1>2, AppendIs DEF ClientOf
  <2>3. Len(up[c]) \in Nat
    BY <1>1 DEF ClientOf, IsSeq
  <2>4. \A i \in 1..Len(up'[c]) : i \in 1..Len(up[c]) \/ i = Len(up[c]) + 1
    BY <2>2, <2>3, SMT
  <2>5. QED
    BY <1>1, <2>1, <2>2, <2>4 DEF ClientOf
<1>5. ClientOf(c)'
  BY <1>1, <1>2, <1>3, <1>4 DEF ClientOf, DevicePcs
<1>6. session' = session /\ \A m : Left(c, m) => Left(c, m)'
  BY <1>2 DEF server, Left
<1>7. Stream(c)'
  BY <1>1, <1>2, <1>3, <1>6 DEF Stream
<1>8. QED
  BY <1>1, <1>2, <1>3, <1>5, <1>7, ClientStep

LEMMA DisconnectStep ==
  ASSUME ConnInv, NEW c \in Connections, Disconnect(c) PROVE ConnInv'
<1> DEFINE r == [type |-> "disc", block |-> 0, value |-> 0]
<1>1. ClientTypes /\ ClientOf(c) /\ Stream(c) /\ device[c].pc = "up"
  BY DEF ConnInv, ClientTypes, StreamInv, Disconnect, Is
<1>2. /\ device'[c] = [device[c] EXCEPT !.asked = <<>>, !.pc = "closing"]
      /\ up'[c] = Append(up[c], r) /\ down'[c] = down[c]
      /\ Alone(c) /\ UNCHANGED <<server, exportname, cow, host, lost, down>>
  BY <1>1 DEF ClientTypes, Disconnect, Alone
<1>3. /\ device'[c].pc = "closing" /\ device'[c].answered = device[c].answered
      /\ device'[c].size = device[c].size
      /\ DOMAIN device'[c] = {"pc", "size", "asked", "sent", "answered"}
  BY <1>1, <1>2 DEF ClientOf
<1>4. r.type = "disc"
  OBVIOUS
<1> HIDE DEF r
<1>5. /\ IsSeq(up'[c])
      /\ \A i \in 1..Len(up'[c]) :
           up'[c][i].type \in {"read", "write"} => up'[c][i].block \in Blocks
  <2>1. /\ IsSeq(up'[c]) /\ Len(up'[c]) = Len(up[c]) + 1
        /\ (\A i \in 1..Len(up[c]) : up'[c][i] = up[c][i]) /\ up'[c][Len(up[c]) + 1] = r
    BY <1>1, <1>2, AppendIs DEF ClientOf
  <2>2. Len(up[c]) \in Nat
    BY <1>1 DEF ClientOf, IsSeq
  <2>3. \A i \in 1..Len(up'[c]) : i \in 1..Len(up[c]) \/ i = Len(up[c]) + 1
    BY <2>1, <2>2, SMT
  <2>4. QED
    BY <1>1, <1>4, <2>1, <2>3 DEF ClientOf
<1>6. ClientOf(c)'
  BY <1>1, <1>2, <1>3, <1>5 DEF ClientOf, DevicePcs
<1>7. session' = session
  BY <1>2 DEF server
<1>8. Stream(c)'
  BY <1>1, <1>2, <1>3, <1>7 DEF Stream
<1>9. QED
  BY <1>1, <1>2, <1>3, <1>6, <1>8, ClientStep
(* A reply can only be the first unit when none of the negotiation is left. *)
LEMMA NotAReply ==
  ASSUME NEW c, NEW m \in 1..4, Left(c, m), IsSeq(down[c]), down[c] # <<>>
  PROVE  Head(down[c])[1] # "reply"
<1>1. Head(down[c]) = down[c][1]
  BY TailIs
<1>2. 1 \in 1..m /\ 8 - m + 1 \in 1..8
  BY SMT
<1>3. down[c][1] = Negotiation[8 - m + 1]
  BY <1>2 DEF Left
<1>4. QED
  BY <1>1, <1>2, <1>3, NoReply

LEMMA ReceiveStep ==
  ASSUME ConnInv, NEW c \in Connections, Receive(c) PROVE ConnInv'
<1>1. ClientTypes /\ ClientOf(c) /\ Stream(c) /\ device[c].pc = "up"
  BY DEF ConnInv, ClientTypes, StreamInv, Receive, Is
<1>2. UNCHANGED <<server, exportname, cow, host, up, lost>> /\ session' = session
  BY DEF Receive, server
<1>3. CASE /\ down[c] # <<>> /\ Head(down[c])[1] = "reply"
           /\ device' = [device EXCEPT ![c].asked = <<>>, ![c].answered = TRUE]
           /\ down' = [down EXCEPT ![c] = Tail(@)]
  <2>1. /\ device'[c] = [device[c] EXCEPT !.asked = <<>>, !.answered = TRUE]
        /\ up'[c] = up[c] /\ down'[c] = Tail(down[c]) /\ Alone(c)
    BY <1>1, <1>2, <1>3 DEF ClientTypes, Alone
  <2>2. /\ device'[c].pc = "up" /\ device'[c].size = device[c].size
        /\ DOMAIN device'[c] = {"pc", "size", "asked", "sent", "answered"}
    BY <1>1, <2>1 DEF ClientOf
  <2>3. ClientOf(c)'
    <3>1. IsSeq(down[c])
      BY <1>1 DEF ClientOf
    <3>2. IsSeq(down'[c])
      BY <1>3, <2>1, <3>1, TailIs
    <3>3. QED
      BY <1>1, <2>1, <2>2, <3>2 DEF ClientOf
  <2>4. c \notin lost /\ session[c].pc \notin {"none", "start", "negotiate"}
    BY <1>1, <1>3 DEF Stream
  <2>5. device[c].size = "right"
    <3>1. \A m \in 1..4 : ~ Left(c, m)
      BY <1>1, <1>3, NotAReply DEF ClientOf
    <3>2. QED
      BY <1>1, <2>4, <3>1 DEF Stream
  <2>6. Stream(c)'
    BY <1>2, <2>2, <2>4, <2>5 DEF Stream
  <2>7. QED
    BY <1>1, <1>2, <2>1, <2>2, <2>3, <2>6, ClientStep
<1>4. CASE Device(c, "closing") /\ UNCHANGED down
  <2>1. /\ device'[c] = [device[c] EXCEPT !.pc = "closing"]
        /\ up'[c] = up[c] /\ down'[c] = down[c] /\ Alone(c)
    BY <1>1, <1>2, <1>4 DEF ClientTypes, Alone, Device
  <2>2. /\ device'[c].pc = "closing" /\ device'[c].size = device[c].size
        /\ device'[c].answered = device[c].answered
        /\ DOMAIN device'[c] = {"pc", "size", "asked", "sent", "answered"}
    BY <1>1, <2>1 DEF ClientOf
  <2>3. ClientOf(c)'
    BY <1>1, <2>1, <2>2 DEF ClientOf, DevicePcs
  <2>4. Stream(c)'
    BY <1>1, <1>2, <2>1, <2>2 DEF Stream
  <2>5. QED
    BY <1>1, <1>2, <2>1, <2>2, <2>3, <2>4, ClientStep
<1>5. QED
  BY <1>3, <1>4 DEF Receive

LEMMA LoseStep == ASSUME ConnInv, NEW c \in Connections, Lose(c) PROVE ConnInv'
<1>1. ClientTypes /\ ClientOf(c) /\ Stream(c) /\ device[c].pc # "off"
  BY DEF ConnInv, ClientTypes, StreamInv, Lose, ClientHolds
<1>2. /\ device'[c] = device[c] /\ up'[c] = <<>> /\ down'[c] = <<>> /\ Alone(c)
      /\ UNCHANGED <<server, exportname, cow, host>> /\ c \in lost'
  BY <1>1 DEF ClientTypes, Alone, Lose
<1>3. ClientOf(c)'
  BY <1>1, <1>2, EmptyIs DEF ClientOf
<1>4. session' = session
  BY <1>2 DEF server
<1>5. Stream(c)'
  BY <1>1, <1>2, <1>4 DEF Stream
<1>6. QED
  BY <1>1, <1>2, <1>3, <1>5, ClientStep

(* Reading n units of what is left of the negotiation. *)
LEMMA ReadOn ==
  ASSUME NEW c, NEW m \in 0..8, NEW n \in 0..m, IsSeq(down[c]), Left(c, m),
         down'[c] = SubSeq(down[c], n + 1, Len(down[c]))
  PROVE  Left(c, m - n)'
<1>1. m <= Len(down[c]) /\ Len(down[c]) \in Nat /\ n <= Len(down[c]) /\ n \in Nat
  BY DEF Left, IsSeq
<1>2. /\ Len(down'[c]) = Len(down[c]) - n
      /\ \A i \in 1..(Len(down[c]) - n) : down'[c][i] = down[c][n + i]
  BY <1>1, RestIs
<1>3. ASSUME NEW i \in 1..(m - n)
      PROVE  down'[c][i] = Negotiation[8 - (m - n) + i]
  <2>1. n + i \in 1..m /\ i \in 1..(Len(down[c]) - n) /\ 8 - m + (n + i) = 8 - (m - n) + i
    BY <1>1, SMT
  <2>2. down[c][n + i] = Negotiation[8 - m + (n + i)]
    BY <2>1 DEF Left
  <2>3. QED
    BY <1>2, <2>1, <2>2
<1>4. m - n <= Len(down'[c])
  BY <1>1, <1>2, SMT
<1>5. QED
  BY <1>3, <1>4 DEF Left

LEMMA PhaseIs ==
  /\ ToSet(Phases) = {"password", "magic", "size", "reserved"}
  /\ \A p \in ToSet(Phases) : AskedFor(p) = 2
<1>1. ToSet(Phases) = {"password", "magic", "size", "reserved"}
  <2>1. DOMAIN Phases = 1..4
    BY DEF Phases
  <2>2. \A i \in 1..4 : i = 1 \/ i = 2 \/ i = 3 \/ i = 4
    BY SMT
  <2>3. Phases[1] = "password" /\ Phases[2] = "magic" /\ Phases[3] = "size" /\ Phases[4] = "reserved"
    BY DEF Phases
  <2>4. 1 \in 1..4 /\ 2 \in 1..4 /\ 3 \in 1..4 /\ 4 \in 1..4
    BY SMT
  <2>5. QED
    BY <2>1, <2>2, <2>3, <2>4 DEF ToSet
<1>2. \A p \in ToSet(Phases) : Len(Word[p]) = 2
  BY <1>1 DEF Word, Password, Magic, Size, Reserved
<1>3. QED
  BY <1>1, <1>2 DEF AskedFor
LEMMA ReadWordStep ==
  ASSUME ConnInv, NEW c \in Connections, NEW n \in 0..4, ReadWord(c, n) PROVE ConnInv'
<1> DEFINE phase == device[c].pc
           got == SubSeq(down[c], 1, n)
<1>1. /\ ClientTypes /\ ClientOf(c) /\ Stream(c)
      /\ phase \in {"password", "magic", "size", "reserved"} /\ c \notin lost
      /\ n <= 2 /\ n <= Len(down[c]) /\ (n = 0 => down[c] = <<>>)
  BY PhaseIs DEF ConnInv, ClientTypes, StreamInv, ReadWord, CanRead
<1>2. UNCHANGED <<server, exportname, cow, host, up, lost, faults>> /\ session' = session
  BY DEF ReadWord, server
<1>3. IsSeq(down[c]) /\ Len(down[c]) \in Nat /\ n \in Nat
  BY <1>1 DEF ClientOf, IsSeq
<1>4. Len(got) = n /\ got = [i \in 1..n |-> down[c][i]]
  BY <1>1, <1>3, FirstIs
<1>5. CASE Gone(c, "failed")
  BY <1>1, <1>2, <1>5, GoneStep
<1>6. ASSUME NEW next \in Understood(phase, got) \ {"failed"},
             down' = [down EXCEPT ![c] = SubSeq(@, n + 1, Len(@))],
             device' = [device EXCEPT ![c].pc = next,
                          ![c].size = IF ~ Is(c, "size") THEN @
                                      ELSE IF got = Size THEN "right" ELSE "wrong"]
      PROVE  ConnInv'
  <2> HIDE DEF got
  <2>1. /\ Alone(c) /\ up'[c] = up[c] /\ down'[c] = SubSeq(down[c], n + 1, Len(down[c]))
        /\ device'[c] = [device[c] EXCEPT !.pc = next,
                           !.size = IF phase # "size" THEN @
                                    ELSE IF got = Size THEN "right" ELSE "wrong"]
    BY <1>1, <1>2, <1>6 DEF ClientTypes, Alone, Is
  <2>2. /\ device'[c].pc = next /\ device'[c].answered = device[c].answered
        /\ device'[c].size = IF phase # "size" THEN device[c].size
                             ELSE IF got = Size THEN "right" ELSE "wrong"
        /\ DOMAIN device'[c] = {"pc", "size", "asked", "sent", "answered"}
    BY <1>1, <2>1 DEF ClientOf
  <2>3. IsSeq(down'[c])
    BY <1>1, <1>3, <2>1, RestIs
  <2>4. \A m \in 1..8 : Left(c, m) => n \in {1, 2}
    <3>1. ASSUME NEW m \in 1..8, Left(c, m), n = 0 PROVE FALSE
      <4>1. Len(down[c]) = 0
        BY <1>1, <3>1, EmptyIs
      <4>2. QED
        BY <3>1, <4>1, SMT DEF Left
    <3>2. n = 0 \/ n = 1 \/ n = 2
      BY <1>1, <1>3, SMT
    <3>3. QED
      BY <3>1, <3>2
  <2>5. \A m \in 2..8 : Left(c, m) => Left(c, m - n)'
    <3>1. ASSUME NEW m \in 2..8, Left(c, m) PROVE Left(c, m - n)'
      <4>1. m \in 0..8 /\ n \in 0..m
        BY <1>1, <1>3, SMT
      <4>2. QED
        BY <1>3, <2>1, <3>1, <4>1, ReadOn
    <3>2. QED
      BY <3>1
  <2>6. ~ device[c].answered
    BY <1>1 DEF Stream
  <2>7. CASE phase = "password"
    <3>1. got = Password /\ next = "magic"
      BY <1>6, <2>7 DEF Understood, Word, After
    <3>2. n = 2
      BY <1>4, <3>1 DEF Password, got
    <3>3. Len(down[c]) # 0 /\ down[c] # <<>>
      <4>1. Len(down[c]) # 0
        BY <1>1, <3>2, <1>3, SMT
      <4>2. QED
        BY <4>1, EmptyIs
    <3>4. Left(c, 8) /\ session[c].pc \notin {"none", "start", "negotiate"}
      BY <1>1, <2>7, <3>3 DEF Stream
    <3>5. 8 \in 2..8 /\ 8 - n = 6
      BY <3>2
    <3>6. Left(c, 6)'
      <4>1. Left(c, 8 - n)'
        BY <2>5, <3>4, <3>5
      <4>2. QED
        BY <3>5, <4>1
    <3>7. ClientOf(c)'
      BY <1>1, <2>1, <2>2, <2>3, <3>1 DEF ClientOf, DevicePcs
    <3>8. Stream(c)'
      BY <1>1, <1>2, <2>2, <2>6, <3>1, <3>4, <3>6 DEF Stream
    <3>9. QED
      BY <1>1, <1>2, <2>1, <2>2, <3>1, <3>7, <3>8, ClientStep
  <2>8. CASE phase = "magic"
    <3>1. next = "size"
      BY <1>6, <2>8 DEF Understood, Word, After
    <3>2. Left(c, 6) /\ session[c].pc \notin {"none", "start", "negotiate"}
      BY <1>1, <2>8 DEF Stream
    <3>3. 6 \in 2..8 /\ 6 \in 1..8 /\ 6 - 1 = 5 /\ 6 - 2 = 4
      BY SMT
    <3>4. n \in {1, 2} /\ Left(c, 6 - n)'
      BY <2>4, <2>5, <3>2, <3>3
    <3>5. Left(c, 4)' \/ Left(c, 5)'
      BY <3>3, <3>4
    <3>6. ClientOf(c)'
      BY <1>1, <2>1, <2>2, <2>3, <3>1 DEF ClientOf, DevicePcs
    <3>7. Stream(c)'
      BY <1>1, <1>2, <2>2, <2>6, <3>1, <3>2, <3>5 DEF Stream
    <3>8. QED
      BY <1>1, <1>2, <2>1, <2>2, <3>1, <3>6, <3>7, ClientStep
  <2>9. CASE phase = "size"
    <3>1. next = "reserved" /\ device'[c].size \in {"right", "wrong"}
      BY <1>6, <2>2, <2>9 DEF Understood, Word, After
    <3>2. (Left(c, 4) \/ Left(c, 5)) /\ session[c].pc \notin {"none", "start", "negotiate"}
      BY <1>1, <2>9 DEF Stream
    <3>3. /\ 4 \in 2..8 /\ 4 \in 1..8 /\ 4 - 1 = 3 /\ 4 - 2 = 2
          /\ 5 \in 2..8 /\ 5 \in 1..8 /\ 5 - 1 = 4 /\ 5 - 2 = 3
      BY SMT
    <3>4. /\ Left(c, 4) => n \in {1, 2} /\ Left(c, 4 - n)'
          /\ Left(c, 5) => n \in {1, 2} /\ Left(c, 5 - n)'
      BY <2>4, <2>5, <3>3
    <3>5. Left(c, 4) /\ n = 2 => device'[c].size = "right"
      <4>1. SUFFICES ASSUME Left(c, 4), n = 2 PROVE device'[c].size = "right"
        OBVIOUS
      <4>2. 8 - 4 + 1 = 5 /\ 8 - 4 + 2 = 6 /\ 1 \in 1..4 /\ 2 \in 1..4
        BY SMT
      <4>3. down[c][1] = Negotiation[5] /\ down[c][2] = Negotiation[6]
        BY <4>1, <4>2 DEF Left
      <4>4. \A i \in 1..2 : i = 1 \/ i = 2
        BY SMT
      <4>5. got = [i \in 1..2 |-> IF i = 1 THEN Size[1] ELSE Size[2]]
        BY <1>4, <4>1, <4>3, <4>4, NegotiationIs DEF Size, got
      <4>6. Size = [i \in 1..2 |-> IF i = 1 THEN Size[1] ELSE Size[2]]
        BY DEF Size
      <4>7. QED
        BY <2>2, <2>9, <4>5, <4>6
    <3>6. \/ Left(c, 2)' /\ device'[c].size = "right"
          \/ Left(c, 3)' \/ Left(c, 4)'
      BY <3>2, <3>3, <3>4, <3>5
    <3>7. ClientOf(c)'
      BY <1>1, <2>1, <2>2, <2>3, <3>1 DEF ClientOf, DevicePcs
    <3>8. Stream(c)'
      BY <1>1, <1>2, <2>2, <2>6, <3>1, <3>2, <3>6 DEF Stream
    <3>9. QED
      BY <1>1, <1>2, <2>1, <2>2, <3>1, <3>7, <3>8, ClientStep
  <2>10. CASE phase = "reserved"
    <3>1. next = "setup" /\ device'[c].size = device[c].size
      BY <1>6, <2>2, <2>10 DEF Understood, Word, After
    <3>2. /\ \/ Left(c, 2) /\ device[c].size = "right"
             \/ Left(c, 3) \/ Left(c, 4)
          /\ device[c].size \in {"right", "wrong"}
          /\ session[c].pc \notin {"none", "start", "negotiate"}
      BY <1>1, <2>10 DEF Stream
    <3>3. /\ 3 \in 2..8 /\ 3 \in 1..8 /\ 3 - 1 \in 1..4 /\ 3 - 2 \in 1..4
          /\ 4 \in 2..8 /\ 4 \in 1..8 /\ 4 - 1 \in 1..4 /\ 4 - 2 \in 1..4
      BY SMT
    <3>4. device[c].size = "wrong" => \E m \in 1..4 : Left(c, m)'
      <4>1. CASE Left(c, 3)
        <5>1. n \in {1, 2} /\ Left(c, 3 - n)'
          BY <2>4, <2>5, <3>3, <4>1
        <5>2. QED
          BY <3>3, <5>1
      <4>2. CASE Left(c, 4)
        <5>1. n \in {1, 2} /\ Left(c, 4 - n)'
          BY <2>4, <2>5, <3>3, <4>2
        <5>2. QED
          BY <3>3, <5>1
      <4>3. QED
        BY <3>2, <4>1, <4>2
    <3>5. ClientOf(c)'
      BY <1>1, <2>1, <2>2, <2>3, <3>1 DEF ClientOf, DevicePcs
    <3>6. Stream(c)'
      BY <1>1, <1>2, <2>2, <2>6, <3>1, <3>2, <3>4 DEF Stream
    <3>7. QED
      BY <1>1, <1>2, <2>1, <2>2, <3>1, <3>5, <3>6, ClientStep
  <2>11. QED
    BY <1>1, <2>7, <2>8, <2>9, <2>10
<1>7. QED
  BY <1>5, <1>6 DEF ReadWord
---------------------------------------------------------------------------
(* The listener. *)

SameFields(e) ==
  /\ session'[e].pc = session[e].pc /\ session'[e].pid = session[e].pid
  /\ session'[e].exportname2 = session[e].exportname2
  /\ session'[e].clientname = session[e].clientname
  /\ session'[e].difmap = session[e].difmap
  /\ session'[e].difffilelen = session[e].difffilelen

LEMMA SameCow ==
  ASSUME NEW e, CowOf(e), SameFields(e), own'[e] = own[e], cow' = cow,
         DOMAIN files' = DOMAIN files,
         cow /\ session[e].pc \in {"negotiate", "loop"} =>
           LET f == DiffName(session[e])
           IN  f \in DOMAIN diffs => f \in DOMAIN diffs' /\ diffs'[f] = diffs[f]
  PROVE  CowOf(e)'
<1>1. DiffName(session[e])' = DiffName(session[e])
  BY DEF DiffName, SameFields
<1>2. cow /\ session[e].pc \in {"negotiate", "loop"} => MapOf(e)'
  <2>1. SUFFICES ASSUME cow, session[e].pc \in {"negotiate", "loop"} PROVE MapOf(e)'
    OBVIOUS
  <2>2. MapOf(e)
    BY <2>1 DEF CowOf
  <2> DEFINE f == DiffName(session[e])
  <2>3. f \in DOMAIN diffs' /\ diffs'[f] = diffs[f]
    BY <2>1, <2>2 DEF MapOf
  <2>4. session'[e].difmap = session[e].difmap
        /\ session'[e].difffilelen = session[e].difffilelen /\ own'[e] = own[e]
    BY DEF SameFields
  <2> HIDE DEF f
  <2>5. DiffName(session[e])' = f /\ DiffName(session[e]) = f
    BY <1>1 DEF f
  <2>6. QED
    BY <2>2, <2>3, <2>4, <2>5 DEF MapOf
<1>3. QED
  BY <1>2 DEF CowOf, SameFields

LEMMA ListenerStep ==
  ASSUME ConnInv, UNCHANGED <<exportname, cow, host, device, down, up, files, diffs, own>>,
         \A e \in Connections : e \in lost => e \in lost',
         \A e \in Connections : e \in lost' => e \in lost \/ session[e].pc = "none",
         \A e \in Connections : SameFields(e),
         ServerTypes', PlaceInv', zombies' \subseteq zombies,
         listener'.pc = "auth" => /\ listener'.clientname = host[listener'.net]
                                  /\ listener'.exportname2 = FileOf(host[listener'.net])
  PROVE  ConnInv'
<1>1. ClientTypes'
  BY DEF ConnInv, ClientTypes, ClientOf
<1>2. ASSUME NEW e \in Connections PROVE Stream(e)'
  <2>1. Stream(e) /\ session'[e].pc = session[e].pc
    BY DEF ConnInv, StreamInv, SameFields
  <2>2. session[e].pc = "none" => down[e] = <<>>
    BY <2>1 DEF Stream
  <2>3. QED
    BY <2>1, <2>2, SameStream
<1>3. NameInv'
  BY DEF ConnInv, NameInv, OwnExport, FileOf, SameFields
<1>4. ASSUME NEW e \in Connections PROVE PidOf(e)'
  BY DEF ConnInv, PidInv, PidOf, Serves, SameFields
<1>5. ASSUME NEW e \in Connections PROVE CowOf(e)'
  BY SameCow DEF ConnInv, CowInv
<1>6. cow' => \A f \in DOMAIN files' : \A b \in Blocks : files'[f][b] = Orig(b)
  BY DEF ConnInv, CowInv
<1>7. QED
  BY <1>1, <1>2, <1>3, <1>4, <1>5, <1>6 DEF ConnInv, StreamInv, PidInv, CowInv

LEMMA AcceptStep == ConnInv /\ Accept => ConnInv'
<1> SUFFICES ASSUME ConnInv, Accept PROVE ConnInv'
  OBVIOUS
<1> DEFINE net == Head(backlog)
<1>1. /\ backlog \in Seq(Connections) /\ backlog # <<>> /\ PlaceInv /\ ServerTypes
      /\ listener.net = NoNumber
  BY DEF ConnInv, ServerTypes, Accept, PlaceInv
<1>2. IsSeq(backlog) /\ Len(backlog) \in Nat \ {0}
  BY <1>1, OfSeq, LongIs
<1>3. /\ net = backlog[1] /\ net \in Connections /\ Tail(backlog) \in Seq(Connections)
      /\ Len(Tail(backlog)) = Len(backlog) - 1
      /\ \A i \in 1..(Len(backlog) - 1) : Tail(backlog)[i] = backlog[i + 1]
  BY <1>1, <1>2, TailIs, HeadTailProperties
<1>4. /\ backlog' = Tail(backlog) /\ listener' = [listener EXCEPT !.pc = "peer", !.net = net]
      /\ UNCHANGED <<exportname, cow, host, down, up, lost, session, zombies, files,
                     diffs, device, faults, own>>
  BY DEF Accept
<1>5. listener'.pc = "peer" /\ listener'.net = net
  BY <1>1, <1>4 DEF ServerTypes
<1> HIDE DEF net
<1>6. ServerTypes'
  BY <1>1, <1>3, <1>4 DEF ServerTypes
<1>7. 1 \in 1..Len(backlog)
  BY <1>2, SMT
<1>8. InBacklog(net)
  BY <1>3, <1>7 DEF InBacklog
<1>9. \A i \in 1..Len(backlog') : i + 1 \in 1..Len(backlog) /\ backlog'[i] = backlog[i + 1] /\ i + 1 # 1
  BY <1>2, <1>3, <1>4, SMT
<1>10. \A c \in Connections : InBacklog(c)' => InBacklog(c) /\ c # net
  <2>1. ASSUME NEW c \in Connections, NEW i \in 1..Len(backlog'), backlog'[i] = c
        PROVE  InBacklog(c) /\ c # net
    <3>1. i + 1 \in 1..Len(backlog) /\ backlog[i + 1] = c /\ i + 1 # 1
      BY <1>9, <2>1
    <3>2. QED
      BY <1>1, <1>3, <1>7, <3>1 DEF InBacklog, PlaceInv
  <2>2. QED
    BY <2>1 DEF InBacklog
<1>11. \A i, j \in 1..Len(backlog') : backlog'[i] = backlog'[j] => i = j
  <2>1. ASSUME NEW i \in 1..Len(backlog'), NEW j \in 1..Len(backlog'), backlog'[i] = backlog'[j]
        PROVE  i = j
    <3>1. i + 1 \in 1..Len(backlog) /\ j + 1 \in 1..Len(backlog) /\ backlog[i + 1] = backlog[j + 1]
      BY <1>9, <2>1
    <3>2. i + 1 = j + 1
      BY <1>1, <3>1 DEF PlaceInv
    <3>3. QED
      BY <3>2, <1>2, SMT
  <2>2. QED
    BY <2>1
<1>12. net # NoNumber
  BY <1>3, NumberAssumption
<1>13. PlaceInv'
  <2>1. ASSUME NEW c \in Connections
        PROVE  /\ InBacklog(c)' \/ net = c => session[c].pc = "none"
               /\ InBacklog(c)' => net # c
               /\ device[c].pc = "off" => ~ InBacklog(c)' /\ net # c /\ session[c].pc = "none"
    BY <1>1, <1>3, <1>8, <1>10 DEF PlaceInv
  <2>2. QED
    BY <1>4, <1>5, <1>11, <1>12, <2>1 DEF PlaceInv
<1>14. \A e \in Connections : SameFields(e)
  BY <1>4 DEF SameFields
<1>15. QED
  BY <1>4, <1>5, <1>6, <1>13, <1>14, ListenerStep

(* The listener ends, or is started again. *)
LEMMA GoneFields ==
  ASSUME ServerTypes, ListenerGone
  PROVE  session' \in [Connections -> Process] /\ \A e \in Connections : SameFields(e)
<1>1. session' = [e \in Connections |-> [session[e] EXCEPT !.orphan = TRUE]]
  BY DEF ListenerGone
<1>2. ASSUME NEW e \in Connections PROVE session'[e] \in Process /\ SameFields(e)
  <2>1. session[e] \in Process /\ session'[e] = [session[e] EXCEPT !.orphan = TRUE]
    BY <1>1 DEF ServerTypes
  <2>2. QED
    BY <2>1 DEF Process, SameFields
<1>3. QED
  BY <1>1, <1>2

LEMMA GoneListenerStep ==
  ASSUME ConnInv, ListenerGone, UNCHANGED <<exportname, cow, host, device, down, up, files, diffs, own>>,
         listener' \in [pc : {"accept", "exited"}, net : {NoNumber},
                        exportname2 : Names, clientname : Names]
  PROVE  ConnInv'
<1>1. ServerTypes /\ PlaceInv /\ backlog \in Seq(Connections) /\ backlog' = <<>> /\ zombies' = {}
      /\ lost' = lost \cup ToSet(backlog) \cup ({listener.net} \ {NoNumber})
  BY DEF ConnInv, ServerTypes, ListenerGone
<1>2. session' \in [Connections -> Process] /\ \A e \in Connections : SameFields(e)
  BY <1>1, GoneFields
<1>3. /\ listener' \in [pc : {"accept", "peer", "auth", "exited"},
                        net : Connections \cup {NoNumber},
                        exportname2 : Names, clientname : Names]
      /\ listener'.pc \in {"accept", "exited"} /\ listener'.net = NoNumber
  OBVIOUS
<1>4. backlog' \in Seq(Connections) /\ Len(backlog') = 0
  <2>1. Len(<<>>) = 0
    BY EmptySeq
  <2>2. QED
    BY <1>1, <2>1, EmptySeq
<1>5. ServerTypes'
  BY <1>1, <1>2, <1>3, <1>4 DEF ServerTypes
<1>6. \A e \in Connections : ~ InBacklog(e)'
  BY <1>4 DEF InBacklog
<1>7. PlaceInv'
  BY <1>1, <1>2, <1>3, <1>4, <1>6, NumberAssumption DEF PlaceInv, SameFields
<1>8. \A e \in Connections : e \in ToSet(backlog) => InBacklog(e)
  <2>1. DOMAIN backlog = 1..Len(backlog)
    BY <1>1, LenProperties
  <2>2. QED
    BY <2>1 DEF ToSet, InBacklog
<1>9. \A e \in Connections : e \in lost' => e \in lost \/ session[e].pc = "none"
  BY <1>1, <1>8 DEF PlaceInv
<1>10. QED
  BY <1>1, <1>2, <1>3, <1>5, <1>7, <1>9, ListenerStep

LEMMA RestartStep == ConnInv /\ Restart => ConnInv'
<1> SUFFICES ASSUME ConnInv, Restart PROVE ConnInv'
  OBVIOUS
<1>1. listener' \in [pc : {"accept", "exited"}, net : {NoNumber},
                     exportname2 : Names, clientname : Names]
  BY NameTypes DEF Restart
<1>2. QED
  BY <1>1, GoneListenerStep DEF Restart
LEMMA SetPeernameStep == ConnInv /\ SetPeername => ConnInv'
<1> SUFFICES ASSUME ConnInv, SetPeername PROVE ConnInv'
  OBVIOUS
<1> DEFINE net == listener.net
<1>1. /\ ServerTypes /\ PlaceInv /\ listener.pc = "peer" /\ net \in Connections
      /\ UNCHANGED <<exportname, cow, host, down, up, files, diffs, device, faults, own>>
  BY DEF ConnInv, SetPeername, ServerTypes, PlaceInv
<1>2. CASE listener' = NamesOf(net) /\ UNCHANGED <<backlog, lost, session, zombies>>
  <2>1. FileOf(host[net]) \in Names /\ host[net] \in Names
    BY <1>1, NameTypes DEF ServerTypes, Names
  <2>2. listener' = [listener EXCEPT !.pc = "auth", !.clientname = host[net],
                                     !.exportname2 = FileOf(host[net])]
    BY <1>2 DEF NamesOf
  <2>3. /\ listener'.pc = "auth" /\ listener'.net = net
        /\ listener'.clientname = host[net] /\ listener'.exportname2 = FileOf(host[net])
    BY <1>1, <2>2 DEF ServerTypes
  <2>4. ServerTypes'
    BY <1>1, <1>2, <2>1, <2>2 DEF ServerTypes
  <2>5. PlaceInv'
    BY <1>1, <1>2, <2>3 DEF PlaceInv, InBacklog
  <2>6. \A e \in Connections : SameFields(e)
    BY <1>2 DEF SameFields
  <2>7. QED
    BY <1>1, <1>2, <2>3, <2>4, <2>5, <2>6, ListenerStep
<1>3. CASE Listener("exited") /\ ListenerGone
  <2>1. listener' = [listener EXCEPT !.pc = "exited", !.net = NoNumber]
    BY <1>3 DEF Listener
  <2>2. listener' \in [pc : {"accept", "exited"}, net : {NoNumber},
                       exportname2 : Names, clientname : Names]
    BY <1>1, <2>1 DEF ServerTypes
  <2>3. QED
    BY <1>1, <1>3, <2>2, GoneListenerStep
<1>4. QED
  BY <1>2, <1>3 DEF SetPeername

(* The listener goes back to accept. *)
LEMMA BackStep ==
  ASSUME ServerTypes, PlaceInv, Listener("accept")
  PROVE  /\ listener' \in [pc : {"accept", "peer", "auth", "exited"},
                           net : Connections \cup {NoNumber},
                           exportname2 : Names, clientname : Names]
         /\ listener'.pc = "accept" /\ listener'.net = NoNumber
  BY DEF ServerTypes, Listener

LEMMA RefuseStep ==
  ASSUME ConnInv, Listener("accept"),
         UNCHANGED <<exportname, cow, backlog, host, down, up, lost, session, zombies,
                     files, diffs, device, own>>
  PROVE  ConnInv'
<1>1. ServerTypes /\ PlaceInv
  BY DEF ConnInv
<1>2. /\ listener' \in [pc : {"accept", "peer", "auth", "exited"},
                        net : Connections \cup {NoNumber},
                        exportname2 : Names, clientname : Names]
      /\ listener'.pc = "accept" /\ listener'.net = NoNumber
  BY <1>1, BackStep
<1>3. ServerTypes'
  BY <1>1, <1>2 DEF ServerTypes
<1>4. PlaceInv'
  BY <1>1, <1>2, NumberAssumption DEF PlaceInv, InBacklog
<1>5. \A e \in Connections : SameFields(e)
  BY DEF SameFields
<1>6. QED
  BY <1>2, <1>3, <1>4, <1>5, ListenerStep

(* The new process has a number nobody else has, and the listener's names. *)
LEMMA ForkStep == ConnInv /\ Fork => ConnInv'
<1> SUFFICES ASSUME ConnInv, Fork PROVE ConnInv'
  OBVIOUS
<1>1. PICK net \in Connections : net = listener.net
  BY DEF ConnInv, Fork, ServerTypes, PlaceInv
<1>2. /\ ServerTypes /\ PlaceInv /\ NameInv /\ PidInv /\ CowInv /\ ClientTypes /\ StreamInv
      /\ listener.pc = "auth"
      /\ UNCHANGED <<exportname, cow, backlog, host, down, up, lost, zombies, files,
                     diffs, device, faults, own>>
  BY DEF ConnInv, Fork
<1>3. PICK pid \in Pids \ Children :
        session' = [session EXCEPT ![net] =
                      [NoSession EXCEPT !.pc = "start", !.pid = pid,
                                        !.exportname2 = listener.exportname2,
                                        !.clientname = listener.clientname]]
  BY <1>1 DEF Fork
<1>4. /\ listener' \in [pc : {"accept", "peer", "auth", "exited"},
                        net : Connections \cup {NoNumber},
                        exportname2 : Names, clientname : Names]
      /\ listener'.pc = "accept" /\ listener'.net = NoNumber
  BY <1>2, BackStep DEF Fork
<1>5. /\ pid # NoNumber /\ pid \in Pids /\ pid \notin zombies
      /\ \A e \in Connections : session[e].pid # pid
  BY <1>3, RoomAssumption DEF Children
<1>6. /\ session'[net].pc = "start" /\ session'[net].pid = pid
      /\ session'[net].exportname2 = listener.exportname2
      /\ session'[net].clientname = listener.clientname
      /\ session'[net].difmap = [b \in Blocks |-> NoNumber]
      /\ session'[net] \in Process
  <2>1. session'[net] = [NoSession EXCEPT !.pc = "start", !.pid = pid,
                                          !.exportname2 = listener.exportname2,
                                          !.clientname = listener.clientname]
    BY <1>2, <1>3 DEF ServerTypes
  <2>2. session'[net].difmap = [b \in Blocks |-> NoNumber]
    BY <2>1 DEF NoSession
  <2>3. session'[net] \in Process
    BY <1>2, <1>5, <2>1, SessionTypes DEF Process, ServerTypes
  <2>4. /\ session'[net].pc = "start" /\ session'[net].pid = pid
        /\ session'[net].exportname2 = listener.exportname2
        /\ session'[net].clientname = listener.clientname
    BY <2>1 DEF NoSession
  <2>5. QED
    BY <2>2, <2>3, <2>4
<1>7. \A e \in Connections \ {net} : session'[e] = session[e]
  BY <1>2, <1>3 DEF ServerTypes
<1>8. session' \in [Connections -> Process]
  BY <1>2, <1>3, <1>6 DEF ServerTypes
<1>9. ServerTypes'
  BY <1>2, <1>4, <1>8 DEF ServerTypes
<1>10. /\ session[net].pc = "none" /\ device[net].pc # "off" /\ ~ InBacklog(net)
  BY <1>1, <1>2 DEF PlaceInv
<1>11. PlaceInv'
  BY <1>2, <1>4, <1>7, <1>10, NumberAssumption DEF PlaceInv, InBacklog
<1>12. NameInv'
  <2>1. listener.clientname = host[net] /\ listener.exportname2 = FileOf(host[net])
    BY <1>1, <1>2 DEF NameInv
  <2>2. QED
    BY <1>2, <1>4, <1>6, <1>7, <2>1 DEF NameInv, OwnExport, FileOf
<1>13. PidInv'
  <2>1. ASSUME NEW e \in Connections PROVE PidOf(e)'
    BY <1>2, <1>5, <1>6, <1>7 DEF PidInv, PidOf, Serves
  <2>2. QED
    BY <2>1 DEF PidInv
<1>14. CowInv'
  <2>1. CowOf(net)'
    BY <1>2, <1>6, <1>10 DEF CowInv, CowOf
  <2>2. ASSUME NEW e \in Connections \ {net} PROVE CowOf(e)'
    <3>1. SameFields(e)
      BY <1>7 DEF SameFields
    <3>2. QED
      BY <1>2, <3>1, SameCow DEF CowInv
  <2>3. QED
    BY <1>2, <2>1, <2>2 DEF CowInv
<1>15. ClientTypes'
  BY <1>2 DEF ClientTypes, ClientOf
<1>16. StreamInv'
  <2>1. ASSUME NEW e \in Connections PROVE Stream(e)'
    BY <1>2, <1>6, <1>7, <1>10, SameStream DEF StreamInv
  <2>2. QED
    BY <2>1 DEF StreamInv
<1>17. QED
  BY <1>9, <1>11, <1>12, <1>13, <1>14, <1>15, <1>16 DEF ConnInv

LEMMA ListeningStep == ConnInv /\ Listening => ConnInv'
<1> SUFFICES ASSUME ConnInv, Listening PROVE ConnInv'
  OBVIOUS
<1>1. CASE Refuse
  BY <1>1, RefuseStep DEF Refuse
<1>2. CASE ForkFails
  BY <1>2, RefuseStep DEF ForkFails, AfterFailedFork
<1>3. QED
  BY <1>1, <1>2, AcceptStep, SetPeernameStep, ForkStep DEF Listening
---------------------------------------------------------------------------
(* The process of a connection. *)

(* What a step of the process of connection c may do. *)
ServesOnly(c) ==
  /\ UNCHANGED <<exportname, cow, listener, backlog, host, lost, device>>
  /\ session' \in [Connections -> Process]
  /\ \A e \in Connections \ {c} :
       session'[e] = session[e] /\ own'[e] = own[e] /\ down'[e] = down[e]
  /\ session'[c].pc \in {"negotiate", "loop", "exited"}
  /\ \/ /\ session'[c].pid = session[c].pid /\ zombies' = zombies
        /\ session'[c].exportname2 = session[c].exportname2
        /\ session'[c].clientname = session[c].clientname
     \/ /\ session'[c].pc = "exited" /\ session'[c].pid = NoNumber
        /\ zombies' \subseteq zombies \cup {session[c].pid}
  /\ DOMAIN files' = DOMAIN files
  /\ \A f \in DOMAIN files : DOMAIN files'[f] = Blocks
  /\ cow => files' = files
  /\ \A f \in DOMAIN diffs \ {DiffName(session[c])} : f \in DOMAIN diffs' /\ diffs'[f] = diffs[f]
  /\ DOMAIN own' = Connections /\ DOMAIN own'[c] = Blocks

LEMMA ServeStep ==
  ASSUME ConnInv, NEW c \in Connections, Serves(c), ServesOnly(c), ClientTypes', CowOf(c)', Stream(c)'
  PROVE  ConnInv'
<1>1. ServerTypes /\ PlaceInv /\ NameInv /\ PidInv /\ CowInv /\ StreamInv
  BY DEF ConnInv
<1>2. zombies' \subseteq Pids
  <2>1. session[c] \in Process
    BY <1>1 DEF ServerTypes
  <2>2. session[c].pid \in Pids \cup {NoNumber}
    BY <2>1 DEF Process
  <2>3. session[c].pid # NoNumber
    BY <1>1 DEF PidInv, PidOf
  <2>4. zombies' = zombies \/ zombies' \subseteq zombies \cup {session[c].pid}
    BY DEF ServesOnly
  <2>5. zombies \subseteq Pids
    BY <1>1 DEF ServerTypes
  <2>6. QED
    BY <2>2, <2>3, <2>4, <2>5
<1>3. ServerTypes'
  <2>1. \A e \in Connections : DOMAIN own'[e] = Blocks
    BY <1>1 DEF ServerTypes, ServesOnly
  <2>2. QED
    BY <1>1, <1>2, <2>1 DEF ServerTypes, ServesOnly
<1>4. PlaceInv'
  BY <1>1 DEF PlaceInv, InBacklog, ServesOnly, Serves
<1>5. NameInv'
  <2>1. ASSUME NEW e \in Connections, session'[e].pc \notin {"none", "exited"}
        PROVE  session'[e].clientname = host[e] /\ session'[e].exportname2 = FileOf(host[e])
    BY <1>1, <2>1 DEF NameInv, OwnExport, ServesOnly, Serves
  <2>2. QED
    BY <1>1, <2>1 DEF NameInv, OwnExport, FileOf, ServesOnly
<1>6. PidInv'
  <2>1. ASSUME NEW e \in Connections PROVE PidOf(e)'
    BY <1>1 DEF PidInv, PidOf, ServesOnly, Serves
  <2>2. QED
    BY <2>1 DEF PidInv
<1>7. ASSUME NEW e \in Connections \ {c} PROVE CowOf(e)'
  <2>1. SameFields(e)
    BY DEF SameFields, ServesOnly
  <2>2. session[e].pc \in {"negotiate", "loop"} => DiffName(session[e]) # DiffName(session[c])
    BY <1>1 DEF PidInv, PidOf, Serves, DiffName
  <2>3. /\ own'[e] = own[e] /\ cow' = cow /\ DOMAIN files' = DOMAIN files
        /\ session[e].pc \in {"negotiate", "loop"} /\ DiffName(session[e]) \in DOMAIN diffs =>
             /\ DiffName(session[e]) \in DOMAIN diffs'
             /\ diffs'[DiffName(session[e])] = diffs[DiffName(session[e])]
    BY <2>2 DEF ServesOnly
  <2>4. CowOf(e)
    BY <1>1 DEF CowInv
  <2>5. QED
    BY <2>1, <2>3, <2>4, SameCow
<1>8. CowInv'
  <2>1. cow' => \A f \in DOMAIN files' : \A b \in Blocks : files'[f][b] = Orig(b)
    BY <1>1 DEF CowInv, ServesOnly
  <2>2. QED
    BY <1>7, <2>1 DEF CowInv
<1>9. ASSUME NEW e \in Connections \ {c} PROVE Stream(e)'
  BY <1>1, SameStream DEF StreamInv, ServesOnly
<1>10. StreamInv'
  BY <1>9 DEF StreamInv
<1>11. QED
  BY <1>3, <1>4, <1>5, <1>6, <1>8, <1>10 DEF ConnInv

LEMMA ExitStep ==
  ASSUME ConnInv, NEW c \in Connections, Serves(c), Exit(c), ClientTypes',
         UNCHANGED <<exportname, cow, listener, backlog, host, lost, device, down, files, own>>,
         \A f \in DOMAIN diffs \ {DiffName(session[c])} :
           f \in DOMAIN diffs' /\ diffs'[f] = diffs[f]
  PROVE  ConnInv'
<1>1. ServerTypes /\ Stream(c)
  BY DEF ConnInv, StreamInv
<1>2. /\ session' = [session EXCEPT ![c] = [NoSession EXCEPT !.pc = "exited"]]
      /\ zombies' \subseteq zombies \cup {session[c].pid}
  BY DEF Exit
<1>3. session'[c] = [NoSession EXCEPT !.pc = "exited"]
      /\ \A e \in Connections \ {c} : session'[e] = session[e]
  BY <1>1, <1>2 DEF ServerTypes
<1>4. session'[c].pc = "exited" /\ session'[c].pid = NoNumber
  BY <1>3 DEF NoSession
<1>5. session'[c] \in Process
  BY <1>3, SessionTypes DEF Process
<1>6. session' \in [Connections -> Process]
  BY <1>1, <1>2, <1>5 DEF ServerTypes
<1>7. ServesOnly(c)
  BY <1>1, <1>2, <1>3, <1>4, <1>6 DEF ServesOnly, ServerTypes
<1>8. CowOf(c)'
  BY <1>4 DEF CowOf
<1>9. Stream(c)'
  BY <1>1, <1>4, SameStream
<1>10. QED
  BY <1>7, <1>8, <1>9, ServeStep

LEMMA ReadFailsStep == ASSUME ConnInv, NEW c \in Connections, ReadFails(c) PROVE ConnInv'
<1>1. Serves(c) /\ ClientTypes'
  BY DEF ConnInv, ClientTypes, ClientOf, ReadFails, At, Serves
<1>2. QED
  BY <1>1, ExitStep DEF ReadFails

(* The process gets on to another place. *)
LEMMA GotoIs ==
  ASSUME ConnInv, NEW c \in Connections, NEW pc \in {"negotiate", "loop"}, Goto(c, pc)
  PROVE  /\ session' \in [Connections -> Process]
         /\ session'[c] = [session[c] EXCEPT !.pc = pc]
         /\ session'[c].pc = pc /\ session'[c].pid = session[c].pid
         /\ session'[c].exportname2 = session[c].exportname2
         /\ session'[c].clientname = session[c].clientname
         /\ session'[c].difmap = session[c].difmap
         /\ session'[c].difffilelen = session[c].difffilelen
         /\ \A e \in Connections \ {c} : session'[e] = session[e]
<1>1. session \in [Connections -> Process] /\ session[c] \in Process
  BY DEF ConnInv, ServerTypes
<1>2. session'[c] = [session[c] EXCEPT !.pc = pc]
      /\ \A e \in Connections \ {c} : session'[e] = session[e]
  BY <1>1 DEF Goto
<1>3. session'[c] \in Process
  BY <1>1, <1>2 DEF Process
<1>4. session' \in [Connections -> Process]
  BY <1>1, <1>2, <1>3 DEF Goto
<1>5. QED
  BY <1>1, <1>2, <1>4 DEF Process

LEMMA ServeConnectionStep ==
  ASSUME ConnInv, NEW c \in Connections, ServeConnection(c) PROVE ConnInv'
<1>1. /\ ServerTypes /\ CowOf(c) /\ Stream(c) /\ session[c].pc = "start" /\ Serves(c)
      /\ UNCHANGED <<exportname, cow, listener, backlog, host, down, up, lost, files,
                     device, faults, own>>
  BY DEF ConnInv, CowInv, StreamInv, ServeConnection, At, Serves
<1>2. ClientTypes'
  BY <1>1 DEF ConnInv, ClientTypes, ClientOf
<1>3. CASE session[c].exportname2 \notin DOMAIN files
  BY <1>1, <1>2, <1>3, ExitStep DEF ServeConnection
<1>4. CASE session[c].exportname2 \in DOMAIN files
  <2> DEFINE D == DiffName(session[c])
  <2>1. /\ Goto(c, "negotiate") /\ zombies' = zombies
        /\ diffs' = IF cow THEN [f \in DOMAIN diffs \cup {D} |-> IF f = D THEN <<>> ELSE diffs[f]]
                    ELSE diffs
    BY <1>4 DEF ServeConnection
  <2>2. /\ session' \in [Connections -> Process]
        /\ session'[c].pc = "negotiate" /\ session'[c].pid = session[c].pid
        /\ session'[c].exportname2 = session[c].exportname2
        /\ session'[c].clientname = session[c].clientname
        /\ session'[c].difmap = session[c].difmap
        /\ \A e \in Connections \ {c} : session'[e] = session[e]
    BY <2>1, GotoIs
  <2>3. DiffName(session[c])' = D
    BY <2>2 DEF DiffName
  <2> HIDE DEF D
  <2>4. ServesOnly(c)
    <3>1. \A f \in DOMAIN diffs \ {D} : f \in DOMAIN diffs' /\ diffs'[f] = diffs[f]
      BY <2>1
    <3>2. QED
      BY <1>1, <2>1, <2>2, <3>1 DEF ServesOnly, ServerTypes, D
  <2>5. \A b \in Blocks : session[c].difmap[b] = NoNumber /\ own[c][b] = Orig(b)
    BY <1>1 DEF CowOf
  <2>6. cow => MapOf(c)'
    BY <1>1, <2>1, <2>2, <2>3, <2>5 DEF MapOf
  <2>7. CowOf(c)'
    BY <1>1, <1>4, <2>2, <2>6 DEF CowOf
  <2>8. Stream(c)'
    BY <1>1, <2>2, SameStream
  <2>9. QED
    BY <1>1, <1>2, <2>4, <2>7, <2>8, ServeStep
<1>5. QED
  BY <1>3, <1>4

LEMMA NegotiateStep ==
  ASSUME ConnInv, NEW c \in Connections, Negotiate(c) PROVE ConnInv'
<1>1. /\ ServerTypes /\ ClientTypes /\ CowOf(c) /\ Stream(c) /\ session[c].pc = "negotiate"
      /\ Serves(c)
      /\ UNCHANGED <<exportname, cow, listener, backlog, host, up, lost, files, diffs,
                     device, faults, own>>
  BY DEF ConnInv, CowInv, StreamInv, Negotiate, At, Serves
<1>2. CASE Ended(c, ClientHolds(c))
  <2>1. Exit(c) /\ UNCHANGED down
    BY <1>2 DEF Negotiate
  <2>2. ClientTypes'
    BY <1>1, <2>1 DEF ClientTypes, ClientOf
  <2>3. QED
    BY <1>1, <2>1, <2>2, ExitStep
<1>3. CASE ~ Ended(c, ClientHolds(c))
  <2>1. /\ down' = [down EXCEPT ![c] = Negotiation] /\ Goto(c, "loop") /\ zombies' = zombies
    BY <1>3 DEF Negotiate
  <2>2. /\ session' \in [Connections -> Process]
        /\ session'[c].pc = "loop" /\ session'[c].pid = session[c].pid
        /\ session'[c].exportname2 = session[c].exportname2
        /\ session'[c].clientname = session[c].clientname
        /\ session'[c].difmap = session[c].difmap
        /\ session'[c].difffilelen = session[c].difffilelen
        /\ \A e \in Connections \ {c} : session'[e] = session[e]
    BY <2>1, GotoIs
  <2>3. /\ down'[c] = Negotiation /\ DOMAIN down' = Connections
        /\ \A e \in Connections \ {c} : down'[e] = down[e]
    BY <1>1, <2>1 DEF ClientTypes
  <2>4. ClientTypes'
    <3>1. ASSUME NEW e \in Connections PROVE ClientOf(e)'
      BY <1>1, <2>3, NegotiationIs DEF ClientTypes, ClientOf
    <3>2. QED
      BY <1>1, <2>3, <3>1 DEF ClientTypes
  <2>5. ServesOnly(c)
    BY <1>1, <2>1, <2>2, <2>3 DEF ServesOnly, ServerTypes
  <2>6. DiffName(session[c])' = DiffName(session[c])
    BY <2>2 DEF DiffName
  <2>7. CowOf(c)'
    <3>1. cow => MapOf(c)'
      BY <1>1, <2>2, <2>6 DEF CowOf, MapOf
    <3>2. QED
      BY <1>1, <2>2, <3>1 DEF CowOf
  <2>8. c \notin lost /\ device[c].pc = "password" /\ ~ device[c].answered
    BY <1>1, <1>3 DEF Ended, ClientHolds, Stream
  <2>9. Left(c, 8)'
    <3>1. \A i \in 1..8 : 8 - 8 + i = i
      BY SMT
    <3>2. QED
      BY <2>3, <3>1, NegotiationIs DEF Left
  <2>10. Stream(c)'
    BY <1>1, <2>2, <2>8, <2>9 DEF Stream
  <2>11. QED
    BY <1>1, <2>4, <2>5, <2>7, <2>10, ServeStep
<1>4. QED
  BY <1>2, <1>3
(* One more unit on its way to the client of a session that serves it. *)
LEMMA RepliedStream ==
  ASSUME NEW c, NEW v, Stream(c), IsSeq(down[c]), c \notin lost, lost' = lost,
         session[c].pc = "loop", session'[c].pc = "loop", device' = device,
         down'[c] = Append(down[c], v)
  PROVE  Stream(c)'
<1>1. /\ Len(down'[c]) = Len(down[c]) + 1
      /\ \A i \in 1..Len(down[c]) : down'[c][i] = down[c][i]
  BY AppendIs
<1>2. ASSUME NEW m \in Nat, Left(c, m) PROVE Left(c, m)'
  <2>1. Len(down[c]) \in Nat /\ m <= Len(down[c])
    BY <1>2 DEF IsSeq, Left
  <2>2. \A i \in 1..m : i \in 1..Len(down[c])
    BY <2>1, SMT
  <2>3. QED
    BY <1>1, <1>2, <2>1, <2>2 DEF Left
<1>3. /\ (Left(c, 2) => Left(c, 2)') /\ (Left(c, 3) => Left(c, 3)') /\ (Left(c, 4) => Left(c, 4)')
      /\ (Left(c, 5) => Left(c, 5)') /\ (Left(c, 6) => Left(c, 6)') /\ (Left(c, 8) => Left(c, 8)')
  BY <1>2
<1>4. \A m \in 1..4 : Left(c, m) => Left(c, m)'
  BY <1>2
<1>5. QED
  BY <1>3, <1>4 DEF Stream

(* The next page of the diff file, or the one the block has. *)
PageFor(c, b) == IF session[c].difmap[b] # NoNumber THEN session[c].difmap[b]
                 ELSE session[c].difffilelen + 1

LEMMA PageIs ==
  ASSUME NEW c, NEW b \in Blocks, session[c] \in Process, MapOf(c)
  PROVE  /\ PageFor(c, b) \in Nat /\ PageFor(c, b) # NoNumber
         /\ \A d \in Blocks \ {b} : session[c].difmap[d] # PageFor(c, b)
<1>1. /\ session[c].difmap \in [Blocks -> Nat] /\ session[c].difffilelen \in Nat
  BY DEF Process
<1>2. session[c].difffilelen + 1 \in Nat /\ session[c].difffilelen + 1 # NoNumber
  BY <1>1, SMT DEF NoNumber
<1>3. PageFor(c, b) \in Nat /\ PageFor(c, b) # NoNumber
  BY <1>1, <1>2 DEF PageFor
<1>4. ASSUME NEW d \in Blocks \ {b}, session[c].difmap[d] = PageFor(c, b) PROVE FALSE
  <2>1. session[c].difmap[d] # NoNumber /\ session[c].difmap[d] \in Nat
    BY <1>1, <1>3, <1>4
  <2>2. session[c].difmap[d] <= session[c].difffilelen
    BY <2>1 DEF MapOf
  <2>3. session[c].difmap[b] # NoNumber
    BY <1>1, <1>4, <2>1, <2>2, SMT DEF PageFor
  <2>4. QED
    BY <1>4, <2>3 DEF MapOf, PageFor
<1>5. QED
  BY <1>3, <1>4

LEMMA WriteStep ==
  ASSUME ConnInv, NEW c \in Connections, NEW b \in Blocks, NEW v, WriteBlock(c, b, v),
         session[c].pc = "loop", c \notin lost, up' = [up EXCEPT ![c] = Tail(@)], up[c] # <<>>,
         ClientTypes',
         UNCHANGED <<exportname, cow, listener, backlog, host, lost, device>>
  PROVE  ConnInv'
<1> DEFINE n == PageFor(c, b)
<1>1. /\ ServerTypes /\ ClientTypes /\ CowOf(c) /\ Stream(c) /\ CowInv /\ Serves(c)
      /\ session[c] \in Process /\ IsSeq(down[c])
  BY DEF ConnInv, CowInv, StreamInv, Serves, ServerTypes, ClientTypes, ClientOf
<1>2. /\ down' = [down EXCEPT ![c] = Append(@, Reply("done"))]
      /\ own' = [own EXCEPT ![c][b] = v] /\ zombies' = zombies
  BY DEF WriteBlock
<1>3. /\ down'[c] = Append(down[c], Reply("done"))
      /\ \A e \in Connections \ {c} : down'[e] = down[e] /\ own'[e] = own[e]
      /\ DOMAIN own' = Connections /\ own'[c] = [own[c] EXCEPT ![b] = v]
  BY <1>1, <1>2 DEF ClientTypes, ServerTypes
<1>4. /\ DOMAIN own'[c] = Blocks /\ own'[c][b] = v
      /\ \A d \in Blocks \ {b} : own'[c][d] = own[c][d]
  BY <1>1, <1>3 DEF ServerTypes
<1>5. session[c].exportname2 \in DOMAIN files
  BY <1>1 DEF CowOf
<1>6. CASE ~ cow
  <2>1. /\ files' = [files EXCEPT ![session[c].exportname2][b] = v]
        /\ session' = session /\ diffs' = diffs
    BY <1>6 DEF WriteBlock
  <2>2. DOMAIN files' = DOMAIN files /\ \A f \in DOMAIN files : DOMAIN files'[f] = Blocks
    BY <1>1, <2>1 DEF ServerTypes
  <2>3. ServesOnly(c)
    BY <1>1, <1>2, <1>3, <1>4, <1>6, <2>1, <2>2 DEF ServesOnly, ServerTypes
  <2>4. CowOf(c)'
    BY <1>5, <1>6, <2>1, <2>2 DEF CowOf
  <2>5. Stream(c)'
    BY <1>1, <1>3, <2>1, RepliedStream
  <2>6. QED
    BY <1>1, <2>3, <2>4, <2>5, ServeStep
<1>7. CASE cow
  <2> DEFINE D == DiffName(session[c])
  <2>1. MapOf(c)
    BY <1>1, <1>7 DEF CowOf
  <2>2. /\ session' = [session EXCEPT ![c].difmap[b] = n,
                         ![c].difffilelen = IF n > @ THEN n ELSE @]
        /\ diffs' = [diffs EXCEPT ![D] =
                       [i \in DOMAIN @ \cup {n} |-> IF i = n THEN v ELSE @[i]]]
        /\ files' = files
    BY <1>7 DEF WriteBlock, PageFor
  <2>3. /\ n \in Nat /\ n # NoNumber /\ \A d \in Blocks \ {b} : session[c].difmap[d] # n
    BY <1>1, <2>1, PageIs
  <2> HIDE DEF n
  <2>4. /\ session'[c] = [session[c] EXCEPT !.difmap = [session[c].difmap EXCEPT ![b] = n],
                            !.difffilelen = IF n > @ THEN n ELSE @]
        /\ \A e \in Connections \ {c} : session'[e] = session[e]
    BY <1>1, <2>2 DEF ServerTypes, Process
  <2>5. /\ session'[c].difmap = [session[c].difmap EXCEPT ![b] = n]
        /\ session'[c].difffilelen = IF n > session[c].difffilelen THEN n
                                     ELSE session[c].difffilelen
        /\ session'[c].pc = "loop" /\ session'[c].pid = session[c].pid
        /\ session'[c].exportname2 = session[c].exportname2
        /\ session'[c].clientname = session[c].clientname
    BY <1>1, <2>4 DEF Process
  <2>6. session'[c] \in Process
    <3> DEFINE map == [session[c].difmap EXCEPT ![b] = n]
               len == IF n > session[c].difffilelen THEN n ELSE session[c].difffilelen
    <3>1. map \in [Blocks -> Nat] /\ len \in Nat
      BY <1>1, <2>3 DEF Process
    <3>2. session'[c] = [session[c] EXCEPT !.difmap = map, !.difffilelen = len]
      BY <2>4
    <3> HIDE DEF map, len
    <3>3. QED
      BY <1>1, <3>1, <3>2 DEF Process
  <2>7. session' \in [Connections -> Process]
    BY <1>1, <2>2, <2>4, <2>6 DEF ServerTypes
  <2>8. DiffName(session[c])' = D
    BY <2>5 DEF DiffName
  <2>9. D \in DOMAIN diffs
    BY <2>1 DEF MapOf
  <2> HIDE DEF D
  <2>10. /\ DOMAIN diffs' = DOMAIN diffs
         /\ diffs'[D] = [i \in DOMAIN diffs[D] \cup {n} |-> IF i = n THEN v ELSE diffs[D][i]]
         /\ \A f \in DOMAIN diffs \ {D} : diffs'[f] = diffs[f]
    BY <2>2, <2>9
  <2>11. ServesOnly(c)
    BY <1>1, <1>2, <1>3, <1>4, <2>2, <2>4, <2>5, <2>7, <2>10 DEF ServesOnly, ServerTypes, D
  <2>12. MapOf(c)'
    <3>1. session[c].difmap \in [Blocks -> Nat] /\ session[c].difffilelen \in Nat
      BY <1>1 DEF Process
    <3>2. /\ session'[c].difmap[b] = n
          /\ \A d \in Blocks \ {b} : session'[c].difmap[d] = session[c].difmap[d]
      BY <2>5, <3>1
    <3>3. /\ n <= session'[c].difffilelen
          /\ \A k \in Nat : k <= session[c].difffilelen => k <= session'[c].difffilelen
      BY <2>3, <2>5, <3>1, SMT
    <3>4. ASSUME NEW d \in Blocks
          PROVE  IF session'[c].difmap[d] = NoNumber THEN own'[c][d] = Orig(d)
                 ELSE /\ session'[c].difmap[d] <= session'[c].difffilelen
                      /\ session'[c].difmap[d] \in DOMAIN diffs'[D]
                      /\ diffs'[D][session'[c].difmap[d]] = own'[c][d]
      <4>1. CASE d = b
        BY <1>4, <2>3, <2>10, <3>2, <3>3, <4>1
      <4>2. CASE d # b
        <5>1. /\ session'[c].difmap[d] = session[c].difmap[d] /\ own'[c][d] = own[c][d]
              /\ session[c].difmap[d] # n /\ session[c].difmap[d] \in Nat
          BY <1>4, <2>3, <3>1, <3>2, <4>2
        <5>2. IF session[c].difmap[d] = NoNumber THEN own[c][d] = Orig(d)
              ELSE /\ session[c].difmap[d] <= session[c].difffilelen
                   /\ session[c].difmap[d] \in DOMAIN diffs[D]
                   /\ diffs[D][session[c].difmap[d]] = own[c][d]
          BY <2>1 DEF MapOf, D
        <5>3. QED
          BY <2>10, <3>3, <5>1, <5>2
      <4>3. QED
        BY <4>1, <4>2
    <3>5. \A d, e \in Blocks : session'[c].difmap[d] = session'[c].difmap[e]
                               /\ session'[c].difmap[d] # NoNumber => d = e
      BY <2>1, <2>3, <3>2 DEF MapOf
    <3>6. D \in DOMAIN diffs'
      BY <2>9, <2>10
    <3>7. QED
      BY <2>8, <3>4, <3>5, <3>6 DEF MapOf
  <2>13. CowOf(c)'
    BY <1>5, <2>2, <2>5, <2>12 DEF CowOf
  <2>14. Stream(c)'
    BY <1>1, <1>3, <2>5, RepliedStream
  <2>15. QED
    BY <1>1, <2>11, <2>13, <2>14, ServeStep
<1>8. QED
  BY <1>6, <1>7

LEMMA ServeRequestStep ==
  ASSUME ConnInv, NEW c \in Connections, ServeRequest(c) PROVE ConnInv'
<1> DEFINE r == Head(up[c])
<1>1. /\ ServerTypes /\ ClientTypes /\ ClientOf(c) /\ CowOf(c) /\ Stream(c)
      /\ session[c].pc = "loop" /\ Serves(c) /\ c \notin lost /\ up[c] # <<>>
      /\ up' = [up EXCEPT ![c] = Tail(@)]
      /\ UNCHANGED <<exportname, cow, listener, backlog, host, lost, device, faults>>
  BY DEF ConnInv, ClientTypes, CowInv, StreamInv, ServeRequest, At, Serves
<1>2. /\ \A e \in Connections \ {c} : up'[e] = up[e]
      /\ DOMAIN up' = Connections /\ up'[c] = Tail(up[c])
  BY <1>1 DEF ClientTypes
<1>3. /\ IsSeq(up[c]) /\ Len(up[c]) \in Nat \ {0}
  BY <1>1, LongIs DEF ClientOf
<1>4. /\ IsSeq(up'[c]) /\ Len(up'[c]) = Len(up[c]) - 1 /\ r = up[c][1]
      /\ \A i \in 1..(Len(up[c]) - 1) : up'[c][i] = up[c][i + 1]
  BY <1>1, <1>2, <1>3, TailIs
<1>5. \A i \in 1..Len(up'[c]) : i \in 1..(Len(up[c]) - 1) /\ i + 1 \in 1..Len(up[c])
  BY <1>3, <1>4, SMT
<1>6. \A i \in 1..Len(up'[c]) : up'[c][i].type \in {"read", "write"} => up'[c][i].block \in Blocks
  BY <1>1, <1>4, <1>5 DEF ClientOf
<1>7. r.type = "write" => r.block \in Blocks
  <2>1. 1 \in 1..Len(up[c])
    BY <1>3, SMT
  <2>2. QED
    BY <1>1, <1>4, <2>1 DEF ClientOf
<1> HIDE DEF r
<1>8. ASSUME DOMAIN down' = Connections, IsSeq(down'[c]),
             \A e \in Connections \ {c} : down'[e] = down[e]
      PROVE  ClientTypes'
  <2>1. ASSUME NEW e \in Connections PROVE ClientOf(e)'
    <3>1. CASE e = c
      BY <1>1, <1>4, <1>6, <1>8, <3>1 DEF ClientOf
    <3>2. CASE e # c
      BY <1>1, <1>2, <1>8, <3>2 DEF ClientTypes, ClientOf
    <3>3. QED
      BY <3>1, <3>2
  <2>2. QED
    BY <1>1, <1>2, <1>8, <2>1 DEF ClientTypes
<1>9. ASSUME NEW v, down' = [down EXCEPT ![c] = Append(@, v)] PROVE ClientTypes'
  <2>1. DOMAIN down' = Connections /\ down'[c] = Append(down[c], v)
        /\ \A e \in Connections \ {c} : down'[e] = down[e]
    BY <1>1, <1>9 DEF ClientTypes
  <2>2. IsSeq(down[c])
    BY <1>1 DEF ClientOf
  <2>3. IsSeq(down'[c])
    BY <2>1, <2>2, AppendIs
  <2>4. QED
    BY <1>8, <2>1, <2>3
<1>10. CASE r.type = "read" /\ ReadBlock(c, r.block)
  <2> DEFINE v == Reply(ViewOf(session[c], r.block))
  <2>1. down' = [down EXCEPT ![c] = Append(@, v)] /\ UNCHANGED <<session, zombies, files, diffs, own>>
    BY <1>10 DEF ReadBlock
  <2> HIDE DEF v
  <2>2. /\ down'[c] = Append(down[c], v) /\ IsSeq(down[c])
        /\ \A e \in Connections \ {c} : down'[e] = down[e]
    BY <1>1, <2>1 DEF ClientTypes, ClientOf
  <2>3. ServesOnly(c)
    BY <1>1, <2>1, <2>2 DEF ServesOnly, ServerTypes
  <2>4. CowOf(c)'
    <3>1. SameFields(c)
      BY <2>1 DEF SameFields
    <3>2. QED
      BY <1>1, <2>1, <3>1, SameCow
  <2>5. Stream(c)'
    BY <1>1, <2>1, <2>2, RepliedStream
  <2>6. QED
    BY <1>1, <1>9, <2>1, <2>3, <2>4, <2>5, ServeStep
<1>11. CASE r.type = "write" /\ WriteBlock(c, r.block, r.value)
  <2>1. down' = [down EXCEPT ![c] = Append(@, Reply("done"))]
    BY <1>11 DEF WriteBlock
  <2>2. QED
    BY <1>1, <1>7, <1>9, <1>11, <2>1, WriteStep
<1>12. CASE r.type = "disc" /\ Disconnected(c)
  <2>1. /\ Exit(c) /\ UNCHANGED <<down, files, own>>
        /\ diffs' = [f \in DOMAIN diffs \ {DiffName(session[c])} |-> diffs[f]]
    BY <1>12 DEF Disconnected
  <2>2. ClientTypes'
    BY <1>1, <1>8, <2>1 DEF ClientTypes, ClientOf
  <2>3. \A f \in DOMAIN diffs \ {DiffName(session[c])} : f \in DOMAIN diffs' /\ diffs'[f] = diffs[f]
    BY <2>1
  <2>4. QED
    BY <1>1, <2>1, <2>2, <2>3, ExitStep
<1>13. QED
  BY <1>10, <1>11, <1>12 DEF ServeRequest, r
---------------------------------------------------------------------------
(* A client connects: its connection is nowhere yet. *)

LEMMA ConnectStep ==
  ASSUME ConnInv, NEW c \in Connections, NEW h \in Hosts, Connect(c, h) PROVE ConnInv'
<1>1. /\ ServerTypes /\ ClientTypes /\ ClientOf(c) /\ Stream(c) /\ PlaceInv /\ NameInv
      /\ device[c].pc = "off" /\ host' = [host EXCEPT ![c] = h]
      /\ UNCHANGED <<exportname, cow, listener, down, up, lost, session, zombies, files,
                     diffs, faults, own>>
  BY DEF ConnInv, ClientTypes, StreamInv, Connect, Is
<1>2. ~ InBacklog(c) /\ listener.net # c /\ session[c].pc = "none"
  BY <1>1 DEF PlaceInv
<1>3. PICK pc \in {"failed", "password"} :
        /\ device' = [device EXCEPT ![c].pc = pc]
        /\ \/ UNCHANGED backlog
           \/ backlog' = Append(backlog, c)
  BY DEF Connect, Device
<1>4. /\ device'[c] = [device[c] EXCEPT !.pc = pc] /\ DOMAIN device' = Connections
      /\ \A e \in Connections \ {c} : device'[e] = device[e]
  BY <1>1, <1>3 DEF ClientTypes
<1>5. /\ device'[c].pc = pc /\ device'[c].answered = device[c].answered
      /\ device'[c].size = device[c].size
      /\ DOMAIN device'[c] = {"pc", "size", "asked", "sent", "answered"}
  BY <1>1, <1>4 DEF ClientOf
<1>6. ClientTypes'
  <2>1. ASSUME NEW e \in Connections PROVE ClientOf(e)'
    <3>1. CASE e = c
      BY <1>1, <1>5, <3>1 DEF ClientOf, DevicePcs
    <3>2. CASE e # c
      BY <1>1, <1>4, <3>2 DEF ClientTypes, ClientOf
    <3>3. QED
      BY <3>1, <3>2
  <2>2. QED
    BY <1>1, <1>4, <2>1 DEF ClientTypes
<1>7. /\ host'[c] = h /\ host' \in [Connections -> Hosts \cup {NoName}]
      /\ \A e \in Connections \ {c} : host'[e] = host[e]
  BY <1>1 DEF ServerTypes
<1>8. /\ backlog' \in Seq(Connections)
      /\ \A e \in Connections \ {c} : InBacklog(e)' => InBacklog(e)
      /\ \A i, j \in 1..Len(backlog') : backlog'[i] = backlog'[j] => i = j
  <2>1. CASE UNCHANGED backlog
    <3>1. backlog' \in Seq(Connections)
      BY <1>1, <2>1 DEF ServerTypes
    <3>2. \A e \in Connections \ {c} : InBacklog(e)' => InBacklog(e)
      BY <2>1 DEF InBacklog
    <3>3. \A i, j \in 1..Len(backlog') : backlog'[i] = backlog'[j] => i = j
      BY <1>1, <2>1 DEF PlaceInv
    <3>4. QED
      BY <3>1, <3>2, <3>3
  <2>2. CASE backlog' = Append(backlog, c)
    <3>1. /\ backlog \in Seq(Connections) /\ Len(backlog) \in Nat
          /\ backlog' \in Seq(Connections) /\ Len(backlog') = Len(backlog) + 1
      BY <1>1, <2>2, AppendProperties, LenProperties DEF ServerTypes
    <3>2. /\ \A i \in 1..Len(backlog) : backlog'[i] = backlog[i]
          /\ backlog'[Len(backlog) + 1] = c
      BY <2>2, <3>1, AppendProperties
    <3>3. \A i \in 1..Len(backlog') : i \in 1..Len(backlog) \/ i = Len(backlog) + 1
      BY <3>1, SMT
    <3>4. \A i \in 1..Len(backlog) : backlog[i] # c
      BY <1>2 DEF InBacklog
    <3>5. \A e \in Connections \ {c} : InBacklog(e)' => InBacklog(e)
      BY <3>2, <3>3 DEF InBacklog
    <3>6. ASSUME NEW i \in 1..Len(backlog'), NEW j \in 1..Len(backlog'), backlog'[i] = backlog'[j]
          PROVE  i = j
      BY <1>1, <3>2, <3>3, <3>4, <3>6 DEF PlaceInv
    <3>7. QED
      BY <3>1, <3>5, <3>6
  <2>3. QED
    BY <1>3, <2>1, <2>2
<1>9. ServerTypes'
  BY <1>1, <1>7, <1>8 DEF ServerTypes
<1>10. PlaceInv'
  <2>1. ASSUME NEW e \in Connections
        PROVE  /\ InBacklog(e)' \/ listener.net = e => session[e].pc = "none"
               /\ InBacklog(e)' => listener.net # e
               /\ device'[e].pc = "off" =>
                    ~ InBacklog(e)' /\ listener.net # e /\ session[e].pc = "none"
    <3>1. CASE e = c
      BY <1>2, <1>5, <3>1
    <3>2. CASE e # c
      <4>1. InBacklog(e)' => InBacklog(e)
        BY <1>8, <3>2
      <4>2. device'[e] = device[e]
        BY <1>4, <3>2
      <4>3. InBacklog(e) => InBacklog(e)'
        <5>1. CASE UNCHANGED backlog
          BY <5>1 DEF InBacklog
        <5>2. CASE backlog' = Append(backlog, c)
          <6>1. /\ backlog \in Seq(Connections) /\ Len(backlog) \in Nat
            BY <1>1, LenProperties DEF ServerTypes
          <6>2. /\ Len(backlog') = Len(backlog) + 1
                /\ \A i \in 1..Len(backlog) : backlog'[i] = backlog[i]
            BY <5>2, <6>1, AppendProperties
          <6>3. \A i \in 1..Len(backlog) : i \in 1..Len(backlog')
            BY <6>1, <6>2, SMT
          <6>4. QED
            BY <6>2, <6>3 DEF InBacklog
        <5>3. QED
          BY <1>3, <5>1, <5>2
      <4>4. QED
        BY <1>1, <4>1, <4>2, <4>3 DEF PlaceInv
    <3>3. QED
      BY <3>1, <3>2
  <2>2. QED
    BY <1>1, <1>8, <2>1 DEF PlaceInv
<1>11. NameInv'
  BY <1>1, <1>2, <1>7 DEF NameInv, OwnExport, FileOf, PlaceInv, ServerTypes
<1>12. PidInv'
  BY <1>1 DEF ConnInv, PidInv, PidOf, Serves
<1>13. CowInv'
  BY <1>1 DEF ConnInv, CowInv, CowOf, MapOf, DiffName
<1>14. StreamInv'
  <2>1. ASSUME NEW e \in Connections PROVE Stream(e)'
    <3>1. CASE e = c
      BY <1>1, <1>2, <1>5, <3>1 DEF Stream
    <3>2. CASE e # c
      BY <1>1, <1>4, <3>2, SameStream DEF ConnInv, StreamInv
    <3>3. QED
      BY <3>1, <3>2
  <2>2. QED
    BY <2>1 DEF StreamInv
<1>15. QED
  BY <1>6, <1>9, <1>10, <1>11, <1>12, <1>13, <1>14 DEF ConnInv

---------------------------------------------------------------------------
LEMMA NextConn == ConnInv /\ [Next]_vars => ConnInv'
<1> SUFFICES ASSUME ConnInv, [Next]_vars PROVE ConnInv'
  OBVIOUS
<1>1. CASE Listening
  BY <1>1, ListeningStep
<1>2. CASE Restart
  BY <1>2, RestartStep
<1>3. ASSUME NEW c \in Connections, Serving(c) PROVE ConnInv'
  BY <1>3, ServeConnectionStep, NegotiateStep, ServeRequestStep, ReadFailsStep DEF Serving
<1>4. ASSUME NEW c \in Connections, Client(c) PROVE ConnInv'
  <2>1. CASE \E h \in Hosts : Connect(c, h)
    BY <2>1, ConnectStep
  <2>2. CASE \E n \in 0 .. 4 : ReadWord(c, n)
    BY <2>2, ReadWordStep
  <2>3. CASE \E r \in Requests(c) : Ask(c, r)
    BY <2>3, AskStep
  <2>4. CASE ClientFails(c) \/ SetUp(c) \/ Receive(c) \/ Disconnect(c) \/ Closed(c) \/ Lose(c)
    BY <2>4, ClientFailsStep, SetUpStep, ReceiveStep, DisconnectStep, ClosedStep, LoseStep
  <2>5. QED
    BY <1>4, <2>1, <2>2, <2>3, <2>4 DEF Client
<1>5. CASE UNCHANGED vars
  <2>1. /\ UNCHANGED <<server, exportname, cow, host>> /\ UNCHANGED <<down, up, lost, device>>
    BY <1>5 DEF vars, server
  <2>2. ServerTypes' /\ PlaceInv' /\ NameInv' /\ PidInv' /\ CowInv'
    BY <2>1, ClientSide
  <2>3. ClientTypes'
    BY <2>1 DEF ConnInv, ClientTypes, ClientOf
  <2>4. ASSUME NEW e \in Connections PROVE Stream(e)'
    BY <2>1, SameStream DEF ConnInv, StreamInv, server
  <2>5. QED
    BY <2>2, <2>3, <2>4 DEF ConnInv, StreamInv
<1>6. QED
  BY <1>1, <1>2, <1>3, <1>4, <1>5 DEF Next

LEMMA ConnInvariant == Spec => []ConnInv
  BY InitConn, NextConn, PTL DEF Spec

(* With a file per client, a child serves the file of the machine at the   *)
(* other end: fork comes before the listener's globals change again        *)
(* (set_peername, connectme).                                              *)
THEOREM ServesItsClient == Spec => []OwnExport
<1>1. ConnInv => OwnExport
  BY DEF ConnInv, NameInv
<1>2. QED
  BY <1>1, ConnInvariant, PTL

(* A device that has completed a request has the size of the export,       *)
(* however the reads of negotiate cut the stream.                          *)
THEOREM SizeIsRight == Spec => []SizeRight
<1>1. ConnInv => SizeRight
  BY DEF ConnInv, StreamInv, Stream, SizeRight
<1>2. QED
  BY <1>1, ConnInvariant, PTL

(* With -c a session shows its client what that client wrote, or the       *)
(* export as it was: expread and expwrite through a diff file whose name   *)
(* no other session has.                                                   *)
THEOREM WritesArePrivate == Spec => []CowPrivate
<1>1. ConnInv => CowPrivate
  <2>1. SUFFICES ASSUME ConnInv, cow, NEW c \in Connections, session[c].pc = "loop", NEW b \in Blocks
                 PROVE  /\ session[c].difmap[b] # NoNumber =>
                             /\ DiffName(session[c]) \in DOMAIN diffs
                             /\ session[c].difmap[b] \in DOMAIN diffs[DiffName(session[c])]
                        /\ ViewOf(session[c], b) = own[c][b]
    BY DEF CowPrivate, At
  <2>2. MapOf(c) /\ session[c].exportname2 \in DOMAIN files
    BY <2>1 DEF ConnInv, CowInv, CowOf
  <2>3. files[session[c].exportname2][b] = Orig(b)
    BY <2>1, <2>2 DEF ConnInv, CowInv
  <2>4. QED
    BY <2>1, <2>2, <2>3 DEF MapOf, ViewOf
<1>2. QED
  BY <1>1, ConnInvariant, PTL
=============================================================================
