---------------------------- MODULE GzNbdProofs ----------------------------
(***************************************************************************)
(* gznbd answers every request by itself and in order, with the blocks it  *)
(* asks for, and refuses none without a cause: for every file, buffer and  *)
(* size of the device, every stream of requests and every failure.         *)
(***************************************************************************)
EXTENDS GzNbd, SequenceTheorems, TLAPS

Req    == Requests \union {Unset, NoRequest, DiscRequest}
Unit   == [handle : Nat, req : Req]
Answer == [handle : Nat, error : BOOLEAN, data : Seq(Nat)]

GzTypes ==
    /\ TypeOK
    /\ asked \in Seq(Requests)
    /\ requests \in Seq(Unit) /\ replies \in Seq(Answer)
    /\ request \in Unit /\ data \in Seq(Nat)

(* Nothing is sent before the child waits in NBD_DO_IT, and the parent only *)
(* dies of a child that is gone.                                            *)
StartInv ==
    /\ child = "none" <=> parent \in {"size", "fork", "failed"}
    /\ parent = "killed" => child = "gone"
    /\ child \in {"none", "setup"} =>
         /\ requests = <<>> /\ replies = <<>> /\ pending = <<>> /\ asked = <<>>
         /\ parent # "reply" /\ ~error

(* A unit of the socket is the request the kernel sent under that handle;  *)
(* garbage comes from a write, a disconnect from a device that goes down.  *)
Means(u) ==
    /\ u.req.type \in {"read", "write"} =>
         u.handle \in 1..Len(asked) /\ asked[u.handle] = u.req
    /\ u.req.type = "garbage" => \E i \in 1..Len(asked) : asked[i].type = "write"
    /\ u.req.type = "disc" => child \in {"clear", "gone"}

UnitInv ==
    /\ \A i \in 1..Len(requests) : Means(requests[i]) /\ requests[i].req # Unset
    /\ Means(request)
    /\ \A i \in 1..Len(asked) : asked[i].from + asked[i].len <= size
    /\ parent = "reply" /\ ~error =>
         request.req.type = "read" /\ data = <<request.req.from, request.req.len>>

(* The kernel waits for its requests in their order: those whose replies   *)
(* are under way, the one the parent is at, and those it has not read.     *)
Sorted == \A i, j \in 1..Len(pending) : i < j => pending[i] < pending[j]

OnlyReads == child = "doit" /\ \A i \in 1..Len(asked) : asked[i].type = "read"
Current == IF parent = "reply" THEN 1 ELSE 0

InOrder ==
    /\ Len(pending) = Len(replies) + Current + Len(requests)
    /\ \A i \in 1..Len(replies) : pending[i] = replies[i].handle
    /\ parent = "reply" => pending[Len(replies) + 1] = request.handle
    /\ \A i \in 1..Len(requests) : pending[Len(replies) + Current + i] = requests[i].handle

OrderInv == Sorted /\ (OnlyReads => InOrder)

GzInv == /\ GzTypes /\ StartInv /\ UnitInv /\ OrderInv
         /\ DataMatches /\ NoErrorWithoutCause
---------------------------------------------------------------------------
(* Sequences and units. *)

LEMMA Pairs ==
    ASSUME NEW a \in Nat, NEW b \in Nat
    PROVE  <<a, b>> \in Seq(Nat) /\ <<a, b>>[2] = b /\ <<a, b>> # <<>>
<1>1. <<a, b>> \in Seq(Nat) /\ <<a, b>>[2] = b /\ Len(<<a, b>>) = 2
  OBVIOUS
<1>2. Len(<<>>) = 0
  BY EmptySeq
<1>3. QED
  BY <1>1, <1>2

(* One entry is taken out. *)
LEMMA WithoutOne ==
    ASSUME NEW S, NEW s \in Seq(S), NEW i \in 1..Len(s)
    PROVE  /\ RemoveAt(s, i) \in Seq(S) /\ Len(RemoveAt(s, i)) = Len(s) - 1
           /\ \A j \in 1..Len(s) - 1 :
                RemoveAt(s, i)[j] = IF j < i THEN s[j] ELSE s[j + 1]
<1> DEFINE a == SubSeq(s, 1, i - 1)  b == SubSeq(s, i + 1, Len(s))
<1>1. Len(s) \in Nat /\ i \in Nat /\ 1 <= i /\ i <= Len(s)
  BY LenProperties
<1>2. \A j \in 1..Len(s) : s[j] \in S
  BY ElementOfSeq
<1>3. /\ a \in Seq(S) /\ Len(a) = i - 1
      /\ \A j \in 1..i - 1 : a[j] = s[j]
  <2>1. \A j \in 1..i - 1 : s[j] \in S
    BY <1>1, <1>2
  <2>2. 1 \in Int /\ i - 1 \in Int
    BY <1>1
  <2>3. /\ a \in Seq(S) /\ Len(a) = IF 1 <= i - 1 THEN (i - 1) - 1 + 1 ELSE 0
        /\ \A j \in 1..(i - 1) - 1 + 1 : a[j] = s[1 + j - 1]
    BY <2>1, <2>2, SubSeqProperties
  <2>4. (IF 1 <= i - 1 THEN (i - 1) - 1 + 1 ELSE 0) = i - 1 /\ (i - 1) - 1 + 1 = i - 1
        /\ \A j \in 1..i - 1 : 1 + j - 1 = j
    BY <1>1, SMTT(30)
  <2>5. QED
    BY <2>3, <2>4
<1>4. /\ b \in Seq(S) /\ Len(b) = Len(s) - i
      /\ \A j \in 1..Len(s) - i : b[j] = s[i + j]
  <2>1. \A j \in i + 1..Len(s) : s[j] \in S
    BY <1>1, <1>2
  <2>2. i + 1 \in Int /\ Len(s) \in Int
    BY <1>1
  <2>3. /\ b \in Seq(S)
        /\ Len(b) = IF i + 1 <= Len(s) THEN Len(s) - (i + 1) + 1 ELSE 0
        /\ \A j \in 1..Len(s) - (i + 1) + 1 : b[j] = s[(i + 1) + j - 1]
    BY <2>1, <2>2, SubSeqProperties
  <2>4. /\ (IF i + 1 <= Len(s) THEN Len(s) - (i + 1) + 1 ELSE 0) = Len(s) - i
        /\ Len(s) - (i + 1) + 1 = Len(s) - i
        /\ \A j \in 1..Len(s) - i : (i + 1) + j - 1 = i + j
    BY <1>1
  <2>5. QED
    BY <2>3, <2>4, Zenon
<1> HIDE DEF a, b
<1>5. RemoveAt(s, i) = a \o b
  BY DEF RemoveAt, a, b
<1>6. /\ a \o b \in Seq(S) /\ Len(a \o b) = Len(a) + Len(b)
      /\ \A j \in 1..Len(a) + Len(b) : (a \o b)[j] = IF j <= Len(a) THEN a[j] ELSE b[j - Len(a)]
  BY <1>3, <1>4, ConcatProperties
<1>7. ASSUME NEW j \in 1..Len(s) - 1
      PROVE  (a \o b)[j] = IF j < i THEN s[j] ELSE s[j + 1]
  <2>1. j \in 1..Len(a) + Len(b) /\ (j <= Len(a) <=> j < i) /\ Len(a) = i - 1
    BY <1>1, <1>3, <1>4
  <2>2. CASE j < i
    <3>1. (a \o b)[j] = a[j] /\ j \in 1..i - 1
      BY <1>1, <1>6, <2>1, <2>2
    <3>2. QED
      BY <1>3, <2>2, <3>1
  <2>3. CASE ~(j < i)
    <3>1. (a \o b)[j] = b[j - Len(a)]
      BY <1>6, <2>1, <2>3
    <3>2. j - Len(a) \in 1..Len(s) - i /\ i + (j - Len(a)) = j + 1
      BY <1>1, <2>1, <2>3
    <3>3. QED
      BY <1>4, <2>3, <3>1, <3>2
  <2>4. QED
    BY <2>2, <2>3
<1>8. Len(a) + Len(b) = Len(s) - 1
  BY <1>1, <1>3, <1>4
<1>9. QED
  BY <1>5, <1>6, <1>7, <1>8

(* The types of the units' requests. *)
LEMMA UnitTypes ==
    /\ \A r \in Requests : /\ r.type \in {"read", "write"} /\ r \in Req /\ r # Unset
                           /\ r.from \in Nat /\ r.len \in Nat \ {0}
    /\ \A r \in Req : /\ r.from \in Nat /\ r.len \in Nat
                      /\ r.type \in {"read", "write"} => r \in Requests
                      /\ r.type \in {"read", "write", "unset", "garbage", "disc"}
                      /\ r.type = "unset" => r = Unset
    /\ Unset \in Req /\ NoRequest \in Req /\ DiscRequest \in Req
    /\ Unset.type = "unset" /\ NoRequest.type = "garbage" /\ DiscRequest.type = "disc"
    /\ Garbage \in Unit /\ Garbage.req = NoRequest
<1>1. \A r \in Requests : r \in [type : {"read", "write"}, from : Nat, len : Nat \ {0}]
  BY RequestAssumption
<1>2. /\ Unset.type = "unset" /\ Unset.from = 0 /\ Unset.len = 0
      /\ NoRequest.type = "garbage" /\ NoRequest.from = 0 /\ NoRequest.len = 0
      /\ DiscRequest.type = "disc" /\ DiscRequest.from = 0 /\ DiscRequest.len = 0
  BY DEF Unset, NoRequest, DiscRequest
<1>3. \A r \in Requests : /\ r.type \in {"read", "write"} /\ r.from \in Nat
                          /\ r.len \in Nat \ {0}
  BY <1>1
<1>4. Garbage.req = NoRequest /\ Garbage \in Unit
  BY DEF Garbage, Unit, Req
<1>5. QED
  BY <1>2, <1>3, <1>4 DEF Req
---------------------------------------------------------------------------
(* Requests are only added, and a device that goes down does not come back. *)
Onwards ==
    /\ Len(asked) \in Nat /\ Len(asked)' \in Nat /\ Len(asked) <= Len(asked)'
    /\ \A i \in 1..Len(asked) : i \in 1..Len(asked)' /\ asked'[i] = asked[i]
    /\ child \in {"clear", "gone"} => child' \in {"clear", "gone"}

LEMMA AskedKept ==
    ASSUME GzTypes, UNCHANGED asked, child \in {"clear", "gone"} => child' \in {"clear", "gone"}
    PROVE  Onwards
<1>1. Len(asked) \in Nat /\ Len(asked)' = Len(asked)
  BY LenProperties DEF GzTypes
<1>2. QED
  BY <1>1 DEF Onwards

LEMMA MeansKept ==
    ASSUME NEW u, Means(u), Onwards
    PROVE  Means(u)'
BY DEF Means, Onwards

LEMMA RequestKept ==
    ASSUME UnitInv, Onwards, UNCHANGED request
    PROVE  Means(request)'
<1>1. ASSUME NEW u, u = request
      PROVE  Means(u)'
  BY <1>1, MeansKept DEF UnitInv
<1>2. QED
  BY <1>1 DEF Means

(* The units of the socket are those there were, and good ones. *)
LEMMA UnitsKept ==
    ASSUME UnitInv, Onwards,
           \A i \in 1..Len(asked)' : asked'[i].from + asked'[i].len <= size',
           Means(request)',
           \A i \in 1..Len(requests)' :
             \/ \E j \in 1..Len(requests) : requests'[i] = requests[j]
             \/ \A u : u = requests'[i] => Means(u)' /\ u.req # Unset,
           parent' = "reply" /\ ~error' =>
             /\ request'.req.type = "read"
             /\ data' = <<request'.req.from, request'.req.len>>
    PROVE  UnitInv'
<1>1. ASSUME NEW i \in 1..Len(requests)'
      PROVE  Means(requests[i])' /\ requests'[i].req # Unset
  <2>1. ASSUME NEW u, u = requests'[i]
        PROVE  Means(u)' /\ u.req # Unset
    <3>1. CASE \E j \in 1..Len(requests) : requests'[i] = requests[j]
      <4>1. PICK j \in 1..Len(requests) : requests'[i] = requests[j]
        BY <3>1
      <4>2. Means(u) /\ u.req # Unset
        BY <2>1, <4>1 DEF UnitInv
      <4>3. QED
        BY <4>2, MeansKept
    <3>2. CASE \A v : v = requests'[i] => Means(v)' /\ v.req # Unset
      BY <2>1, <3>2
    <3>3. QED
      BY <1>1, <3>1, <3>2
  <2>2. QED
    BY <2>1 DEF Means
<1>2. QED
  BY <1>1 DEF UnitInv

(* A cause remains one. *)
LEMMA CauseKept ==
    ASSUME GzTypes, GzTypes', NoErrorWithoutCause, Onwards, error' => error, faults <= faults'
    PROVE  NoErrorWithoutCause'
<1>1. DOMAIN asked = 1..Len(asked) /\ DOMAIN asked' = 1..Len(asked)'
  BY LenProperties DEF GzTypes
<1>2. faults \in Int /\ faults' \in Int
  BY DEF GzTypes, TypeOK
<1>3. QED
  BY <1>1, <1>2 DEF NoErrorWithoutCause, Onwards

(* Replies are taken, or stay. *)
LEMMA RepliesKept ==
    ASSUME GzTypes, GzTypes', DataMatches, Onwards,
           \A i \in 1..Len(replies)' :
             \E j \in 1..Len(replies) : replies'[i] = replies[j]
    PROVE  DataMatches'
<1>1. /\ DOMAIN asked = 1..Len(asked) /\ DOMAIN asked' = 1..Len(asked)'
      /\ DOMAIN replies = 1..Len(replies) /\ DOMAIN replies' = 1..Len(replies)'
  BY LenProperties DEF GzTypes
<1>2. ASSUME NEW i \in DOMAIN replies', ~replies'[i].error
      PROVE  /\ replies'[i].handle \in DOMAIN asked'
             /\ asked'[replies'[i].handle].type = "read"
             /\ replies'[i].data = <<asked'[replies'[i].handle].from,
                                     asked'[replies'[i].handle].len>>
  <2>1. PICK j \in DOMAIN replies : replies'[i] = replies[j]
    BY <1>1, <1>2
  <2>2. ASSUME NEW h, h = replies[j].handle
        PROVE  /\ h \in DOMAIN asked' /\ asked'[h].type = "read"
               /\ replies[j].data = <<asked'[h].from, asked'[h].len>>
    <3>1. /\ h \in 1..Len(asked) /\ asked[h].type = "read"
          /\ replies[j].data = <<asked[h].from, asked[h].len>>
      BY <1>1, <1>2, <2>1, <2>2 DEF DataMatches
    <3>2. h \in 1..Len(asked)' /\ asked'[h] = asked[h]
      BY <3>1 DEF Onwards
    <3>3. QED
      BY <1>1, <3>1, <3>2
  <2>3. QED
    BY <2>1, <2>2
<1>3. QED
  BY <1>2 DEF DataMatches

---------------------------------------------------------------------------
(* Starting up, and going down. *)

LEMMA GzInit == Init => GzInv
<1> SUFFICES ASSUME Init PROVE GzInv
  OBVIOUS
<1>1. /\ <<>> \in Seq(1..sent) /\ <<>> \in Seq(Requests) /\ <<>> \in Seq(Unit)
      /\ <<>> \in Seq(Answer) /\ <<>> \in Seq(Nat) /\ Len(<<>>) = 0 /\ DOMAIN <<>> = {}
  <2>1. Len(<<>>) = 0 /\ DOMAIN <<>> = 1..Len(<<>>)
    BY EmptySeq, LenProperties
  <2>2. QED
    BY <2>1, EmptySeq
<1>2. request \in Unit /\ request.req = Unset
  BY UnitTypes DEF Init, Unit
<1>3. size \in Nat /\ 0 \in 0..MaxFaults /\ 0 <= MaxRequests
  BY ArgAssumption, BoundAssumption DEF Init
<1>4. GzTypes
  BY <1>1, <1>2, <1>3 DEF Init, GzTypes, TypeOK, None
<1>5. StartInv
  BY <1>2 DEF Init, StartInv
<1>6. UnitInv
  BY <1>1, <1>2, UnitTypes DEF Init, UnitInv, Means
<1>7. OrderInv
  BY <1>1 DEF Init, OrderInv, Sorted, OnlyReads
<1>8. DataMatches /\ NoErrorWithoutCause
  BY <1>1 DEF Init, DataMatches, NoErrorWithoutCause
<1>9. QED
  BY <1>4, <1>5, <1>6, <1>7, <1>8 DEF GzInv

(* As long as nothing was sent. *)
LEMMA BeforeStep ==
    ASSUME GzInv, GzTypes', StartInv', child \in {"none", "setup"},
           UNCHANGED <<requests, replies, pending, asked, request, error>>,
           parent' # "reply", asked = <<>>
    PROVE  GzInv'
<1>1. /\ requests = <<>> /\ replies = <<>> /\ pending = <<>> /\ ~error /\ parent # "reply"
      /\ GzTypes
  BY DEF GzInv, StartInv
<1>2. Len(<<>>) = 0 /\ DOMAIN <<>> = {}
  <2>1. Len(<<>>) = 0 /\ DOMAIN <<>> = 1..Len(<<>>)
    BY EmptySeq, LenProperties
  <2>2. QED
    BY <2>1
<1>3. Onwards
  BY <1>1, AskedKept
<1>4. Means(request)'
  <2>1. ASSUME NEW u, u = request
        PROVE  Means(u)'
    BY <1>3, <2>1, MeansKept DEF GzInv, UnitInv
  <2>2. QED
    BY <2>1 DEF Means
<1>5. UnitInv'
  BY <1>1, <1>2, <1>4 DEF UnitInv
<1>6. OrderInv'
  BY <1>1, <1>2 DEF OrderInv, Sorted, OnlyReads, InOrder, Current
<1>7. DataMatches' /\ NoErrorWithoutCause'
  BY <1>1, <1>2 DEF DataMatches, NoErrorWithoutCause
<1>8. QED
  BY <1>5, <1>6, <1>7 DEF GzInv

LEMMA GzStart == GzInv /\ (FindSize \/ Fork \/ SetUp) => GzInv'
<1> SUFFICES ASSUME GzInv, FindSize \/ Fork \/ SetUp
             PROVE  GzInv'
  OBVIOUS
<1>1. GzTypes /\ StartInv
  BY DEF GzInv
<1>2. /\ UNCHANGED <<requests, replies, pending, asked, request, error, data, sent>>
      /\ child \in {"none", "setup"}
  BY <1>1 DEF FindSize, Fork, SetUp, kernelVars, StartInv
<1>3. asked = <<>>
  BY <1>1, <1>2 DEF StartInv
<1>4. parent' # "reply" /\ StartInv'
  BY <1>1, <1>2, <1>3 DEF FindSize, Fork, SetUp, kernelVars, StartInv
<1>5. faults' \in 0..MaxFaults
  <2>1. faults \in 0..MaxFaults /\ MaxFaults \in Nat
    BY <1>1, BoundAssumption DEF GzTypes, TypeOK
  <2>2. faults' = faults \/ (faults < MaxFaults /\ faults' = faults + 1)
    BY DEF FindSize, Fork, SetUp
  <2>3. QED
    BY <2>1, <2>2
<1>6. size' \in Nat
  BY <1>1, SizeAssumption DEF FindSize, Fork, SetUp, GzTypes, TypeOK
<1>7. GzTypes'
  BY <1>1, <1>2, <1>5, <1>6 DEF FindSize, Fork, SetUp, kernelVars, GzTypes, TypeOK
<1>8. QED
  BY <1>2, <1>3, <1>4, <1>7, BeforeStep
LEMMA GzClear == GzInv /\ Clear => GzInv'
<1> SUFFICES ASSUME GzInv, Clear
             PROVE  GzInv'
  OBVIOUS
<1>1. /\ GzTypes /\ UnitInv /\ DataMatches /\ NoErrorWithoutCause
      /\ child = "clear" /\ child' = "gone" /\ pending' = <<>>
      /\ UNCHANGED <<size, parent, sent, requests, replies, request, error, data,
                     faults, asked>>
  BY DEF GzInv, Clear
<1>2. Onwards
  BY <1>1, AskedKept
<1>3. <<>> \in Seq(1..sent) /\ Len(<<>>) = 0
  BY EmptySeq
<1>4. GzTypes'
  BY <1>1, <1>3 DEF GzTypes, TypeOK
<1>5. StartInv'
  BY <1>1 DEF GzInv, StartInv
<1>6. UnitInv'
  <2>1. /\ parent = "reply" /\ ~error =>
             request.req.type = "read" /\ data = <<request.req.from, request.req.len>>
        /\ \A i \in 1..Len(asked) : asked[i].from + asked[i].len <= size
    BY <1>1 DEF UnitInv
  <2>2. QED
    BY <1>1, <1>2, <2>1, RequestKept, UnitsKept
<1>7. OrderInv'
  BY <1>1, <1>3 DEF OrderInv, Sorted, OnlyReads
<1>8. DataMatches' /\ NoErrorWithoutCause'
  <2>1. faults <= faults'
    BY <1>1 DEF GzTypes, TypeOK
  <2>2. \A i \in 1..Len(replies)' : \E j \in 1..Len(replies) : replies'[i] = replies[j]
    BY <1>1
  <2>3. QED
    BY <1>1, <1>2, <1>4, <2>1, <2>2, CauseKept, RepliesKept
<1>9. QED
  BY <1>4, <1>5, <1>6, <1>7, <1>8 DEF GzInv

LEMMA GzStop == GzInv /\ Stop => GzInv'
<1> SUFFICES ASSUME GzInv, Stop
             PROVE  GzInv'
  OBVIOUS
<1> DEFINE disc == [handle |-> 0, req |-> DiscRequest]
<1>1. /\ GzTypes /\ UnitInv /\ DataMatches /\ NoErrorWithoutCause /\ StartInv /\ OrderInv
      /\ child = "doit" /\ child' = "clear"
      /\ requests' = requests \/ requests' = Append(requests, disc)
      /\ UNCHANGED <<size, parent, sent, pending, replies, request, error, data, faults,
                     asked>>
  BY DEF GzInv, Stop
<1>2. Onwards
  BY <1>1, AskedKept
<1>3. disc \in Unit /\ disc.req = DiscRequest
  BY UnitTypes DEF Unit
<1> HIDE DEF disc
<1>4. requests \in Seq(Unit) /\ Len(requests) \in Nat
  BY <1>1, LenProperties DEF GzTypes
<1>5. /\ requests' \in Seq(Unit)
      /\ \A i \in 1..Len(requests)' :
           (\E j \in 1..Len(requests) : requests'[i] = requests[j]) \/ requests'[i] = disc
  <2>1. CASE requests' = requests
    BY <1>4, <2>1
  <2>2. CASE requests' = Append(requests, disc)
    BY <1>3, <1>4, <2>2, AppendProperties
  <2>3. QED
    BY <1>1, <2>1, <2>2
<1>6. GzTypes'
  BY <1>1, <1>5 DEF GzTypes, TypeOK
<1>7. StartInv'
  BY <1>1 DEF StartInv
<1>8. UnitInv'
  <2>1. /\ parent = "reply" /\ ~error =>
             request.req.type = "read" /\ data = <<request.req.from, request.req.len>>
        /\ \A i \in 1..Len(asked) : asked[i].from + asked[i].len <= size
    BY <1>1 DEF UnitInv
  <2>2. \A u : u = disc => Means(u)' /\ u.req # Unset
    BY <1>1, <1>3, UnitTypes DEF Means
  <2>3. \A i \in 1..Len(requests)' :
             \/ \E j \in 1..Len(requests) : requests'[i] = requests[j]
             \/ \A u : u = requests'[i] => Means(u)' /\ u.req # Unset
    BY <1>5, <2>2
  <2>4. QED
    BY <1>1, <1>2, <2>1, <2>3, RequestKept, UnitsKept
<1>9. OrderInv'
  BY <1>1 DEF OrderInv, Sorted, OnlyReads
<1>10. DataMatches' /\ NoErrorWithoutCause'
  <2>1. faults <= faults'
    BY <1>1 DEF GzTypes, TypeOK
  <2>2. \A i \in 1..Len(replies)' : \E j \in 1..Len(replies) : replies'[i] = replies[j]
    BY <1>1
  <2>3. QED
    BY <1>1, <1>2, <1>6, <2>1, <2>2, CauseKept, RepliesKept
<1>11. QED
  BY <1>6, <1>7, <1>8, <1>9, <1>10 DEF GzInv

---------------------------------------------------------------------------
(* The kernel sends a request, or takes a reply. *)

LEMMA GzReceive == GzInv /\ Receive => GzInv'
<1> SUFFICES ASSUME GzInv, Receive
             PROVE  GzInv'
  OBVIOUS
<1>1. /\ GzTypes /\ UnitInv /\ DataMatches /\ NoErrorWithoutCause /\ StartInv /\ OrderInv
      /\ child = "doit" /\ replies # <<>> /\ replies' = Tail(replies)
      /\ UNCHANGED <<size, parent, sent, requests, request, error, data, faults, asked>>
  BY DEF GzInv, Receive
<1>2. \/ \E i \in DOMAIN pending : /\ pending[i] = Head(replies).handle
                                   /\ pending' = RemoveAt(pending, i) /\ child' = child
      \/ child' = "clear" /\ pending' = pending
  BY DEF Receive
<1>3. Onwards
  BY <1>1, AskedKept
<1>4. /\ replies \in Seq(Answer) /\ Len(replies) \in Nat \ {0}
      /\ Head(replies) = replies[1]
      /\ replies' \in Seq(Answer) /\ Len(replies') = Len(replies) - 1
      /\ \A i \in 1..Len(replies') : replies'[i] = replies[i + 1]
  BY <1>1, EmptySeq, HeadTailProperties DEF GzTypes
<1>5. /\ pending \in Seq(1..sent) /\ Len(pending) \in Nat /\ sent \in Nat
      /\ DOMAIN pending = 1..Len(pending)
      /\ \A i \in 1..Len(pending) : pending[i] \in 1..sent
  BY <1>1, LenProperties, ElementOfSeq DEF GzTypes, TypeOK
<1>6. \/ \E i \in 1..Len(pending) :
           /\ pending[i] = replies[1].handle /\ child' = child
           /\ pending' \in Seq(1..sent) /\ Len(pending') = Len(pending) - 1
           /\ \A j \in 1..Len(pending') : pending'[j] = IF j < i THEN pending[j] ELSE pending[j + 1]
      \/ child' = "clear" /\ pending' = pending
  <2>1. CASE child' = "clear" /\ pending' = pending
    BY <2>1
  <2>2. ASSUME NEW i \in DOMAIN pending, pending[i] = Head(replies).handle,
               pending' = RemoveAt(pending, i), child' = child
        PROVE  /\ i \in 1..Len(pending) /\ pending[i] = replies[1].handle
               /\ pending' \in Seq(1..sent) /\ Len(pending') = Len(pending) - 1
               /\ \A j \in 1..Len(pending') :
                    pending'[j] = IF j < i THEN pending[j] ELSE pending[j + 1]
    <3>1. i \in 1..Len(pending) /\ pending[i] = replies[1].handle
      BY <1>4, <1>5, <2>2, SMTT(30)
    <3>2. PICK p : p = RemoveAt(pending, i)
      OBVIOUS
    <3>3. /\ p \in Seq(1..sent) /\ Len(p) = Len(pending) - 1
          /\ \A j \in 1..Len(pending) - 1 :
               p[j] = IF j < i THEN pending[j] ELSE pending[j + 1]
      <4>1. pending \in Seq(1..sent) /\ i \in 1..Len(pending)
        BY <1>5, <3>1
      <4>2. QED
        BY <3>2, <4>1, WithoutOne, Zenon
    <3>4. \A j \in 1..Len(p) : p[j] = IF j < i THEN pending[j] ELSE pending[j + 1]
      <4>1. \A j \in 1..Len(pending) - 1 :
              p[j] = IF j < i THEN pending[j] ELSE pending[j + 1]
        BY <3>3, Zenon
      <4>2. 1..Len(p) = 1..Len(pending) - 1
        BY <3>3, Zenon
      <4>3. QED
        BY <4>1, <4>2, Zenon
    <3>5. pending' = p
      BY <2>2, <3>2
    <3>6. QED
      BY <3>1, <3>3, <3>4, <3>5, Zenon
  <2>3. QED
    BY <1>2, <2>1, <2>2
<1>7. GzTypes'
  BY <1>1, <1>4, <1>5, <1>6, Zenon DEF GzTypes, TypeOK
<1>8. StartInv'
  BY <1>1, <1>6 DEF StartInv
<1>9. UnitInv'
  <2>1. /\ parent = "reply" /\ ~error =>
             request.req.type = "read" /\ data = <<request.req.from, request.req.len>>
        /\ \A i \in 1..Len(asked) : asked[i].from + asked[i].len <= size
    BY <1>1 DEF UnitInv
  <2>2. QED
    BY <1>1, <1>3, <2>1, RequestKept, UnitsKept
<1>10. Sorted'
  <2>1. CASE pending' = pending
    BY <1>1, <2>1 DEF OrderInv, Sorted
  <2>2. ASSUME NEW i \in 1..Len(pending), Len(pending') = Len(pending) - 1,
               \A j \in 1..Len(pending') :
                 pending'[j] = IF j < i THEN pending[j] ELSE pending[j + 1]
        PROVE  Sorted'
    <3> SUFFICES ASSUME NEW k \in 1..Len(pending'), NEW j \in 1..Len(pending'), k < j
                 PROVE  pending'[k] < pending'[j]
      BY DEF Sorted
    <3>0. Len(pending') = Len(pending) - 1 /\ Len(pending) \in Nat
      BY <1>5, <2>2
    <3>1. /\ k \in 1..Len(pending) /\ k + 1 \in 1..Len(pending)
          /\ j \in 1..Len(pending) /\ j + 1 \in 1..Len(pending)
          /\ k < j + 1 /\ k + 1 < j + 1
      BY <3>0
    <3>2. CASE j < i
      BY <1>1, <2>2, <3>1, <3>2 DEF OrderInv, Sorted
    <3>3. CASE ~(j < i) /\ k < i
      BY <1>1, <2>2, <3>1, <3>3 DEF OrderInv, Sorted
    <3>4. CASE ~(j < i) /\ ~(k < i)
      BY <1>1, <2>2, <3>1, <3>4 DEF OrderInv, Sorted
    <3>5. QED
      BY <3>2, <3>3, <3>4
  <2>3. QED
    BY <1>6, <2>1, <2>2
<1>11. OnlyReads' => InOrder'
  <2> SUFFICES ASSUME OnlyReads'
               PROVE  InOrder'
    OBVIOUS
  <2>1. OnlyReads /\ InOrder
    BY <1>1 DEF OnlyReads, OrderInv
  <2>2. PICK i \in 1..Len(pending) :
           /\ pending[i] = replies[1].handle
           /\ Len(pending') = Len(pending) - 1
           /\ \A j \in 1..Len(pending') : pending'[j] = IF j < i THEN pending[j] ELSE pending[j + 1]
    BY <1>6 DEF OnlyReads
  <2>3. 1 \in 1..Len(replies) /\ 1 \in 1..Len(pending)
    BY <1>4, <1>5
  <2>4. pending[1] = replies[1].handle
    BY <2>1, <2>3 DEF InOrder
  <2>5. i = 1
    <3>1. SUFFICES ASSUME 1 < i PROVE FALSE
      BY <1>5
    <3>2. pending[1] < pending[i]
      BY <1>1, <2>3, <3>1 DEF OrderInv, Sorted
    <3>3. QED
      BY <1>5, <2>2, <2>3, <2>4, <3>2
  <2>6. \A j \in 1..Len(pending') : pending'[j] = pending[j + 1]
    BY <2>2, <2>5
  <2>7. Current' = Current /\ Current \in Nat /\ Len(requests) \in Nat
    BY <1>1, LenProperties DEF Current, GzTypes
  <2>8. /\ Len(pending) = Len(replies) + Current + Len(requests)
        /\ \A j \in 1..Len(replies) : pending[j] = replies[j].handle
        /\ parent = "reply" => pending[Len(replies) + 1] = request.handle
        /\ \A j \in 1..Len(requests) : pending[Len(replies) + Current + j] = requests[j].handle
    BY <2>1 DEF InOrder
  <2>9. Len(pending') = Len(replies') + Current + Len(requests)
    BY <1>4, <2>2, <2>7, <2>8
  <2>10. \A j \in 1..Len(replies') : pending'[j] = replies'[j].handle
    <3> SUFFICES ASSUME NEW j \in 1..Len(replies')
                 PROVE  pending'[j] = replies'[j].handle
      OBVIOUS
    <3>1. j \in 1..Len(pending') /\ j + 1 \in 1..Len(replies)
      BY <1>4, <2>7, <2>9
    <3>2. QED
      BY <1>4, <2>6, <2>8, <3>1
  <2>11. parent = "reply" => pending'[Len(replies') + 1] = request.handle
    <3> SUFFICES ASSUME parent = "reply"
                 PROVE  pending'[Len(replies') + 1] = request.handle
      OBVIOUS
    <3>1. Current = 1
      BY DEF Current
    <3>2. /\ Len(replies') + 1 \in 1..Len(pending')
          /\ (Len(replies') + 1) + 1 = Len(replies) + 1
      BY <1>4, <2>7, <2>9, <3>1
    <3>3. QED
      BY <2>6, <2>8, <3>2
  <2>12. \A j \in 1..Len(requests) :
             pending'[Len(replies') + Current + j] = requests[j].handle
    <3> SUFFICES ASSUME NEW j \in 1..Len(requests)
                 PROVE  pending'[Len(replies') + Current + j] = requests[j].handle
      OBVIOUS
    <3>1. /\ Len(replies') + Current + j \in 1..Len(pending')
          /\ (Len(replies') + Current + j) + 1 = Len(replies) + Current + j
      BY <1>4, <2>7, <2>9
    <3>2. QED
      BY <2>6, <2>8, <3>1
  <2>13. QED
    BY <1>1, <2>7, <2>9, <2>10, <2>11, <2>12 DEF InOrder
<1>12. DataMatches' /\ NoErrorWithoutCause'
  <2>1. faults <= faults'
    BY <1>1 DEF GzTypes, TypeOK
  <2>2. \A i \in 1..Len(replies)' : \E j \in 1..Len(replies) : replies'[i] = replies[j]
    BY <1>4
  <2>3. QED
    BY <1>1, <1>3, <1>7, <2>1, <2>2, CauseKept, RepliesKept
<1>13. QED
  BY <1>7, <1>8, <1>9, <1>10, <1>11, <1>12 DEF GzInv, OrderInv
LEMMA GzSend == \A r \in Requests : GzInv /\ Send(r) => GzInv'
<1> SUFFICES ASSUME NEW r \in Requests, GzInv, Send(r)
             PROVE  GzInv'
  OBVIOUS
<1> DEFINE unit == [handle |-> sent + 1, req |-> r]
           more == <<unit>> \o (IF r.type = "write" THEN <<Garbage>> ELSE <<>>)
<1>1. /\ GzTypes /\ UnitInv /\ DataMatches /\ NoErrorWithoutCause /\ StartInv /\ OrderInv
      /\ child = "doit" /\ child' = child /\ sent < MaxRequests /\ sent' = sent + 1
      /\ r.from + r.len <= size
      /\ asked' = Append(asked, r) /\ pending' = Append(pending, sent + 1)
      /\ UNCHANGED <<size, parent, replies, request, error, data, faults>>
  BY DEF GzInv, Send, InRange
<1>2. /\ sent = Len(asked) /\ sent \in Nat /\ asked \in Seq(Requests)
      /\ requests \in Seq(Unit) /\ Len(requests) \in Nat
      /\ pending \in Seq(1..sent) /\ Len(pending) \in Nat
      /\ \A i \in 1..Len(pending) : pending[i] \in 1..sent
  BY <1>1, LenProperties, ElementOfSeq DEF GzTypes, TypeOK
<1>3. /\ asked' \in Seq(Requests) /\ Len(asked') = sent + 1 /\ asked'[sent + 1] = r
      /\ \A i \in 1..sent : asked'[i] = asked[i]
  BY <1>1, <1>2, AppendProperties
<1>4. Onwards
  BY <1>1, <1>2, <1>3 DEF Onwards
<1>5. unit \in Unit /\ unit.req = r /\ unit.handle = sent + 1
  BY <1>2 DEF Unit, Req
<1>6. \A u : u = unit \/ (r.type = "write" /\ u = Garbage) => Means(u)' /\ u.req # Unset
  <2>1. sent + 1 \in 1..Len(asked')
    BY <1>2, <1>3
  <2>2. \A u : u = unit => Means(u)' /\ u.req # Unset
    BY <1>3, <1>5, <2>1, UnitTypes DEF Means
  <2>3. r.type = "write" => \A u : u = Garbage => Means(u)' /\ u.req # Unset
    BY <1>3, <2>1, UnitTypes DEF Means
  <2>4. QED
    BY <2>2, <2>3
<1> HIDE DEF unit
<1>7. /\ more \in Seq(Unit) /\ Len(more) \in Nat /\ more[1] = unit /\ Len(more) >= 1
      /\ r.type # "write" => Len(more) = 1
      /\ \A i \in 1..Len(more) : more[i] = unit \/ (r.type = "write" /\ more[i] = Garbage)
  <2>1. <<unit>> \in Seq(Unit) /\ Len(<<unit>>) = 1 /\ <<unit>>[1] = unit
    BY <1>5
  <2>2. <<Garbage>> \in Seq(Unit) /\ Len(<<Garbage>>) = 1 /\ <<Garbage>>[1] = Garbage
    BY UnitTypes
  <2>3. CASE r.type = "write"
    <3>1. /\ <<unit>> \o <<Garbage>> \in Seq(Unit) /\ Len(<<unit>> \o <<Garbage>>) = 1 + 1
          /\ \A i \in 1..1 + 1 : (<<unit>> \o <<Garbage>>)[i] =
                                   IF i <= 1 THEN <<unit>>[i] ELSE <<Garbage>>[i - 1]
      BY <2>1, <2>2, ConcatProperties
    <3>2. more = <<unit>> \o <<Garbage>>
      BY <2>3
    <3> HIDE DEF more
    <3>3. Len(more) = 2 /\ more[1] = unit /\ more[2] = Garbage /\ more \in Seq(Unit)
      BY <2>1, <2>2, <3>1, <3>2
    <3>4. \A i \in 1..2 : i = 1 \/ i = 2
      OBVIOUS
    <3>5. QED
      BY <2>3, <3>3, <3>4
  <2>4. CASE r.type # "write"
    <3>1. <<unit>> \o <<>> = <<unit>>
      BY <2>1, ConcatEmptySeq
    <3>2. more = <<unit>>
      BY <2>4, <3>1
    <3>3. QED
      BY <2>1, <2>4, <3>2
  <2>5. QED
    BY <2>3, <2>4
<1>8. requests' = requests \o more
  <2>1. requests' = requests \o <<unit>> \o (IF r.type = "write" THEN <<Garbage>> ELSE <<>>)
    BY DEF Send, unit
  <2>2. /\ <<unit>> \in Seq(Unit)
        /\ (IF r.type = "write" THEN <<Garbage>> ELSE <<>>) \in Seq(Unit)
    <3>1. <<Garbage>> \in Seq(Unit) /\ <<>> \in Seq(Unit)
      BY UnitTypes, EmptySeq
    <3>2. QED
      BY <1>5, <3>1
  <2>3. QED
    BY <1>2, <2>1, <2>2, ConcatAssociative
<1> HIDE DEF more
<1>9. /\ requests' \in Seq(Unit) /\ Len(requests') = Len(requests) + Len(more)
      /\ \A i \in 1..Len(requests) : requests'[i] = requests[i]
      /\ \A i \in 1..Len(more) : requests'[Len(requests) + i] = more[i]
  <2>1. /\ requests' \in Seq(Unit) /\ Len(requests') = Len(requests) + Len(more)
        /\ \A i \in 1..Len(requests) + Len(more) : requests'[i] =
             IF i <= Len(requests) THEN requests[i] ELSE more[i - Len(requests)]
    BY <1>2, <1>7, <1>8, ConcatProperties
  <2>2. \A i \in 1..Len(requests) : i \in 1..Len(requests) + Len(more) /\ i <= Len(requests)
    BY <1>2, <1>7
  <2>3. \A i \in 1..Len(more) : /\ Len(requests) + i \in 1..Len(requests) + Len(more)
                                /\ ~(Len(requests) + i <= Len(requests))
                                /\ Len(requests) + i - Len(requests) = i
    BY <1>2, <1>7
  <2>4. QED
    BY <2>1, <2>2, <2>3
<1>10. /\ pending' \in Seq(1..sent + 1) /\ Len(pending') = Len(pending) + 1
       /\ pending'[Len(pending) + 1] = sent + 1
       /\ \A i \in 1..Len(pending) : pending'[i] = pending[i]
  <2>1. pending \in Seq(1..sent + 1) /\ sent + 1 \in 1..sent + 1
    <3>1. 1..sent \subseteq 1..sent + 1
      BY <1>2
    <3>2. QED
      BY <1>2, <3>1, SeqMonotonic
  <2>2. QED
    BY <1>1, <2>1, AppendProperties
<1>11. GzTypes'
  <2>1. sent + 1 <= MaxRequests
    BY <1>1, <1>2, BoundAssumption
  <2>2. QED
    BY <1>1, <1>3, <1>9, <1>10, <2>1 DEF GzTypes, TypeOK
<1>12. StartInv'
  BY <1>1 DEF StartInv
<1>13. UnitInv'
  <2>1. /\ parent = "reply" /\ ~error =>
             request.req.type = "read" /\ data = <<request.req.from, request.req.len>>
        /\ \A i \in 1..Len(asked) : asked[i].from + asked[i].len <= size
    BY <1>1 DEF UnitInv
  <2>2. \A i \in 1..Len(asked') : asked'[i].from + asked'[i].len <= size
    <3>1. \A i \in 1..Len(asked') : i \in 1..sent \/ i = sent + 1
      BY <1>2, <1>3
    <3>2. QED
      BY <1>1, <1>2, <1>3, <2>1, <3>1
  <2>3. \A i \in 1..Len(requests)' :
             \/ \E j \in 1..Len(requests) : requests'[i] = requests[j]
             \/ \A u : u = requests'[i] => Means(u)' /\ u.req # Unset
    <3> SUFFICES ASSUME NEW i \in 1..Len(requests)'
                 PROVE  \/ \E j \in 1..Len(requests) : requests'[i] = requests[j]
                        \/ \A u : u = requests'[i] => Means(u)' /\ u.req # Unset
      OBVIOUS
    <3>1. CASE i <= Len(requests)
      BY <1>2, <1>9, <3>1
    <3>2. CASE ~(i <= Len(requests))
      <4>1. i - Len(requests) \in 1..Len(more) /\ Len(requests) + (i - Len(requests)) = i
        BY <1>2, <1>7, <1>9, <3>2
      <4>2. requests'[i] = more[i - Len(requests)]
        BY <1>9, <4>1
      <4>3. QED
        BY <1>6, <1>7, <4>1, <4>2
    <3>3. QED
      BY <3>1, <3>2
  <2>4. QED
    BY <1>1, <1>4, <2>1, <2>2, <2>3, RequestKept, UnitsKept
<1>14. Sorted'
  <2> SUFFICES ASSUME NEW i \in 1..Len(pending'), NEW j \in 1..Len(pending'), i < j
               PROVE  pending'[i] < pending'[j]
    BY DEF Sorted
  <2>1. i \in 1..Len(pending) /\ pending'[i] = pending[i] /\ pending[i] \in 1..sent
    <3>1. Len(pending') = Len(pending) + 1 /\ Len(pending) \in Nat
      BY <1>2, <1>10
    <3>2. i \in 1..Len(pending)
      BY <3>1
    <3>3. QED
      BY <1>2, <1>10, <3>2
  <2>2. CASE j \in 1..Len(pending)
    BY <1>1, <1>10, <2>1, <2>2 DEF OrderInv, Sorted
  <2>3. CASE j = Len(pending) + 1
    BY <1>2, <1>10, <2>1, <2>3
  <2>4. j \in 1..Len(pending) \/ j = Len(pending) + 1
    <3>1. Len(pending') = Len(pending) + 1 /\ Len(pending) \in Nat
      BY <1>2, <1>10
    <3>2. QED
      BY <3>1
  <2>5. QED
    BY <2>2, <2>3, <2>4
<1>15. OnlyReads' => InOrder'
  <2> SUFFICES ASSUME OnlyReads'
               PROVE  InOrder'
    OBVIOUS
  <2>1. \A i \in 1..Len(asked) : i \in 1..Len(asked')
    BY <1>2, <1>3
  <2>2. OnlyReads /\ InOrder
    BY <1>1, <1>2, <1>3, <2>1 DEF OnlyReads, OrderInv
  <2>3. r.type = "read"
    <3>1. sent + 1 \in 1..Len(asked')
      BY <1>2, <1>3
    <3>2. QED
      BY <1>3, <3>1 DEF OnlyReads
  <2>4. Len(more) = 1 /\ more[1] = unit
    BY <1>7, <2>3
  <2>5. /\ Current' = Current /\ Current \in Nat /\ Len(replies) \in Nat
        /\ Current <= 1 /\ (parent = "reply" => Current = 1)
    BY <1>1, LenProperties DEF Current, GzTypes
  <2>6. /\ Len(pending) = Len(replies) + Current + Len(requests)
        /\ \A i \in 1..Len(replies) : pending[i] = replies[i].handle
        /\ parent = "reply" => pending[Len(replies) + 1] = request.handle
        /\ \A i \in 1..Len(requests) : pending[Len(replies) + Current + i] = requests[i].handle
    BY <2>2 DEF InOrder
  <2>7. Len(requests') = Len(requests) + 1 /\ requests'[Len(requests) + 1] = unit
    <3>1. 1 \in 1..Len(more)
      BY <2>4
    <3>2. QED
      BY <1>9, <2>4, <3>1
  <2>8. Len(pending') = Len(replies) + Current + Len(requests')
    BY <1>2, <1>10, <2>5, <2>6, <2>7
  <2>9. \A i \in 1..Len(replies) : i \in 1..Len(pending)
    BY <1>2, <2>5, <2>6
  <2>10. parent = "reply" => Len(replies) + 1 \in 1..Len(pending)
    BY <1>2, <2>5, <2>6
  <2>11. ASSUME NEW i \in 1..Len(requests')
         PROVE  pending'[Len(replies) + Current + i] = requests'[i].handle
    <3>1. CASE i \in 1..Len(requests)
      <4>1. Len(replies) + Current + i \in 1..Len(pending)
        BY <1>2, <2>5, <2>6, <3>1
      <4>2. QED
        <5>1. requests'[i] = requests[i]
          BY <1>9, <3>1
        <5>2. pending'[Len(replies) + Current + i] = pending[Len(replies) + Current + i]
          BY <1>10, <4>1
        <5>3. QED
          BY <2>6, <3>1, <5>1, <5>2
    <3>2. CASE i = Len(requests) + 1
      <4>1. Len(replies) + Current + i = Len(pending) + 1
        BY <1>2, <2>5, <2>6, <3>2
      <4>2. QED
        BY <1>5, <1>10, <2>7, <3>2, <4>1
    <3>3. QED
      BY <1>2, <2>7, <3>1, <3>2
  <2>12. QED
    BY <1>1, <1>10, <2>5, <2>6, <2>8, <2>9, <2>10, <2>11 DEF InOrder
<1>16. DataMatches' /\ NoErrorWithoutCause'
  <2>1. faults <= faults'
    BY <1>1 DEF GzTypes, TypeOK
  <2>2. \A i \in 1..Len(replies)' : \E j \in 1..Len(replies) : replies'[i] = replies[j]
    BY <1>1
  <2>3. QED
    BY <1>1, <1>4, <1>11, <2>1, <2>2, CauseKept, RepliesKept
<1>17. QED
  BY <1>11, <1>12, <1>13, <1>14, <1>15, <1>16 DEF GzInv, OrderInv
---------------------------------------------------------------------------
(* The parent serves a unit, and replies. *)

LEMMA ServeFacts ==
    ASSUME GzInv, NEW unit \in Unit, Means(unit), unit.req # Unset \/ child = "gone",
           Serve(unit), UNCHANGED <<child, asked, size>>
    PROVE  /\ error' \in BOOLEAN /\ faults' \in 0..MaxFaults /\ faults <= faults'
           /\ data' \in Seq(Nat) /\ (data' # None => data'[2] <= Chunk)
           /\ ~error' => /\ unit.req.type = "read"
                         /\ data' = <<unit.req.from, unit.req.len>>
           /\ NoErrorWithoutCause'
<1> DEFINE r == unit.req
<1>1. /\ GzTypes /\ UnitInv /\ NoErrorWithoutCause
      /\ r \in Req /\ r.from \in Nat /\ r.len \in Nat
      /\ r.type \in {"read", "write", "unset", "garbage", "disc"}
      /\ r.type = "unset" => child = "gone"
      /\ faults \in 0..MaxFaults /\ MaxFaults \in Nat
      /\ DOMAIN asked = 1..Len(asked)
  BY UnitTypes, BoundAssumption, LenProperties DEF GzInv, GzTypes, TypeOK, Unit
<1>2. PICK failed \in Failing(r) :
         /\ error' = (failed \/ ~Reads(r))
         /\ faults' = IF failed /\ r.from + r.len <= FileSize THEN faults + 1 ELSE faults
  BY DEF Serve
<1>3. /\ faults' <= MaxFaults /\ data' = IF error' THEN None ELSE <<r.from, r.len>>
  BY DEF Serve
<1>4. failed \in BOOLEAN /\ (failed => Reads(r))
  BY DEF Failing
<1>5. error' \in BOOLEAN
  BY <1>2, <1>4 DEF Reads
<1>6. faults' \in 0..MaxFaults /\ faults <= faults'
  <2>1. faults' = faults \/ faults' = faults + 1
    BY <1>2
  <2>2. QED
    BY <1>1, <1>3, <2>1
<1>7. ~error' => Reads(r)
  BY <1>2
<1>8. Reads(r) => /\ ~error /\ r.type = "read" /\ r.len <= Chunk
  BY <1>1, SizeAssumption DEF Reads, Refused, TooLong
<1>9. data' \in Seq(Nat) /\ (data' # None => data'[2] <= Chunk)
  <2>1. <<>> \in Seq(Nat)
    BY EmptySeq
  <2>2. CASE error'
    BY <1>3, <2>1, <2>2 DEF None
  <2>3. CASE ~error'
    BY <1>1, <1>3, <1>7, <1>8, <2>3, Pairs
  <2>4. QED
    BY <2>2, <2>3
<1>10. ~error' => r.type = "read" /\ data' = <<r.from, r.len>>
  BY <1>3, <1>7, <1>8
<1>11. ASSUME r.type \in {"read", "write"}
       PROVE  /\ unit.handle \in DOMAIN asked /\ asked[unit.handle] = r
              /\ r.from + r.len <= size
  BY <1>1, <1>11 DEF Means, UnitInv
<1>12. ASSUME error'
       PROVE  \/ faults' > 0 \/ child \in {"clear", "gone"}
              \/ \E i \in DOMAIN asked : \/ asked[i].type = "write"
                                         \/ asked[i].len > Chunk
                                         \/ asked[i].from + asked[i].len > FileSize
  <2>1. CASE error
    BY <1>1, <1>6, <2>1 DEF NoErrorWithoutCause
  <2>2. CASE failed
    <3>1. r.type = "read"
      BY <1>4, <1>8, <2>2
    <3>2. CASE r.from + r.len <= FileSize
      BY <1>1, <1>2, <2>2, <3>2
    <3>3. CASE ~(r.from + r.len <= FileSize)
      <4>1. r.from + r.len > FileSize
        BY <1>1, <3>3, SizeAssumption
      <4>2. QED
        BY <1>11, <3>1, <4>1
    <3>4. QED
      BY <3>2, <3>3
  <2>3. CASE ~error /\ ~failed
    <3>1. Refused(r)
      BY <1>2, <1>12, <2>3 DEF Reads
    <3>2. CASE r.type = "read"
      <4>1. r.len > Chunk
        <5>1. r.len > Chunk \/ r.from + r.len > size
          BY <3>1, <3>2 DEF Refused, TooLong, Outside
        <5>2. r.from + r.len <= size /\ size \in Nat
          BY <1>1, <1>11, <3>2 DEF GzTypes, TypeOK
        <5>3. QED
          BY <1>1, <5>1, <5>2
      <4>2. QED
        BY <1>11, <3>2, <4>1
    <3>3. CASE r.type = "write"
      BY <1>11, <3>3
    <3>4. CASE r.type = "garbage"
      BY <1>1, <3>4 DEF Means
    <3>5. CASE r.type \in {"disc", "unset"}
      BY <1>1, <3>5 DEF Means
    <3>6. QED
      BY <1>1, <3>2, <3>3, <3>4, <3>5
  <2>4. QED
    BY <1>4, <2>1, <2>2, <2>3
<1>13. NoErrorWithoutCause'
  BY <1>12 DEF NoErrorWithoutCause
<1>14. QED
  BY <1>5, <1>6, <1>9, <1>10, <1>13

(* The unit the parent takes, and what it means. *)
LEMMA TakenUnit ==
    ASSUME GzTypes, UnitInv, requests # <<>>
    PROVE  LET unit == Received(Head(requests))
           IN  /\ unit \in Unit /\ Means(unit) /\ unit.req # Unset
               /\ OnlyReads => unit = requests[1]
<1>1. /\ requests \in Seq(Unit) /\ Len(requests) \in Nat \ {0} /\ Head(requests) = requests[1]
      /\ requests[1] \in Unit /\ Means(requests[1]) /\ requests[1].req # Unset
  <2>1. requests \in Seq(Unit) /\ Len(requests) \in Nat \ {0} /\ Head(requests) = requests[1]
    BY EmptySeq DEF GzTypes
  <2>2. 1 \in 1..Len(requests)
    BY <2>1
  <2>3. QED
    BY <2>1, <2>2, ElementOfSeq DEF UnitInv
<1>2. Misaligned => \E i \in 1..Len(asked) : asked[i].type = "write"
  BY UnitTypes DEF Misaligned, UnitInv, Means
<1>3. CASE Misaligned
  <2>1. Received(Head(requests)) = Garbage
    BY <1>3 DEF Received
  <2>2. Garbage \in Unit /\ Means(Garbage) /\ Garbage.req # Unset
    BY <1>2, <1>3, UnitTypes DEF Means
  <2>3. ~OnlyReads
    BY <1>2, <1>3 DEF OnlyReads
  <2>4. QED
    BY <2>1, <2>2, <2>3
<1>4. CASE ~Misaligned
  BY <1>1, <1>4 DEF Received
<1>5. QED
  BY <1>3, <1>4

LEMMA GzServe == GzInv /\ ServeRequest => GzInv'
<1> SUFFICES ASSUME GzInv, ServeRequest
             PROVE  GzInv'
  OBVIOUS
<1>1. /\ GzTypes /\ UnitInv /\ DataMatches /\ NoErrorWithoutCause /\ StartInv /\ OrderInv
      /\ parent = "serve" /\ parent' = "reply"
      /\ UNCHANGED <<size, child, sent, pending, asked, replies>>
  BY DEF GzInv, ServeRequest, Serve, kernelVars
<1>2. PICK unit \in Unit :
        /\ Means(unit) /\ (unit.req # Unset \/ child = "gone") /\ Serve(unit)
        /\ \/ requests # <<>> /\ requests' = Tail(requests)
              /\ (OnlyReads => unit = requests[1])
           \/ requests' = requests /\ child = "gone"
  <2>1. CASE requests # <<>> /\ requests' = Tail(requests) /\ Serve(Received(Head(requests)))
    BY <1>1, <2>1, TakenUnit
  <2>2. CASE child = "gone" /\ Serve(request) /\ requests' = requests
    BY <1>1, <2>2 DEF UnitInv, GzTypes
  <2>3. QED
    BY <2>1, <2>2 DEF ServeRequest
<1>3. /\ error' \in BOOLEAN /\ faults' \in 0..MaxFaults /\ faults <= faults'
      /\ data' \in Seq(Nat) /\ (data' # None => data'[2] <= Chunk)
      /\ ~error' => /\ unit.req.type = "read"
                    /\ data' = <<unit.req.from, unit.req.len>>
      /\ NoErrorWithoutCause'
  BY <1>1, <1>2, ServeFacts
<1>4. request' = unit
  BY <1>2 DEF Serve
<1>5. /\ requests' \in Seq(Unit) /\ requests \in Seq(Unit) /\ Len(requests) \in Nat
      /\ requests # <<>> /\ requests' = Tail(requests) =>
           /\ Len(requests') = Len(requests) - 1 /\ Len(requests) >= 1
           /\ \A i \in 1..Len(requests') : requests'[i] = requests[i + 1]
  <2>1. requests \in Seq(Unit) /\ Len(requests) \in Nat
    BY <1>1, LenProperties DEF GzTypes
  <2>2. ASSUME requests # <<>>, requests' = Tail(requests)
        PROVE  /\ requests' \in Seq(Unit)
               /\ Len(requests') = Len(requests) - 1 /\ Len(requests) >= 1
               /\ \A i \in 1..Len(requests') : requests'[i] = requests[i + 1]
    <3>1. Len(requests) \in Nat \ {0}
      BY <2>1, <2>2, EmptySeq
    <3>2. QED
      BY <2>1, <2>2, <3>1, HeadTailProperties
  <2>3. QED
    BY <1>2, <2>1, <2>2
<1>6. Onwards
  BY <1>1, AskedKept
<1>7. GzTypes'
  BY <1>1, <1>3, <1>4, <1>5 DEF GzTypes, TypeOK
<1>8. StartInv'
  <2>1. ~(child \in {"none", "setup"})
    BY <1>1, <1>2 DEF StartInv
  <2>2. QED
    BY <1>1, <2>1 DEF StartInv
<1>9. UnitInv'
  <2>1. \A i \in 1..Len(asked) : asked[i].from + asked[i].len <= size
    BY <1>1 DEF UnitInv
  <2>2. Means(request)'
    <3>1. Means(unit)'
      BY <1>2, <1>6, MeansKept
    <3>2. QED
      BY <1>4, <3>1 DEF Means
  <2>3. \A i \in 1..Len(requests)' : \E j \in 1..Len(requests) : requests'[i] = requests[j]
    <3>1. CASE requests' = requests
      BY <3>1
    <3>2. CASE requests # <<>> /\ requests' = Tail(requests)
      <4>1. \A i \in 1..Len(requests)' : i + 1 \in 1..Len(requests)
        BY <1>5, <3>2
      <4>2. QED
        BY <1>5, <3>2, <4>1
    <3>3. QED
      BY <1>2, <3>1, <3>2
  <2>4. QED
    BY <1>1, <1>3, <1>4, <1>6, <2>1, <2>2, <2>3, UnitsKept
<1>10. Sorted'
  BY <1>1 DEF OrderInv, Sorted
<1>11. OnlyReads' => InOrder'
  <2> SUFFICES ASSUME OnlyReads'
               PROVE  InOrder'
    OBVIOUS
  <2>1. OnlyReads /\ InOrder /\ child = "doit"
    BY <1>1 DEF OnlyReads, OrderInv
  <2>2. requests # <<>> /\ requests' = Tail(requests) /\ request' = requests[1]
    BY <1>2, <1>4, <2>1
  <2>3. /\ Len(requests') = Len(requests) - 1 /\ Len(requests) \in Nat /\ Len(requests) >= 1
        /\ \A i \in 1..Len(requests') : requests'[i] = requests[i + 1]
    BY <1>5, <2>2
  <2>4. Current = 0 /\ Current' = 1 /\ Len(replies) \in Nat
    BY <1>1, LenProperties DEF Current, GzTypes
  <2>5. /\ Len(pending) = Len(replies) + 0 + Len(requests)
        /\ \A i \in 1..Len(replies) : pending[i] = replies[i].handle
        /\ \A i \in 1..Len(requests) : pending[Len(replies) + 0 + i] = requests[i].handle
    BY <2>1, <2>4 DEF InOrder
  <2>6. Len(pending) = Len(replies) + 1 + Len(requests')
    BY <2>3, <2>4, <2>5
  <2>7. pending[Len(replies) + 1] = request'.handle
    <3>1. 1 \in 1..Len(requests) /\ Len(replies) + 0 + 1 = Len(replies) + 1
      BY <2>3, <2>4
    <3>2. QED
      BY <2>2, <2>5, <3>1
  <2>8. \A i \in 1..Len(requests') : pending[Len(replies) + 1 + i] = requests'[i].handle
    <3> SUFFICES ASSUME NEW i \in 1..Len(requests')
                 PROVE  pending[Len(replies) + 1 + i] = requests'[i].handle
      OBVIOUS
    <3>1. /\ i + 1 \in 1..Len(requests)
          /\ Len(replies) + 0 + (i + 1) = Len(replies) + 1 + i
      BY <2>3, <2>4
    <3>2. QED
      BY <2>3, <2>5, <3>1
  <2>9. QED
    BY <1>1, <2>4, <2>5, <2>6, <2>7, <2>8 DEF InOrder
<1>12. DataMatches'
  <2>1. \A i \in 1..Len(replies)' : \E j \in 1..Len(replies) : replies'[i] = replies[j]
    BY <1>1
  <2>2. QED
    BY <1>1, <1>6, <1>7, <2>1, RepliesKept
<1>13. QED
  BY <1>3, <1>7, <1>8, <1>9, <1>10, <1>11, <1>12 DEF GzInv, OrderInv
LEMMA GzReply == GzInv /\ Reply => GzInv'
<1> SUFFICES ASSUME GzInv, Reply
             PROVE  GzInv'
  OBVIOUS
<1> DEFINE answer == [handle |-> request.handle, error |-> error, data |-> data]
<1>1. /\ GzTypes /\ UnitInv /\ DataMatches /\ NoErrorWithoutCause /\ StartInv /\ OrderInv
      /\ parent = "reply" /\ data' = <<>>
      /\ \/ child # "gone" /\ parent' = "serve" /\ replies' = Append(replies, answer)
         \/ child = "gone" /\ parent' = "killed" /\ replies' = replies
      /\ UNCHANGED <<size, child, sent, pending, asked, requests, request, error, faults>>
  BY DEF GzInv, Reply, Write, PipeBroken, None, kernelVars
<1>2. /\ answer \in Answer /\ answer.handle = request.handle /\ answer.error = error
      /\ answer.data = data
  BY <1>1 DEF Answer, GzTypes, TypeOK, Unit
<1> HIDE DEF answer
<1>3. /\ replies \in Seq(Answer) /\ Len(replies) \in Nat
      /\ DOMAIN replies = 1..Len(replies) /\ DOMAIN asked = 1..Len(asked)
  BY <1>1, LenProperties DEF GzTypes
<1>4. /\ Append(replies, answer) \in Seq(Answer)
      /\ Len(Append(replies, answer)) = Len(replies) + 1
      /\ \A i \in 1..Len(replies) : Append(replies, answer)[i] = replies[i]
      /\ Append(replies, answer)[Len(replies) + 1] = answer
  BY <1>2, <1>3, AppendProperties
<1>5. Onwards
  BY <1>1, AskedKept
<1>6. GzTypes'
  <2>1. <<>> \in Seq(Nat) /\ replies' \in Seq(Answer)
    BY <1>1, <1>3, <1>4, EmptySeq
  <2>2. QED
    BY <1>1, <2>1 DEF GzTypes, TypeOK, None
<1>7. StartInv'
  BY <1>1 DEF StartInv
<1>8. UnitInv'
  <2>1. \A i \in 1..Len(asked) : asked[i].from + asked[i].len <= size
    BY <1>1 DEF UnitInv
  <2>2. QED
    BY <1>1, <1>5, <2>1, RequestKept, UnitsKept
<1>9. Sorted'
  BY <1>1 DEF OrderInv, Sorted
<1>10. OnlyReads' => InOrder'
  <2> SUFFICES ASSUME OnlyReads'
               PROVE  InOrder'
    OBVIOUS
  <2>1. OnlyReads /\ InOrder /\ child = "doit"
    BY <1>1 DEF OnlyReads, OrderInv
  <2>2. parent' = "serve" /\ replies' = Append(replies, answer)
    BY <1>1, <2>1
  <2>3. Current = 1 /\ Current' = 0 /\ Len(requests) \in Nat
    BY <1>1, <2>2, LenProperties DEF Current, GzTypes
  <2>4. /\ Len(pending) = Len(replies) + 1 + Len(requests)
        /\ \A i \in 1..Len(replies) : pending[i] = replies[i].handle
        /\ pending[Len(replies) + 1] = request.handle
        /\ \A i \in 1..Len(requests) : pending[Len(replies) + 1 + i] = requests[i].handle
    BY <1>1, <2>1, <2>3 DEF InOrder
  <2>5. Len(replies') = Len(replies) + 1
    BY <1>4, <2>2
  <2>6. Len(pending) = Len(replies') + 0 + Len(requests)
    BY <1>3, <2>3, <2>4, <2>5
  <2>7. \A i \in 1..Len(replies') : pending[i] = replies'[i].handle
    <3> SUFFICES ASSUME NEW i \in 1..Len(replies')
                 PROVE  pending[i] = replies'[i].handle
      OBVIOUS
    <3>1. i \in 1..Len(replies) \/ i = Len(replies) + 1
      BY <1>3, <2>5
    <3>2. QED
      BY <1>2, <1>4, <2>2, <2>4, <3>1
  <2>8. \A i \in 1..Len(requests) : pending[Len(replies') + 0 + i] = requests[i].handle
    <3> SUFFICES ASSUME NEW i \in 1..Len(requests)
                 PROVE  pending[Len(replies') + 0 + i] = requests[i].handle
      OBVIOUS
    <3>1. Len(replies') + 0 + i = Len(replies) + 1 + i
      BY <1>3, <2>5
    <3>2. QED
      BY <2>4, <3>1
  <2>9. QED
    BY <1>1, <2>2, <2>3, <2>6, <2>7, <2>8 DEF InOrder
<1>11. DataMatches'
  <2>1. CASE replies' = replies
    BY <1>1, <2>1 DEF DataMatches
  <2>2. CASE replies' = Append(replies, answer)
    <3> SUFFICES ASSUME NEW i \in DOMAIN replies', ~replies'[i].error
                 PROVE  /\ replies'[i].handle \in DOMAIN asked
                        /\ asked[replies'[i].handle].type = "read"
                        /\ replies'[i].data = <<asked[replies'[i].handle].from,
                                                asked[replies'[i].handle].len>>
      BY <1>1 DEF DataMatches
    <3>1. replies' \in Seq(Answer) /\ Len(replies') = Len(replies) + 1
      BY <1>4, <2>2
    <3>2. i \in 1..Len(replies) \/ i = Len(replies) + 1
      <4>1. DOMAIN replies' = 1..Len(replies')
        BY <3>1, LenProperties
      <4>2. QED
        BY <1>3, <3>1, <4>1
    <3>3. CASE i \in 1..Len(replies)
      <4>1. replies'[i] = replies[i]
        BY <1>4, <2>2, <3>3
      <4>2. QED
        BY <1>1, <1>3, <3>3, <4>1 DEF DataMatches
    <3>4. CASE i = Len(replies) + 1
      <4>1. replies'[i] = answer
        BY <1>4, <2>2, <3>4
      <4>2. /\ request.req.type = "read" /\ data = <<request.req.from, request.req.len>>
            /\ request.handle \in 1..Len(asked) /\ asked[request.handle] = request.req
        BY <1>1, <1>2, <4>1 DEF UnitInv, Means
      <4>3. QED
        BY <1>2, <1>3, <4>1, <4>2
    <3>5. QED
      BY <3>2, <3>3, <3>4
  <2>3. QED
    BY <1>1, <2>1, <2>2
<1>12. NoErrorWithoutCause'
  BY <1>1 DEF NoErrorWithoutCause
<1>13. QED
  BY <1>6, <1>7, <1>8, <1>9, <1>10, <1>11, <1>12 DEF GzInv, OrderInv

LEMMA GzStep == GzInv /\ [Next]_vars => GzInv'
<1> SUFFICES ASSUME GzInv, [Next]_vars
             PROVE  GzInv'
  OBVIOUS
<1>1. CASE UNCHANGED vars
  <2>1. GzTypes' /\ StartInv'
    BY <1>1 DEF vars, GzInv, GzTypes, TypeOK, StartInv
  <2>2. UnitInv'
    BY <1>1 DEF vars, GzInv, UnitInv, Means
  <2>3. OrderInv'
    BY <1>1 DEF vars, GzInv, OrderInv, Sorted, OnlyReads, InOrder, Current
  <2>4. DataMatches' /\ NoErrorWithoutCause'
    BY <1>1 DEF vars, GzInv, DataMatches, NoErrorWithoutCause
  <2>5. QED
    BY <2>1, <2>2, <2>3, <2>4 DEF GzInv
<1>2. CASE Parent
  BY <1>2, GzStart, GzServe, GzReply DEF Parent
<1>3. CASE Kernel
  BY <1>3, GzSend, GzReceive, GzStop DEF Kernel
<1>4. CASE Child
  BY <1>4, GzStart, GzClear DEF Child
<1>5. QED
  BY <1>1, <1>2, <1>3, <1>4 DEF Next

---------------------------------------------------------------------------
(* The variables hold what TypeOK says; above all, what is decompressed    *)
(* for a reply fits behind the header in chunk.                            *)
THEOREM ReplyFits == Spec => []TypeOK
<1>1. GzInv => TypeOK
  BY DEF GzInv, GzTypes
<1>2. QED
  BY <1>1, GzInit, GzStep, PTL DEF Spec

(* Data reaches the kernel only under the handle of a read of these very   *)
(* blocks: also when the parent takes the payload of a write for requests, *)
(* or serves the request before once more because a read did not fill it.  *)
THEOREM DataIsOfItsRequest == Spec => []DataMatches
<1>1. GzInv => DataMatches
  BY DEF GzInv
<1>2. QED
  BY <1>1, GzInit, GzStep, PTL DEF Spec

(* gznbd refuses nothing it could serve: reply.error is set once and for   *)
(* all, but never without a cause.                                         *)
THEOREM ErrorHasCause == Spec => []NoErrorWithoutCause
<1>1. GzInv => NoErrorWithoutCause
  BY DEF GzInv
<1>2. QED
  BY <1>1, GzInit, GzStep, PTL DEF Spec

LEMMA HandlesFacts ==
    ASSUME NEW S, NEW s \in Seq(S), \A i \in 1..Len(s) : s[i].handle \in Nat
    PROVE  /\ Handles(s) \in Seq(Nat) /\ Len(Handles(s)) = Len(s)
           /\ \A i \in 1..Len(s) : Handles(s)[i] = s[i].handle
<1>1. DOMAIN s = 1..Len(s) /\ Len(s) \in Nat
  BY LenProperties
<1>2. Handles(s) = [i \in 1..Len(s) |-> s[i].handle]
  BY <1>1 DEF Handles
<1> DEFINE n == Len(s)
<1>3. n \in Nat /\ [i \in 1..n |-> s[i].handle] \in [1..n -> Nat]
  BY <1>1
<1> HIDE DEF n
<1>4. \A f \in [1..n -> Nat] : f \in Seq(Nat) /\ Len(f) = n
  <2> TAKE f \in [1..n -> Nat]
  <2>1. f \in Seq(Nat)
    BY <1>3, SeqDef
  <2>2. DOMAIN f = 1..n /\ DOMAIN f = 1..Len(f) /\ Len(f) \in Nat
    BY <2>1, LenProperties
  <2>3. QED
    BY <1>3, <2>1, <2>2
<1>5. QED
  BY <1>2, <1>3, <1>4 DEF n

(* With reads alone, what the kernel waits for is always what is still to  *)
(* come out of the socket pair, in this order: every request gets one      *)
(* answer, however the kernel and the parent take turns.                   *)
THEOREM ReadsAnsweredInOrder == Spec => []AnswersInOrder
<1>1. ASSUME GzInv
      PROVE  AnswersInOrder
  <2> DEFINE cur == IF parent = "reply" THEN <<request.handle>> ELSE <<>>
  <2> SUFFICES ASSUME child = "doit", \A i \in DOMAIN asked : asked[i].type = "read"
               PROVE  pending = Handles(replies) \o cur \o Handles(requests)
    BY DEF AnswersInOrder
  <2>1. /\ asked \in Seq(Requests) /\ replies \in Seq(Answer) /\ requests \in Seq(Unit)
        /\ pending \in Seq(1..sent) /\ sent \in Nat /\ request \in Unit
    BY <1>1, LenProperties DEF GzInv, GzTypes, TypeOK
  <2>2. /\ DOMAIN asked = 1..Len(asked) /\ DOMAIN replies = 1..Len(replies)
        /\ DOMAIN requests = 1..Len(requests)
        /\ Len(replies) \in Nat /\ Len(requests) \in Nat /\ Len(pending) \in Nat
    BY <2>1, LenProperties
  <2>3. InOrder
    BY <1>1, <2>2 DEF GzInv, OrderInv, OnlyReads
  <2>4. /\ Handles(replies) \in Seq(Nat) /\ Len(Handles(replies)) = Len(replies)
        /\ \A i \in 1..Len(replies) : Handles(replies)[i] = replies[i].handle
    <3>1. \A i \in 1..Len(replies) : replies[i].handle \in Nat
      <4>1. \A i \in 1..Len(replies) : replies[i] \in Answer
        BY <2>1, ElementOfSeq
      <4>2. \A u \in Answer : u.handle \in Nat
        BY DEF Answer
      <4>3. QED
        BY <4>1, <4>2
    <3>2. QED
      BY <2>1, <3>1, HandlesFacts
  <2>5. /\ Handles(requests) \in Seq(Nat) /\ Len(Handles(requests)) = Len(requests)
        /\ \A i \in 1..Len(requests) : Handles(requests)[i] = requests[i].handle
    <3>1. \A i \in 1..Len(requests) : requests[i].handle \in Nat
      <4>1. \A i \in 1..Len(requests) : requests[i] \in Unit
        BY <2>1, ElementOfSeq
      <4>2. \A u \in Unit : u.handle \in Nat
        BY DEF Unit
      <4>3. QED
        BY <4>1, <4>2
    <3>2. QED
      BY <2>1, <3>1, HandlesFacts
  <2>6. /\ cur \in Seq(Nat) /\ Len(cur) = Current /\ Current \in 0..1
        /\ Current = 1 <=> parent = "reply"
        /\ parent = "reply" => cur[1] = request.handle
    <3>1. request.handle \in Nat
      BY <2>1 DEF Unit
    <3>2. /\ <<request.handle>> \in Seq(Nat) /\ Len(<<request.handle>>) = 1
          /\ <<request.handle>>[1] = request.handle
      BY <3>1
    <3>3. <<>> \in Seq(Nat) /\ Len(<<>>) = 0
      BY EmptySeq
    <3>4. QED
      BY <3>2, <3>3 DEF Current
  <2> DEFINE h == Handles(replies)  q == Handles(requests)  all == (h \o cur) \o q
  <2> HIDE DEF cur, h, q
  <2>7. /\ h \in Seq(Nat) /\ Len(h) = Len(replies)
        /\ q \in Seq(Nat) /\ Len(q) = Len(requests)
        /\ \A i \in 1..Len(replies) : h[i] = replies[i].handle
        /\ \A i \in 1..Len(requests) : q[i] = requests[i].handle
    BY <2>4, <2>5 DEF h, q
  <2>8. /\ h \o cur \in Seq(Nat) /\ Len(h \o cur) = Len(replies) + Current
        /\ \A i \in 1..Len(replies) + Current :
             (h \o cur)[i] = IF i <= Len(replies) THEN h[i] ELSE cur[i - Len(replies)]
    BY <2>6, <2>7, ConcatProperties
  <2> DEFINE front == h \o cur
  <2> HIDE DEF front
  <2>9. /\ front \o q \in Seq(Nat) /\ Len(front \o q) = (Len(replies) + Current) + Len(requests)
        /\ \A i \in 1..(Len(replies) + Current) + Len(requests) :
             (front \o q)[i] = IF i <= Len(replies) + Current THEN front[i]
                               ELSE q[i - (Len(replies) + Current)]
    BY <2>7, <2>8, ConcatProperties DEF front
  <2>10. pending \in Seq(Nat) /\ Len(pending) = Len(replies) + Current + Len(requests)
    <3>1. 1..sent \subseteq Nat
      BY <2>1
    <3>2. QED
      BY <2>1, <2>3, <3>1, SeqMonotonic DEF InOrder
  <2>11. ASSUME NEW i \in 1..Len(pending)
         PROVE  pending[i] = (front \o q)[i]
    <3>1. i \in 1..(Len(replies) + Current) + Len(requests) /\ i \in Nat /\ Current \in Nat
      BY <2>6, <2>10
    <3>2. CASE i <= Len(replies)
      <4>1. i \in 1..Len(replies) /\ i <= Len(replies) + Current /\ i \in 1..Len(replies) + Current
        BY <2>2, <3>1, <3>2
      <4>2. QED
        BY <2>3, <2>7, <2>8, <2>9, <3>1, <3>2, <4>1 DEF InOrder, front
    <3>3. CASE ~(i <= Len(replies)) /\ i <= Len(replies) + Current
      <4>1. Current = 1 /\ i = Len(replies) + 1 /\ i - Len(replies) = 1
            /\ i \in 1..Len(replies) + Current
        BY <2>2, <2>6, <3>1, <3>3
      <4>2. front[i] = cur[1]
        BY <2>8, <3>3, <4>1 DEF front
      <4>3. QED
        BY <2>3, <2>6, <2>9, <3>1, <3>3, <4>1, <4>2 DEF InOrder
    <3>4. CASE ~(i <= Len(replies) + Current)
      <4>1. /\ i - (Len(replies) + Current) \in 1..Len(requests)
            /\ Len(replies) + Current + (i - (Len(replies) + Current)) = i
        BY <2>2, <3>1, <3>4
      <4>2. pending[i] = requests[i - (Len(replies) + Current)].handle
        BY <2>3, <4>1 DEF InOrder
      <4>3. QED
        BY <2>7, <2>9, <3>1, <3>4, <4>1, <4>2
    <3>5. QED
      BY <3>2, <3>3, <3>4
  <2>12. pending = front \o q
    BY <2>9, <2>10, <2>11, SeqEqual
  <2>13. QED
    BY <2>12 DEF front, h, q
<1>2. QED
  BY <1>1, GzInit, GzStep, PTL DEF Spec
=============================================================================
