------------------------------- MODULE GzNbd -------------------------------
(***************************************************************************)
(* nbd/gznbd/gznbd.c: a compressed file as a block device.  The parent     *)
(* serves the requests that the kernel sends through a socket pair; the    *)
(* child has handed the other end to the kernel and waits in NBD_DO_IT.    *)
(*                                                                         *)
(* Offsets and lengths are counted in blocks (BLOCK, 1024 bytes).  In the  *)
(* socket a request's header is one unit; the payload of a write, which    *)
(* the loop never asks for, is units that make no header.                  *)
(***************************************************************************)
EXTENDS Integers, Sequences, FiniteSets, SequencesExt

CONSTANTS
  FileSize,     \* blocks in the compressed file
  Rests,        \* how many bytes may follow them (0: the file is whole blocks)
  SizeArgs,     \* values of the third argument; 0: not given
  Chunk,        \* blocks that fit into chunk behind the header of a reply
  Requests,     \* the requests the kernel may send, [type, from, len]
  MaxRequests, MaxPending, MaxFaults   \* bounds

ASSUME SizeAssumption == FileSize \in Nat /\ Rests \subseteq Nat /\ Chunk \in Nat
ASSUME ArgAssumption  == SizeArgs \subseteq Nat
ASSUME RequestAssumption ==
  Requests \subseteq [type : {"read", "write"}, from : Nat, len : Nat \ {0}]
ASSUME BoundAssumption == {MaxRequests, MaxPending, MaxFaults} \subseteq Nat

Unset       == [type |-> "unset", from |-> 0, len |-> 0]
NoRequest   == [type |-> "garbage", from |-> 0, len |-> 0]
Garbage     == [handle |-> 0, req |-> NoRequest]
DiscRequest == [type |-> "disc", from |-> 0, len |-> 0]

VARIABLES
  size,      \* the size of the device
  parent,    \* "size", "fork", "serve", "reply", "failed" or "killed"
  child,     \* "none", "setup", "doit", "clear", "gone"
  sent,      \* how many requests the kernel has sent
  pending,   \* the requests it waits for, oldest first
  requests,  \* the socket, towards the parent
  replies,   \* the socket, towards the kernel
  request,   \* request, and its handle, as they were last read
  error,     \* reply.error
  data,      \* what was read for the reply, as a range of the file
  faults,    \* reads of the file that have failed
  asked      \* history: the request of every handle

kernelVars == <<child, sent, pending, asked>>
vars == <<size, parent, child, sent, pending, requests, replies, request, error,
          data, faults, asked>>

None == <<>>

Init ==
  /\ size \in SizeArgs
  /\ parent = "size" /\ child = "none"
  /\ sent = 0 /\ pending = <<>> /\ requests = <<>> /\ replies = <<>>
  /\ request = [handle |-> 0, req |-> Unset]
  /\ error = FALSE /\ data = None /\ faults = 0
  /\ asked = <<>>
-----------------------------------------------------------------------------
(* Starting up *)

(* The size that was given, or what an expensive seek finds *)
FindSize ==
  /\ parent = "size"
  /\ \/ size # 0 /\ parent' = "fork" /\ UNCHANGED size
     \/ size = 0 /\ 0 \in Rests /\ size' = FileSize /\ parent' = "fork"
     \/ size = 0 /\ Rests # {0} /\ parent' = "failed" /\ UNCHANGED size
  /\ UNCHANGED <<kernelVars, requests, replies, request, error, data, faults>>

Fork ==
  /\ parent = "fork"
  /\ parent' = "serve" /\ child' = "setup"
  /\ UNCHANGED <<size, sent, pending, requests, replies, request, error, data,
                 faults, asked>>

(* The child: open, SET_SIZE, SET_SOCK; any of them may fail *)
SetUp ==
  /\ child = "setup"
  /\ \/ child' = "doit" /\ UNCHANGED faults
     \/ child' = "gone" /\ faults < MaxFaults /\ faults' = faults + 1
  /\ UNCHANGED <<size, parent, sent, pending, requests, replies, request, error,
                 data, asked>>

(* DO_IT has returned: CLEAR_QUE, CLEAR_SOCK, exit *)
Clear ==
  /\ child = "clear"
  /\ child' = "gone" /\ pending' = <<>>
  /\ UNCHANGED <<size, parent, sent, requests, replies, request, error, data,
                 faults, asked>>
-----------------------------------------------------------------------------
(* The kernel *)

InRange(r) == r.from + r.len <= size

Send(r) ==
  /\ child = "doit" /\ sent < MaxRequests /\ Len(pending) < MaxPending
  /\ InRange(r)
  /\ sent' = sent + 1
  /\ asked' = Append(asked, r)
  /\ pending' = Append(pending, sent')
  /\ requests' = requests \o <<[handle |-> sent', req |-> r]>>
                   \o (IF r.type = "write" THEN <<Garbage>>
                                           ELSE <<>>)
  /\ UNCHANGED <<size, parent, child, replies, request, error, data, faults>>

(* A reply to a request, or to none: that ends NBD_DO_IT *)
Receive ==
  /\ child = "doit" /\ replies # <<>>
  /\ replies' = Tail(replies)
  /\ \/ \E i \in DOMAIN pending :
          /\ pending[i] = Head(replies).handle
          /\ pending' = RemoveAt(pending, i) /\ UNCHANGED child
     \/ /\ \A i \in DOMAIN pending : pending[i] # Head(replies).handle
        /\ child' = "clear" /\ UNCHANGED pending
  /\ UNCHANGED <<size, parent, sent, requests, request, error, data, faults, asked>>

(* The device is taken down, by nbd-client -d with a disconnect request *)
Stop ==
  /\ child = "doit"
  /\ child' = "clear"
  /\ \E told \in BOOLEAN :
       requests' = IF told THEN Append(requests, [handle |-> 0, req |-> DiscRequest])
                   ELSE requests
  /\ UNCHANGED <<size, parent, sent, pending, replies, request, error, data, faults,
                 asked>>
-----------------------------------------------------------------------------
(* The loop of the parent *)

(* A read that does not fill request, at the end or in the payload of a     *)
(* write, is reported; what was read before is then served once more.  A    *)
(* payload is no multiple of a header: what follows it is read in pieces.   *)
Misaligned        == request.req = NoRequest
StaleHandle(unit) == [unit EXCEPT !.handle = request.handle]
Received(unit)    == IF Misaligned THEN Garbage ELSE unit

TooLongHeaderLeftOut(r) == r.len > Chunk + 1
TooLong(r)              == r.len > Chunk
OutsideAtEnd(r)         == r.from + r.len >= size
Outside(r)              == r.from + r.len > size
Refused(r) == r.type # "read" \/ TooLong(r) \/ Outside(r)

(* Any refusal stays in reply.error, as does any read that fails: what the  *)
(* file does not have, and now and then what it has.                        *)
Reads(r) == ~ error /\ ~ Refused(r)
Failing(r) == IF Reads(r) THEN IF r.from + r.len > FileSize THEN {TRUE} ELSE BOOLEAN
              ELSE {FALSE}

Serve(unit) ==
  /\ request' = unit
  /\ \E failed \in Failing(unit.req) :
       /\ error' = (failed \/ ~ Reads(unit.req))
       /\ faults' = IF failed /\ unit.req.from + unit.req.len <= FileSize
                    THEN faults + 1 ELSE faults
  /\ faults' <= MaxFaults
  /\ data' = IF error' THEN None ELSE <<unit.req.from, unit.req.len>>
  /\ parent' = "reply"

ServeRequest ==
  /\ parent = "serve"
  /\ \/ /\ requests # <<>> /\ requests' = Tail(requests)
        /\ Serve(Received(Head(requests)))
     \/ /\ requests = <<>> /\ child = "gone"
        /\ Serve(request)
        /\ UNCHANGED requests
  /\ UNCHANGED <<size, kernelVars, replies>>

(* The reply.  Nobody catches SIGPIPE. *)
PipeIgnored   == parent' = "serve"
PipeBroken    == parent' = "killed"
SkipErrors(r) == IF r.error THEN replies ELSE Append(replies, r)
Write(r)      == Append(replies, r)

Reply ==
  /\ parent = "reply"
  /\ \/ /\ child # "gone" /\ parent' = "serve"
        /\ replies' = Write([handle |-> request.handle, error |-> error, data |-> data])
     \/ /\ child = "gone" /\ PipeBroken
        /\ UNCHANGED replies
  /\ data' = None
  /\ UNCHANGED <<size, kernelVars, requests, request, error, faults>>
-----------------------------------------------------------------------------
Parent == FindSize \/ Fork \/ ServeRequest \/ Reply
Kernel == (\E r \in Requests : Send(r)) \/ Receive \/ Stop
Child  == SetUp \/ Clear

Next == Parent \/ Kernel \/ Child
Spec == Init /\ [][Next]_vars
FairSpec == Spec /\ WF_vars(Parent) /\ WF_vars(Receive) /\ WF_vars(Clear)
-----------------------------------------------------------------------------
(* Properties *)

(* What the variables hold; what is decompressed for a reply fits behind *)
(* the header in chunk.                                                  *)
TypeOK ==
  /\ size \in Nat
  /\ parent \in {"size", "fork", "serve", "reply", "failed", "killed"}
  /\ child \in {"none", "setup", "doit", "clear", "gone"}
  /\ pending \in Seq(1 .. sent) /\ sent = Len(asked) /\ sent <= MaxRequests
  /\ error \in BOOLEAN /\ faults \in 0 .. MaxFaults
  /\ data # None => data[2] <= Chunk

(* Data only reaches the kernel under the handle of a read of these very    *)
(* blocks, although the request that could not be read is answered with the *)
(* one before, and the payload of a write is taken for requests.            *)
DataMatches ==
  \A i \in DOMAIN replies : LET r == replies[i] IN ~ r.error =>
    /\ r.handle \in DOMAIN asked
    /\ asked[r.handle].type = "read"
    /\ r.data = <<asked[r.handle].from, asked[r.handle].len>>

Handles(s) == [i \in DOMAIN s |-> s[i].handle]

(* As long as the file system is mounted read only, as the program asks for, *)
(* every request has one answer, in the order of the requests.               *)
AnswersInOrder ==
  child = "doit" /\ (\A i \in DOMAIN asked : asked[i].type = "read") =>
    pending = Handles(replies) \o (IF parent = "reply" THEN <<request.handle>> ELSE <<>>)
                \o Handles(requests)

(* An error, which then stays for all requests to come, has a cause: a write, *)
(* a disconnect request, a request longer than the buffer, blocks that the    *)
(* file does not have, or a failure; a read of the last block is none.        *)
NoErrorWithoutCause ==
  error => \/ faults > 0 \/ child \in {"clear", "gone"}
           \/ \E i \in DOMAIN asked : \/ asked[i].type = "write"
                                      \/ asked[i].len > Chunk
                                      \/ asked[i].from + asked[i].len > FileSize

(* No request is left without an answer, unless the device goes down. *)
Answered ==
  \A n \in 1 .. MaxRequests : n \in ToSet(pending) ~> n \notin ToSet(pending)

(* The parent, whose loop has no way out, does not outlive the device. *)
ParentEnds == child = "gone" ~> parent = "killed"
=============================================================================
