----------------------------- MODULE NbdServer -----------------------------
(***************************************************************************)
(* nbd/nbd-server.c: the process that serves one connection (mainloop and  *)
(* the functions it calls), from the end of the negotiation to its exit,   *)
(* with the client's end of the connection as its environment.             *)
(*                                                                         *)
(* Addresses, lengths and file offsets are counted in the client's blocks. *)
(* The code's modes are constants: -m (HunkSize), -c and -a; -r is chosen  *)
(* when the server starts.                                                 *)
(***************************************************************************)
EXTENDS Integers, Sequences

CONSTANTS
    ExportSize,   \* exportsize
    HunkSize,     \* hunksize: ExportSize or more unless -m was given
    FileLimit,    \* the largest size a hunk file can grow to
    PageSize,     \* DIFFPAGESIZE
    BufSize,      \* BUFSIZE
    ReplySize,    \* sizeof(struct nbd_reply), rounded up to a block
    ReadOnlyModes, \* the values of F_READONLY to consider
    CopyOnWrite,  \* F_COPYONWRITE
    Timeout,      \* -a was given
    Requests,     \* the requests the client may send
    MaxRequests,  \* bound on the requests of a connection
    MaxPending,   \* bound on the client's unanswered requests
    MaxFaults     \* bound on file operations that fail

READ == 0
WRITE == 1
DISC == 2

Request == [type: {READ, WRITE}, from: Nat, len: Nat \ {0}, value: Nat]

ASSUME SizeAssumption ==
    /\ ExportSize \in Nat \ {0}
    /\ HunkSize \in Nat \ {0}
    /\ FileLimit \in Nat /\ FileLimit >= HunkSize
    /\ PageSize \in Nat \ {0}
    /\ BufSize \in Nat /\ ReplySize \in Nat
    /\ CopyOnWrite => ExportSize % PageSize = 0 /\ HunkSize % PageSize = 0

ASSUME ModeAssumption ==
    /\ ReadOnlyModes \subseteq BOOLEAN
    /\ CopyOnWrite \in BOOLEAN /\ Timeout \in BOOLEAN

ASSUME ClientAssumption ==
    /\ Requests \subseteq Request
    /\ MaxRequests \in Nat /\ MaxPending \in Nat /\ MaxFaults \in Nat

---------------------------------------------------------------------------
Addr == 0..ExportSize - 1
Hunks == 0..(ExportSize - 1) \div HunkSize
HunkOf(a) == a \div HunkSize
Offsets == 0..FileLimit - 1
Pages == 0..(ExportSize - 1) \div PageSize
DiffOffsets == 0..ExportSize - 1     \* one page of the diff file per page

(* Block contents: what the export held at address a at first, zeros (a    *)
(* hole of the diff file), or the payload of a write.                      *)
Orig(a) == <<"orig", a>>
Zeros == <<"zeros", 0>>
Data(v) == <<"data", v>>
Content == ({"orig", "data"} \X Nat) \union {Zeros}
NoData == <<"eof", 0>>               \* beyond what a file holds
Any == <<"any", 0>>                  \* undefined after a failed write

(* What the client puts on the connection: headers and payloads. *)
Header(r, n) == [kind |-> "header", req |-> r, handle |-> n]
Payload(r) == [kind |-> "payload", req |-> r, handle |-> 0]
DiscReq == [type |-> DISC, from |-> 0, len |-> 1, value |-> 0]
Items == [kind: {"header", "payload"},
          req: Requests \union {DiscReq}, handle: Nat]

VARIABLES
    readonly,     \* F_READONLY
    sock,         \* what the client has sent and the server not yet read
    closed,       \* the client's end is gone, or will send no more
    pending,      \* handles of requests the client has no reply to
    sent,         \* requests sent so far
    pc,           \* where mainloop is
    request,      \* the request being served
    handle,       \* its handle
    buf,          \* its payload in buf, or what was read so far behind the reply
    done,         \* blocks of it that expread or expwrite is through with
    lastpoint,    \* the file offset maybeseek believes in (-1: none)
    pos,          \* pos[h]: the real offset of the descriptor export[h]
    file,         \* file[h]: contents of hunk h of the export
    difmap,       \* difmap[p]: page of the diff file for page p (-1: none)
    difffilelen,  \* pages given out in the diff file
    diff,         \* contents of the diff file
    difffile,     \* the diff file exists
    why,          \* why the server exited
    faults,       \* file operations that have failed
    dev           \* history: what the client may expect each block to hold

clientVars == <<sock, closed, pending, sent>>
diffVars == <<difmap, difffilelen, diff>>
serverVars == <<pc, request, handle, buf, done, lastpoint, pos, file, diffVars,
                difffile, why, faults>>
vars == <<readonly, sock, closed, pending, sent, pc, request, handle, buf, done,
          lastpoint, pos, file, difmap, difffilelen, diff, difffile, why, faults,
          dev>>

(* size_autodetect leaves the one file it measured at its end. *)
DetectedAt == IF ExportSize <= HunkSize THEN ExportSize ELSE 0

PCs == {"header", "payload", "io", "ok", "failed", "rejected", "exited", "overrun"}

Init ==
    /\ readonly \in ReadOnlyModes
    /\ sock = <<>> /\ closed = FALSE /\ pending = <<>> /\ sent = 0
    /\ pc = "header" /\ request = DiscReq /\ handle = 0 /\ buf = <<>>
    /\ done = 0
    /\ lastpoint = -1
    /\ \E o \in {0, DetectedAt} : pos = [h \in Hunks |-> o]
    /\ file = [h \in Hunks |-> [o \in Offsets |->
                 IF o < HunkSize /\ h * HunkSize + o < ExportSize
                 THEN Orig(h * HunkSize + o) ELSE NoData]]
    /\ difmap = [p \in Pages |-> -1]
    /\ difffilelen = 0
    /\ diff = [o \in DiffOffsets |-> NoData]
    /\ difffile = CopyOnWrite
    /\ why = "none"
    /\ faults = 0
    /\ dev = [a \in Addr |-> Orig(a)]

Fault == /\ faults < MaxFaults
         /\ faults' = faults + 1
NoFault == UNCHANGED faults

---------------------------------------------------------------------------
(* The client: a kernel that pipelines requests, may disconnect in order,  *)
(* and may vanish, with the end of what it sent.                           *)

ClientSend(r) ==
    /\ ~closed /\ sent < MaxRequests /\ Len(pending) < MaxPending
    /\ sent' = sent + 1
    /\ pending' = Append(pending, sent')
    /\ sock' = sock \o (IF r.type = WRITE THEN <<Header(r, sent'), Payload(r)>>
                                          ELSE <<Header(r, sent')>>)
    /\ UNCHANGED <<readonly, closed, serverVars, dev>>

ClientDisconnect ==
    /\ ~closed
    /\ closed' = TRUE
    /\ sock' = Append(sock, Header(DiscReq, 0))
    /\ UNCHANGED <<readonly, pending, sent, serverVars, dev>>

ConnectionLost ==
    /\ ~closed
    /\ closed' = TRUE
    /\ \E n \in 0..Len(sock) : sock' = SubSeq(sock, 1, n)
    /\ UNCHANGED <<readonly, pending, sent, serverVars, dev>>

Client == (\E r \in Requests : ClientSend(r))
          \/ ClientDisconnect \/ ConnectionLost

---------------------------------------------------------------------------
Exit(reason) == pc' = "exited" /\ why' = reason

(* The checks of a request, in the order of mainloop. *)
TooBigByOne(r) == r.len > BufSize + 1
TooBig(r) == r.len > BufSize
Rejected(r) == r.from + r.len > ExportSize \/ (readonly /\ r.type # READ)

(* memcpy(reply.handle, request.handle): before any check can fail. *)
StaleHandle(item) == handle
ReplyHandle(item) == item.handle

(* readit of a header.  A payload that was not consumed is taken for a     *)
(* header: its magic is wrong, unless its type field happens to be 2.      *)
ReadHeader ==
    /\ pc = "header" /\ sock # <<>>
    /\ LET item == Head(sock)  r == item.req IN
       /\ sock' = Tail(sock)
       /\ buf' = <<>> /\ done' = 0
       /\ \/ /\ item.kind = "payload" /\ Exit("magic")
             /\ UNCHANGED <<request, handle, lastpoint, difffile>>
          \/ /\ item.kind = "payload" \/ r.type = DISC
             /\ Exit("disconnect")
             /\ difffile' = FALSE                 \* close and unlink
             /\ UNCHANGED <<request, handle, lastpoint>>
          \/ /\ item.kind = "header" /\ r.type # DISC
             /\ request' = r /\ handle' = ReplyHandle(item)
             /\ UNCHANGED difffile
             /\ \/ /\ TooBig(r) /\ Exit("too_big") /\ UNCHANGED lastpoint
                \/ /\ ~TooBig(r) /\ Rejected(r)
                   /\ pc' = "rejected" /\ lastpoint' = -1 /\ UNCHANGED why
                \/ /\ ~TooBig(r) /\ ~Rejected(r)
                   /\ pc' = IF r.type = WRITE THEN "payload" ELSE "io"
                   /\ UNCHANGED <<lastpoint, why>>
    /\ UNCHANGED <<readonly, closed, pending, sent, pos, file, diffVars,
                   faults, dev>>

ReadPayload ==
    /\ pc = "payload" /\ sock # <<>>
    /\ sock' = Tail(sock)
    /\ buf' = [i \in 1..request.len |-> Data(Head(sock).req.value)]
    /\ pc' = "io"
    /\ UNCHANGED <<readonly, closed, pending, sent, request, handle, done,
                   lastpoint, pos, file, diffVars, difffile, why, faults, dev>>

(* read returns 0 or an error: readit exits. *)
IgnoreEnd == FALSE
StreamEnded == closed /\ sock = <<>>

ReadFailed ==
    /\ pc \in {"header", "payload"} /\ StreamEnded
    /\ Exit("read_failed")
    /\ UNCHANGED <<readonly, clientVars, request, handle, buf, done, lastpoint,
                   pos, file, diffVars, difffile, faults, dev>>

(* The process has ended, or does what nobody can tell: see Overrun. *)
Ended == pc \in {"exited", "overrun"}

(* The alarm set at the top of the loop: SIGALRM kills the process. *)
Alarm ==
    /\ Timeout /\ ~Ended
    /\ Exit("alarm")
    /\ UNCHANGED <<readonly, clientVars, request, handle, buf, done, lastpoint,
                   pos, file, diffVars, difffile, faults, dev>>

---------------------------------------------------------------------------
(* maybeseek: the offset at which the next read or write of hunk h really  *)
(* happens.  The seek is skipped when lastpoint says it is already there.  *)
SeekIfUnknown(h, off) == IF lastpoint # -1 THEN pos[h] ELSE off
SeekTo(h, off) == IF lastpoint = off THEN pos[h] ELSE off

(* rawexpread and rawexpwrite work on one hunk, at one offset of it. *)
RawHunk(a) == HunkOf(a)
RawOffset(a) == a % HunkSize
RawAt(a) == SeekTo(RawHunk(a), RawOffset(a))

Readable(h, p, n) == \A i \in 0..n - 1 :
                        p + i \in Offsets /\ file[h][p + i] # NoData
Slice(h, p, n) == [i \in 1..n |-> file[h][p + i - 1]]

(* Where a descriptor can be after an operation of n blocks that failed. *)
PartWay(p, n) == {q \in p .. p + n - 1 : q <= FileLimit}

(* The result of expread or expwrite in mainloop: the position is advanced *)
(* by the length of the request, or forgotten.                             *)
Served(point) == pc' = "ok" /\ lastpoint' = point + request.len
FailedUnanswered == pc' = "header" /\ lastpoint' = -1
FailedKeepPoint == pc' = "failed" /\ UNCHANGED lastpoint
Failed == pc' = "failed" /\ lastpoint' = -1

(* The test of F_COPYONWRITE in expread and expwrite. *)
Direct == ~CopyOnWrite

(* expread without -c. *)
PlainRead ==
    /\ pc = "io" /\ request.type = READ /\ Direct
    /\ LET h == RawHunk(request.from)
           n == request.len
           p == RawAt(request.from)
       IN \/ /\ Readable(h, p, n) /\ NoFault
             /\ buf' = Slice(h, p, n)
             /\ done' = n
             /\ pos' = [pos EXCEPT ![h] = p + n]
             /\ Served(RawOffset(request.from))
          \/ /\ IF Readable(h, p, n) THEN Fault ELSE NoFault
             /\ \E q \in PartWay(p, n) : pos' = [pos EXCEPT ![h] = q]
             /\ Failed
             /\ UNCHANGED <<buf, done>>
    /\ UNCHANGED <<readonly, clientVars, request, handle, file, diffVars,
                   difffile, why, dev>>

Written(h, p, n) == [file EXCEPT ![h] =
    [o \in Offsets |-> IF p <= o /\ o < p + n THEN buf[o - p + 1] ELSE file[h][o]]]

(* expwrite without -c; a write that fails may have written a part. *)
PlainWrite ==
    /\ pc = "io" /\ request.type = WRITE /\ Direct
    /\ LET h == RawHunk(request.from)
           n == request.len
           p == RawAt(request.from)
       IN \/ /\ p + n <= FileLimit /\ NoFault
             /\ file' = Written(h, p, n)
             /\ done' = n
             /\ pos' = [pos EXCEPT ![h] = p + n]
             /\ Served(RawOffset(request.from))
          \/ /\ IF p + n <= FileLimit THEN Fault ELSE NoFault
             /\ \E q \in PartWay(p, n) : /\ pos' = [pos EXCEPT ![h] = q]
                                        /\ file' = Written(h, p, q - p)
             /\ Failed
             /\ UNCHANGED done
    /\ UNCHANGED <<readonly, clientVars, request, handle, buf, diffVars,
                   difffile, why, dev>>

---------------------------------------------------------------------------
(* The page loops of expread and expwrite with -c: one page a step.        *)

At == request.from + done                     \* a
Page == At \div PageSize                      \* mapcnt
InPage == At % PageSize                       \* offset
PieceLen == IF request.len - done < PageSize - InPage
            THEN request.len - done ELSE PageSize - InPage
LastPiece == done + PieceLen = request.len
PageStart == Page * PageSize
DiffAt(page) == page * PageSize
Mapped == difmap[Page] # -1

(* The data of a read goes behind the room for the reply, which the check   *)
(* of the request's length (TooBig) does not count.  A piece that passes    *)
(* the end of buf either falls on memory that mainloop does not use again,  *)
(* and the read goes on as if nothing had happened, or on memory that it    *)
(* does use: what the process does then is undefined, and not followed.     *)
ReadUpTo == IF CopyOnWrite THEN done + PieceLen ELSE request.len
Overrun ==
    /\ pc = "io" /\ request.type = READ
    /\ ReplySize + ReadUpTo > BufSize
    /\ pc' = "overrun"
    /\ UNCHANGED <<readonly, clientVars, request, handle, buf, done, lastpoint,
                   pos, file, diffVars, difffile, why, faults, dev>>

(* Reading the diff file: data, the zeros of a hole, or its end. *)
DiffCell(o) == IF diff[o] # NoData THEN diff[o]
               ELSE IF \E e \in DiffOffsets : e > o /\ diff[e] # NoData THEN Zeros
               ELSE NoData

(* The end of a page's turn; point is lastpoint after the page. *)
PieceDone(point) ==
    /\ done' = done + PieceLen
    /\ IF LastPiece THEN Served(point) ELSE lastpoint' = point /\ UNCHANGED pc

CowReadDiff ==
    /\ pc = "io" /\ request.type = READ /\ CopyOnWrite /\ Mapped
    /\ LET from == DiffAt(difmap[Page]) + InPage
           piece == [i \in 1..PieceLen |-> DiffCell(from + i - 1)]
           there == \A i \in 1..PieceLen : piece[i] # NoData
       IN \/ /\ there /\ NoFault
             /\ buf' = buf \o piece
             /\ PieceDone(lastpoint)
          \/ /\ IF there THEN Fault ELSE NoFault
             /\ Failed
             /\ UNCHANGED <<buf, done>>
    /\ UNCHANGED <<readonly, clientVars, request, handle, pos, file, diffVars,
                   difffile, why, dev>>

CowReadExport ==
    /\ pc = "io" /\ request.type = READ /\ CopyOnWrite /\ ~Mapped
    /\ LET h == RawHunk(At)
           n == PieceLen
           p == RawAt(At)
       IN \/ /\ Readable(h, p, n) /\ NoFault
             /\ buf' = buf \o Slice(h, p, n)
             /\ pos' = [pos EXCEPT ![h] = p + n]
             /\ PieceDone(RawOffset(At))
          \/ /\ IF Readable(h, p, n) THEN Fault ELSE NoFault
             /\ \E q \in PartWay(p, n) : pos' = [pos EXCEPT ![h] = q]
             /\ Failed
             /\ UNCHANGED <<buf, done>>
    /\ UNCHANGED <<readonly, clientVars, request, handle, file, diffVars,
                   difffile, why, dev>>

(* The diff file after the first n cells of page have been written at o. *)
DiffWritten(o, page, n) ==
    [e \in DiffOffsets |-> IF o <= e /\ e < o + n THEN page[e - o + 1] ELSE diff[e]]

CowWriteMapped ==
    /\ pc = "io" /\ request.type = WRITE /\ CopyOnWrite /\ Mapped
    /\ LET o == DiffAt(difmap[Page]) + InPage
           piece == SubSeq(buf, done + 1, done + PieceLen)
       IN \/ /\ NoFault
             /\ diff' = DiffWritten(o, piece, PieceLen)
             /\ PieceDone(lastpoint)
          \/ /\ Fault
             /\ \E n \in 0..PieceLen - 1 : diff' = DiffWritten(o, piece, n)
             /\ Failed
             /\ UNCHANGED done
    /\ UNCHANGED <<readonly, clientVars, request, handle, buf, pos, file,
                   difmap, difffilelen, difffile, why, dev>>

(* The first write to a page: it is given the next page of the diff file,  *)
(* then the old page is read, merged with the payload and written there.   *)
MapPageUncounted == /\ difmap' = [difmap EXCEPT ![Page] = difffilelen]
                    /\ UNCHANGED difffilelen
MapPage == /\ difmap' = [difmap EXCEPT ![Page] = difffilelen]
           /\ difffilelen' = difffilelen + 1

Merged(old) == [i \in 1..PageSize |-> IF InPage < i /\ i <= InPage + PieceLen
                                      THEN buf[done + i - InPage] ELSE old[i]]

CowWriteNew ==
    /\ pc = "io" /\ request.type = WRITE /\ CopyOnWrite /\ ~Mapped
    /\ MapPage
    /\ LET h == RawHunk(PageStart)
           p == RawAt(PageStart)
           o == DiffAt(difffilelen)
           page == Merged(Slice(h, p, PageSize))
       IN \/ /\ Readable(h, p, PageSize) /\ NoFault
             /\ diff' = DiffWritten(o, page, PageSize)
             /\ pos' = [pos EXCEPT ![h] = p + PageSize]
             /\ PieceDone(RawOffset(PageStart))
          \/ /\ IF Readable(h, p, PageSize) THEN Fault ELSE NoFault   \* the read
             /\ \E q \in PartWay(p, PageSize) : pos' = [pos EXCEPT ![h] = q]
             /\ Failed
             /\ UNCHANGED <<diff, done>>
          \/ /\ Readable(h, p, PageSize) /\ Fault                     \* the write
             /\ \E n \in 0..PageSize - 1 : diff' = DiffWritten(o, page, n)
             /\ pos' = [pos EXCEPT ![h] = p + PageSize]
             /\ Failed
             /\ UNCHANGED done
    /\ UNCHANGED <<readonly, clientVars, request, handle, buf, file, difffile,
                   why, dev>>

---------------------------------------------------------------------------
(* SEND and ERROR.  The history dev follows what the client has been told: *)
(* a served write holds, a write that failed leaves its blocks undefined.  *)

Touched(a) == request.from <= a /\ a < request.from + request.len

Reply ==
    /\ pc \in {"ok", "failed", "rejected"}
    /\ pc' = "header"
    /\ pending' = Tail(pending)
    /\ dev' = IF request.type = READ \/ pc = "rejected" THEN dev
              ELSE [a \in Addr |-> IF ~Touched(a) THEN dev[a]
                                   ELSE IF pc = "failed" THEN Any
                                   ELSE buf[a - request.from + 1]]
    /\ UNCHANGED <<readonly, sock, closed, sent, request, handle, buf, done,
                   lastpoint, pos, file, diffVars, difffile, why, faults>>

(* writeit fails: the client is gone. *)
ReplyFailed ==
    /\ pc \in {"ok", "failed", "rejected"} /\ closed
    /\ Exit("write_failed")
    /\ UNCHANGED <<readonly, clientVars, request, handle, buf, done, lastpoint,
                   pos, file, diffVars, difffile, faults, dev>>

Io == PlainRead \/ PlainWrite \/ CowReadDiff \/ CowReadExport
      \/ CowWriteMapped \/ CowWriteNew

Server == ReadHeader \/ ReadPayload \/ ReadFailed \/ Io \/ Overrun
          \/ Reply \/ ReplyFailed

Next == Client \/ Server \/ Alarm

Spec == Init /\ [][Next]_vars
(* The server process is scheduled; nothing obliges the client or a signal. *)
FairSpec == Spec /\ WF_vars(Server)

---------------------------------------------------------------------------
(* Properties.                                                             *)

Values == Content \union {NoData}

(* The variables have their types.  The payload of a write fits the buffer; *)
(* that of a read may pass its end by the reply it lies behind, but never   *)
(* does so for a request that leaves room for the reply.  No descriptor     *)
(* passes the file limit and the diff file never has more pages than the    *)
(* export.                                                                  *)
Filled == Len(buf) + IF request.type = READ THEN ReplySize ELSE 0
TypeOK ==
    /\ sock \in Seq(Items)
    /\ readonly \in ReadOnlyModes /\ closed \in BOOLEAN /\ difffile \in BOOLEAN
    /\ pending \in Seq(1..MaxRequests)
    /\ sent \in 0..MaxRequests
    /\ pc \in PCs
    /\ request \in Requests \union {DiscReq}
    /\ handle \in Nat
    /\ buf \in Seq(Content) /\ done \in 0..BufSize
    /\ Filled > BufSize => request.type = READ /\ Filled <= BufSize + ReplySize
    /\ pc = "overrun" => request.type = READ /\ ReplySize + request.len > BufSize
    /\ lastpoint \in Int /\ lastpoint >= -1
    /\ pos \in [Hunks -> 0..FileLimit]
    /\ file \in [Hunks -> [Offsets -> Values]]
    /\ difmap \in [Pages -> Pages \union {-1}]
    /\ difffilelen \in 0..(ExportSize - 1) \div PageSize + 1
    /\ diff \in [DiffOffsets -> Values]
    /\ why \in {"none", "magic", "disconnect", "too_big", "read_failed",
                "write_failed", "alarm"}
    /\ faults \in 0..MaxFaults
    /\ dev \in [Addr -> Content \union {Any}]

(* One file, no diff file: the mode the cached offset was written for. *)
Plain == ~CopyOnWrite /\ ExportSize <= HunkSize

(* The cache of maybeseek: when lastpoint names an offset, the descriptor  *)
(* is there, after any mix of reads, writes, rejected and failed requests. *)
CacheExact == Plain /\ lastpoint # -1 => lastpoint = pos[0]

(* A block device: a read that succeeds returns for every block what the   *)
(* last successful write put there, or what the export held at first (a    *)
(* write that failed leaves its own blocks undefined).                     *)
ReadsCurrent ==
    pc = "ok" /\ request.type = READ =>
        \A i \in 1..request.len : dev[request.from + i - 1] \in {Any, buf[i]}

(* The inductive form of the two: between requests the history is what the *)
(* file holds, and while one is served the buffer and the file agree.      *)
Serving == pc \in {"payload", "io", "ok", "failed"}
Valid == request \in Requests /\ request.from + request.len <= ExportSize
PlainInv ==
    /\ sock \in Seq(Items) /\ sent \in Nat
    /\ Serving => Valid
    /\ lastpoint \in Int
    /\ pos \in [Hunks -> Int]
    /\ file \in [Hunks -> [Offsets -> Values]]
    /\ dev \in [Addr -> Values \union {Any}]
    /\ pc = "io" /\ request.type = WRITE => buf \in [1..request.len -> Values]
    /\ lastpoint # -1 => lastpoint = pos[0]
    /\ pc = "ok" => \A i \in 1..request.len :
                       buf[i] = file[0][request.from + i - 1]
    /\ ~Ended =>
          \A a \in Addr : \/ dev[a] \in {Any, file[0][a]}
                          \/ /\ pc \in {"ok", "failed"} /\ request.type = WRITE
                             /\ Touched(a)

(* Even with -c, where maybeseek can be wrong about the export, what was   *)
(* successfully written is what is read back, through reused pages of the  *)
(* diff file, partial pages and failures.                                  *)
WrittenReadBack ==
    pc = "ok" /\ request.type = READ =>
        \A i \in 1..request.len : LET d == dev[request.from + i - 1] IN
            d[1] = "data" => buf[i] = d

(* Each reply carries the handle of the oldest unanswered request. *)
AnswersInOrder ==
    pc \in {"ok", "failed", "rejected"} => pending # <<>> /\ handle = Head(pending)

(* No two pages share a page of the diff file, and every page in use was   *)
(* counted, also after a first write that failed half-way.                 *)
DiffMapSound ==
    \A p, q \in Pages : difmap[p] # -1 =>
        /\ difmap[p] < difffilelen
        /\ p # q => difmap[p] # difmap[q]

(* Every request is answered unless the server's process ends, or a read    *)
(* that the buffer has no room for has overrun it.                          *)
Answered == \A n \in 1..MaxRequests :
    (\E i \in DOMAIN pending : pending[i] = n) ~>
        (Ended \/ ~\E i \in DOMAIN pending : pending[i] = n)

(* A server process does not outlive its client: once the connection has   *)
(* ended, in order or not, the process exits; what one does that overran    *)
(* its buffer is not known.                                                 *)
EndsWithClient == closed ~> Ended

(* nbd-server.1.sgml on -r: a client that writes gets an error "but the    *)
(* connection will stay up".                                               *)
ConnectionStaysUp == why # "magic"
=============================================================================
