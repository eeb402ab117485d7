-------------------------- MODULE NbdServerProofs --------------------------
(***************************************************************************)
(* One connection of nbd-server, for every size of the export, its pages   *)
(* and its buffer, and for every request stream, close and failure.        *)
(*                                                                         *)
(* Plain, one file without -c: the offset maybeseek remembers is exact,    *)
(* and the export is a block device.  (With -m or -c neither holds; for -c *)
(* see the run nbd_cow_reads.)                                             *)
(*                                                                         *)
(* Every mode: requests are answered once and in order, the variables keep *)
(* their types, and the page map gives no page of the diff file twice.     *)
(*                                                                         *)
(* CopyOnWrite: the export is untouched, and what was written is read back.*)
(***************************************************************************)
EXTENDS NbdServer, SequenceTheorems, FiniteSetTheorems, TLAPS

(* One hunk, and offsets in it are addresses. *)
LEMMA OneHunk ==
    ASSUME Plain
    PROVE  /\ Hunks = {0}
           /\ Addr \subseteq Offsets
           /\ \A a \in Addr : RawHunk(a) = 0 /\ RawOffset(a) = a
<1>1. /\ ExportSize \in Nat \ {0}
      /\ HunkSize \in Nat \ {0}
      /\ FileLimit \in Nat
      /\ ExportSize <= HunkSize
      /\ HunkSize <= FileLimit
  BY SizeAssumption, SMT DEF Plain
<1>2. \A a \in Nat, n \in Nat \ {0} : a < n => a \div n = 0 /\ a % n = a
  BY SMT
<1>3. \A a \in Addr : a \div HunkSize = 0 /\ a % HunkSize = a
  <2> TAKE a \in Addr
  <2>1. a \in Nat /\ a < HunkSize
    BY <1>1, SMT DEF Addr
  <2>2. QED
    BY <1>1, <1>2, <2>1
<1>4. ExportSize - 1 \in Addr
  BY <1>1, SMT DEF Addr
<1>5. Hunks = {0}
  BY <1>3, <1>4, SMT DEF Hunks
<1>6. Addr \subseteq Offsets
  BY <1>1, SMT DEF Addr, Offsets
<1>7. QED
  BY <1>3, <1>5, <1>6 DEF RawHunk, HunkOf, RawOffset

(* Where the invariant holds, maybeseek skips no seek it should have made. *)
LEMMA SeekExact ==
    ASSUME Plain, PlainInv, NEW a \in Addr
    PROVE  RawAt(a) = a
<1>1. RawHunk(a) = 0 /\ RawOffset(a) = a
  BY OneHunk
<1>2. a # -1
  BY SizeAssumption, SMT DEF Addr
<1>3. SeekTo(0, a) = a
  BY <1>2 DEF SeekTo, PlainInv
<1>4. QED
  BY <1>1, <1>3 DEF RawAt

(* A valid request names addresses of the export. *)
LEMMA ValidRequest ==
    ASSUME Valid
    PROVE  /\ request.from \in Addr
           /\ request.len \in Nat \ {0}
           /\ request.from + request.len <= ExportSize
           /\ request.type \in {READ, WRITE}
           /\ \A i \in 1..request.len : request.from + i - 1 \in Addr
<1>1. request \in Request /\ request.from + request.len <= ExportSize
  BY ClientAssumption DEF Valid
<1>2. QED
  BY <1>1, SizeAssumption, SMT DEF Request, Addr

LEMMA PlainInit == Plain /\ Init => PlainInv
<1> SUFFICES ASSUME Plain, Init
             PROVE  PlainInv
  OBVIOUS
<1>1. /\ Hunks = {0} /\ Addr \subseteq Offsets
  BY OneHunk
<1>2. \A a \in Addr : a \in Nat /\ a < ExportSize /\ a < HunkSize
  BY SizeAssumption, SMT DEF Plain, Addr
<1>3. \A a \in Addr : file[0][a] = Orig(a)
  <2>1. \A a \in Addr : 0 * HunkSize + a = a
    BY <1>2, SizeAssumption, SMT
  <2>2. QED
    BY <1>1, <1>2, <2>1 DEF Init
<1>4. \A h \in Hunks, o \in Offsets :
         o < HunkSize /\ h * HunkSize + o < ExportSize
            => Orig(h * HunkSize + o) \in Values
  <2>1. \A h \in Hunks, o \in Offsets : h * HunkSize + o \in Nat
    <3>1. \A o \in Offsets : 0 * HunkSize + o \in Nat
      BY SizeAssumption, SMT DEF Offsets
    <3>2. QED
      BY <1>1, <3>1
  <2>2. QED
    BY <2>1 DEF Orig, Values, Content
<1>5. file \in [Hunks -> [Offsets -> Values]]
  BY <1>4 DEF Init, Values
<1>6. dev \in [Addr -> Values \union {Any}]
  BY <1>2 DEF Init, Values, Content, Orig
<1>7. pos \in [Hunks -> Int] /\ sock \in Seq(Items) /\ sent \in Nat
  <2>1. DetectedAt \in Int
    BY SizeAssumption DEF DetectedAt
  <2>2. QED
    BY <2>1 DEF Init
<1>8. /\ lastpoint = -1 /\ pc = "header"
      /\ \A a \in Addr : dev[a] = file[0][a]
  BY <1>3 DEF Init
<1>9. QED
  BY <1>5, <1>6, <1>7, <1>8 DEF PlainInv, Serving

(* Every step of the server that leaves the export, the descriptors, the   *)
(* cached offset and the history alone, and starts no transfer.            *)
LEMMA QuietStep ==
    ASSUME PlainInv,
           sock' \in Seq(Items), sent' \in Nat,
           UNCHANGED <<file, pos, dev>>,
           lastpoint' \in {lastpoint, -1},
           \/ UNCHANGED <<pc, request, buf>>
           \/ pc = "header" /\ pc' = "rejected"
           \/ Ended'
    PROVE  PlainInv'
<1>1. CASE UNCHANGED <<pc, request, buf>>
  BY <1>1 DEF PlainInv, Serving, Valid, Touched, Ended
<1>2. CASE pc = "header" /\ pc' = "rejected"
  BY <1>2 DEF PlainInv, Serving, Valid, Touched, Ended
<1>3. CASE Ended'
  BY <1>3 DEF PlainInv, Serving, Valid, Touched, Ended
<1>4. QED
  BY <1>1, <1>2, <1>3

(* What the client sends, and what is left when it vanishes. *)
LEMMA ClientStep == PlainInv /\ Client => PlainInv'
<1> SUFFICES ASSUME PlainInv, Client
             PROVE  PlainInv'
  OBVIOUS
<1>1. UNCHANGED <<pc, request, buf, file, pos, dev, lastpoint>>
  BY DEF Client, ClientSend, ClientDisconnect, ConnectionLost, serverVars
<1>2. sock \in Seq(Items) /\ sent' \in Nat
  <2>1. sent' \in {sent, sent + 1}
    BY DEF Client, ClientSend, ClientDisconnect, ConnectionLost
  <2>2. QED
    BY <2>1 DEF PlainInv
<1>3. ASSUME NEW r \in Requests, ClientSend(r)
      PROVE  sock' \in Seq(Items)
  <2>1. Header(r, sent') \in Items /\ Payload(r) \in Items
    BY <1>2 DEF Header, Payload, Items
  <2>2. \/ sock' = sock \o <<Header(r, sent'), Payload(r)>>
        \/ sock' = sock \o <<Header(r, sent')>>
    BY <1>3 DEF ClientSend
  <2>3. <<Header(r, sent'), Payload(r)>> \in Seq(Items)
        /\ <<Header(r, sent')>> \in Seq(Items)
    BY <2>1
  <2>4. QED
    BY <1>2, <2>2, <2>3, ConcatProperties
<1>4. ASSUME ClientDisconnect
      PROVE  sock' \in Seq(Items)
  BY <1>2, <1>4 DEF ClientDisconnect, Header, Items
<1>5. ASSUME ConnectionLost
      PROVE  sock' \in Seq(Items)
  <2>1. PICK n \in 0..Len(sock) : sock' = SubSeq(sock, 1, n)
    BY <1>5 DEF ConnectionLost
  <2>2. QED
    BY <1>2, <2>1, SubSeqProperties
<1>6. sock' \in Seq(Items)
  BY <1>3, <1>4, <1>5 DEF Client
<1>7. QED
  BY <1>1, <1>2, <1>6, QuietStep

(* A request that passes the checks of mainloop is valid; every other      *)
(* header, and a payload taken for one, starts no transfer.                *)
LEMMA HeaderStep == PlainInv /\ ReadHeader => PlainInv'
<1> SUFFICES ASSUME PlainInv, ReadHeader
             PROVE  PlainInv'
  OBVIOUS
<1> DEFINE item == Head(sock)
<1>1. /\ sock \in Seq(Items) /\ sock # <<>> /\ pc = "header"
      /\ sock' = Tail(sock) /\ sent' \in Nat
      /\ UNCHANGED <<file, pos, dev>>
  BY DEF PlainInv, ReadHeader
<1>2. item \in Items /\ sock' \in Seq(Items)
  BY <1>1, HeadTailProperties
<1>3. \/ pc' = "exited" /\ lastpoint' = lastpoint
      \/ pc' = "rejected" /\ lastpoint' = -1
      \/ /\ request' = item.req /\ item.req.type # DISC /\ ~Rejected(item.req)
         /\ pc' = IF item.req.type = WRITE THEN "payload" ELSE "io"
         /\ lastpoint' = lastpoint
  BY DEF ReadHeader, Exit
<1>4. CASE pc' = "exited" /\ lastpoint' = lastpoint
  BY <1>1, <1>2, <1>4, QuietStep DEF Ended
<1>5. CASE pc' = "rejected" /\ lastpoint' = -1
  BY <1>1, <1>2, <1>5, QuietStep
<1>6. CASE /\ request' = item.req /\ item.req.type # DISC /\ ~Rejected(item.req)
           /\ pc' = IF item.req.type = WRITE THEN "payload" ELSE "io"
           /\ lastpoint' = lastpoint
  <2>1. request' \in Requests
    BY <1>2, <1>6 DEF Items, DiscReq
  <2>2. request'.from + request'.len \in Nat /\ request'.type \in {READ, WRITE}
    BY <2>1, ClientAssumption DEF Request
  <2>3. request'.from + request'.len <= ExportSize
    BY <1>6, <2>2, SizeAssumption DEF Rejected
  <2>4. pc' = "payload" \/ (pc' = "io" /\ request'.type # WRITE)
    BY <1>6
  <2>5. QED
    BY <1>1, <1>2, <1>6, <2>1, <2>3, <2>4 DEF PlainInv, Ended, Serving, Valid
<1>7. QED
  BY <1>3, <1>4, <1>5, <1>6

(* The payload of a write fills the buffer. *)
LEMMA PayloadStep == PlainInv /\ ReadPayload => PlainInv'
<1> SUFFICES ASSUME PlainInv, ReadPayload
             PROVE  PlainInv'
  OBVIOUS
<1>1. /\ sock \in Seq(Items) /\ sock # <<>> /\ pc = "payload" /\ Valid
      /\ sent' \in Nat /\ sock' = Tail(sock) /\ pc' = "io"
      /\ UNCHANGED <<request, lastpoint, file, pos, dev>>
  BY DEF PlainInv, ReadPayload, Serving
<1>2. Head(sock) \in Items /\ sock' \in Seq(Items)
  BY <1>1, HeadTailProperties
<1>3. Head(sock).req.value \in Nat
  BY <1>2, ClientAssumption DEF Items, DiscReq, Request
<1>4. buf' \in [1..request.len -> Values]
  BY <1>3 DEF ReadPayload, Data, Values, Content
<1>5. QED
  BY <1>1, <1>2, <1>4 DEF PlainInv, Ended, Serving, Valid

(* A read: the buffer is what the file holds at the right place, or the    *)
(* position is forgotten.                                                  *)
LEMMA ReadStep == Plain /\ PlainInv /\ PlainRead => PlainInv'
<1> SUFFICES ASSUME Plain, PlainInv, PlainRead
             PROVE  PlainInv'
  OBVIOUS
<1> DEFINE a == request.from  n == request.len
<1>1. /\ pc = "io" /\ request.type = READ /\ Valid
      /\ UNCHANGED <<sock, sent, request, file, dev>>
  BY DEF PlainRead, PlainInv, Serving, clientVars
<1>2. /\ a \in Addr /\ n \in Nat \ {0} /\ a \in Int
      /\ \A i \in 1..n : a + i - 1 \in Addr
  BY <1>1, ValidRequest DEF Addr
<1>3. RawHunk(a) = 0 /\ RawOffset(a) = a /\ RawAt(a) = a /\ Hunks = {0}
  BY <1>2, OneHunk, SeekExact
<1>4. \A b \in Addr : dev[b] \in {Any, file[0][b]}
  BY <1>1 DEF PlainInv, Ended, READ, WRITE
<1>5. \/ /\ buf' = Slice(0, a, n)
         /\ pos' = [pos EXCEPT ![0] = a + n]
         /\ pc' = "ok" /\ lastpoint' = a + n
      \/ /\ \E q \in PartWay(a, n) : pos' = [pos EXCEPT ![0] = q]
         /\ pc' = "failed" /\ lastpoint' = -1
  BY <1>3 DEF PlainRead, Served, Failed
<1>6. CASE /\ buf' = Slice(0, a, n)
           /\ pos' = [pos EXCEPT ![0] = a + n]
           /\ pc' = "ok" /\ lastpoint' = a + n
  <2>1. pos' \in [Hunks -> Int] /\ pos'[0] = a + n /\ lastpoint' \in Int
    BY <1>2, <1>3, <1>6 DEF PlainInv
  <2>2. \A i \in 1..n : buf'[i] = file[0][a + i - 1]
    BY <1>2, <1>6 DEF Slice
  <2>3. QED
    BY <1>1, <1>4, <1>6, <2>1, <2>2 DEF PlainInv, Serving, Valid
<1>7. CASE /\ \E q \in PartWay(a, n) : pos' = [pos EXCEPT ![0] = q]
           /\ pc' = "failed" /\ lastpoint' = -1
  <2>1. pos' \in [Hunks -> Int]
    BY <1>2, <1>3, <1>7 DEF PlainInv, PartWay
  <2>2. QED
    BY <1>1, <1>4, <1>7, <2>1 DEF PlainInv, Serving, Valid
<1>8. QED
  BY <1>5, <1>6, <1>7

(* A write puts the buffer in the file at the right place; the history is  *)
(* behind the file only in the blocks of the request, until the reply.     *)
LEMMA WrittenAt ==
    ASSUME PlainInv, NEW a \in Addr, NEW n \in Nat, 0 \in Hunks,
           Addr \subseteq Offsets,
           buf \in [1..request.len -> Values], n <= request.len, request.len \in Nat
    PROVE  /\ Written(0, a, n) \in [Hunks -> [Offsets -> Values]]
           /\ \A b \in Addr : ~(a <= b /\ b < a + n) => Written(0, a, n)[0][b] = file[0][b]
           /\ \A i \in 1..n : a + i - 1 \in Addr => Written(0, a, n)[0][a + i - 1] = buf[i]
<1> DEFINE cells == [o \in Offsets |-> IF a <= o /\ o < a + n
                                       THEN buf[o - a + 1] ELSE file[0][o]]
<1>1. file \in [Hunks -> [Offsets -> Values]]
  BY DEF PlainInv
<1>2. Written(0, a, n) = [file EXCEPT ![0] = cells]
  BY DEF Written
<1>3. a \in Int /\ \A o \in Offsets : o \in Int
  BY DEF Addr, Offsets
<1>4. \A o \in Offsets : a <= o /\ o < a + n => o - a + 1 \in 1..request.len
  BY <1>3, SMT
<1>5. \A o \in Offsets : cells[o] \in Values
  BY <1>1, <1>4
<1>6. cells \in [Offsets -> Values]
  BY <1>5
<1>7. Written(0, a, n)[0] = cells
  BY <1>1, <1>2
<1>8. Written(0, a, n) \in [Hunks -> [Offsets -> Values]]
  BY <1>1, <1>2, <1>6
<1>9. \A i \in 1..n : a + i - 1 \in Addr => cells[a + i - 1] = buf[i]
  BY <1>3, SMT
<1>10. \A b \in Addr : ~(a <= b /\ b < a + n) => cells[b] = file[0][b]
  OBVIOUS
<1> HIDE DEF cells
<1>11. QED
  BY <1>7, <1>8, <1>9, <1>10

LEMMA WriteStep == Plain /\ PlainInv /\ PlainWrite => PlainInv'
<1> SUFFICES ASSUME Plain, PlainInv, PlainWrite
             PROVE  PlainInv'
  OBVIOUS
<1> DEFINE a == request.from  n == request.len
<1>1. /\ pc = "io" /\ request.type = WRITE /\ Valid
      /\ UNCHANGED <<sock, sent, request, buf, dev>>
      /\ buf \in [1..request.len -> Values]
  BY DEF PlainWrite, PlainInv, Serving, clientVars
<1>2. /\ a \in Addr /\ n \in Nat \ {0} /\ a \in Int
      /\ \A i \in 1..n : a + i - 1 \in Addr
  BY <1>1, ValidRequest DEF Addr
<1>3. RawHunk(a) = 0 /\ RawOffset(a) = a /\ RawAt(a) = a /\ Hunks = {0}
      /\ Addr \subseteq Offsets
  BY <1>2, OneHunk, SeekExact
<1>4. \A b \in Addr : dev[b] \in {Any, file[0][b]}
  BY <1>1 DEF PlainInv, Ended
<1>5. \/ /\ file' = Written(0, a, n)
         /\ pos' = [pos EXCEPT ![0] = a + n]
         /\ pc' = "ok" /\ lastpoint' = a + n
      \/ /\ \E q \in PartWay(a, n) : /\ pos' = [pos EXCEPT ![0] = q]
                                      /\ file' = Written(0, a, q - a)
         /\ pc' = "failed" /\ lastpoint' = -1
  BY <1>3 DEF PlainWrite, Served, Failed
<1>6. CASE /\ file' = Written(0, a, n)
           /\ pos' = [pos EXCEPT ![0] = a + n]
           /\ pc' = "ok" /\ lastpoint' = a + n
  <2>1. pos' \in [Hunks -> Int] /\ pos'[0] = a + n /\ lastpoint' \in Int
    BY <1>2, <1>3, <1>6 DEF PlainInv
  <2>2. /\ file' \in [Hunks -> [Offsets -> Values]]
        /\ \A b \in Addr : ~(a <= b /\ b < a + n) => file'[0][b] = file[0][b]
        /\ \A i \in 1..n : file'[0][a + i - 1] = buf[i]
    BY <1>1, <1>2, <1>3, <1>6, WrittenAt
  <2>3. \A b \in Addr : dev[b] \in {Any, file'[0][b]} \/ (a <= b /\ b < a + n)
    BY <1>4, <2>2
  <2>4. QED
    BY <1>1, <1>6, <2>1, <2>2, <2>3 DEF PlainInv, Serving, Valid, Touched
<1>7. CASE /\ \E q \in PartWay(a, n) : /\ pos' = [pos EXCEPT ![0] = q]
                                       /\ file' = Written(0, a, q - a)
           /\ pc' = "failed" /\ lastpoint' = -1
  <2>1. PICK q \in PartWay(a, n) : /\ pos' = [pos EXCEPT ![0] = q]
                                   /\ file' = Written(0, a, q - a)
    BY <1>7
  <2>2. q \in Int /\ q - a \in Nat /\ q - a <= n
    BY <1>2 DEF PartWay
  <2>3. pos' \in [Hunks -> Int]
    BY <1>3, <2>1, <2>2 DEF PlainInv
  <2>4. /\ file' \in [Hunks -> [Offsets -> Values]]
        /\ \A b \in Addr : ~(a <= b /\ b < a + (q - a)) => file'[0][b] = file[0][b]
    BY <1>1, <1>2, <1>3, <2>1, <2>2, WrittenAt
  <2>5. \A b \in Addr : dev[b] \in {Any, file'[0][b]} \/ (a <= b /\ b < a + n)
    <3>1. \A b \in Addr : b < a + (q - a) => b < a + n
      BY <1>2, <2>2, SMT DEF Addr
    <3>2. QED
      BY <1>4, <2>4, <3>1
  <2>6. QED
    BY <1>1, <1>7, <2>3, <2>4, <2>5 DEF PlainInv, Serving, Valid, Touched
<1>8. QED
  BY <1>5, <1>6, <1>7

(* The reply brings the history up to the file. *)
LEMMA ReplyStep == Plain /\ PlainInv /\ Reply => PlainInv'
<1> SUFFICES ASSUME Plain, PlainInv, Reply
             PROVE  PlainInv'
  OBVIOUS
<1>1. /\ pc \in {"ok", "failed", "rejected"} /\ pc' = "header"
      /\ UNCHANGED <<sock, sent, request, buf, lastpoint, pos, file>>
  BY DEF Reply
<1>2. CASE request.type = READ \/ pc = "rejected"
  <2>1. dev' = dev /\ ~(pc \in {"ok", "failed"} /\ request.type = WRITE)
    BY <1>1, <1>2 DEF Reply, READ, WRITE
  <2>2. QED
    BY <1>1, <2>1 DEF PlainInv, Ended, Serving
<1>3. CASE ~(request.type = READ \/ pc = "rejected")
  <2>1. /\ Valid /\ pc \in {"ok", "failed"} /\ request.len \in Nat
        /\ request.from \in Int
        /\ \A a \in Addr : a \in Int
    BY <1>1, <1>3, ValidRequest DEF PlainInv, Serving, Addr
  <2>2. dev' = [a \in Addr |-> IF ~Touched(a) THEN dev[a]
                               ELSE IF pc = "failed" THEN Any
                               ELSE buf[a - request.from + 1]]
    BY <1>3 DEF Reply
  <2>3. ASSUME NEW a \in Addr, ~Touched(a)
        PROVE  dev'[a] \in {Any, file[0][a]} /\ dev'[a] \in Values \union {Any}
    BY <2>1, <2>2, <2>3 DEF PlainInv, Ended
  <2>4. ASSUME NEW a \in Addr, Touched(a), pc = "ok"
        PROVE  dev'[a] = file[0][a] /\ file[0][a] \in Values
    <3>1. /\ a - request.from + 1 \in 1..request.len
          /\ request.from + (a - request.from + 1) - 1 = a
      BY <2>1, <2>4 DEF Touched
    <3>2. buf[a - request.from + 1] = file[0][a]
      BY <2>4, <3>1 DEF PlainInv
    <3>3. file[0][a] \in Values
      BY <2>4, OneHunk DEF PlainInv
    <3>4. QED
      BY <2>2, <2>4, <3>2, <3>3
  <2>5. ASSUME NEW a \in Addr, Touched(a), pc = "failed"
        PROVE  dev'[a] = Any
    BY <2>2, <2>5
  <2>6. /\ \A a \in Addr : dev'[a] \in {Any, file[0][a]}
        /\ \A a \in Addr : dev'[a] \in Values \union {Any}
    BY <2>1, <2>3, <2>4, <2>5
  <2>7. dev' \in [Addr -> Values \union {Any}]
    BY <2>2, <2>6
  <2>8. QED
    BY <1>1, <2>6, <2>7 DEF PlainInv, Serving
<1>4. QED
  BY <1>2, <1>3

(* Every step preserves the invariant; the steps of -c never happen. *)
LEMMA PlainStep == Plain /\ PlainInv /\ [Next]_vars => PlainInv'
<1> SUFFICES ASSUME Plain, PlainInv, [Next]_vars
             PROVE  PlainInv'
  OBVIOUS
<1>1. CASE Client
  BY <1>1, ClientStep
<1>2. CASE ReadHeader
  BY <1>2, HeaderStep
<1>3. CASE ReadPayload
  BY <1>3, PayloadStep
<1>4. CASE ReadFailed \/ Alarm \/ ReplyFailed \/ Overrun
  <2>1. /\ Ended'
        /\ UNCHANGED <<sock, sent, lastpoint, pos, file, dev>>
    BY <1>4 DEF ReadFailed, Alarm, ReplyFailed, Overrun, Exit, Ended, clientVars
  <2>2. sock' \in Seq(Items) /\ sent' \in Nat
    BY <2>1 DEF PlainInv
  <2>3. QED
    BY <2>1, <2>2, QuietStep
<1>5. CASE PlainRead
  BY <1>5, ReadStep
<1>6. CASE PlainWrite
  BY <1>6, WriteStep
<1>7. CASE CowReadDiff \/ CowReadExport \/ CowWriteMapped \/ CowWriteNew
  BY <1>7 DEF CowReadDiff, CowReadExport, CowWriteMapped, CowWriteNew, Plain
<1>8. CASE Reply
  BY <1>8, ReplyStep
<1>9. CASE UNCHANGED vars
  <2>1. /\ UNCHANGED <<pc, request, buf, file, pos, dev, lastpoint>>
        /\ sock' \in Seq(Items) /\ sent' \in Nat
    BY <1>9 DEF vars, PlainInv, diffVars
  <2>2. QED
    BY <2>1, QuietStep
<1>10. QED
  BY <1>1, <1>2, <1>3, <1>4, <1>5, <1>6, <1>7, <1>8, <1>9
     DEF Next, Server, Io

(* With one file and no diff file, whenever the server remembers an offset *)
(* (lastpoint of maybeseek) the descriptor really is there: no seek that   *)
(* mattered is ever skipped.                                               *)
THEOREM CacheIsExact == Plain => (Spec => []CacheExact)
<1> SUFFICES ASSUME Plain
             PROVE  Spec => []CacheExact
  OBVIOUS
<1>1. Init => PlainInv
  BY PlainInit
<1>2. PlainInv /\ [Next]_vars => PlainInv'
  BY PlainStep
<1>3. PlainInv => CacheExact
  BY DEF PlainInv, CacheExact
<1>4. QED
  BY <1>1, <1>2, <1>3, PTL DEF Spec

(* With one file and no diff file, the server is a block device: a read    *)
(* that succeeds returns what the last successful write of each block put  *)
(* there, for every export size and every mix of requests and failures.    *)
THEOREM ReadsAreCurrent == Plain => (Spec => []ReadsCurrent)
<1> SUFFICES ASSUME Plain
             PROVE  Spec => []ReadsCurrent
  OBVIOUS
<1>1. Init => PlainInv
  BY PlainInit
<1>2. PlainInv /\ [Next]_vars => PlainInv'
  BY PlainStep
<1>3. PlainInv => ReadsCurrent
  <2> SUFFICES ASSUME PlainInv, pc = "ok", request.type = READ,
                      NEW i \in 1..request.len
               PROVE  dev[request.from + i - 1] \in {Any, buf[i]}
    BY DEF ReadsCurrent
  <2>1. request.from + i - 1 \in Addr
    BY ValidRequest DEF PlainInv, Serving
  <2>2. dev[request.from + i - 1] \in {Any, file[0][request.from + i - 1]}
    BY <2>1 DEF PlainInv, Ended, READ, WRITE
  <2>3. QED
    BY <2>2 DEF PlainInv
<1>4. QED
  BY <1>1, <1>2, <1>3, PTL DEF Spec
---------------------------------------------------------------------------
(* The order of the replies, in every mode.                                *)

(* An item of the connection that will be answered if it is read as a      *)
(* header.                                                                 *)
Asks(item) == item.kind = "header" /\ item.req.type # DISC

(* The requests waiting in s have consecutive handles from next on; while  *)
(* the client can send (open), the last of them is the last it sent.       *)
Queue(s, next, last, open) ==
    /\ \A i \in 1..Len(s) : Asks(s[i]) =>
          /\ s[i].handle <= last
          /\ (\A j \in 1..i - 1 : ~Asks(s[j])) => s[i].handle = next
    /\ \A i, k \in 1..Len(s) :
          /\ i < k /\ Asks(s[i]) /\ Asks(s[k])
          /\ \A j \in i + 1..k - 1 : ~Asks(s[j])
          => s[k].handle = s[i].handle + 1
    /\ open =>
          /\ \A i \in 1..Len(s) :
                Asks(s[i]) /\ (\A j \in i + 1..Len(s) : ~Asks(s[j]))
                => s[i].handle = last
          /\ (\A i \in 1..Len(s) : ~Asks(s[i])) => next = last + 1

(* A request has been read and not answered; the number of replies sent.   *)
Busy == pc \in {"payload", "io", "ok", "failed", "rejected"}
Replied == sent - Len(pending)

(* The unanswered handles are the numbers up to sent; the first is the     *)
(* request being served, and the rest wait in the connection in order.     *)
OrderInv ==
    /\ sock \in Seq(Items) /\ sent \in Nat /\ pending \in Seq(Nat)
    /\ closed \in BOOLEAN
    /\ \A i \in 1..Len(pending) : pending[i] = Replied + i
    /\ Busy => pending # <<>> /\ handle = Replied + 1
    /\ ~Ended => Queue(sock, Replied + (IF Busy THEN 2 ELSE 1), sent, ~closed)

LEMMA Tuples ==
    ASSUME NEW S, NEW a \in S, NEW b \in S
    PROVE  /\ <<a>> \in Seq(S) /\ Len(<<a>>) = 1 /\ <<a>>[1] = a
           /\ <<a, b>> \in Seq(S) /\ Len(<<a, b>>) = 2
           /\ <<a, b>>[1] = a /\ <<a, b>>[2] = b
OBVIOUS

(* The client adds a request at the end of the queue. *)
LEMMA QueueAppend ==
    ASSUME NEW s, NEW t, NEW n \in Nat, NEW last \in Nat, NEW next,
           s \in Seq(Items), t \in Seq(Items), n = Len(s), Len(t) >= n + 1,
           \A i \in 1..n : t[i] = s[i],
           Asks(t[n + 1]), t[n + 1].handle = last + 1,
           \A i \in n + 2..Len(t) : ~Asks(t[i]),
           Queue(s, next, last, TRUE)
    PROVE  Queue(t, next, last + 1, TRUE)
<1>1. Len(t) \in Nat /\ Len(s) \in Nat
  BY LenProperties
<1>2. \A i \in 1..Len(t) : Asks(t[i]) => i \in 1..n \/ i = n + 1
  BY <1>1
<1>3. ASSUME NEW i \in 1..Len(t), Asks(t[i])
      PROVE  /\ t[i].handle <= last + 1
             /\ (\A j \in 1..i - 1 : ~Asks(t[j])) => t[i].handle = next
  <2>1. CASE i \in 1..n
    <3>1. Asks(s[i]) /\ t[i] = s[i]
      BY <1>3, <2>1
    <3>2. (\A j \in 1..i - 1 : ~Asks(t[j])) => (\A j \in 1..i - 1 : ~Asks(s[j]))
      BY <2>1
    <3>3. s[i].handle <= last
      BY <2>1, <3>1 DEF Queue
    <3>4. (\A j \in 1..i - 1 : ~Asks(s[j])) => s[i].handle = next
      BY <2>1, <3>1 DEF Queue
    <3>5. s[i].handle \in Int
      <4>1. s[i] \in Items
        BY <2>1, ElementOfSeq
      <4>2. QED
        BY <4>1 DEF Items
    <3>6. QED
      BY <3>1, <3>2, <3>3, <3>4, <3>5
  <2>2. CASE i = n + 1
    <3>1. (\A j \in 1..i - 1 : ~Asks(t[j])) => (\A j \in 1..n : ~Asks(s[j]))
      BY <2>2
    <3>2. (\A j \in 1..n : ~Asks(s[j])) => next = last + 1
      BY DEF Queue
    <3>3. QED
      BY <2>2, <3>1, <3>2
  <2>3. QED
    BY <1>2, <1>3, <2>1, <2>2
<1>4. ASSUME NEW i \in 1..Len(t), NEW k \in 1..Len(t),
             i < k, Asks(t[i]), Asks(t[k]), \A j \in i + 1..k - 1 : ~Asks(t[j])
      PROVE  t[k].handle = t[i].handle + 1
  <2>1. i \in 1..n
    BY <1>1, <1>2, <1>4
  <2>2. Asks(s[i]) /\ t[i] = s[i]
    BY <1>4, <2>1
  <2>3. CASE k \in 1..n
    <3>1. Asks(s[k]) /\ t[k] = s[k] /\ \A j \in i + 1..k - 1 : ~Asks(s[j])
      BY <1>4, <2>1, <2>3
    <3>2. s[k].handle = s[i].handle + 1
      <4>1. i \in 1..Len(s) /\ k \in 1..Len(s)
        BY <2>1, <2>3
      <4>2. QED
        BY <1>4, <2>2, <3>1, <4>1 DEF Queue
    <3>3. QED
      BY <2>2, <3>1, <3>2
  <2>4. CASE k = n + 1
    <3>1. \A j \in i + 1..n : ~Asks(s[j])
      BY <1>4, <2>1, <2>4
    <3>2. s[i].handle = last
      BY <2>1, <2>2, <3>1 DEF Queue
    <3>3. QED
      BY <2>2, <2>4, <3>2
  <2>5. QED
    BY <1>2, <1>4, <2>3, <2>4
<1>5. ASSUME NEW i \in 1..Len(t), Asks(t[i]), \A j \in i + 1..Len(t) : ~Asks(t[j])
      PROVE  t[i].handle = last + 1
  BY <1>1, <1>2, <1>5
<1>6. n + 1 \in 1..Len(t)
  BY <1>1
<1>7. QED
  BY <1>3, <1>4, <1>5, <1>6 DEF Queue

(* The disconnect at the end of the connection asks for nothing; what is   *)
(* lost with the connection is the end of the queue.                       *)
LEMMA QueueCut ==
    ASSUME NEW s, NEW t, NEW n \in Nat, NEW next, NEW last, NEW S, NEW open,
           s \in Seq(S), t \in Seq(S), n <= Len(s), n <= Len(t),
           \A i \in 1..n : t[i] = s[i],
           \A i \in n + 1..Len(t) : ~Asks(t[i]),
           Queue(s, next, last, open)
    PROVE  Queue(t, next, last, FALSE)
<1>1. Len(t) \in Nat /\ Len(s) \in Nat
  BY LenProperties
<1>2. \A i \in 1..Len(t) : Asks(t[i]) => i \in 1..n /\ i \in 1..Len(s) /\ t[i] = s[i]
  BY <1>1
<1>3. ASSUME NEW i \in 1..Len(t), Asks(t[i])
      PROVE  /\ t[i].handle <= last
             /\ (\A j \in 1..i - 1 : ~Asks(t[j])) => t[i].handle = next
  <2>1. i \in 1..n /\ i \in 1..Len(s) /\ t[i] = s[i]
    BY <1>2, <1>3
  <2>2. (\A j \in 1..i - 1 : ~Asks(t[j])) => (\A j \in 1..i - 1 : ~Asks(s[j]))
    BY <2>1
  <2>3. QED
    BY <1>3, <2>1, <2>2 DEF Queue
<1>4. ASSUME NEW i \in 1..Len(t), NEW k \in 1..Len(t),
             i < k, Asks(t[i]), Asks(t[k]), \A j \in i + 1..k - 1 : ~Asks(t[j])
      PROVE  t[k].handle = t[i].handle + 1
  <2>1. /\ i \in 1..n /\ i \in 1..Len(s) /\ t[i] = s[i]
        /\ k \in 1..n /\ k \in 1..Len(s) /\ t[k] = s[k]
    BY <1>2, <1>4
  <2>2. \A j \in i + 1..k - 1 : ~Asks(s[j])
    BY <1>4, <2>1
  <2>3. QED
    BY <1>4, <2>1, <2>2 DEF Queue
<1>5. QED
  BY <1>3, <1>4 DEF Queue

(* The server reads the first item of the queue: if it asks, it is next.   *)
LEMMA QueueTail ==
    ASSUME NEW S, NEW s \in Seq(S), s # <<>>, NEW next \in Int, NEW last \in Int,
           NEW open, Queue(s, next, last, open)
    PROVE  /\ ~Asks(Head(s)) => Queue(Tail(s), next, last, open)
           /\ Asks(Head(s)) => /\ Head(s).handle = next /\ next <= last
                               /\ Queue(Tail(s), next + 1, last, open)
<1> DEFINE t == Tail(s)
<1>1. /\ Len(s) \in Nat /\ Len(s) >= 1 /\ Len(t) = Len(s) - 1
      /\ t \in Seq(S)
      /\ \A i \in 1..Len(t) : t[i] = s[i + 1]
      /\ Head(s) = s[1]
  BY HeadTailProperties, LenProperties, EmptySeq
<1> HIDE DEF t
<1>2. \A i \in 1..Len(t) : i + 1 \in 1..Len(s)
  BY <1>1
<1>3. Asks(s[1]) => s[1].handle = next /\ next <= last
  <2>1. \A j \in 1..1 - 1 : ~Asks(s[j])
    OBVIOUS
  <2>2. 1 \in 1..Len(s)
    BY <1>1
  <2>3. Asks(s[1]) => s[1].handle <= last /\ s[1].handle = next
    BY <2>1, <2>2 DEF Queue
  <2>4. QED
    BY <2>3
<1>4. \A i \in 1..Len(t) : Asks(t[i]) => t[i].handle <= last
  BY <1>1, <1>2 DEF Queue
<1>5. ASSUME NEW i \in 1..Len(t), NEW k \in 1..Len(t),
             i < k, Asks(t[i]), Asks(t[k]), \A j \in i + 1..k - 1 : ~Asks(t[j])
      PROVE  t[k].handle = t[i].handle + 1
  <2>1. /\ t[i] = s[i + 1] /\ t[k] = s[k + 1]
        /\ i + 1 \in 1..Len(s) /\ k + 1 \in 1..Len(s) /\ i + 1 < k + 1
    BY <1>1, <1>2, <1>5
  <2>2. \A j \in (i + 1) + 1..(k + 1) - 1 : ~Asks(s[j])
    <3>1. \A j \in (i + 1) + 1..(k + 1) - 1 :
             /\ j - 1 \in i + 1..k - 1 /\ j - 1 \in 1..Len(t) /\ (j - 1) + 1 = j
      BY <1>1
    <3>2. TAKE j \in (i + 1) + 1..(k + 1) - 1
    <3>3. ~Asks(t[j - 1])
      BY <1>5, <3>1
    <3>4. t[j - 1] = s[j]
      BY <1>1, <3>1
    <3>5. QED
      BY <3>3, <3>4
  <2>3. QED
    BY <1>5, <2>1, <2>2 DEF Queue
<1>6. ASSUME open
      PROVE  \A i \in 1..Len(t) :
                Asks(t[i]) /\ (\A j \in i + 1..Len(t) : ~Asks(t[j]))
                => t[i].handle = last
  <2> SUFFICES ASSUME NEW i \in 1..Len(t), Asks(t[i]),
                      \A j \in i + 1..Len(t) : ~Asks(t[j])
               PROVE  t[i].handle = last
    OBVIOUS
  <2>1. t[i] = s[i + 1] /\ i + 1 \in 1..Len(s)
    BY <1>1, <1>2
  <2>2. \A j \in (i + 1) + 1..Len(s) : ~Asks(s[j])
    <3>1. \A j \in (i + 1) + 1..Len(s) :
             /\ j - 1 \in i + 1..Len(t) /\ j - 1 \in 1..Len(t) /\ (j - 1) + 1 = j
      BY <1>1
    <3>2. QED
      BY <1>1, <3>1
  <2>3. QED
    BY <1>6, <2>1, <2>2 DEF Queue
<1>7. ASSUME ~Asks(s[1])
      PROVE  /\ \A i \in 1..Len(t) : Asks(t[i]) /\ (\A j \in 1..i - 1 : ~Asks(t[j]))
                                      => t[i].handle = next
             /\ open /\ (\A i \in 1..Len(t) : ~Asks(t[i])) => next = last + 1
  <2>1. ASSUME NEW i \in 1..Len(t), Asks(t[i]), \A j \in 1..i - 1 : ~Asks(t[j])
        PROVE  t[i].handle = next
    <3>1. t[i] = s[i + 1] /\ i + 1 \in 1..Len(s)
      BY <1>1, <1>2
    <3>2. \A j \in 1..(i + 1) - 1 : ~Asks(s[j])
      <4>1. \A j \in 1..(i + 1) - 1 :
               j = 1 \/ (j - 1 \in 1..i - 1 /\ j - 1 \in 1..Len(t) /\ (j - 1) + 1 = j)
        BY <1>1
      <4>2. QED
        BY <1>1, <1>7, <2>1, <4>1
    <3>3. QED
      BY <2>1, <3>1, <3>2 DEF Queue
  <2>2. ASSUME open, \A i \in 1..Len(t) : ~Asks(t[i])
        PROVE  next = last + 1
    <3>1. \A j \in 1..Len(s) :
             j = 1 \/ (j - 1 \in 1..Len(t) /\ (j - 1) + 1 = j)
      BY <1>1
    <3>2. \A j \in 1..Len(s) : ~Asks(s[j])
      BY <1>1, <1>7, <2>2, <3>1
    <3>3. QED
      BY <2>2, <3>2 DEF Queue
  <2>3. QED
    BY <2>1, <2>2
<1>8. ASSUME Asks(s[1])
      PROVE  /\ \A i \in 1..Len(t) : Asks(t[i]) /\ (\A j \in 1..i - 1 : ~Asks(t[j]))
                                      => t[i].handle = next + 1
             /\ open /\ (\A i \in 1..Len(t) : ~Asks(t[i])) => next + 1 = last + 1
  <2>1. ASSUME NEW i \in 1..Len(t), Asks(t[i]), \A j \in 1..i - 1 : ~Asks(t[j])
        PROVE  t[i].handle = next + 1
    <3>1. t[i] = s[i + 1] /\ i + 1 \in 1..Len(s) /\ 1 < i + 1 /\ 1 \in 1..Len(s)
      BY <1>1, <1>2
    <3>2. \A j \in 1 + 1..(i + 1) - 1 : ~Asks(s[j])
      <4>1. \A j \in 1 + 1..(i + 1) - 1 :
               j - 1 \in 1..i - 1 /\ j - 1 \in 1..Len(t) /\ (j - 1) + 1 = j
        BY <1>1
      <4>2. QED
        BY <1>1, <2>1, <4>1
    <3>3. s[i + 1].handle = s[1].handle + 1
      BY <1>8, <2>1, <3>1, <3>2 DEF Queue
    <3>4. QED
      BY <1>3, <1>8, <3>1, <3>3
  <2>2. ASSUME open, \A i \in 1..Len(t) : ~Asks(t[i])
        PROVE  next + 1 = last + 1
    <3>1. \A j \in 1 + 1..Len(s) : j - 1 \in 1..Len(t) /\ (j - 1) + 1 = j
      BY <1>1
    <3>2. \A j \in 1 + 1..Len(s) : ~Asks(s[j])
      BY <1>1, <2>2, <3>1
    <3>3. 1 \in 1..Len(s)
      BY <1>1
    <3>4. s[1].handle = last
      BY <1>8, <2>2, <3>2, <3>3 DEF Queue
    <3>5. QED
      BY <1>3, <1>8, <3>4
  <2>3. QED
    BY <2>1, <2>2
<1>9. ~Asks(s[1]) => Queue(t, next, last, open)
  BY <1>4, <1>5, <1>6, <1>7 DEF Queue
<1>10. Asks(s[1]) => Queue(t, next + 1, last, open)
  BY <1>4, <1>5, <1>6, <1>8 DEF Queue
<1>11. QED
  BY <1>1, <1>3, <1>9, <1>10 DEF t
(* A write's header is followed by its payload, or by the end of what is   *)
(* left of a lost connection.                                              *)
Paired(s, open) ==
    \A i \in 1..Len(s) :
        s[i].kind = "header" /\ s[i].req.type = WRITE /\ (open \/ i < Len(s))
        => i < Len(s) /\ s[i + 1].kind = "payload"

(* So what the server reads after the header of a write is its payload. *)
PairInv ==
    /\ Paired(sock, ~closed)
    /\ pc = "payload" => IF sock = <<>> THEN closed ELSE sock[1].kind = "payload"

(* What the client sends keeps headers and payloads together. *)
LEMMA PairSend == ASSUME NEW r \in Requests, OrderInv, PairInv, ClientSend(r)
                  PROVE  PairInv'
<1>1. /\ sock \in Seq(Items) /\ closed = FALSE /\ UNCHANGED <<closed, pc>>
      /\ Len(sock) \in Nat /\ sent' \in Nat
  BY LenProperties DEF OrderInv, ClientSend, serverVars
<1>2. /\ Header(r, sent') \in Items
      /\ Header(r, sent').kind = "header" /\ Header(r, sent').req = r
      /\ Payload(r) \in Items /\ Payload(r).kind = "payload"
  BY <1>1 DEF Header, Payload, Items
<1>3. PICK t : /\ sock' = sock \o t
               /\ \/ r.type = WRITE /\ t = <<Header(r, sent'), Payload(r)>>
                  \/ r.type # WRITE /\ t = <<Header(r, sent')>>
  BY DEF ClientSend
<1>4. /\ Len(t) \in {1, 2} /\ t[1].kind = "header" /\ t[1].req.type = r.type
      /\ r.type = WRITE => Len(t) = 2
      /\ Len(t) = 2 => t[2].kind = "payload"
      /\ t \in Seq(Items)
  BY <1>2, <1>3, Tuples
<1>5. /\ Len(sock') = Len(sock) + Len(t)
      /\ \A i \in 1..Len(sock') : sock'[i] = IF i <= Len(sock) THEN sock[i]
                                             ELSE t[i - Len(sock)]
  BY <1>1, <1>3, <1>4, ConcatProperties
<1>6. Paired(sock', TRUE)
  <2> SUFFICES ASSUME NEW i \in 1..Len(sock'),
                      sock'[i].kind = "header", sock'[i].req.type = WRITE
               PROVE  i < Len(sock') /\ sock'[i + 1].kind = "payload"
    BY DEF Paired
  <2>1. CASE i <= Len(sock)
    <3>1. i \in 1..Len(sock) /\ sock'[i] = sock[i]
      BY <1>1, <1>5, <2>1
    <3>2. i < Len(sock) /\ sock[i + 1].kind = "payload"
      BY <1>1, <3>1 DEF PairInv, Paired
    <3>3. i + 1 \in 1..Len(sock') /\ i + 1 <= Len(sock)
      BY <1>1, <1>4, <1>5, <3>2
    <3>4. QED
      BY <1>5, <3>2, <3>3
  <2>2. CASE ~(i <= Len(sock))
    <3>1. i - Len(sock) \in {1, 2} /\ sock'[i] = t[i - Len(sock)]
          /\ (i - Len(sock) = 2 => Len(t) = 2)
      BY <1>1, <1>4, <1>5, <2>2
    <3>2. i - Len(sock) = 1
      BY <1>4, <3>1
    <3>3. r.type = WRITE /\ Len(t) = 2
      BY <1>4, <3>1, <3>2
    <3>4. i + 1 \in 1..Len(sock') /\ ~(i + 1 <= Len(sock)) /\ i + 1 - Len(sock) = 2
      BY <1>1, <1>5, <3>2, <3>3
    <3>5. QED
      BY <1>4, <1>5, <3>3, <3>4
  <2>3. QED
    BY <2>1, <2>2
<1>7. ASSUME pc = "payload"
      PROVE  sock' # <<>> /\ sock'[1].kind = "payload"
  <2>1. sock # <<>> /\ sock[1].kind = "payload"
    BY <1>1, <1>7 DEF PairInv
  <2>2. Len(sock) >= 1
    BY <1>1, <2>1, EmptySeq
  <2>3. 1 \in 1..Len(sock') /\ 1 <= Len(sock) /\ Len(sock') # 0
    BY <1>1, <1>4, <1>5, <2>2
  <2>4. sock' # <<>>
    BY <2>3
  <2>5. QED
    BY <1>5, <2>1, <2>3, <2>4
<1>8. QED
  BY <1>1, <1>6, <1>7 DEF PairInv

(* Losing the end of the connection may cost a write its payload. *)
LEMMA PairClose ==
    OrderInv /\ PairInv /\ (ClientDisconnect \/ ConnectionLost) => PairInv'
<1> SUFFICES ASSUME OrderInv, PairInv, ClientDisconnect \/ ConnectionLost
             PROVE  PairInv'
  OBVIOUS
<1>1. /\ sock \in Seq(Items) /\ closed = FALSE /\ closed' = TRUE /\ pc' = pc
      /\ Len(sock) \in Nat
  BY LenProperties DEF OrderInv, ClientDisconnect, ConnectionLost, serverVars
<1>2. ASSUME NEW n \in 0..Len(sock) + 1, sock' \in Seq(Items), Len(sock') = n,
             \A i \in 1..n : i <= Len(sock) => sock'[i] = sock[i]
      PROVE  PairInv'
  <2>1. ASSUME NEW i \in 1..Len(sock'), i < Len(sock'),
               sock'[i].kind = "header", sock'[i].req.type = WRITE
        PROVE  sock'[i + 1].kind = "payload"
    <3>1. i \in 1..Len(sock) /\ sock'[i] = sock[i]
      BY <1>1, <1>2, <2>1
    <3>2. i < Len(sock) /\ sock[i + 1].kind = "payload"
      BY <1>1, <2>1, <3>1 DEF PairInv, Paired
    <3>3. i + 1 \in 1..n /\ i + 1 <= Len(sock)
      BY <1>1, <1>2, <2>1, <3>2
    <3>4. QED
      BY <1>2, <3>2, <3>3
  <2>2. ASSUME pc = "payload", sock' # <<>>
        PROVE  sock'[1].kind = "payload"
    <3>1. sock # <<>> /\ sock[1].kind = "payload"
      BY <1>1, <2>2 DEF PairInv
    <3>2. 1 <= Len(sock) /\ 1 \in 1..n
      BY <1>1, <1>2, <2>2, <3>1, EmptySeq
    <3>3. QED
      BY <1>2, <3>1, <3>2
  <2>3. Paired(sock', FALSE)
    BY <2>1 DEF Paired
  <2>4. QED
    BY <1>1, <2>2, <2>3 DEF PairInv
<1>3. CASE ClientDisconnect
  <2>1. sock' = Append(sock, Header(DiscReq, 0)) /\ Header(DiscReq, 0) \in Items
    BY <1>3 DEF ClientDisconnect, Header, Items
  <2>2. /\ sock' \in Seq(Items) /\ Len(sock') = Len(sock) + 1
        /\ \A i \in 1..Len(sock) : sock'[i] = sock[i]
    BY <1>1, <2>1, AppendProperties
  <2>3. Len(sock) + 1 \in 0..Len(sock) + 1
        /\ \A i \in 1..Len(sock) + 1 : i <= Len(sock) => sock'[i] = sock[i]
    BY <1>1, <2>2
  <2>4. QED
    BY <1>2, <2>2, <2>3
<1>4. CASE ConnectionLost
  <2>1. PICK n \in 0..Len(sock) : sock' = SubSeq(sock, 1, n)
    BY <1>4 DEF ConnectionLost
  <2>2. n \in Nat /\ n \in 0..Len(sock) + 1 /\ \A i \in 1..n : i \in 1..Len(sock)
    BY <1>1
  <2>3. \A i \in 1..n : sock[i] \in Items
    BY <1>1, <2>2, ElementOfSeq
  <2>4. Len(sock') = n /\ sock' \in Seq(Items) /\ \A i \in 1..n : sock'[i] = sock[i]
    BY <2>1, <2>2, <2>3, SubSeqProperties
  <2>5. QED
    BY <1>2, <2>2, <2>4
<1>5. QED
  BY <1>3, <1>4

(* Reading an item: what follows the header of a write is its payload. *)
LEMMA PairRead == OrderInv /\ PairInv /\ (ReadHeader \/ ReadPayload) => PairInv'
<1> SUFFICES ASSUME OrderInv, PairInv, ReadHeader \/ ReadPayload
             PROVE  PairInv'
  OBVIOUS
<1>1. /\ sock \in Seq(Items) /\ sock # <<>> /\ sock' = Tail(sock) /\ closed' = closed
      /\ closed \in BOOLEAN
  BY DEF OrderInv, ReadHeader, ReadPayload
<1>2. /\ Len(sock) \in Nat /\ Len(sock) >= 1 /\ Len(sock') = Len(sock) - 1
      /\ sock' \in Seq(Items)
      /\ \A i \in 1..Len(sock') : sock'[i] = sock[i + 1]
      /\ Head(sock) = sock[1]
  BY <1>1, HeadTailProperties, LenProperties, EmptySeq
<1>3. ASSUME NEW i \in 1..Len(sock'), sock'[i].kind = "header",
             sock'[i].req.type = WRITE, ~closed \/ i < Len(sock')
      PROVE  i < Len(sock') /\ sock'[i + 1].kind = "payload"
  <2>1. i + 1 \in 1..Len(sock) /\ sock'[i] = sock[i + 1]
        /\ (i < Len(sock') => i + 1 < Len(sock))
    BY <1>2
  <2>2. i + 1 < Len(sock) /\ sock[(i + 1) + 1].kind = "payload"
    BY <1>3, <2>1 DEF PairInv, Paired
  <2>3. i < Len(sock') /\ i + 1 \in 1..Len(sock')
    BY <1>2, <2>2
  <2>4. QED
    BY <1>2, <2>2, <2>3
<1>4. Paired(sock', ~closed')
  BY <1>1, <1>3 DEF Paired
<1>5. ASSUME pc' = "payload"
      PROVE  IF sock' = <<>> THEN closed ELSE sock'[1].kind = "payload"
  <2>1. sock[1].kind = "header" /\ sock[1].req.type = WRITE
    BY <1>2, <1>5 DEF ReadHeader, ReadPayload, Exit
  <2>2. ~closed \/ 1 < Len(sock) => 1 < Len(sock) /\ sock[1 + 1].kind = "payload"
    BY <1>2, <2>1 DEF PairInv, Paired
  <2>3. sock' # <<>> => 1 < Len(sock) /\ 1 \in 1..Len(sock')
    <3>1. sock' # <<>> => Len(sock') # 0
      BY <1>2, EmptySeq
    <3>2. QED
      BY <1>2, <3>1
  <2>4. sock' = <<>> => Len(sock) = 1
    <3>1. Len(<<>>) = 0
      BY EmptySeq
    <3>2. sock' = <<>> => Len(sock') = 0
      BY <3>1, Zenon
    <3>3. Len(sock') = 0 => Len(sock) = 1
      BY <1>2
    <3>4. QED
      BY <3>2, <3>3, Zenon
  <2>5. QED
    BY <1>1, <1>2, <2>2, <2>3, <2>4
<1>6. QED
  BY <1>1, <1>4, <1>5 DEF PairInv

(* The other steps of the server leave the connection alone. *)
LEMMA PairRest ==
    PairInv /\ UNCHANGED <<sock, closed>> /\ (pc' = "payload" => pc = "payload")
        => PairInv'
BY DEF PairInv

LEMMA OrderInit == Init => OrderInv
<1> SUFFICES ASSUME Init
             PROVE  OrderInv
  OBVIOUS
<1>1. /\ sock = <<>> /\ pending = <<>> /\ sent = 0 /\ pc = "header"
      /\ closed = FALSE
  BY DEF Init
<1>2. /\ sock \in Seq(Items) /\ pending \in Seq(Nat)
      /\ Len(sock) = 0 /\ Len(pending) = 0
  BY <1>1, EmptySeq
<1>3. Replied = 0
  <2>1. Replied = 0 - 0
    BY <1>1, <1>2, Zenon DEF Replied
  <2>2. QED
    BY <2>1
<1>4. 1..0 = {}
  OBVIOUS
<1>5. Queue(sock, 1, 0, ~closed)
  BY <1>2, <1>4 DEF Queue
<1>6. ~Busy
  BY <1>1 DEF Busy
<1>7. \A i \in 1..Len(pending) : pending[i] = Replied + i
  BY <1>2, <1>4, Zenon
<1>8. Queue(sock, Replied + 1, sent, ~closed)
  <2>1. Replied + 1 = 1
    BY <1>3
  <2>2. QED
    BY <1>1, <1>5, <2>1, Zenon
<1>9. sent \in Nat /\ closed \in BOOLEAN
  BY <1>1
<1>10. QED
  BY <1>2, <1>6, <1>7, <1>8, <1>9, Zenon DEF OrderInv

(* A request sent takes the next number, here and in the connection. *)
LEMMA OrderSend == ASSUME NEW r \in Requests, OrderInv, ClientSend(r)
                   PROVE  OrderInv'
<1>1. /\ sock \in Seq(Items) /\ sent \in Nat /\ pending \in Seq(Nat)
      /\ closed = FALSE /\ sent' = sent + 1
      /\ pending' = Append(pending, sent')
      /\ UNCHANGED <<closed, pc, handle>>
  <2>1. UNCHANGED serverVars /\ closed = FALSE /\ closed' = closed
    BY DEF ClientSend, OrderInv
  <2>2. QED
    BY <2>1 DEF OrderInv, ClientSend, serverVars
<1>2. /\ pending' \in Seq(Nat) /\ Len(pending') = Len(pending) + 1
      /\ Len(pending) \in Nat
      /\ \A i \in 1..Len(pending) : pending'[i] = pending[i]
      /\ pending'[Len(pending) + 1] = sent'
  BY <1>1, AppendProperties, LenProperties
<1>3. Replied' = Replied /\ Replied \in Int
  BY <1>1, <1>2 DEF Replied
<1>4. \A i \in 1..Len(pending') : pending'[i] = Replied' + i
  <2>1. \A i \in 1..Len(pending') : i \in 1..Len(pending) \/ i = Len(pending) + 1
    BY <1>2
  <2>2. sent' = Replied + (Len(pending) + 1)
    BY <1>1, <1>2 DEF Replied
  <2>3. \A i \in 1..Len(pending) : pending[i] = Replied + i
    BY DEF OrderInv
  <2>4. QED
    BY <1>2, <1>3, <2>1, <2>2, <2>3
<1>5. Busy' = Busy /\ (Busy' => pending' # <<>> /\ handle' = Replied' + 1)
  <2>1. Busy' = Busy
    BY <1>1 DEF Busy
  <2>2. pending' # <<>>
    BY <1>2, EmptySeq
  <2>3. QED
    BY <1>1, <1>3, <2>1, <2>2 DEF OrderInv
<1>6. PICK t \in Seq(Items) :
          /\ sock' = sock \o t /\ Len(t) \in {1, 2} /\ Asks(t[1])
          /\ t[1].handle = sent + 1 /\ (Len(t) = 2 => ~Asks(t[2]))
  <2>1. Header(r, sent') \in Items /\ Payload(r) \in Items
    BY <1>1 DEF Header, Payload, Items
  <2>2. Asks(Header(r, sent')) /\ ~Asks(Payload(r)) /\ Header(r, sent').handle = sent + 1
    <3>1. r.type # DISC
      BY ClientAssumption DEF Request, READ, WRITE, DISC
    <3>2. QED
      BY <1>1, <3>1 DEF Asks, Header, Payload
  <2>3. CASE r.type = WRITE
    <3>1. sock' = sock \o <<Header(r, sent'), Payload(r)>>
      BY <2>3 DEF ClientSend
    <3>2. QED
      <4> DEFINE t == <<Header(r, sent'), Payload(r)>>
      <4>1. /\ t \in Seq(Items) /\ Len(t) = 2
            /\ t[1] = Header(r, sent') /\ t[2] = Payload(r)
        BY <2>1, Tuples
      <4>2. sock' = sock \o t
        BY <3>1
      <4> HIDE DEF t
      <4>3. QED
        BY <2>2, <4>1, <4>2
  <2>4. CASE r.type # WRITE
    <3>1. sock' = sock \o <<Header(r, sent')>>
      BY <2>4 DEF ClientSend
    <3>2. QED
      <4> DEFINE t == <<Header(r, sent')>>
      <4>1. t \in Seq(Items) /\ Len(t) = 1 /\ t[1] = Header(r, sent')
        BY <2>1, Tuples
      <4>2. sock' = sock \o t
        BY <3>1
      <4> HIDE DEF t
      <4>3. QED
        BY <2>2, <4>1, <4>2
  <2>5. QED
    BY <2>3, <2>4
<1>7. /\ sock' \in Seq(Items) /\ Len(sock') = Len(sock) + Len(t) /\ Len(sock) \in Nat
      /\ \A i \in 1..Len(sock') : sock'[i] = IF i <= Len(sock) THEN sock[i]
                                             ELSE t[i - Len(sock)]
  BY <1>1, <1>6, ConcatProperties, LenProperties
<1>8. ASSUME ~Ended
      PROVE  Queue(sock', Replied + (IF Busy THEN 2 ELSE 1), sent + 1, TRUE)
  <2> DEFINE n == Len(sock)
  <2>1. /\ Len(sock') >= n + 1
        /\ \A i \in 1..n : sock'[i] = sock[i]
        /\ sock'[n + 1] = t[1]
        /\ \A i \in n + 2..Len(sock') : ~Asks(sock'[i])
    <3>1. Len(sock') >= n + 1 /\ \A i \in 1..n : sock'[i] = sock[i]
      BY <1>6, <1>7
    <3>2. n + 1 \in 1..Len(sock') /\ ~(n + 1 <= n) /\ n + 1 - n = 1
      BY <1>6, <1>7
    <3>3. \A i \in n + 2..Len(sock') : i = n + 2 /\ Len(t) = 2 /\ ~(i <= n)
                                       /\ i - n = 2 /\ i \in 1..Len(sock')
      <4>1. \A m \in Nat, k \in {1, 2} : \A i \in m + 2..m + k :
               i = m + 2 /\ k = 2 /\ ~(i <= m) /\ i - m = 2 /\ i \in 1..m + k
        OBVIOUS
      <4>2. n \in Nat /\ Len(t) \in {1, 2} /\ Len(sock') = n + Len(t)
        BY <1>6, <1>7
      <4> HIDE DEF n
      <4>3. QED
        BY <4>1, <4>2
    <3>4. QED
      BY <1>6, <1>7, <3>1, <3>2, <3>3
  <2>2. Queue(sock, Replied + (IF Busy THEN 2 ELSE 1), sent, TRUE)
    BY <1>1, <1>8 DEF OrderInv
  <2>3. n \in Nat /\ Asks(t[1]) /\ t[1].handle = sent + 1
    BY <1>6, <1>7
  <2> HIDE DEF n
  <2>4. n = Len(sock)
    BY DEF n
  <2>5. QED
    BY <1>1, <1>7, <2>1, <2>2, <2>3, <2>4, QueueAppend
<1>9. QED
  <2>1. sent' \in Nat /\ closed' = FALSE
    BY <1>1
  <2>2. (~Ended)' => Queue(sock, Replied + (IF Busy THEN 2 ELSE 1), sent, ~closed)'
    <3>1. (~Ended)' => ~Ended
      BY <1>1 DEF Ended
    <3>2. QED
      BY <1>1, <1>3, <1>5, <1>8, <2>1, <3>1
  <2>3. QED
    BY <1>2, <1>4, <1>5, <1>7, <2>1, <2>2 DEF OrderInv

(* The client's end goes: the queue keeps its beginning. *)
LEMMA OrderClose == OrderInv /\ (ClientDisconnect \/ ConnectionLost) => OrderInv'
<1> SUFFICES ASSUME OrderInv, ClientDisconnect \/ ConnectionLost
             PROVE  OrderInv'
  OBVIOUS
<1>1. /\ sock \in Seq(Items) /\ closed' = TRUE
      /\ UNCHANGED <<pending, sent, pc, handle>>
  BY DEF OrderInv, ClientDisconnect, ConnectionLost, serverVars
<1>2. PICK n \in Nat :
          /\ sock' \in Seq(Items) /\ n <= Len(sock) /\ n <= Len(sock')
          /\ \A i \in 1..n : sock'[i] = sock[i]
          /\ \A i \in n + 1..Len(sock') : ~Asks(sock'[i])
  <2>1. CASE ClientDisconnect
    <3>1. /\ Header(DiscReq, 0) \in Items /\ ~Asks(Header(DiscReq, 0))
          /\ sock' = Append(sock, Header(DiscReq, 0))
      BY <2>1 DEF ClientDisconnect, Header, Items, Asks, DiscReq, DISC
    <3>2. /\ sock' \in Seq(Items) /\ Len(sock') = Len(sock) + 1 /\ Len(sock) \in Nat
          /\ \A i \in 1..Len(sock) : sock'[i] = sock[i]
          /\ sock'[Len(sock) + 1] = Header(DiscReq, 0)
      BY <1>1, <3>1, AppendProperties, LenProperties
    <3>3. \A i \in Len(sock) + 1..Len(sock') : i = Len(sock) + 1
      BY <3>2
    <3>4. QED
      BY <3>1, <3>2, <3>3
  <2>2. CASE ConnectionLost
    <3>1. PICK n \in 0..Len(sock) : sock' = SubSeq(sock, 1, n)
      BY <2>2 DEF ConnectionLost
    <3>2. n \in Nat /\ n <= Len(sock) /\ \A i \in 1..n : i \in 1..Len(sock)
      BY <1>1, LenProperties
    <3>3. \A i \in 1..n : sock[i] \in Items
      BY <1>1, <3>2, ElementOfSeq
    <3>4. /\ sock' \in Seq(Items) /\ Len(sock') = n
          /\ \A i \in 1..n : sock'[i] = sock[i]
      BY <3>1, <3>2, <3>3, SubSeqProperties
    <3>5. \A i \in n + 1..Len(sock') : FALSE
      BY <3>2, <3>4
    <3>6. QED
      BY <3>2, <3>4, <3>5
  <2>3. QED
    BY <2>1, <2>2
<1>3. Replied' = Replied /\ Busy' = Busy
  BY <1>1 DEF Replied, Busy
<1>4. ASSUME ~Ended
      PROVE  Queue(sock', Replied + (IF Busy THEN 2 ELSE 1), sent, FALSE)
  <2>1. Queue(sock, Replied + (IF Busy THEN 2 ELSE 1), sent, ~closed)
    BY <1>4 DEF OrderInv
  <2>2. QED
    BY <1>1, <1>2, <2>1, QueueCut
<1>5. (~Ended)' => Queue(sock, Replied + (IF Busy THEN 2 ELSE 1), sent, ~closed)'
  <2>1. (~Ended)' => ~Ended
    BY <1>1 DEF Ended
  <2>2. QED
    BY <1>1, <1>3, <1>4, <2>1
<1>6. QED
  BY <1>1, <1>2, <1>3, <1>5 DEF OrderInv, Ended

(* A header is read: the request served is the one after the last reply. *)
LEMMA OrderHeader == OrderInv /\ ReadHeader => OrderInv'
<1> SUFFICES ASSUME OrderInv, ReadHeader
             PROVE  OrderInv'
  OBVIOUS
<1> DEFINE item == Head(sock)
<1>1. /\ sock \in Seq(Items) /\ sock # <<>> /\ sock' = Tail(sock)
      /\ sent \in Nat /\ pending \in Seq(Nat) /\ Len(pending) \in Nat
      /\ closed \in BOOLEAN
      /\ pc = "header" /\ UNCHANGED <<closed, pending, sent>>
  BY LenProperties DEF OrderInv, ReadHeader
<1>2. sock' \in Seq(Items)
  BY <1>1, HeadTailProperties
<1>3. Replied' = Replied /\ Replied \in Int /\ ~Busy
  BY <1>1 DEF Replied, Busy
<1>4. Queue(sock, Replied + 1, sent, ~closed)
  BY <1>1, <1>3 DEF OrderInv, Ended
<1>5. /\ Asks(item) => item.handle = Replied + 1 /\ Replied + 1 <= sent
      /\ Asks(item) => Queue(sock', Replied + 2, sent, ~closed)
  <2>1. Replied + 1 \in Int /\ sent \in Int /\ (Replied + 1) + 1 = Replied + 2
    BY <1>1, <1>3
  <2>2. QED
    BY <1>1, <1>4, <2>1, QueueTail
<1>6. \/ pc' = "exited"
      \/ Asks(item) /\ handle' = item.handle /\ pc' \in {"rejected", "payload", "io"}
  BY DEF ReadHeader, Exit, Asks, ReplyHandle
<1>7. CASE pc' = "exited"
  <2>1. ~Busy'
    BY <1>7 DEF Busy
  <2>2. QED
    BY <1>1, <1>2, <1>3, <1>7, <2>1 DEF OrderInv, Ended
<1>8. CASE Asks(item) /\ handle' = item.handle /\ pc' \in {"rejected", "payload", "io"}
  <2>1. Busy' /\ handle' = Replied + 1
    BY <1>5, <1>8 DEF Busy
  <2>2. pending # <<>>
    <3>1. pending = <<>> => Len(pending) = 0
      OBVIOUS
    <3>2. QED
      BY <1>1, <1>5, <1>8, <3>1 DEF Replied
  <2>3. Queue(sock', Replied' + (IF Busy' THEN 2 ELSE 1), sent', ~closed')
    BY <1>1, <1>3, <1>5, <1>8, <2>1
  <2>4. QED
    BY <1>1, <1>2, <1>3, <2>1, <2>2, <2>3 DEF OrderInv
<1>9. QED
  BY <1>6, <1>7, <1>8

(* The payload is read: it is no request. *)
LEMMA OrderPayload == OrderInv /\ PairInv /\ ReadPayload => OrderInv'
<1> SUFFICES ASSUME OrderInv, PairInv, ReadPayload
             PROVE  OrderInv'
  OBVIOUS
<1>1. /\ sock \in Seq(Items) /\ sock # <<>> /\ sock' = Tail(sock)
      /\ sent \in Nat /\ pending \in Seq(Nat) /\ Len(pending) \in Nat
      /\ pc = "payload" /\ pc' = "io" /\ UNCHANGED <<closed, pending, sent, handle>>
  BY LenProperties DEF OrderInv, ReadPayload
<1>2. sock' \in Seq(Items) /\ Head(sock) = sock[1]
  BY <1>1, HeadTailProperties
<1>3. Replied' = Replied /\ Replied \in Int /\ Busy /\ Busy'
  BY <1>1 DEF Replied, Busy
<1>4. ~Asks(Head(sock))
  BY <1>1, <1>2 DEF PairInv, Asks
<1>5. Queue(sock, Replied + 2, sent, ~closed)
  BY <1>1, <1>3 DEF OrderInv, Ended
<1>6. Queue(sock', Replied + 2, sent, ~closed)
  <2>1. Replied + 2 \in Int /\ sent \in Int
    BY <1>1, <1>3
  <2>2. QED
    BY <1>1, <1>4, <1>5, <2>1, QueueTail
<1>7. QED
  BY <1>1, <1>2, <1>3, <1>6 DEF OrderInv

(* The reply goes to the oldest request; the next one is the queue's. *)
LEMMA OrderReply == OrderInv /\ Reply => OrderInv'
<1> SUFFICES ASSUME OrderInv, Reply
             PROVE  OrderInv'
  OBVIOUS
<1>1. /\ sent \in Nat /\ pending \in Seq(Nat) /\ pending # <<>>
      /\ sock \in Seq(Items) /\ closed \in BOOLEAN
      /\ Busy /\ pc # "exited" /\ pc' = "header"
      /\ pending' = Tail(pending) /\ UNCHANGED <<sock, closed, sent>>
  BY DEF OrderInv, Reply, Busy
<1>2. /\ Len(pending) \in Nat /\ Len(pending') = Len(pending) - 1
      /\ pending' \in Seq(Nat)
      /\ \A i \in 1..Len(pending') : pending'[i] = pending[i + 1]
                                     /\ i + 1 \in 1..Len(pending)
  BY <1>1, HeadTailProperties, LenProperties
<1>3. Replied' = Replied + 1 /\ Replied \in Int /\ ~Busy'
  BY <1>1, <1>2 DEF Replied, Busy
<1>4. \A i \in 1..Len(pending') : pending'[i] = Replied' + i
  <2>1. \A i \in 1..Len(pending') : pending[i + 1] = Replied + (i + 1)
    BY <1>2 DEF OrderInv
  <2>2. QED
    BY <1>2, <1>3, <2>1
<1>5. Queue(sock, Replied + 2, sent, ~closed)
  <2>1. ~Ended /\ Busy
    BY <1>1 DEF Ended, Busy
  <2>2. QED
    BY <2>1 DEF OrderInv
<1>6. Replied' + 1 = Replied + 2
  BY <1>3
<1>7. QED
  BY <1>1, <1>2, <1>3, <1>4, <1>5, <1>6 DEF OrderInv

(* The other steps move the request on, or end the process. *)
LEMMA OrderRest ==
    OrderInv /\ UNCHANGED <<clientVars, handle>> /\ (Busy' = Busy \/ Ended') /\ (Ended => Ended')
        => OrderInv'
<1> SUFFICES ASSUME OrderInv, UNCHANGED <<clientVars, handle>>,
                    Busy' = Busy \/ Ended', Ended => Ended'
             PROVE  OrderInv'
  OBVIOUS
<1>1. UNCHANGED <<sock, closed, pending, sent, handle>> /\ Replied' = Replied
  BY DEF clientVars, Replied
<1>2. Ended' => ~Busy'
  BY DEF Busy, Ended
<1>3. Busy' => Busy
  BY <1>2
<1>4. QED
  BY <1>1, <1>2, <1>3 DEF OrderInv
LEMMA PairInit == Init => PairInv
<1> SUFFICES ASSUME Init
             PROVE  PairInv
  OBVIOUS
<1>1. sock = <<>> /\ pc = "header"
  BY DEF Init
<1>2. Len(sock) = 0 /\ 1..0 = {}
  BY <1>1, EmptySeq
<1>3. Paired(sock, ~closed)
  BY <1>2 DEF Paired
<1>4. QED
  BY <1>1, <1>3 DEF PairInv

(* A transfer, however it ends, is still the request being served. *)
LEMMA IoStep == Io => /\ pc = "io" /\ pc' \in {"io", "ok", "failed"}
                      /\ UNCHANGED <<clientVars, handle, readonly, request, dev>>
BY DEF Io, PlainRead, PlainWrite, CowReadDiff, CowReadExport, CowWriteMapped,
       CowWriteNew, PieceDone, Served, Failed

LEMMA OrderStep == OrderInv /\ PairInv /\ [Next]_vars => OrderInv' /\ PairInv'
<1> SUFFICES ASSUME OrderInv, PairInv, [Next]_vars
             PROVE  OrderInv' /\ PairInv'
  OBVIOUS
<1>1. ASSUME NEW r \in Requests, ClientSend(r)
      PROVE  OrderInv' /\ PairInv'
  BY <1>1, OrderSend, PairSend
<1>2. CASE ClientDisconnect \/ ConnectionLost
  BY <1>2, OrderClose, PairClose
<1>3. CASE ReadHeader
  BY <1>3, OrderHeader, PairRead
<1>4. CASE ReadPayload
  BY <1>4, OrderPayload, PairRead
<1>5. CASE ReadFailed \/ Alarm \/ ReplyFailed \/ Overrun
  <2>1. pc' \in {"exited", "overrun"} /\ UNCHANGED <<clientVars, handle>>
    BY <1>5 DEF ReadFailed, Alarm, ReplyFailed, Overrun, Exit
  <2>2. OrderInv'
    BY <2>1, OrderRest DEF Ended
  <2>3. PairInv'
    BY <2>1, PairRest DEF clientVars
  <2>4. QED
    BY <2>2, <2>3
<1>6. CASE Io
  <2>1. /\ pc = "io" /\ pc' \in {"io", "ok", "failed"}
        /\ UNCHANGED <<clientVars, handle>>
    BY <1>6, IoStep
  <2>2. Busy' = Busy /\ ~Ended
    BY <2>1 DEF Busy, Ended
  <2>3. OrderInv'
    BY <2>1, <2>2, OrderRest
  <2>4. PairInv'
    BY <2>1, PairRest DEF clientVars
  <2>5. QED
    BY <2>3, <2>4
<1>7. CASE Reply
  <2>1. pc' = "header" /\ UNCHANGED <<sock, closed>>
    BY <1>7 DEF Reply
  <2>2. QED
    BY <1>7, <2>1, OrderReply, PairRest
<1>8. CASE UNCHANGED vars
  <2>1. UNCHANGED <<clientVars, handle, pc>>
    BY <1>8 DEF vars, clientVars
  <2>2. Busy' = Busy /\ Ended' = Ended
    BY <2>1 DEF Busy, Ended
  <2>3. QED
    BY <2>1, <2>2, OrderRest, PairRest DEF clientVars
<1>9. QED
  BY <1>1, <1>2, <1>3, <1>4, <1>5, <1>6, <1>7, <1>8 DEF Next, Client, Server

(* In every mode of the server, each reply carries the handle of the       *)
(* oldest request that has none yet: pipelined requests, rejected writes   *)
(* whose payload stays in the connection, and a connection cut anywhere    *)
(* never shift an answer to another request.                               *)
THEOREM AnswersAreInOrder == Spec => []AnswersInOrder
<1>1. Init => OrderInv /\ PairInv
  BY OrderInit, PairInit
<1>2. OrderInv /\ PairInv /\ [Next]_vars => (OrderInv /\ PairInv)'
  BY OrderStep
<1>3. OrderInv => AnswersInOrder
  <2> SUFFICES ASSUME OrderInv, pc \in {"ok", "failed", "rejected"}
               PROVE  pending # <<>> /\ handle = Head(pending)
    BY DEF AnswersInOrder
  <2>1. pending # <<>> /\ handle = Replied + 1 /\ pending \in Seq(Nat)
    BY DEF OrderInv, Busy
  <2>2. 1 \in 1..Len(pending) /\ Head(pending) = pending[1]
    BY <2>1, EmptySeq
  <2>3. QED
    BY <2>1, <2>2 DEF OrderInv
<1>4. QED
  BY <1>1, <1>2, <1>3, PTL DEF Spec

---------------------------------------------------------------------------
(* The types, in every mode: buffers, offsets, files and the page map.     *)

LEMMA Division ==
    ASSUME NEW n \in Nat \ {0}, NEW a \in Nat
    PROVE  /\ a \div n \in Nat /\ a % n \in 0..n - 1
           /\ a = n * (a \div n) + (a % n)
OBVIOUS

LEMMA Times ==
    ASSUME NEW n \in Nat \ {0}, NEW i \in Nat, NEW j \in Nat, i < j
    PROVE  /\ i * n \in Nat /\ j * n \in Nat
           /\ i * n + n <= j * n
<1>1. PICK d \in Nat : j = i + 1 + d
  <2>1. j - i - 1 \in Nat /\ j = i + 1 + (j - i - 1)
    OBVIOUS
  <2>2. QED
    BY <2>1
<1>2. j * n = i * n + n + d * n /\ d * n \in Nat /\ i * n \in Nat /\ j * n \in Nat
  BY <1>1
<1>3. QED
  BY <1>2

LEMMA DivMonotone ==
    ASSUME NEW n \in Nat \ {0}, NEW a \in Nat, NEW b \in Nat, a <= b
    PROVE  a \div n <= b \div n
<1> DEFINE p == a \div n  q == b \div n
<1>1. /\ p \in Nat /\ q \in Nat /\ a % n \in 0..n - 1 /\ b % n \in 0..n - 1
      /\ a = p * n + (a % n) /\ b = q * n + (b % n)
  BY Division
<1>2. q < p => q * n + n <= p * n
  BY <1>1, Times
<1>3. p * n \in Nat /\ q * n \in Nat
  BY <1>1
<1> HIDE DEF p, q
<1>4. q < p => b < a
  BY <1>1, <1>2, <1>3
<1>5. ~(q < p)
  BY <1>4
<1>6. p <= q
  BY <1>1, <1>5
<1>7. QED
  BY <1>6 DEF p, q

LEMMA DivUnique ==
    ASSUME NEW n \in Nat \ {0}, NEW q \in Nat, NEW r \in 0..n - 1
    PROVE  (n * q + r) \div n = q /\ (n * q + r) % n = r
OBVIOUS
(* What the sizes give: the hunk and the page of an address exist. *)
LEMMA AddressFacts ==
    ASSUME NEW a \in Addr
    PROVE  /\ a \in Nat /\ a < ExportSize
           /\ RawHunk(a) \in Hunks /\ RawOffset(a) \in 0..HunkSize - 1
           /\ RawOffset(a) \in 0..FileLimit
           /\ a \div PageSize \in Pages
<1>1. /\ a \in Nat /\ a < ExportSize /\ a <= ExportSize - 1 /\ ExportSize - 1 \in Nat
      /\ HunkSize \in Nat \ {0} /\ PageSize \in Nat \ {0}
      /\ FileLimit \in Nat /\ HunkSize <= FileLimit
  BY SizeAssumption DEF Addr
<1>2. /\ a \div HunkSize \in Nat /\ (ExportSize - 1) \div HunkSize \in Nat
      /\ a % HunkSize \in 0..HunkSize - 1
      /\ a \div PageSize \in Nat /\ (ExportSize - 1) \div PageSize \in Nat
  BY <1>1, Division
<1>3. /\ a \div HunkSize <= (ExportSize - 1) \div HunkSize
      /\ a \div PageSize <= (ExportSize - 1) \div PageSize
  BY <1>1, DivMonotone
<1>4. a % HunkSize \in 0..FileLimit
  BY <1>1, <1>2
<1>5. QED
  BY <1>1, <1>2, <1>3, <1>4 DEF RawHunk, HunkOf, Hunks, RawOffset, Pages

(* The offset at which maybeseek leaves the descriptor is in the file. *)
LEMMA RawAtType ==
    ASSUME NEW a \in Addr, pos \in [Hunks -> 0..FileLimit]
    PROVE  RawAt(a) \in 0..FileLimit
BY AddressFacts DEF RawAt, SeekTo

(* The descriptor after a transfer that failed part way. *)
LEMMA PartWayType ==
    ASSUME NEW p \in 0..FileLimit, NEW n \in Nat, NEW q \in PartWay(p, n)
    PROVE  q \in 0..FileLimit /\ p <= q /\ q < p + n
BY SizeAssumption DEF PartWay

(* What can be read is content of the file, and ends inside it. *)
LEMMA ReadableData ==
    ASSUME NEW h \in Hunks, NEW p \in 0..FileLimit, NEW n \in Nat \ {0},
           file \in [Hunks -> [Offsets -> Values]], Readable(h, p, n)
    PROVE  /\ p + n \in 0..FileLimit
           /\ Slice(h, p, n) \in Seq(Content) /\ Len(Slice(h, p, n)) = n
<1>1. FileLimit \in Nat
  BY SizeAssumption
<1>2. \A i \in 0..n - 1 : p + i \in Offsets /\ file[h][p + i] # NoData
  BY DEF Readable
<1>3. p + (n - 1) \in Offsets
  BY <1>2
<1>4. p + n \in 0..FileLimit
  BY <1>1, <1>3 DEF Offsets
<1>5. \A i \in 1..n : file[h][p + i - 1] \in Content
  <2> TAKE i \in 1..n
  <2>1. i - 1 \in 0..n - 1 /\ p + (i - 1) = p + i - 1
    OBVIOUS
  <2>2. p + i - 1 \in Offsets /\ file[h][p + i - 1] # NoData
    BY <1>2, <2>1
  <2>3. QED
    BY <2>2 DEF Values
<1>6. Slice(h, p, n) \in [1..n -> Content]
  BY <1>5 DEF Slice
<1>7. QED
  BY <1>4, <1>6

---------------------------------------------------------------------------
(* The transfer in progress: a request that passed the checks fits in the  *)
(* buffer and in the export, a write has its payload, and a read has       *)
(* collected what it is through with.                                      *)
ServeInv ==
    /\ Serving => Valid /\ request.len <= BufSize
    /\ buf \in Seq(Content) /\ Len(buf) <= BufSize /\ done \in 0..BufSize
    /\ pc \in {"io", "ok", "failed"} /\ request.type = WRITE => Len(buf) = request.len
    /\ pc = "payload" => done = 0 /\ request.type = WRITE
    /\ pc = "io" => done < request.len /\ (request.type = READ => Len(buf) = done)
    /\ pc = "overrun" => request.type = READ /\ ReplySize + request.len > BufSize

FilesInv ==
    /\ pos \in [Hunks -> 0..FileLimit]
    /\ file \in [Hunks -> [Offsets -> Values]]
    /\ diff \in [DiffOffsets -> Values]
    /\ dev \in [Addr -> Content \union {Any}]

ControlInv ==
    /\ sock \in Seq(Items)
    /\ readonly \in ReadOnlyModes /\ closed \in BOOLEAN /\ difffile \in BOOLEAN
    /\ pending \in Seq(1..MaxRequests)
    /\ sent \in 0..MaxRequests
    /\ pc \in PCs
    /\ request \in Requests \union {DiscReq}
    /\ handle \in Nat
    /\ lastpoint \in Int /\ lastpoint >= -1
    /\ why \in {"none", "magic", "disconnect", "too_big", "read_failed",
                "write_failed", "alarm"}
    /\ faults \in 0..MaxFaults

(* As many pages of the diff file are given out as pages of the export     *)
(* have one: so they never run out.                                        *)
MappedPages == {p \in Pages : difmap[p] # -1}
MapInv ==
    /\ difmap \in [Pages -> Pages \union {-1}]
    /\ difffilelen \in Nat /\ Cardinality(MappedPages) = difffilelen
    /\ DiffMapSound

(* The piece of a request that one turn of a page loop serves. *)
LEMMA PieceFacts ==
    ASSUME ServeInv, pc = "io"
    PROVE  /\ At \in Addr /\ Page \in Pages /\ InPage \in 0..PageSize - 1
           /\ PieceLen \in 1..request.len - done /\ InPage + PieceLen <= PageSize
           /\ done + PieceLen \in 1..request.len
           /\ PageStart \in Addr /\ At = PageStart + InPage
           /\ PageSize \in Nat \ {0}
<1>1. /\ Valid /\ request.len <= BufSize /\ done \in Nat /\ done < request.len
      /\ ExportSize \in Nat \ {0} /\ PageSize \in Nat \ {0} /\ BufSize \in Nat
  BY SizeAssumption DEF ServeInv, Serving
<1>2. /\ request.from \in Nat /\ request.len \in Nat
      /\ request.from + request.len <= ExportSize
  BY <1>1, ValidRequest DEF Addr
<1>3. At \in Addr /\ At \in Nat
  BY <1>1, <1>2 DEF At, Addr
<1>4. Page \in Nat /\ InPage \in 0..PageSize - 1 /\ At = PageSize * Page + InPage
  BY <1>1, <1>3, Division DEF Page, InPage
<1>5. PieceLen \in 1..request.len - done /\ InPage + PieceLen <= PageSize
  BY <1>1, <1>2, <1>4 DEF PieceLen
<1>6. done + PieceLen \in 1..request.len
  BY <1>1, <1>2, <1>5
<1>7. PageStart \in Nat /\ At = PageStart + InPage
  BY <1>1, <1>4 DEF PageStart
<1>8. PageStart \in Addr
  BY <1>1, <1>3, <1>4, <1>7 DEF Addr
<1>9. Page \in Pages
  BY <1>3, AddressFacts DEF Page
<1>10. QED
  BY <1>1, <1>3, <1>4, <1>5, <1>6, <1>7, <1>8, <1>9
TypeInv == ControlInv /\ ServeInv /\ FilesInv /\ MapInv

LEMMA TypesInit == Init => TypeInv
<1> SUFFICES ASSUME Init
             PROVE  TypeInv
  OBVIOUS
<1>1. /\ ExportSize \in Nat \ {0} /\ HunkSize \in Nat \ {0} /\ PageSize \in Nat \ {0}
      /\ FileLimit \in Nat /\ HunkSize <= FileLimit /\ BufSize \in Nat
      /\ MaxRequests \in Nat /\ MaxFaults \in Nat
      /\ CopyOnWrite \in BOOLEAN
  BY SizeAssumption, ClientAssumption, ModeAssumption
<1>2. sock \in Seq(Items) /\ pending \in Seq(1..MaxRequests) /\ buf \in Seq(Content)
      /\ Len(buf) = 0
  BY EmptySeq DEF Init
<1>3. ControlInv
  <2>1. /\ readonly \in ReadOnlyModes /\ closed = FALSE /\ difffile = CopyOnWrite
        /\ sent = 0 /\ pc = "header" /\ request = DiscReq /\ handle = 0
        /\ lastpoint = -1 /\ why = "none" /\ faults = 0
    BY DEF Init
  <2>2. /\ closed \in BOOLEAN /\ difffile \in BOOLEAN
        /\ request \in Requests \union {DiscReq}
    BY <1>1, <2>1, Zenon
  <2>3. /\ sent \in 0..MaxRequests /\ handle \in Nat
        /\ lastpoint \in Int /\ lastpoint >= -1 /\ faults \in 0..MaxFaults
    BY <1>1, <2>1
  <2>4. /\ pc \in PCs
        /\ why \in {"none", "magic", "disconnect", "too_big", "read_failed",
                    "write_failed", "alarm"}
    BY <2>1 DEF PCs
  <2>5. QED
    BY <1>2, <2>1, <2>2, <2>3, <2>4, Zenon DEF ControlInv
<1>4. ServeInv
  BY <1>1, <1>2 DEF Init, ServeInv, Serving
<1>5. DetectedAt \in 0..FileLimit
  BY <1>1 DEF DetectedAt
<1>6. pos \in [Hunks -> 0..FileLimit]
  BY <1>1, <1>5 DEF Init
<1>7. \A n \in Nat : Orig(n) \in Content
  BY DEF Orig, Content
<1>8. file \in [Hunks -> [Offsets -> Values]]
  <2>1. \A h \in Hunks, o \in Offsets : h * HunkSize + o \in Nat
    <3>1. \A h \in Hunks : h \in Nat
      BY DEF Hunks
    <3>2. QED
      BY <1>1, <3>1 DEF Offsets
  <2>2. \A h \in Hunks, o \in Offsets :
           (IF o < HunkSize /\ h * HunkSize + o < ExportSize
            THEN Orig(h * HunkSize + o) ELSE NoData) \in Values
    BY <1>7, <2>1 DEF Values
  <2>3. QED
    BY <2>2 DEF Init
<1>9. dev \in [Addr -> Content \union {Any}]
  BY <1>7 DEF Init, Addr
<1>10. diff \in [DiffOffsets -> Values]
  BY DEF Init, Values
<1>11. MappedPages = {} /\ DiffMapSound
  BY DEF Init, MappedPages, DiffMapSound
<1>12. difmap \in [Pages -> Pages \union {-1}]
  BY DEF Init
<1>13. MapInv
  BY <1>11, <1>12, FS_EmptySet DEF Init, MapInv
<1>14. QED
  BY <1>3, <1>4, <1>6, <1>8, <1>9, <1>10, <1>13 DEF TypeInv, FilesInv

(* Steps that move no data: the client's, and those between transfers. *)
LEMMA TypesQuiet ==
    ASSUME TypeInv, ControlInv',
           UNCHANGED <<pos, file, diffVars, dev>>,
           \/ UNCHANGED <<pc, request, buf, done>>
           \/ /\ pc' \in {"header", "rejected", "exited"}
              /\ buf' \in Seq(Content) /\ Len(buf') <= BufSize /\ done' \in 0..BufSize
    PROVE  TypeInv'
<1>1. FilesInv' /\ MapInv'
  BY DEF TypeInv, FilesInv, MapInv, diffVars, MappedPages, DiffMapSound
<1>2. ServeInv'
  <2>1. CASE UNCHANGED <<pc, request, buf, done>>
    BY <2>1 DEF TypeInv, ServeInv, Serving, Valid
  <2>2. CASE /\ pc' \in {"header", "rejected", "exited"}
             /\ buf' \in Seq(Content) /\ Len(buf') <= BufSize /\ done' \in 0..BufSize
    BY <2>2 DEF ServeInv, Serving
  <2>3. QED
    BY <2>1, <2>2
<1>3. QED
  BY <1>1, <1>2 DEF TypeInv

LEMMA TypesClient == TypeInv /\ OrderInv' /\ Client => TypeInv'
<1> SUFFICES ASSUME TypeInv, OrderInv', Client
             PROVE  TypeInv'
  OBVIOUS
<1>1. /\ UNCHANGED <<readonly, serverVars, dev>> /\ closed' \in BOOLEAN
      /\ sock' \in Seq(Items)
  BY DEF Client, ClientSend, ClientDisconnect, ConnectionLost, TypeInv, ControlInv,
         OrderInv
<1>2. sent' \in 0..MaxRequests /\ pending' \in Seq(1..MaxRequests)
  <2>1. ASSUME NEW r \in Requests, ClientSend(r)
        PROVE  sent' \in 0..MaxRequests /\ pending' \in Seq(1..MaxRequests)
    <3>1. sent' \in 1..MaxRequests /\ pending' = Append(pending, sent')
      BY <2>1, ClientAssumption DEF ClientSend, TypeInv, ControlInv
    <3>2. pending \in Seq(1..MaxRequests)
      BY DEF TypeInv, ControlInv
    <3>3. QED
      BY <3>1, <3>2, AppendProperties
  <2>2. CASE ClientDisconnect \/ ConnectionLost
    BY <2>2 DEF ClientDisconnect, ConnectionLost, TypeInv, ControlInv
  <2>3. QED
    BY <2>1, <2>2 DEF Client
<1>3. ControlInv'
  BY <1>1, <1>2 DEF TypeInv, ControlInv, serverVars
<1>4. QED
  BY <1>1, <1>3, TypesQuiet DEF serverVars

(* A header that starts a transfer names a request that fits. *)
LEMMA TypesHeader == TypeInv /\ OrderInv' /\ ReadHeader => TypeInv'
<1> SUFFICES ASSUME TypeInv, OrderInv', ReadHeader
             PROVE  TypeInv'
  OBVIOUS
<1> DEFINE item == Head(sock)
<1>1. /\ sock \in Seq(Items) /\ sock # <<>> /\ sock' \in Seq(Items)
      /\ pc = "header" /\ buf' = <<>> /\ done' = 0
      /\ UNCHANGED <<readonly, closed, pending, sent, pos, file, diffVars, faults, dev>>
  BY DEF ReadHeader, TypeInv, ControlInv, OrderInv
<1>2. item \in Items /\ buf' \in Seq(Content) /\ Len(buf') = 0 /\ BufSize \in Nat
  BY <1>1, HeadTailProperties, EmptySeq, SizeAssumption
<1>3. \/ pc' = "exited" /\ UNCHANGED <<request, handle>>
      \/ pc' \in {"exited", "rejected"} /\ request' = item.req /\ handle' = item.handle
      \/ /\ request' = item.req /\ handle' = item.handle
         /\ item.req.type # DISC /\ ~TooBig(item.req) /\ ~Rejected(item.req)
         /\ pc' = IF item.req.type = WRITE THEN "payload" ELSE "io"
  BY DEF ReadHeader, Exit, ReplyHandle
<1>4. /\ why' \in {why, "magic", "disconnect", "too_big"}
      /\ lastpoint' \in {lastpoint, -1} /\ difffile' \in {difffile, FALSE}
  BY DEF ReadHeader, Exit
<1>5. item.req \in Requests \union {DiscReq} /\ item.handle \in Nat
  BY <1>2 DEF Items
<1>6. ControlInv'
  <2>1. pc' \in PCs /\ request' \in Requests \union {DiscReq} /\ handle' \in Nat
    BY <1>3, <1>5 DEF PCs, TypeInv, ControlInv
  <2>2. /\ why' \in {"none", "magic", "disconnect", "too_big", "read_failed",
                       "write_failed", "alarm"}
        /\ lastpoint' \in Int /\ lastpoint' >= -1
    BY <1>4 DEF TypeInv, ControlInv
  <2>3. difffile' \in BOOLEAN
    BY <1>4, Zenon DEF TypeInv, ControlInv
  <2>4. QED
    BY <1>1, <2>1, <2>2, <2>3, Zenon DEF TypeInv, ControlInv
<1>7. CASE pc' \in {"exited", "rejected"}
  BY <1>1, <1>2, <1>6, <1>7, TypesQuiet
<1>8. CASE /\ request' = item.req /\ handle' = item.handle
           /\ item.req.type # DISC /\ ~TooBig(item.req) /\ ~Rejected(item.req)
           /\ pc' = IF item.req.type = WRITE THEN "payload" ELSE "io"
  <2>1. request' \in Requests
    BY <1>5, <1>8 DEF DiscReq
  <2>2. /\ request'.from \in Nat /\ request'.len \in Nat \ {0}
        /\ request'.type \in {READ, WRITE}
    BY <2>1, ClientAssumption DEF Request
  <2>3. request'.from + request'.len <= ExportSize /\ request'.len <= BufSize
    BY <1>2, <1>8, <2>2, SizeAssumption DEF Rejected, TooBig
  <2>4. \/ pc' = "payload" /\ request'.type = WRITE
        \/ pc' = "io" /\ request'.type # WRITE
    BY <1>8
  <2>5. ServeInv'
    BY <1>1, <1>2, <2>1, <2>2, <2>3, <2>4 DEF ServeInv, Serving, Valid
  <2>6. FilesInv' /\ MapInv'
    BY <1>1 DEF TypeInv, FilesInv, MapInv, diffVars, MappedPages, DiffMapSound
  <2>7. QED
    BY <1>6, <2>5, <2>6 DEF TypeInv
<1>9. QED
  BY <1>3, <1>7, <1>8

LEMMA TypesPayload == TypeInv /\ OrderInv' /\ ReadPayload => TypeInv'
<1> SUFFICES ASSUME TypeInv, OrderInv', ReadPayload
             PROVE  TypeInv'
  OBVIOUS
<1>1. /\ sock \in Seq(Items) /\ sock # <<>> /\ sock' \in Seq(Items)
      /\ pc = "payload" /\ pc' = "io"
      /\ UNCHANGED <<readonly, closed, pending, sent, request, handle, done,
                     lastpoint, pos, file, diffVars, difffile, why, faults, dev>>
  BY DEF ReadPayload, TypeInv, ControlInv, OrderInv
<1>2. Head(sock).req.value \in Nat
  <2>1. Head(sock) \in Items
    BY <1>1, HeadTailProperties
  <2>2. QED
    BY <2>1, ClientAssumption DEF Items, DiscReq, Request
<1>3. Valid /\ request.len <= BufSize /\ request.len \in Nat \ {0} /\ done = 0
  BY <1>1, ValidRequest DEF TypeInv, ServeInv, Serving
<1>4. buf' \in [1..request.len -> Content]
  BY <1>2 DEF ReadPayload, Data, Content
<1>5. buf' \in Seq(Content) /\ Len(buf') = request.len
  BY <1>3, <1>4
<1>6. ServeInv'
  <2>1. request.type # READ
    BY <1>1 DEF TypeInv, ServeInv, READ, WRITE
  <2>2. done \in 0..BufSize /\ done < request.len
    BY <1>3, SizeAssumption
  <2>3. QED
    BY <1>1, <1>3, <1>5, <2>1, <2>2 DEF ServeInv, Serving, Valid
<1>7. FilesInv' /\ MapInv'
  BY <1>1 DEF TypeInv, FilesInv, MapInv, diffVars, MappedPages, DiffMapSound
<1>8. ControlInv'
  BY <1>1 DEF TypeInv, ControlInv, PCs
<1>9. QED
  BY <1>6, <1>7, <1>8 DEF TypeInv
(* The parts of the types that every transfer treats alike. *)
LEMMA IoControl ==
    ASSUME TypeInv, OrderInv', Io, lastpoint' \in Int, lastpoint' >= -1
    PROVE  ControlInv'
<1>1. /\ pc' \in {"io", "ok", "failed"}
      /\ UNCHANGED <<readonly, clientVars, request, handle>>
  BY IoStep
<1>2. UNCHANGED <<difffile, why>>
  BY DEF Io, PlainRead, PlainWrite, CowReadDiff, CowReadExport, CowWriteMapped,
         CowWriteNew
<1>3. faults' \in 0..MaxFaults
  <2>1. NoFault \/ Fault
    BY DEF Io, PlainRead, PlainWrite, CowReadDiff, CowReadExport, CowWriteMapped,
           CowWriteNew
  <2>2. faults \in 0..MaxFaults /\ MaxFaults \in Nat
    BY ClientAssumption DEF TypeInv, ControlInv
  <2>3. QED
    BY <2>1, <2>2 DEF Fault, NoFault
<1>4. pc' \in PCs
  BY <1>1 DEF PCs
<1>5. QED
  BY <1>1, <1>2, <1>3, <1>4 DEF TypeInv, ControlInv, clientVars

LEMMA IoServe ==
    ASSUME TypeInv, pc = "io", pc' \in {"io", "ok", "failed"}, request' = request,
           buf' \in Seq(Content), Len(buf') <= BufSize,
           request.type = WRITE => Len(buf') = request.len,
           done' \in 0..request.len,
           pc' = "io" => done' < request.len
                         /\ (request.type = READ => Len(buf') = done')
    PROVE  ServeInv'
<1>1. /\ Valid /\ request.len <= BufSize /\ request.len \in Nat
  BY ValidRequest DEF TypeInv, ServeInv, Serving
<1>2. done' \in 0..BufSize
  BY <1>1, SizeAssumption
<1>3. QED
  BY <1>1, <1>2 DEF ServeInv, Serving, Valid

(* A failed transfer leaves the buffer as it was. *)
LEMMA IoFailed ==
    ASSUME TypeInv, pc = "io", Failed, UNCHANGED <<request, buf, done>>
    PROVE  ServeInv' /\ lastpoint' \in Int /\ lastpoint' >= -1
<1>1. request.len \in Nat /\ Valid /\ done \in Nat /\ done < request.len
  BY ValidRequest DEF TypeInv, ServeInv, Serving
<1>2. pc' = "failed" /\ lastpoint' = -1
  BY DEF Failed
<1>3. /\ buf' \in Seq(Content) /\ Len(buf') <= BufSize
      /\ request.type = WRITE => Len(buf') = request.len
  BY DEF TypeInv, ServeInv
<1>4. done' \in 0..request.len
  BY <1>1
<1>5. ServeInv'
  BY <1>2, <1>3, <1>4, IoServe
<1>6. QED
  BY <1>2, <1>5

(* A page's turn ends with done inside the request, or the request served. *)
LEMMA IoPiece ==
    ASSUME TypeInv, pc = "io", request' = request, NEW point \in Int, point >= -1,
           PieceDone(point), buf' \in Seq(Content),
           \/ request.type = READ /\ Len(buf') = Len(buf) + PieceLen
           \/ request.type = WRITE /\ buf' = buf
    PROVE  ServeInv' /\ lastpoint' \in Int /\ lastpoint' >= -1
<1>1. /\ request.len \in Nat /\ Valid /\ request.len <= BufSize /\ BufSize \in Nat
      /\ done + PieceLen \in 1..request.len
  BY ValidRequest, PieceFacts, SizeAssumption DEF TypeInv, ServeInv, Serving
<1>2. /\ done' = done + PieceLen
      /\ \/ done + PieceLen = request.len /\ pc' = "ok" /\ lastpoint' = point + request.len
         \/ done + PieceLen # request.len /\ pc' = "io" /\ lastpoint' = point
  BY DEF PieceDone, LastPiece, Served
<1>3. /\ request.type = READ => Len(buf') = done + PieceLen
      /\ request.type = WRITE => Len(buf') = request.len
      /\ Len(buf') <= BufSize
  <2>1. CASE request.type = READ /\ Len(buf') = Len(buf) + PieceLen
    <3>1. Len(buf) = done /\ request.type # WRITE
      BY <2>1 DEF TypeInv, ServeInv, READ, WRITE
    <3>2. QED
      BY <1>1, <2>1, <3>1
  <2>2. CASE request.type = WRITE /\ buf' = buf
    <3>1. Len(buf) = request.len /\ request.type # READ
      BY <2>2 DEF TypeInv, ServeInv, READ, WRITE
    <3>2. QED
      BY <1>1, <2>2, <3>1
  <2>3. QED
    BY <2>1, <2>2
<1>4. /\ done' \in 0..request.len
      /\ pc' = "io" => done' < request.len
  BY <1>1, <1>2
<1>5. ServeInv'
  BY <1>2, <1>3, <1>4, IoServe
<1>6. lastpoint' \in Int /\ lastpoint' >= -1
  BY <1>1, <1>2
<1>7. QED
  BY <1>5, <1>6

LEMMA TypesPlainRead == TypeInv /\ OrderInv' /\ PlainRead => TypeInv'
<1> SUFFICES ASSUME TypeInv, OrderInv', PlainRead
             PROVE  TypeInv'
  OBVIOUS
<1> DEFINE a == request.from  n == request.len  h == RawHunk(a)  p == RawAt(a)
<1>1. /\ pc = "io" /\ request.type = READ /\ Io
      /\ UNCHANGED <<request, file, diffVars, dev>>
  BY DEF PlainRead, Io
<1>2. /\ a \in Addr /\ n \in Nat \ {0} /\ n <= BufSize
  BY <1>1, ValidRequest DEF TypeInv, ServeInv, Serving
<1>3. h \in Hunks /\ p \in 0..FileLimit /\ RawOffset(a) \in Nat
  BY <1>2, AddressFacts, RawAtType DEF TypeInv, FilesInv
<1>4. \/ /\ Readable(h, p, n)
         /\ buf' = Slice(h, p, n) /\ done' = n
         /\ pos' = [pos EXCEPT ![h] = p + n] /\ Served(RawOffset(a))
      \/ /\ \E q \in PartWay(p, n) : pos' = [pos EXCEPT ![h] = q]
         /\ Failed /\ UNCHANGED <<buf, done>>
  BY DEF PlainRead
<1>5. MapInv'
  BY <1>1 DEF TypeInv, MapInv, diffVars, MappedPages, DiffMapSound
<1> HIDE DEF a, n, h, p
<1>6. CASE /\ Readable(h, p, n)
           /\ buf' = Slice(h, p, n) /\ done' = n
           /\ pos' = [pos EXCEPT ![h] = p + n] /\ Served(RawOffset(a))
  <2>1. p + n \in 0..FileLimit /\ buf' \in Seq(Content) /\ Len(buf') = n
    BY <1>2, <1>3, <1>6, ReadableData DEF TypeInv, FilesInv
  <2>2. pc' = "ok" /\ lastpoint' = RawOffset(a) + n
    BY <1>6 DEF Served, n
  <2>3. lastpoint' \in Int /\ lastpoint' >= -1
    BY <1>2, <1>3, <2>2
  <2>4. ServeInv'
    <3>1. request.type # WRITE /\ n = request.len
      BY <1>1 DEF READ, WRITE, n
    <3>2. done' \in 0..request.len
      BY <1>2, <1>6, <3>1
    <3>3. QED
      BY <1>1, <1>2, <2>1, <2>2, <3>1, <3>2, IoServe
  <2>5. FilesInv'
    BY <1>1, <1>3, <1>6, <2>1 DEF TypeInv, FilesInv, diffVars
  <2>6. ControlInv'
    BY <1>1, <2>3, IoControl
  <2>7. QED
    BY <1>5, <2>4, <2>5, <2>6 DEF TypeInv
<1>7. CASE /\ \E q \in PartWay(p, n) : pos' = [pos EXCEPT ![h] = q]
           /\ Failed /\ UNCHANGED <<buf, done>>
  <2>1. ServeInv' /\ lastpoint' \in Int /\ lastpoint' >= -1
    BY <1>1, <1>7, IoFailed
  <2>2. pos' \in [Hunks -> 0..FileLimit]
    BY <1>2, <1>3, <1>7, PartWayType DEF TypeInv, FilesInv
  <2>3. FilesInv'
    BY <1>1, <2>2 DEF TypeInv, FilesInv, diffVars
  <2>4. ControlInv'
    BY <1>1, <2>1, IoControl
  <2>5. QED
    BY <1>5, <2>1, <2>3, <2>4 DEF TypeInv
<1>8. QED
  BY <1>4, <1>6, <1>7

LEMMA WrittenType ==
    ASSUME NEW h \in Hunks, NEW p \in Nat, NEW n \in Nat, n <= Len(buf),
           buf \in Seq(Content), file \in [Hunks -> [Offsets -> Values]]
    PROVE  Written(h, p, n) \in [Hunks -> [Offsets -> Values]]
<1> DEFINE cells == [o \in Offsets |-> IF p <= o /\ o < p + n
                                       THEN buf[o - p + 1] ELSE file[h][o]]
<1>1. \A o \in Offsets : p <= o /\ o < p + n => o - p + 1 \in 1..Len(buf)
  BY LenProperties DEF Offsets
<1>2. \A i \in 1..Len(buf) : buf[i] \in Values
  BY ElementOfSeq DEF Values
<1>3. cells \in [Offsets -> Values]
  BY <1>1, <1>2
<1>4. Written(h, p, n) = [file EXCEPT ![h] = cells]
  BY DEF Written
<1> HIDE DEF cells
<1>5. QED
  BY <1>3, <1>4

LEMMA TypesPlainWrite == TypeInv /\ OrderInv' /\ PlainWrite => TypeInv'
<1> SUFFICES ASSUME TypeInv, OrderInv', PlainWrite
             PROVE  TypeInv'
  OBVIOUS
<1> DEFINE a == request.from  n == request.len  h == RawHunk(a)  p == RawAt(a)
<1>1. /\ pc = "io" /\ request.type = WRITE /\ Io
      /\ UNCHANGED <<request, buf, diffVars, dev>>
  BY DEF PlainWrite, Io
<1>2. /\ a \in Addr /\ n \in Nat \ {0} /\ n <= BufSize
      /\ buf \in Seq(Content) /\ Len(buf) = n
  BY <1>1, ValidRequest DEF TypeInv, ServeInv, Serving
<1>3. h \in Hunks /\ p \in 0..FileLimit /\ RawOffset(a) \in Nat
      /\ file \in [Hunks -> [Offsets -> Values]] /\ FileLimit \in Nat
  BY <1>2, AddressFacts, RawAtType, SizeAssumption DEF TypeInv, FilesInv
<1>4. \/ /\ p + n <= FileLimit
         /\ file' = Written(h, p, n) /\ done' = n
         /\ pos' = [pos EXCEPT ![h] = p + n] /\ Served(RawOffset(a))
      \/ /\ \E q \in PartWay(p, n) : /\ pos' = [pos EXCEPT ![h] = q]
                                      /\ file' = Written(h, p, q - p)
         /\ Failed /\ UNCHANGED done
  BY DEF PlainWrite
<1>5. MapInv'
  BY <1>1 DEF TypeInv, MapInv, diffVars, MappedPages, DiffMapSound
<1> HIDE DEF a, n, h, p
<1>6. CASE /\ p + n <= FileLimit
           /\ file' = Written(h, p, n) /\ done' = n
           /\ pos' = [pos EXCEPT ![h] = p + n] /\ Served(RawOffset(a))
  <2>1. p + n \in 0..FileLimit /\ p \in Nat /\ n \in Nat /\ n <= Len(buf)
    BY <1>2, <1>3, <1>6
  <2>2. pc' = "ok" /\ lastpoint' = RawOffset(a) + n
    BY <1>6 DEF Served, n
  <2>3. lastpoint' \in Int /\ lastpoint' >= -1
    BY <1>2, <1>3, <2>2
  <2>4. ServeInv'
    <3>1. n = request.len
      BY DEF n
    <3>2. done' \in 0..request.len
      BY <1>2, <1>6, <3>1
    <3>3. QED
      BY <1>1, <1>2, <2>2, <3>1, <3>2, IoServe
  <2>5. file' \in [Hunks -> [Offsets -> Values]]
    BY <1>2, <1>3, <1>6, <2>1, WrittenType
  <2>6. FilesInv'
    BY <1>1, <1>3, <1>6, <2>1, <2>5 DEF TypeInv, FilesInv, diffVars
  <2>7. ControlInv'
    BY <1>1, <2>3, IoControl
  <2>8. QED
    BY <1>5, <2>4, <2>6, <2>7 DEF TypeInv
<1>7. CASE /\ \E q \in PartWay(p, n) : /\ pos' = [pos EXCEPT ![h] = q]
                                       /\ file' = Written(h, p, q - p)
           /\ Failed /\ UNCHANGED done
  <2>1. ServeInv' /\ lastpoint' \in Int /\ lastpoint' >= -1
    BY <1>1, <1>7, IoFailed
  <2>2. PICK q \in PartWay(p, n) : /\ pos' = [pos EXCEPT ![h] = q]
                                   /\ file' = Written(h, p, q - p)
    BY <1>7
  <2>3. q \in 0..FileLimit /\ q - p \in Nat /\ q - p <= Len(buf) /\ p \in Nat
    <3>1. q \in 0..FileLimit /\ p <= q /\ q < p + n
      BY <1>2, <1>3, PartWayType
    <3>2. QED
      BY <1>2, <1>3, <3>1
  <2>4. file' \in [Hunks -> [Offsets -> Values]]
    BY <1>2, <1>3, <2>2, <2>3, WrittenType
  <2>5. FilesInv'
    BY <1>1, <1>3, <2>2, <2>3, <2>4 DEF TypeInv, FilesInv, diffVars
  <2>6. ControlInv'
    BY <1>1, <2>1, IoControl
  <2>7. QED
    BY <1>5, <2>1, <2>5, <2>6 DEF TypeInv
<1>8. QED
  BY <1>4, <1>6, <1>7
(* What the diff file gives back when a read of it succeeds is content. *)
LEMMA DiffCellType ==
    ASSUME diff \in [DiffOffsets -> Values], NEW o \in DiffOffsets,
           DiffCell(o) # NoData
    PROVE  DiffCell(o) \in Content
BY DEF DiffCell, Values, Content

LEMMA DiffWrittenType ==
    ASSUME diff \in [DiffOffsets -> Values], NEW o \in Int, NEW page, NEW n \in Nat,
           \A i \in 1..n : page[i] \in Values
    PROVE  DiffWritten(o, page, n) \in [DiffOffsets -> Values]
<1>1. \A e \in DiffOffsets : o <= e /\ e < o + n => e - o + 1 \in 1..n
  BY DEF DiffOffsets
<1>2. QED
  BY <1>1 DEF DiffWritten

(* A page of the diff file lies inside it. *)
LEMMA DiffPage ==
    ASSUME CopyOnWrite, NEW q \in Pages, NEW i \in 0..PageSize - 1
    PROVE  DiffAt(q) + i \in DiffOffsets /\ DiffAt(q) \in Nat
<1>1. /\ ExportSize \in Nat \ {0} /\ PageSize \in Nat \ {0}
      /\ ExportSize % PageSize = 0 /\ q \in Nat
  BY SizeAssumption DEF Pages
<1> DEFINE k == ExportSize \div PageSize
<1>2. k \in Nat /\ ExportSize = k * PageSize
  <2>1. /\ k \in Nat /\ ExportSize = PageSize * k + (ExportSize % PageSize)
    BY <1>1, Division
  <2>2. QED
    BY <1>1, <2>1
<1> HIDE DEF k
<1>3. k # 0
  BY <1>1, <1>2
<1>4. (ExportSize - 1) \div PageSize = k - 1
  <2>1. /\ k - 1 \in Nat /\ PageSize - 1 \in 0..PageSize - 1
        /\ ExportSize - 1 = PageSize * (k - 1) + (PageSize - 1)
    BY <1>1, <1>2, <1>3
  <2>2. (PageSize * (k - 1) + (PageSize - 1)) \div PageSize = k - 1
    BY <1>1, <2>1, DivUnique
  <2>3. QED
    BY <2>1, <2>2, Zenon
<1>5. q < k
  BY <1>1, <1>2, <1>3, <1>4 DEF Pages
<1>6. q * PageSize + PageSize <= k * PageSize /\ q * PageSize \in Nat
  BY <1>1, <1>2, <1>5, Times
<1>7. QED
  BY <1>1, <1>2, <1>6 DEF DiffAt, DiffOffsets

LEMMA TypesCowReadDiff == TypeInv /\ OrderInv' /\ CowReadDiff => TypeInv'
<1> SUFFICES ASSUME TypeInv, OrderInv', CowReadDiff
             PROVE  TypeInv'
  OBVIOUS
<1> DEFINE from == DiffAt(difmap[Page]) + InPage
           piece == [i \in 1..PieceLen |-> DiffCell(from + i - 1)]
<1>1. /\ pc = "io" /\ request.type = READ /\ CopyOnWrite /\ Mapped /\ Io
      /\ UNCHANGED <<request, pos, file, diffVars, dev>>
  BY DEF CowReadDiff, Io
<1>2. /\ Page \in Pages /\ InPage \in 0..PageSize - 1 /\ PageSize \in Nat
      /\ PieceLen \in Nat /\ InPage + PieceLen <= PageSize
      /\ lastpoint \in Int /\ lastpoint >= -1 /\ buf \in Seq(Content)
  <2>1. PieceLen \in 1..request.len - done /\ request.len \in Nat /\ done \in Nat
    BY <1>1, PieceFacts, ValidRequest DEF TypeInv, ServeInv, Serving
  <2>2. QED
    BY <1>1, <2>1, PieceFacts DEF TypeInv, ControlInv, ServeInv
<1>3. difmap[Page] \in Pages
  BY <1>1, <1>2 DEF Mapped, TypeInv, MapInv
<1>4. FilesInv' /\ MapInv'
  BY <1>1 DEF TypeInv, FilesInv, MapInv, diffVars, MappedPages, DiffMapSound
<1>5. \/ /\ \A i \in 1..PieceLen : piece[i] # NoData
         /\ buf' = buf \o piece /\ PieceDone(lastpoint)
      \/ Failed /\ UNCHANGED <<buf, done>>
  BY DEF CowReadDiff
<1>6. CASE /\ \A i \in 1..PieceLen : piece[i] # NoData
           /\ buf' = buf \o piece /\ PieceDone(lastpoint)
  <2>1. ASSUME NEW i \in 1..PieceLen
        PROVE  DiffCell(from + i - 1) \in Content
    <3>1. InPage + (i - 1) \in 0..PageSize - 1
      BY <1>2
    <3>2. /\ DiffAt(difmap[Page]) + (InPage + (i - 1)) \in DiffOffsets
          /\ DiffAt(difmap[Page]) \in Nat
      BY <1>1, <1>3, <3>1, DiffPage
    <3>3. DiffAt(difmap[Page]) + (InPage + (i - 1)) = from + i - 1
      BY <1>2, <3>2
    <3>4. DiffCell(from + i - 1) # NoData
      BY <1>6
    <3>5. QED
      BY <3>2, <3>3, <3>4, DiffCellType DEF TypeInv, FilesInv
  <2> HIDE DEF from
  <2>2. piece \in [1..PieceLen -> Content]
    BY <2>1
  <2> HIDE DEF piece
  <2>3. piece \in Seq(Content) /\ Len(piece) = PieceLen
    BY <1>2, <2>2
  <2>4. buf' \in Seq(Content) /\ Len(buf') = Len(buf) + PieceLen
    BY <1>2, <1>6, <2>3, ConcatProperties
  <2>5. ServeInv' /\ lastpoint' \in Int /\ lastpoint' >= -1
    BY <1>1, <1>2, <1>6, <2>4, IoPiece
  <2>6. QED
    BY <1>1, <1>4, <2>5, IoControl DEF TypeInv
<1>7. CASE Failed /\ UNCHANGED <<buf, done>>
  <2>1. ServeInv' /\ lastpoint' \in Int /\ lastpoint' >= -1
    BY <1>1, <1>7, IoFailed
  <2>2. QED
    BY <1>1, <1>4, <2>1, IoControl DEF TypeInv
<1>8. QED
  BY <1>5, <1>6, <1>7

LEMMA TypesCowReadExport == TypeInv /\ OrderInv' /\ CowReadExport => TypeInv'
<1> SUFFICES ASSUME TypeInv, OrderInv', CowReadExport
             PROVE  TypeInv'
  OBVIOUS
<1> DEFINE h == RawHunk(At)  n == PieceLen  p == RawAt(At)
<1>1. /\ pc = "io" /\ request.type = READ /\ Io
      /\ UNCHANGED <<request, file, diffVars, dev>>
  BY DEF CowReadExport, Io
<1>2. /\ At \in Addr /\ n \in Nat \ {0} /\ buf \in Seq(Content)
      /\ PieceLen = n
  <2>1. PieceLen \in 1..request.len - done /\ request.len \in Nat /\ done \in Nat
    BY <1>1, PieceFacts, ValidRequest DEF TypeInv, ServeInv, Serving
  <2>2. QED
    BY <1>1, <2>1, PieceFacts DEF TypeInv, ServeInv
<1>3. h \in Hunks /\ p \in 0..FileLimit /\ RawOffset(At) \in Nat
  BY <1>2, AddressFacts, RawAtType DEF TypeInv, FilesInv
<1>4. \/ /\ Readable(h, p, n)
         /\ buf' = buf \o Slice(h, p, n)
         /\ pos' = [pos EXCEPT ![h] = p + n] /\ PieceDone(RawOffset(At))
      \/ /\ \E q \in PartWay(p, n) : pos' = [pos EXCEPT ![h] = q]
         /\ Failed /\ UNCHANGED <<buf, done>>
  BY DEF CowReadExport
<1>5. MapInv'
  BY <1>1 DEF TypeInv, MapInv, diffVars, MappedPages, DiffMapSound
<1> HIDE DEF n, h, p
<1>6. CASE /\ Readable(h, p, n)
           /\ buf' = buf \o Slice(h, p, n)
           /\ pos' = [pos EXCEPT ![h] = p + n] /\ PieceDone(RawOffset(At))
  <2>1. /\ p + n \in 0..FileLimit
        /\ Slice(h, p, n) \in Seq(Content) /\ Len(Slice(h, p, n)) = n
    BY <1>2, <1>3, <1>6, ReadableData DEF TypeInv, FilesInv
  <2>2. buf' \in Seq(Content) /\ Len(buf') = Len(buf) + PieceLen
    BY <1>2, <1>6, <2>1, ConcatProperties
  <2>3. RawOffset(At) \in Int /\ RawOffset(At) >= -1
    BY <1>3
  <2>4. ServeInv' /\ lastpoint' \in Int /\ lastpoint' >= -1
    BY <1>1, <1>6, <2>2, <2>3, IoPiece
  <2>5. FilesInv'
    BY <1>1, <1>3, <1>6, <2>1 DEF TypeInv, FilesInv, diffVars
  <2>6. QED
    BY <1>1, <1>5, <2>4, <2>5, IoControl DEF TypeInv
<1>7. CASE /\ \E q \in PartWay(p, n) : pos' = [pos EXCEPT ![h] = q]
           /\ Failed /\ UNCHANGED <<buf, done>>
  <2>1. ServeInv' /\ lastpoint' \in Int /\ lastpoint' >= -1
    BY <1>1, <1>7, IoFailed
  <2>2. pos' \in [Hunks -> 0..FileLimit]
    BY <1>2, <1>3, <1>7, PartWayType DEF TypeInv, FilesInv
  <2>3. FilesInv'
    BY <1>1, <2>2 DEF TypeInv, FilesInv, diffVars
  <2>4. QED
    BY <1>1, <1>5, <2>1, <2>3, IoControl DEF TypeInv
<1>8. QED
  BY <1>4, <1>6, <1>7

LEMMA TypesCowWriteMapped == TypeInv /\ OrderInv' /\ CowWriteMapped => TypeInv'
<1> SUFFICES ASSUME TypeInv, OrderInv', CowWriteMapped
             PROVE  TypeInv'
  OBVIOUS
<1> DEFINE o == DiffAt(difmap[Page]) + InPage
           piece == SubSeq(buf, done + 1, done + PieceLen)
<1>1. /\ pc = "io" /\ request.type = WRITE /\ CopyOnWrite /\ Mapped /\ Io
      /\ UNCHANGED <<request, buf, pos, file, difmap, difffilelen, dev>>
  BY DEF CowWriteMapped, Io
<1>2. /\ Page \in Pages /\ InPage \in 0..PageSize - 1 /\ PageSize \in Nat \ {0}
      /\ PieceLen \in Nat /\ done \in Nat /\ done + PieceLen <= Len(buf)
      /\ lastpoint \in Int /\ lastpoint >= -1 /\ buf \in Seq(Content)
  <2>1. PieceLen \in 1..request.len - done /\ request.len \in Nat /\ done \in Nat
    BY <1>1, PieceFacts, ValidRequest DEF TypeInv, ServeInv, Serving
  <2>2. Len(buf) = request.len
    BY <1>1 DEF TypeInv, ServeInv
  <2>3. QED
    BY <1>1, <2>1, <2>2, PieceFacts DEF TypeInv, ControlInv, ServeInv
<1>3. difmap[Page] \in Pages
  BY <1>1, <1>2 DEF Mapped, TypeInv, MapInv
<1>4. o \in Int
  <2>1. 0 \in 0..PageSize - 1
    BY <1>2
  <2>2. DiffAt(difmap[Page]) \in Nat
    BY <1>1, <1>3, <2>1, DiffPage
  <2>3. QED
    BY <1>2, <2>2
<1>5. \A i \in 1..PieceLen : piece[i] \in Values
  <2>1. \A i \in done + 1..done + PieceLen : buf[i] \in Content
    <3>1. \A i \in done + 1..done + PieceLen : i \in 1..Len(buf)
      BY <1>2, LenProperties
    <3>2. QED
      BY <1>2, <3>1, ElementOfSeq
  <2>2. done + 1 \in Int /\ done + PieceLen \in Int
        /\ (done + PieceLen) - (done + 1) + 1 = PieceLen
    BY <1>2
  <2>3. \A i \in 1..PieceLen : piece[i] = buf[(done + 1) + i - 1]
    BY <2>1, <2>2, SubSeqProperties
  <2>4. \A i \in 1..PieceLen : (done + 1) + i - 1 \in done + 1..done + PieceLen
    BY <1>2
  <2>5. QED
    BY <2>1, <2>3, <2>4 DEF Values
<1>6. \/ diff' = DiffWritten(o, piece, PieceLen) /\ PieceDone(lastpoint)
      \/ /\ \E n \in 0..PieceLen - 1 : diff' = DiffWritten(o, piece, n)
         /\ Failed /\ UNCHANGED done
  BY DEF CowWriteMapped
<1>7. MapInv'
  BY <1>1 DEF TypeInv, MapInv, MappedPages, DiffMapSound
<1> HIDE DEF o, piece
<1>8. diff' \in [DiffOffsets -> Values]
  <2>1. \A n \in 0..PieceLen : n \in Nat /\ \A i \in 1..n : i \in 1..PieceLen
    BY <1>2
  <2>2. PICK n \in 0..PieceLen : diff' = DiffWritten(o, piece, n)
    <3>1. PieceLen \in 0..PieceLen /\ \A n \in 0..PieceLen - 1 : n \in 0..PieceLen
      BY <1>2
    <3>2. QED
      BY <1>6, <3>1
  <2>3. QED
    BY <1>4, <1>5, <2>1, <2>2, DiffWrittenType DEF TypeInv, FilesInv
<1>9. FilesInv'
  BY <1>1, <1>8 DEF TypeInv, FilesInv
<1>10. ServeInv' /\ lastpoint' \in Int /\ lastpoint' >= -1
  BY <1>1, <1>2, <1>6, IoPiece, IoFailed DEF TypeInv, ServeInv
<1>11. QED
  BY <1>1, <1>7, <1>9, <1>10, IoControl DEF TypeInv
(* The page map: there is room for one more page whenever a page of the    *)
(* export has none.                                                        *)
LEMMA FreshPage ==
    ASSUME MapInv, NEW p \in Pages, difmap[p] = -1
    PROVE  difffilelen \in Pages
<1>1. (ExportSize - 1) \div PageSize \in Nat
  BY SizeAssumption, Division
<1> DEFINE last == (ExportSize - 1) \div PageSize
<1>2. Pages = 0..last
  BY DEF Pages
<1>3. last \in Nat
  BY <1>1
<1> HIDE DEF last
<1>4. IsFiniteSet(Pages) /\ Cardinality(Pages) = last + 1
  BY <1>2, <1>3, FS_Interval
<1>5. MappedPages \in SUBSET Pages /\ MappedPages # Pages
  <2>1. p \notin MappedPages
    BY DEF MappedPages
  <2>2. QED
    BY <2>1 DEF MappedPages
<1>6. Cardinality(MappedPages) <= last + 1 /\ Cardinality(MappedPages) # last + 1
  BY <1>4, <1>5, FS_Subset
<1>7. QED
  BY <1>2, <1>3, <1>6 DEF MapInv

LEMMA MapPageStep ==
    ASSUME MapInv, MapPage, Page \in Pages, ~Mapped
    PROVE  MapInv'
<1> DEFINE d == difffilelen
<1>1. /\ difmap' = [difmap EXCEPT ![Page] = d] /\ difffilelen' = d + 1
      /\ difmap \in [Pages -> Pages \union {-1}] /\ d \in Nat
      /\ difmap[Page] = -1 /\ Cardinality(MappedPages) = d
  BY DEF MapPage, MapInv, Mapped
<1>2. d \in Pages
  BY <1>1, FreshPage
<1> HIDE DEF d
<1>3. difmap' \in [Pages -> Pages \union {-1}] /\ difffilelen' \in Nat
  BY <1>1, <1>2
<1>4. Cardinality(MappedPages') = d + 1
  <2>1. MappedPages' = MappedPages \union {Page}
    <3>1. d # -1
      BY <1>1
    <3>2. \A p \in Pages : difmap'[p] = IF p = Page THEN d ELSE difmap[p]
      BY <1>1
    <3>3. QED
      BY <3>1, <3>2 DEF MappedPages
  <2>2. Page \notin MappedPages
    BY <1>1 DEF MappedPages
  <2>3. IsFiniteSet(MappedPages)
    <3>1. (ExportSize - 1) \div PageSize \in Nat
      BY SizeAssumption, Division
    <3>2. IsFiniteSet(Pages)
      BY <3>1, FS_Interval DEF Pages
    <3>3. MappedPages \in SUBSET Pages
      BY DEF MappedPages
    <3>4. QED
      BY <3>2, <3>3, FS_Subset
  <2>4. QED
    BY <1>1, <2>1, <2>2, <2>3, FS_AddElement
<1>5. ASSUME NEW p \in Pages, NEW q \in Pages, difmap'[p] # -1
      PROVE  difmap'[p] < difffilelen' /\ (p # q => difmap'[p] # difmap'[q])
  <2>1. \A x \in Pages : difmap'[x] = IF x = Page THEN d ELSE difmap[x]
    BY <1>1
  <2>2. \A x \in Pages : difmap[x] # -1 => difmap[x] < d /\ difmap[x] \in Nat
    <3>1. \A x \in Pages : difmap[x] # -1 => difmap[x] < difffilelen
      BY DEF MapInv, DiffMapSound
    <3>2. \A x \in Pages : difmap[x] # -1 => difmap[x] \in Nat
      BY <1>1 DEF Pages
    <3>3. QED
      BY <3>1, <3>2 DEF d
  <2>3. difmap[p] # -1 /\ p # q => difmap[p] # difmap[q]
    BY DEF MapInv, DiffMapSound
  <2>4. CASE p = Page
    BY <1>1, <2>1, <2>2, <2>4
  <2>5. CASE p # Page
    BY <1>1, <1>5, <2>1, <2>2, <2>3, <2>5
  <2>6. QED
    BY <2>4, <2>5
<1>6. QED
  BY <1>1, <1>3, <1>4, <1>5 DEF MapInv, DiffMapSound

LEMMA TypesCowWriteNew == TypeInv /\ OrderInv' /\ CowWriteNew => TypeInv'
<1> SUFFICES ASSUME TypeInv, OrderInv', CowWriteNew
             PROVE  TypeInv'
  OBVIOUS
<1> DEFINE h == RawHunk(PageStart)  p == RawAt(PageStart)  o == DiffAt(difffilelen)
           page == Merged(Slice(h, p, PageSize))
<1>1. /\ pc = "io" /\ request.type = WRITE /\ CopyOnWrite /\ ~Mapped /\ MapPage /\ Io
      /\ UNCHANGED <<request, buf, file, dev>>
  BY DEF CowWriteNew, Io
<1>2. /\ Page \in Pages /\ InPage \in 0..PageSize - 1 /\ PageSize \in Nat \ {0}
      /\ PieceLen \in Nat /\ done \in Nat /\ done + PieceLen <= Len(buf)
      /\ buf \in Seq(Content) /\ PageStart \in Addr
  <2>1. PieceLen \in 1..request.len - done /\ request.len \in Nat /\ done \in Nat
    BY <1>1, PieceFacts, ValidRequest DEF TypeInv, ServeInv, Serving
  <2>2. Len(buf) = request.len
    BY <1>1 DEF TypeInv, ServeInv
  <2>3. QED
    BY <1>1, <2>1, <2>2, PieceFacts DEF TypeInv, ServeInv
<1>3. MapInv'
  BY <1>1, <1>2, MapPageStep DEF TypeInv
<1>4. h \in Hunks /\ p \in 0..FileLimit /\ RawOffset(PageStart) \in Nat
      /\ o \in Int
  <2>1. o \in Int
    BY <1>2 DEF TypeInv, MapInv, DiffAt
  <2>2. QED
    BY <1>2, <2>1, AddressFacts, RawAtType DEF TypeInv, FilesInv
<1>5. ASSUME Readable(h, p, PageSize)
      PROVE  p + PageSize \in 0..FileLimit /\ \A i \in 1..PageSize : page[i] \in Values
  <2>1. /\ p + PageSize \in 0..FileLimit
        /\ Slice(h, p, PageSize) \in Seq(Content)
        /\ Len(Slice(h, p, PageSize)) = PageSize
    BY <1>2, <1>4, <1>5, ReadableData DEF TypeInv, FilesInv
  <2> DEFINE old == Slice(h, p, PageSize)
  <2>2. \A i \in 1..PageSize : old[i] \in Values
    BY <2>1, ElementOfSeq DEF Values
  <2>3. \A i \in 1..PageSize : InPage < i /\ i <= InPage + PieceLen
           => done + i - InPage \in 1..Len(buf)
    BY <1>2, LenProperties
  <2>4. \A i \in 1..Len(buf) : buf[i] \in Values
    BY <1>2, ElementOfSeq DEF Values
  <2> HIDE DEF old
  <2>5. \A i \in 1..PageSize : Merged(old)[i] \in Values
    BY <2>2, <2>3, <2>4 DEF Merged
  <2>6. QED
    BY <2>1, <2>5 DEF old
<1>6. \/ /\ Readable(h, p, PageSize)
         /\ diff' = DiffWritten(o, page, PageSize)
         /\ pos' = [pos EXCEPT ![h] = p + PageSize]
         /\ PieceDone(RawOffset(PageStart))
      \/ /\ \E q \in PartWay(p, PageSize) : pos' = [pos EXCEPT ![h] = q]
         /\ Failed /\ UNCHANGED <<diff, done>>
      \/ /\ Readable(h, p, PageSize)
         /\ \E n \in 0..PageSize - 1 : diff' = DiffWritten(o, page, n)
         /\ pos' = [pos EXCEPT ![h] = p + PageSize]
         /\ Failed /\ UNCHANGED done
  BY DEF CowWriteNew
<1> HIDE DEF h, p, o, page
<1>7. ASSUME Readable(h, p, PageSize), NEW n \in 0..PageSize,
             diff' = DiffWritten(o, page, n), pos' = [pos EXCEPT ![h] = p + PageSize]
      PROVE  FilesInv'
  <2>1. n \in Nat /\ \A i \in 1..n : i \in 1..PageSize
    BY <1>2
  <2>2. diff' \in [DiffOffsets -> Values]
    BY <1>4, <1>5, <1>7, <2>1, DiffWrittenType DEF TypeInv, FilesInv
  <2>3. QED
    BY <1>1, <1>4, <1>5, <1>7, <2>2 DEF TypeInv, FilesInv
<1>8. CASE /\ Readable(h, p, PageSize)
           /\ diff' = DiffWritten(o, page, PageSize)
           /\ pos' = [pos EXCEPT ![h] = p + PageSize]
           /\ PieceDone(RawOffset(PageStart))
  <2>1. ServeInv' /\ lastpoint' \in Int /\ lastpoint' >= -1
    BY <1>1, <1>2, <1>4, <1>8, IoPiece
  <2>2. PageSize \in 0..PageSize
    BY <1>2
  <2>3. FilesInv'
    BY <1>7, <1>8, <2>2
  <2>4. QED
    BY <1>1, <1>3, <2>1, <2>3, IoControl DEF TypeInv
<1>9. CASE /\ \E q \in PartWay(p, PageSize) : pos' = [pos EXCEPT ![h] = q]
           /\ Failed /\ UNCHANGED <<diff, done>>
  <2>1. ServeInv' /\ lastpoint' \in Int /\ lastpoint' >= -1
    BY <1>1, <1>9, IoFailed
  <2>2. pos' \in [Hunks -> 0..FileLimit]
    BY <1>2, <1>4, <1>9, PartWayType DEF TypeInv, FilesInv
  <2>3. FilesInv'
    BY <1>1, <1>9, <2>2 DEF TypeInv, FilesInv
  <2>4. QED
    BY <1>1, <1>3, <2>1, <2>3, IoControl DEF TypeInv
<1>10. CASE /\ Readable(h, p, PageSize)
            /\ \E n \in 0..PageSize - 1 : diff' = DiffWritten(o, page, n)
            /\ pos' = [pos EXCEPT ![h] = p + PageSize]
            /\ Failed /\ UNCHANGED done
  <2>1. ServeInv' /\ lastpoint' \in Int /\ lastpoint' >= -1
    BY <1>1, <1>10, IoFailed
  <2>2. PICK n \in 0..PageSize - 1 : diff' = DiffWritten(o, page, n)
    BY <1>10
  <2>3. n \in 0..PageSize
    BY <1>2
  <2>4. FilesInv'
    BY <1>7, <1>10, <2>2, <2>3
  <2>5. QED
    BY <1>1, <1>3, <2>1, <2>4, IoControl DEF TypeInv
<1>11. QED
  BY <1>6, <1>8, <1>9, <1>10

(* The reply: what the client may expect is content, or undefined. *)
LEMMA TypesReply == TypeInv /\ OrderInv /\ Reply => TypeInv'
<1> SUFFICES ASSUME TypeInv, OrderInv, Reply
             PROVE  TypeInv'
  OBVIOUS
<1>1. /\ pc \in {"ok", "failed", "rejected"} /\ pc' = "header"
      /\ pending' = Tail(pending)
      /\ UNCHANGED <<readonly, sock, closed, sent, request, handle, buf, done,
                     lastpoint, pos, file, diffVars, difffile, why, faults>>
  BY DEF Reply
<1>2. pending' \in Seq(1..MaxRequests)
  <2>1. pending \in Seq(1..MaxRequests)
    BY DEF TypeInv, ControlInv
  <2>2. pending # <<>>
    BY <1>1 DEF OrderInv, Busy
  <2>3. QED
    BY <1>1, <2>1, <2>2, HeadTailProperties
<1>3. ControlInv'
  BY <1>1, <1>2 DEF TypeInv, ControlInv, PCs
<1>4. ServeInv'
  BY <1>1 DEF TypeInv, ServeInv, Serving
<1>5. dev' \in [Addr -> Content \union {Any}]
  <2>1. CASE request.type = READ \/ pc = "rejected"
    BY <2>1 DEF Reply, TypeInv, FilesInv
  <2>2. CASE ~(request.type = READ \/ pc = "rejected")
    <3>1. /\ Valid /\ request.from \in Nat /\ request.len \in Nat
          /\ request.type = WRITE /\ Len(buf) = request.len /\ buf \in Seq(Content)
      BY <1>1, <2>2, ValidRequest DEF TypeInv, ServeInv, Serving, Addr
    <3>2. dev' = [a \in Addr |-> IF ~Touched(a) THEN dev[a]
                                 ELSE IF pc = "failed" THEN Any
                                 ELSE buf[a - request.from + 1]]
      BY <2>2 DEF Reply
    <3>3. \A a \in Addr : Touched(a) => a - request.from + 1 \in 1..Len(buf)
      BY <3>1 DEF Touched, Addr
    <3>4. \A i \in 1..Len(buf) : buf[i] \in Content
      BY <3>1, ElementOfSeq
    <3>5. QED
      BY <3>2, <3>3, <3>4 DEF TypeInv, FilesInv
  <2>3. QED
    BY <2>1, <2>2
<1>6. FilesInv' /\ MapInv'
  BY <1>1, <1>5 DEF TypeInv, FilesInv, MapInv, diffVars, MappedPages, DiffMapSound
<1>7. QED
  BY <1>3, <1>4, <1>6 DEF TypeInv

(* Only a read whose payload and reply are more than the buffer overruns it. *)
LEMMA TypesOverrun == TypeInv /\ Overrun => TypeInv'
<1> SUFFICES ASSUME TypeInv, Overrun
             PROVE  TypeInv'
  OBVIOUS
<1>1. /\ pc = "io" /\ request.type = READ /\ pc' = "overrun"
      /\ ReplySize + ReadUpTo > BufSize
      /\ UNCHANGED <<readonly, clientVars, request, handle, buf, done, lastpoint,
                     pos, file, diffVars, difffile, why, faults, dev>>
  BY DEF Overrun
<1>2. ReplySize + request.len > BufSize
  <2>1. /\ PieceLen \in Int /\ done + PieceLen <= request.len
        /\ request.len \in Nat /\ done \in Nat /\ ReplySize \in Nat /\ BufSize \in Nat
    BY <1>1, PieceFacts, ValidRequest, SizeAssumption DEF TypeInv, ServeInv, Serving
  <2>2. ReadUpTo = done + PieceLen \/ ReadUpTo = request.len
    BY DEF ReadUpTo
  <2>3. QED
    BY <1>1, <2>1, <2>2
<1>3. ServeInv'
  BY <1>1, <1>2 DEF TypeInv, ServeInv, Serving
<1>4. FilesInv' /\ MapInv'
  BY <1>1 DEF TypeInv, FilesInv, MapInv, diffVars, MappedPages, DiffMapSound
<1>5. ControlInv'
  BY <1>1 DEF TypeInv, ControlInv, PCs, clientVars
<1>6. QED
  BY <1>3, <1>4, <1>5 DEF TypeInv

LEMMA TypesStep == TypeInv /\ OrderInv /\ OrderInv' /\ [Next]_vars => TypeInv'
<1> SUFFICES ASSUME TypeInv, OrderInv, OrderInv', [Next]_vars
             PROVE  TypeInv'
  OBVIOUS
<1>1. CASE Client
  BY <1>1, TypesClient
<1>2. CASE ReadHeader
  BY <1>2, TypesHeader
<1>3. CASE ReadPayload
  BY <1>3, TypesPayload
<1>4. CASE Overrun
  BY <1>4, TypesOverrun
<1>5. CASE ReadFailed \/ Alarm \/ ReplyFailed
  <2>1. /\ pc' = "exited" /\ why' \in {"read_failed", "alarm", "write_failed"}
        /\ UNCHANGED <<readonly, clientVars, request, handle, buf, done, lastpoint,
                       pos, file, diffVars, difffile, faults, dev>>
    BY <1>5 DEF ReadFailed, Alarm, ReplyFailed, Exit
  <2>2. ControlInv'
    BY <2>1 DEF TypeInv, ControlInv, PCs, clientVars
  <2>3. buf' \in Seq(Content) /\ Len(buf') <= BufSize /\ done' \in 0..BufSize
    BY <2>1 DEF TypeInv, ServeInv
  <2>4. QED
    BY <2>1, <2>2, <2>3, TypesQuiet
<1>6. CASE Io
  BY <1>6, TypesPlainRead, TypesPlainWrite, TypesCowReadDiff, TypesCowReadExport,
     TypesCowWriteMapped, TypesCowWriteNew DEF Io
<1>7. CASE Reply
  BY <1>7, TypesReply
<1>8. CASE UNCHANGED vars
  <2>1. ControlInv'
    BY <1>8 DEF vars, TypeInv, ControlInv
  <2>2. QED
    BY <1>8, <2>1, TypesQuiet DEF vars, diffVars
<1>9. QED
  BY <1>1, <1>2, <1>3, <1>4, <1>5, <1>6, <1>7, <1>8 DEF Next, Server

LEMMA TypesHold == TypeInv => TypeOK
<1> SUFFICES ASSUME TypeInv
             PROVE  TypeOK
  OBVIOUS
<1>1. difffilelen \in 0..(ExportSize - 1) \div PageSize + 1
  <2>1. (ExportSize - 1) \div PageSize \in Nat
    BY SizeAssumption, Division
  <2>2. IsFiniteSet(Pages) /\ Cardinality(Pages) = (ExportSize - 1) \div PageSize + 1
    BY <2>1, FS_Interval DEF Pages
  <2>3. MappedPages \in SUBSET Pages
    BY DEF MappedPages
  <2>4. Cardinality(MappedPages) <= (ExportSize - 1) \div PageSize + 1
    BY <2>2, <2>3, FS_Subset
  <2>5. QED
    BY <2>1, <2>4 DEF TypeInv, MapInv
<1>2. /\ Filled > BufSize => request.type = READ /\ Filled <= BufSize + ReplySize
      /\ pc = "overrun" => request.type = READ /\ ReplySize + request.len > BufSize
  <2>1. Len(buf) \in Nat /\ Len(buf) <= BufSize /\ BufSize \in Nat /\ ReplySize \in Nat
    BY SizeAssumption DEF TypeInv, ServeInv
  <2>2. QED
    BY <2>1 DEF Filled, TypeInv, ServeInv
<1>3. QED
  BY <1>1, <1>2 DEF TypeInv, ControlInv, ServeInv, FilesInv, MapInv, TypeOK

(* In every mode the variables keep their types: a write fits the buffer,  *)
(* a read passes its end by at most the reply it is put behind, and only   *)
(* one that leaves no room for the reply does; no descriptor is beyond the largest file, every page   *)
(* that is written for the first time still finds a free page in the diff  *)
(* file, and the page map only names pages that were given out.            *)
THEOREM TypesAreKept == Spec => []TypeOK
<1>1. Init => OrderInv /\ PairInv /\ TypeInv
  BY OrderInit, PairInit, TypesInit
<1>2. OrderInv /\ PairInv /\ TypeInv /\ [Next]_vars => (OrderInv /\ PairInv /\ TypeInv)'
  BY OrderStep, TypesStep
<1>3. TypeInv => TypeOK
  BY TypesHold
<1>4. QED
  BY <1>1, <1>2, <1>3, PTL DEF Spec

(* With -c no two pages of the export share a page of the diff file, and   *)
(* each page in use was counted, whatever failed while it was first        *)
(* written.                                                                *)
THEOREM DiffMapIsSound == Spec => []DiffMapSound
<1>1. Init => OrderInv /\ PairInv /\ TypeInv
  BY OrderInit, PairInit, TypesInit
<1>2. OrderInv /\ PairInv /\ TypeInv /\ [Next]_vars => (OrderInv /\ PairInv /\ TypeInv)'
  BY OrderStep, TypesStep
<1>3. TypeInv => DiffMapSound
  BY DEF TypeInv, MapInv
<1>4. QED
  BY <1>1, <1>2, <1>3, PTL DEF Spec
---------------------------------------------------------------------------
(* What was written is read back, with -c.                                 *)

(* The cell of the diff file that stands for the block at a, and whether   *)
(* it holds v.                                                             *)
DiffCellOf(a) == DiffAt(difmap[a \div PageSize]) + (a % PageSize)
Stored(a, v) == difmap[a \div PageSize] # -1 /\ diff[DiffCellOf(a)] = v

(* While the server lives, every block the client knows to be written has  *)
(* its data in the diff file, but for the blocks of a write in progress,   *)
(* whose finished part is there already; and the finished part of a read   *)
(* has the data of the blocks that were written.                           *)
CowInv ==
    ~Ended =>
        /\ \A a \in Addr : dev[a][1] = "data" =>
              \/ Stored(a, dev[a])
              \/ pc \in {"io", "ok", "failed"} /\ request.type = WRITE /\ Touched(a)
        /\ pc \in {"io", "ok"} /\ request.type = WRITE =>
              \A i \in 1..done : Stored(request.from + i - 1, buf[i])
        /\ pc \in {"io", "ok"} /\ request.type = READ =>
              \A i \in 1..done : dev[request.from + i - 1][1] = "data"
                                    => buf[i] = dev[request.from + i - 1]
        /\ pc = "ok" => done = request.len
        /\ pc = "payload" => done = 0
(* The blocks of a piece are the cells of one page of the diff file.       *)
LEMMA InPiece ==
    ASSUME ServeInv, pc = "io", NEW a \in Addr, At <= a, a < At + PieceLen
    PROVE  a \div PageSize = Page /\ a % PageSize = InPage + (a - At)
<1>1. /\ At \in Addr /\ Page \in Pages /\ InPage \in 0..PageSize - 1
      /\ InPage + PieceLen <= PageSize /\ PageStart \in Addr
      /\ At = PageStart + InPage /\ PageSize \in Nat \ {0}
      /\ PieceLen \in 1..request.len - done
      /\ request.len \in Nat /\ done \in Nat
  BY PieceFacts, ValidRequest DEF ServeInv, Serving
<1>2. a \in Nat /\ At \in Nat /\ PieceLen \in Nat /\ Page \in Nat
  BY <1>1 DEF Addr, Pages
<1>3. InPage + (a - At) \in 0..PageSize - 1
  BY <1>1, <1>2
<1>4. PageStart = PageSize * Page /\ PageStart \in Nat
  BY <1>1, <1>2 DEF PageStart
<1>5. a = PageSize * Page + (InPage + (a - At))
  <2>1. a = PageStart + (InPage + (a - At))
    BY <1>1, <1>2, <1>4
  <2>2. QED
    BY <1>4, <2>1
<1> DEFINE r == InPage + (a - At)
<1>6. (PageSize * Page + r) \div PageSize = Page /\ (PageSize * Page + r) % PageSize = r
  BY <1>1, <1>2, <1>3, DivUnique
<1>7. QED
  BY <1>5, <1>6, Zenon

(* And the other way round. *)
LEMMA OnPage ==
    ASSUME ServeInv, pc = "io", NEW a \in Addr, a \div PageSize = Page
    PROVE  a \in Nat /\ a = At + ((a % PageSize) - InPage) /\ a % PageSize \in 0..PageSize - 1
<1>1. /\ At \in Addr /\ At = PageStart + InPage /\ PageSize \in Nat \ {0}
      /\ Page \in Pages /\ InPage \in 0..PageSize - 1 /\ a \in Nat
  BY PieceFacts DEF Addr
<1>2. a = PageSize * Page + (a % PageSize) /\ a % PageSize \in 0..PageSize - 1
  BY <1>1, Division
<1>3. PageStart = PageSize * Page /\ PageStart \in Int
  BY <1>1 DEF PageStart, Pages
<1>4. QED
  BY <1>1, <1>2, <1>3

(* The cell of a mapped block is in its page of the diff file.             *)
LEMMA CellFacts ==
    ASSUME CopyOnWrite, MapInv, NEW a \in Addr, difmap[a \div PageSize] # -1
    PROVE  /\ a \div PageSize \in Pages /\ difmap[a \div PageSize] \in Pages
           /\ DiffCellOf(a) \in DiffOffsets
           /\ DiffAt(difmap[a \div PageSize]) \in Nat
           /\ DiffAt(difmap[a \div PageSize]) <= DiffCellOf(a)
           /\ DiffCellOf(a) < DiffAt(difmap[a \div PageSize]) + PageSize
<1>1. a \div PageSize \in Pages /\ a \in Nat /\ PageSize \in Nat \ {0}
  BY AddressFacts, SizeAssumption
<1>2. difmap[a \div PageSize] \in Pages
  BY <1>1 DEF MapInv
<1>3. a % PageSize \in 0..PageSize - 1
  BY <1>1, Division
<1>4. /\ DiffAt(difmap[a \div PageSize]) + (a % PageSize) \in DiffOffsets
      /\ DiffAt(difmap[a \div PageSize]) \in Nat
  BY <1>2, <1>3, DiffPage
<1>5. QED
  BY <1>1, <1>2, <1>3, <1>4 DEF DiffCellOf

(* What is written to one page of the diff file is not seen from another.  *)
LEMMA OtherPage ==
    ASSUME CopyOnWrite, MapInv, NEW a \in Addr, difmap[a \div PageSize] # -1,
           NEW q \in Pages, difmap[a \div PageSize] # q,
           NEW o \in Int, DiffAt(q) <= o,
           NEW n \in Nat, o + n <= DiffAt(q) + PageSize, NEW page
    PROVE  DiffWritten(o, page, n)[DiffCellOf(a)] = diff[DiffCellOf(a)]
<1> DEFINE d == difmap[a \div PageSize]
           c == DiffCellOf(a)
<1>1. /\ d \in Pages /\ c \in DiffOffsets /\ d # q
      /\ DiffAt(d) <= c /\ c < DiffAt(d) + PageSize
  BY CellFacts
<1>2. d \in Nat /\ q \in Nat /\ PageSize \in Nat \ {0} /\ c \in Nat
  BY <1>1, SizeAssumption DEF Pages, DiffOffsets
<1>3. DiffAt(d) \in Nat /\ DiffAt(q) \in Nat
  BY <1>2 DEF DiffAt
<1>4. d < q => DiffAt(d) + PageSize <= DiffAt(q)
  BY <1>2, Times DEF DiffAt
<1>5. q < d => DiffAt(q) + PageSize <= DiffAt(d)
  BY <1>2, Times DEF DiffAt
<1> HIDE DEF d, c
<1>6. d < q \/ q < d
  BY <1>1, <1>2
<1>7. ~(o <= c /\ c < o + n)
  BY <1>1, <1>2, <1>3, <1>4, <1>5, <1>6
<1>8. DiffWritten(o, page, n)[c] = diff[c]
  BY <1>1, <1>7 DEF DiffWritten
<1>9. QED
  BY <1>8 DEF c
LEMMA CowInit == Init => CowInv
<1> SUFFICES ASSUME Init
             PROVE  CowInv
  OBVIOUS
<1>1. pc = "header" /\ \A a \in Addr : dev[a][1] = "orig"
  BY DEF Init, Orig
<1>2. QED
  BY <1>1 DEF CowInv

(* The steps that do not touch the diff file, nor what is expected of it.  *)
LEMMA CowQuiet ==
    ASSUME CowInv, UNCHANGED <<dev, difmap, diff>>,
           \/ UNCHANGED <<pc, request, buf, done>>
           \/ Ended'
           \/ pc \in {"header", "payload"} /\ done' = 0
              /\ pc' \in {"rejected", "payload", "io"}
    PROVE  CowInv'
<1>1. CASE UNCHANGED <<pc, request, buf, done>>
  BY <1>1 DEF CowInv, Ended, Stored, DiffCellOf, Touched
<1>2. CASE Ended'
  BY <1>2 DEF CowInv
<1>3. CASE pc \in {"header", "payload"} /\ done' = 0
           /\ pc' \in {"rejected", "payload", "io"}
  <2>1. \A a \in Addr : dev'[a][1] = "data" => Stored(a, dev[a])
    BY <1>3 DEF CowInv, Ended
  <2>2. \A a \in Addr : dev'[a][1] = "data" => Stored(a, dev[a])'
    BY <2>1 DEF Stored, DiffCellOf
  <2>3. 1..done' = {}
    BY <1>3
  <2>4. QED
    BY <1>3, <2>2, <2>3 DEF CowInv, Ended
<1>4. QED
  BY <1>1, <1>2, <1>3

(* A read of a mapped page: the cells that stand for written blocks are    *)
(* what is put in the buffer.                                              *)
LEMMA CowReadDiffStep ==
    CopyOnWrite /\ TypeInv /\ CowInv /\ CowReadDiff => CowInv'
<1> SUFFICES ASSUME CopyOnWrite, TypeInv, CowInv, CowReadDiff
             PROVE  CowInv'
  OBVIOUS
<1> DEFINE from == DiffAt(difmap[Page]) + InPage
           piece == [i \in 1..PieceLen |-> DiffCell(from + i - 1)]
<1>1. /\ pc = "io" /\ request.type = READ /\ ServeInv
      /\ UNCHANGED <<request, difmap, diff, dev>>
  BY DEF CowReadDiff, diffVars, TypeInv
<1>2. \A a \in Addr : dev[a][1] = "data" => Stored(a, dev[a])
  BY <1>1 DEF CowInv, Ended, READ, WRITE
<1>3. \A a \in Addr : dev'[a][1] = "data" => Stored(a, dev[a])'
  BY <1>1, <1>2 DEF Stored, DiffCellOf
<1>4. request.type # WRITE /\ request'.type # WRITE
  BY <1>1 DEF READ, WRITE
<1>5. \/ buf' = buf \o piece /\ PieceDone(lastpoint)
      \/ pc' = "failed"
  BY DEF CowReadDiff, Failed
<1>6. CASE pc' = "failed"
  BY <1>3, <1>6 DEF CowInv
<1>7. CASE buf' = buf \o piece /\ PieceDone(lastpoint)
  <2>1. /\ done' = done + PieceLen
        /\ pc' = "ok" => done' = request.len
        /\ pc' \in {"io", "ok"}
    BY <1>1, <1>7 DEF PieceDone, LastPiece, Served
  <2>2. /\ buf \in Seq(Content) /\ Len(buf) = done /\ done \in Nat
        /\ PieceLen \in 1..request.len - done /\ request.len \in Nat
        /\ At \in Addr /\ request.from \in Nat /\ PieceLen \in Nat
        /\ done + PieceLen \in 1..request.len /\ Valid
    BY <1>1, PieceFacts, ValidRequest DEF ServeInv, Serving, Addr
  <2> DEFINE S == Content \union {piece[i] : i \in 1..PieceLen}
  <2>3. piece \in Seq(S) /\ buf \in Seq(S) /\ Len(piece) = PieceLen
    <3>1. piece \in [1..PieceLen -> S]
      OBVIOUS
    <3>2. buf \in Seq(S)
      BY <2>2
    <3> HIDE DEF piece, S
    <3>3. piece \in Seq(S) /\ Len(piece) = PieceLen
      BY <2>2, <3>1
    <3>4. QED
      BY <3>2, <3>3
  <2> HIDE DEF S
  <2>4. \A i \in 1..done + PieceLen :
           buf'[i] = IF i <= done THEN buf[i] ELSE piece[i - done]
    <3> HIDE DEF piece
    <3>1. QED
      BY <1>7, <2>2, <2>3, ConcatProperties
  <2>5. ASSUME NEW i \in 1..done + PieceLen, dev[request.from + i - 1][1] = "data"
        PROVE  buf'[i] = dev[request.from + i - 1]
    <3>1. CASE i <= done
      <4>1. i \in 1..done
        BY <2>2, <3>1
      <4>2. buf[i] = dev[request.from + i - 1]
        BY <1>1, <2>5, <4>1 DEF CowInv, Ended
      <4>3. QED
        BY <2>4, <3>1, <4>2
    <3>2. CASE ~(i <= done)
      <4> DEFINE a == request.from + i - 1
      <4>1. /\ a \in Addr /\ At <= a /\ a < At + PieceLen /\ a - At = i - done - 1
            /\ i - done \in 1..PieceLen
        <5>1. i \in Nat /\ i > done /\ i <= done + PieceLen /\ At = request.from + done
              /\ request.from + request.len <= ExportSize
          BY <2>2, <3>2, ValidRequest DEF At
        <5>2. /\ request.from \in Nat /\ request.len \in Nat
              /\ done \in Nat /\ PieceLen \in Nat /\ done + PieceLen <= request.len
          BY <2>2
        <5>3. a \in 0..ExportSize - 1
          BY <5>1, <5>2, SizeAssumption
        <5>4. QED
          BY <5>1, <5>2, <5>3 DEF Addr
      <4>2. a \div PageSize = Page /\ a % PageSize = InPage + (a - At)
        <5> HIDE DEF a
        <5>1. QED
          BY <1>1, <4>1, InPiece
      <4>3. Stored(a, dev[a])
        BY <1>2, <2>5, <4>1
      <4>4. difmap[Page] # -1 /\ DiffAt(difmap[Page]) \in Nat
        <5> HIDE DEF a
        <5>1. difmap[a \div PageSize] # -1
          BY <4>3 DEF Stored
        <5>2. MapInv
          BY DEF TypeInv
        <5>3. QED
          BY <4>1, <4>2, <5>1, <5>2, CellFacts
      <4>5. DiffCellOf(a) = from + (i - done) - 1
        <5>1. InPage \in Nat
          BY <1>1, PieceFacts
        <5>2. DiffCellOf(a) = DiffAt(difmap[Page]) + (InPage + (a - At))
          BY <4>2, Zenon DEF DiffCellOf
        <5>3. i - done \in Int
          BY <2>2
        <5> HIDE DEF a
        <5>4. QED
          BY <4>1, <4>4, <5>1, <5>2, <5>3
      <4>6. diff[from + (i - done) - 1] = dev[a]
        BY <4>3, <4>5 DEF Stored
      <4>7. dev[a] # NoData
        BY <2>5 DEF NoData
      <4>8. DiffCell(from + (i - done) - 1) = dev[a]
        BY <4>6, <4>7 DEF DiffCell
      <4>9. piece[i - done] = DiffCell(from + (i - done) - 1)
        BY <4>1
      <4>10. buf'[i] = piece[i - done]
        BY <2>4, <3>2
      <4>11. QED
        BY <4>8, <4>9, <4>10
    <3>3. QED
      BY <3>1, <3>2
  <2>6. \A i \in 1..done' : dev'[request'.from + i - 1][1] = "data"
                               => buf'[i] = dev'[request'.from + i - 1]
    BY <1>1, <2>1, <2>5
  <2>7. QED
    BY <1>1, <1>3, <1>4, <2>1, <2>6 DEF CowInv
<1>8. QED
  BY <1>5, <1>6, <1>7

(* A read of a page that is not mapped: none of its blocks was written.    *)
LEMMA CowReadExportStep ==
    CopyOnWrite /\ TypeInv /\ CowInv /\ CowReadExport => CowInv'
<1> SUFFICES ASSUME CopyOnWrite, TypeInv, CowInv, CowReadExport
             PROVE  CowInv'
  OBVIOUS
<1> DEFINE h == RawHunk(At)  p == RawAt(At)
<1>1. /\ pc = "io" /\ request.type = READ /\ ServeInv /\ ~Mapped
      /\ UNCHANGED <<request, difmap, diff, dev>>
  BY DEF CowReadExport, diffVars, TypeInv
<1>2. \A a \in Addr : dev[a][1] = "data" => Stored(a, dev[a])
  BY <1>1 DEF CowInv, Ended, READ, WRITE
<1>3. \A a \in Addr : dev'[a][1] = "data" => Stored(a, dev[a])'
  BY <1>1, <1>2 DEF Stored, DiffCellOf
<1>4. request.type # WRITE /\ request'.type # WRITE
  BY <1>1 DEF READ, WRITE
<1>5. \/ /\ Readable(h, p, PieceLen)
         /\ buf' = buf \o Slice(h, p, PieceLen) /\ PieceDone(RawOffset(At))
      \/ pc' = "failed"
  BY DEF CowReadExport, Failed
<1>6. CASE pc' = "failed"
  BY <1>3, <1>6 DEF CowInv
<1>7. CASE /\ Readable(h, p, PieceLen)
           /\ buf' = buf \o Slice(h, p, PieceLen) /\ PieceDone(RawOffset(At))
  <2>1. /\ done' = done + PieceLen
        /\ pc' = "ok" => done' = request.len
        /\ pc' \in {"io", "ok"}
    BY <1>1, <1>7 DEF PieceDone, LastPiece, Served
  <2>2. /\ buf \in Seq(Content) /\ Len(buf) = done /\ done \in Nat
        /\ PieceLen \in 1..request.len - done /\ request.len \in Nat
        /\ At \in Addr /\ request.from \in Nat /\ PieceLen \in Nat \ {0}
        /\ done + PieceLen \in 1..request.len /\ Valid
    BY <1>1, PieceFacts, ValidRequest, SMTT(30) DEF ServeInv, Serving, Addr
  <2>3. h \in Hunks /\ p \in 0..FileLimit
    BY <2>2, AddressFacts, RawAtType DEF TypeInv, FilesInv
  <2> HIDE DEF h, p
  <2>4. Slice(h, p, PieceLen) \in Seq(Content)
    BY <1>7, <2>2, <2>3, ReadableData DEF TypeInv, FilesInv
  <2>5. \A i \in 1..done : buf'[i] = buf[i]
    <3>1. Len(buf) + Len(Slice(h, p, PieceLen)) >= done
      BY <2>2, <2>4, LenProperties
    <3>2. QED
      BY <1>7, <2>2, <2>4, <3>1, ConcatProperties
  <2>6. ASSUME NEW i \in 1..done + PieceLen, dev[request.from + i - 1][1] = "data"
        PROVE  buf'[i] = dev[request.from + i - 1]
    <3>1. CASE i <= done
      <4>1. i \in 1..done
        BY <2>2, <3>1
      <4>2. buf[i] = dev[request.from + i - 1]
        BY <1>1, <2>6, <4>1 DEF CowInv, Ended
      <4>3. QED
        BY <2>5, <4>1, <4>2
    <3>2. CASE ~(i <= done)
      <4> DEFINE a == request.from + i - 1
      <4>1. a \in Addr /\ At <= a /\ a < At + PieceLen
        <5>1. i \in Nat /\ i > done /\ i <= done + PieceLen /\ At = request.from + done
              /\ request.from + request.len <= ExportSize
          BY <2>2, <3>2, ValidRequest DEF At
        <5>2. /\ request.from \in Nat /\ request.len \in Nat
              /\ done \in Nat /\ PieceLen \in Nat /\ done + PieceLen <= request.len
          BY <2>2
        <5>3. a \in 0..ExportSize - 1
          BY <5>1, <5>2, SizeAssumption
        <5>4. QED
          BY <5>1, <5>2, <5>3 DEF Addr
      <4>2. Stored(a, dev[a])
        BY <1>2, <2>6, <4>1
      <4> HIDE DEF a
      <4>3. a \div PageSize = Page
        BY <1>1, <4>1, InPiece
      <4>4. QED
        BY <1>1, <4>2, <4>3 DEF Stored, Mapped
    <3>3. QED
      BY <3>1, <3>2
  <2>7. \A i \in 1..done' : dev'[request'.from + i - 1][1] = "data"
                               => buf'[i] = dev'[request'.from + i - 1]
    BY <1>1, <2>1, <2>6
  <2>8. QED
    BY <1>1, <1>3, <1>4, <2>1, <2>7 DEF CowInv
<1>8. QED
  BY <1>5, <1>6, <1>7
(* A write step: what was stored elsewhere stays, and if the piece is      *)
(* complete the buffer is stored.                                          *)
LEMMA CowWriteStep ==
    ASSUME CopyOnWrite, TypeInv, CowInv, pc = "io", request.type = WRITE,
           UNCHANGED <<request, buf, dev>>,
           \A a \in Addr : ~(At <= a /\ a < At + PieceLen) =>
              \A v : Stored(a, v) => Stored(a, v)',
           \/ pc' = "failed"
           \/ /\ \E point : PieceDone(point)
              /\ \A a \in Addr : At <= a /\ a < At + PieceLen
                    => Stored(a, buf[a - request.from + 1])'
    PROVE  CowInv'
<1>1. /\ done \in Nat /\ PieceLen \in 1..request.len - done /\ request.len \in Nat
      /\ At = request.from + done /\ request.from \in Nat
      /\ done + PieceLen \in 1..request.len /\ Valid
      /\ request.from + request.len <= ExportSize /\ PieceLen \in Nat
  BY PieceFacts, ValidRequest DEF TypeInv, ServeInv, Serving, Addr, At
<1>2. pc' \in {"io", "ok", "failed"}
  BY DEF PieceDone, Served
<1>3. request.type # READ
  BY DEF READ, WRITE
<1>4. ASSUME NEW a \in Addr, dev'[a][1] = "data"
      PROVE  Stored(a, dev[a])' \/ Touched(a)'
  <2>1. Stored(a, dev[a]) \/ Touched(a)
    BY <1>4 DEF CowInv, Ended
  <2>2. Touched(a)' = Touched(a)
    BY DEF Touched
  <2>3. At <= a /\ a < At + PieceLen => Touched(a)
    BY <1>1 DEF Touched, Addr
  <2>4. QED
    BY <2>1, <2>2, <2>3
<1>5. CASE pc' = "failed"
  BY <1>3, <1>4, <1>5 DEF CowInv
<1>6. CASE /\ \E point : PieceDone(point)
           /\ \A a \in Addr : At <= a /\ a < At + PieceLen
                 => Stored(a, buf[a - request.from + 1])'
  <2>1. done' = done + PieceLen /\ (pc' = "ok" => done' = request.len)
    BY <1>6 DEF PieceDone, LastPiece, Served
  <2>2. ASSUME NEW i \in 1..done + PieceLen,
               NEW a, a = request.from + i - 1, NEW v, v = buf[i]
        PROVE  Stored(a, v)'
    <3>1. a \in Addr /\ a - request.from + 1 = i
      <4>1. a \in 0..ExportSize - 1
        BY <1>1, <2>2, SizeAssumption
      <4>2. QED
        BY <1>1, <2>2, <4>1 DEF Addr
    <3>2. CASE i <= done
      <4>1. i \in 1..done
        BY <1>1, <3>2
      <4>2. Stored(a, v)
        BY <2>2, <4>1 DEF CowInv, Ended
      <4>3. ~(At <= a)
        BY <1>1, <2>2, <3>2
      <4>4. QED
        BY <3>1, <4>2, <4>3
    <3>3. CASE ~(i <= done)
      <4>1. At <= a /\ a < At + PieceLen
        BY <1>1, <2>2, <3>3
      <4>2. Stored(a, buf[a - request.from + 1])'
        BY <1>6, <3>1, <4>1
      <4>3. buf'[a - request'.from + 1] = v
        BY <2>2, <3>1
      <4>4. QED
        BY <4>2, <4>3 DEF Stored
    <3>4. QED
      BY <3>2, <3>3
  <2>3. ASSUME NEW i \in 1..done'
        PROVE  Stored(request.from + i - 1, buf[i])'
    <3>1. \E a, v : /\ a = request.from + i - 1 /\ v = buf[i]
                    /\ Stored(a, v)'
      BY <2>1, <2>2
    <3>2. QED
      BY <3>1 DEF Stored, DiffCellOf
  <2>4. QED
    BY <1>2, <1>3, <1>4, <2>1, <2>3 DEF CowInv
<1>7. QED
  BY <1>5, <1>6

(* Cells o, o + 1, ... of the diff file holding the addresses b, b + 1, ... *)
LEMMA SpanFacts ==
    ASSUME NEW o \in Int, NEW a \in Int, NEW b \in Int,
           NEW d, d = o + (a - b),
           NEW m \in Nat, NEW n \in 0..m
    PROVE  /\ o <= d /\ d < o + n => b <= a /\ a < b + m
           /\ b <= a /\ a < b + n =>
                 /\ o <= d /\ d < o + n
                 /\ d - o + 1 = a - b + 1 /\ a - b + 1 \in 1..n
OBVIOUS

(* A write to a page that is mapped: its own cells get the piece, and the  *)
(* pages keep to themselves.                                               *)
LEMMA CowWriteMappedStep ==
    CopyOnWrite /\ TypeInv /\ CowInv /\ CowWriteMapped => CowInv'
<1> SUFFICES ASSUME CopyOnWrite, TypeInv, CowInv, CowWriteMapped
             PROVE  CowInv'
  OBVIOUS
<1> DEFINE q == difmap[Page]  o == DiffAt(q) + InPage
           piece == SubSeq(buf, done + 1, done + PieceLen)
<1>1. /\ pc = "io" /\ request.type = WRITE /\ ServeInv /\ MapInv /\ Mapped
      /\ UNCHANGED <<request, buf, difmap, dev>>
  BY DEF CowWriteMapped, TypeInv
<1>2. /\ Page \in Pages /\ InPage \in 0..PageSize - 1 /\ PageSize \in Nat \ {0}
      /\ PieceLen \in Nat /\ InPage + PieceLen <= PageSize
      /\ done \in Nat /\ done + PieceLen <= Len(buf)
      /\ At \in Nat /\ At = request.from + done /\ request.from \in Nat
      /\ buf \in Seq(Content)
  <2>1. PieceLen \in 1..request.len - done /\ request.len \in Nat /\ done \in Nat
        /\ request.from \in Nat
    BY <1>1, PieceFacts, ValidRequest DEF ServeInv, Serving, Addr
  <2>2. Len(buf) = request.len
    BY <1>1 DEF ServeInv
  <2>3. QED
    BY <1>1, <2>1, <2>2, PieceFacts DEF ServeInv, At
<1>3. q \in Pages
  BY <1>1, <1>2 DEF Mapped, MapInv
<1>4. DiffAt(q) \in Nat /\ \A r \in 0..PageSize - 1 : DiffAt(q) + r \in DiffOffsets
  <2>1. 0 \in 0..PageSize - 1
    BY <1>2
  <2>2. QED
    BY <1>3, <2>1, DiffPage
<1>5. o \in Int /\ DiffAt(q) <= o
  BY <1>2, <1>4
<1>6. \/ diff' = DiffWritten(o, piece, PieceLen) /\ PieceDone(lastpoint)
      \/ /\ \E n \in 0..PieceLen - 1 : diff' = DiffWritten(o, piece, n)
         /\ pc' = "failed"
  BY DEF CowWriteMapped, Failed
<1>7. PICK n \in 0..PieceLen : /\ diff' = DiffWritten(o, piece, n)
                               /\ n = PieceLen \/ pc' = "failed"
                               /\ pc' = "failed" \/ PieceDone(lastpoint)
  <2>1. PieceLen \in 0..PieceLen /\ \A n \in 0..PieceLen - 1 : n \in 0..PieceLen
    BY <1>2
  <2>2. QED
    BY <1>6, <2>1
<1>8. \A k \in 1..PieceLen : piece[k] = buf[done + k]
  <2>1. \A i \in done + 1..done + PieceLen : buf[i] \in Content
    <3>1. \A i \in done + 1..done + PieceLen : i \in 1..Len(buf)
      BY <1>2, LenProperties
    <3>2. QED
      BY <1>2, <3>1, ElementOfSeq
  <2>2. done + 1 \in Int /\ done + PieceLen \in Int
        /\ (done + PieceLen) - (done + 1) + 1 = PieceLen
    BY <1>2
  <2>3. \A i \in 1..PieceLen : piece[i] = buf[(done + 1) + i - 1]
    BY <2>1, <2>2, SubSeqProperties
  <2>4. \A i \in 1..PieceLen : (done + 1) + i - 1 = done + i
    BY <1>2
  <2>5. QED
    BY <2>3, <2>4
<1> HIDE DEF piece
<1>9. ASSUME NEW a \in Addr, difmap[a \div PageSize] = q, a \div PageSize = Page
      PROVE  /\ DiffCellOf(a) \in DiffOffsets /\ a \in Nat
             /\ DiffCellOf(a) = o + (a - At)
             /\ (o <= DiffCellOf(a) /\ DiffCellOf(a) < o + n
                   => At <= a /\ a < At + PieceLen)
  <2>1. a \in Nat /\ a = At + ((a % PageSize) - InPage) /\ a % PageSize \in 0..PageSize - 1
    BY <1>1, <1>9, OnPage
  <2>2. DiffCellOf(a) = DiffAt(q) + (a % PageSize)
    BY <1>9 DEF DiffCellOf
  <2>3. DiffCellOf(a) \in DiffOffsets
    BY <1>4, <2>1, <2>2
  <2> HIDE DEF q
  <2>4. DiffCellOf(a) = o + (a - At)
    BY <1>2, <1>4, <2>1, <2>2, SMTT(30)
  <2> HIDE DEF o
  <2>5. o <= DiffCellOf(a) /\ DiffCellOf(a) < o + n => At <= a /\ a < At + PieceLen
    <3>1. a \in Int /\ At \in Int /\ o \in Int /\ PieceLen \in Nat
      BY <1>2, <1>5, <2>1
    <3>2. QED
      BY <3>1, <2>4, SpanFacts
  <2>6. QED
    BY <2>1, <2>3, <2>4, <2>5
<1>10. ASSUME NEW a \in Addr, ~(At <= a /\ a < At + PieceLen),
              NEW v, Stored(a, v)
       PROVE  Stored(a, v)'
  <2>1. difmap[a \div PageSize] # -1 /\ diff[DiffCellOf(a)] = v
    BY <1>10 DEF Stored
  <2>2. DiffCellOf(a)' = DiffCellOf(a)
    BY <1>1 DEF DiffCellOf
  <2>3. diff'[DiffCellOf(a)] = diff[DiffCellOf(a)]
    <3>1. CASE a \div PageSize = Page
      <4>1. /\ DiffCellOf(a) \in DiffOffsets
            /\ ~(o <= DiffCellOf(a) /\ DiffCellOf(a) < o + n)
        BY <1>9, <1>10, <3>1
      <4>2. QED
        BY <1>7, <4>1 DEF DiffWritten
    <3>2. CASE a \div PageSize # Page
      <4>1. a \div PageSize \in Pages
        BY AddressFacts
      <4>2. difmap[a \div PageSize] # q
        BY <1>1, <1>2, <2>1, <3>2, <4>1 DEF MapInv, DiffMapSound
      <4>3. n \in Nat /\ o + n <= DiffAt(q) + PageSize
        BY <1>2, <1>4
      <4> HIDE DEF q, o
      <4>4. QED
        BY <1>1, <1>3, <1>5, <1>7, <2>1, <4>2, <4>3, OtherPage
    <3>3. QED
      BY <3>1, <3>2
  <2>4. QED
    BY <1>1, <2>1, <2>2, <2>3 DEF Stored
<1>11. ASSUME n = PieceLen, NEW a \in Addr, At <= a, a < At + PieceLen
       PROVE  Stored(a, buf[a - request.from + 1])'
  <2>1. a \div PageSize = Page
    BY <1>1, <1>11, InPiece
  <2>2. DiffCellOf(a) \in DiffOffsets /\ DiffCellOf(a) = o + (a - At) /\ a \in Nat
    BY <1>9, <2>1
  <2>3. DiffCellOf(a)' = DiffCellOf(a)
    BY <1>1 DEF DiffCellOf
  <2> HIDE DEF o
  <2>4. /\ o <= DiffCellOf(a) /\ DiffCellOf(a) < o + n
        /\ DiffCellOf(a) - o + 1 = a - At + 1 /\ a - At + 1 \in 1..PieceLen
        /\ done + (a - At + 1) = a - request.from + 1
    <3>1. a \in Int /\ At \in Int /\ o \in Int /\ PieceLen \in Nat
      BY <1>2, <1>5, <2>2
    <3>2. /\ o <= DiffCellOf(a) /\ DiffCellOf(a) < o + n
          /\ DiffCellOf(a) - o + 1 = a - At + 1 /\ a - At + 1 \in 1..n
      BY <3>1, <1>11, <2>2, SpanFacts
    <3>3. done + (a - At + 1) = a - request.from + 1
      BY <1>2, <2>2, SMTT(30)
    <3>4. QED
      BY <1>11, <3>2, <3>3
  <2>5. diff'[DiffCellOf(a)] = piece[DiffCellOf(a) - o + 1]
    BY <1>7, <2>2, <2>4 DEF DiffWritten
  <2>6. diff'[DiffCellOf(a)] = buf[a - request.from + 1]
    BY <1>8, <2>4, <2>5
  <2>7. difmap'[a \div PageSize] # -1
    BY <1>1, <2>1 DEF Mapped
  <2>8. QED
    BY <1>1, <2>3, <2>6, <2>7 DEF Stored
<1>12. QED
  BY <1>1, <1>7, <1>10, <1>11, CowWriteStep

(* The first write to a page: no block of it was written before, and the   *)
(* new page of the diff file is nobody else's.                             *)
LEMMA CowWriteNewStep ==
    CopyOnWrite /\ TypeInv /\ CowInv /\ CowWriteNew => CowInv'
<1> SUFFICES ASSUME CopyOnWrite, TypeInv, CowInv, CowWriteNew
             PROVE  CowInv'
  OBVIOUS
<1> DEFINE h == RawHunk(PageStart)  p == RawAt(PageStart)
           q == difffilelen  o == DiffAt(q)
           page == Merged(Slice(h, p, PageSize))
<1>1. /\ pc = "io" /\ request.type = WRITE /\ ServeInv /\ MapInv /\ ~Mapped
      /\ difmap' = [difmap EXCEPT ![Page] = q]
      /\ UNCHANGED <<request, buf, dev>>
  BY DEF CowWriteNew, MapPage, TypeInv
<1>2. /\ Page \in Pages /\ InPage \in 0..PageSize - 1 /\ PageSize \in Nat \ {0}
      /\ PieceLen \in Nat /\ InPage + PieceLen <= PageSize
      /\ done \in Nat /\ At \in Nat /\ At = request.from + done /\ request.from \in Nat
  <2>1. PieceLen \in 1..request.len - done /\ request.len \in Nat /\ done \in Nat
        /\ request.from \in Nat
    BY <1>1, PieceFacts, ValidRequest DEF ServeInv, Serving, Addr
  <2>2. QED
    BY <1>1, <2>1, PieceFacts DEF ServeInv, At
<1>3. q \in Pages /\ difmap[Page] = -1 /\ q # -1
  <2>1. difmap[Page] = -1
    BY <1>1 DEF Mapped
  <2>2. q \in Pages
    BY <1>1, <1>2, <2>1, FreshPage
  <2>3. QED
    BY <2>1, <2>2 DEF Pages
<1>4. DiffAt(q) \in Nat /\ \A r \in 0..PageSize - 1 : DiffAt(q) + r \in DiffOffsets
  <2>1. 0 \in 0..PageSize - 1
    BY <1>2
  <2>2. QED
    BY <1>3, <2>1, DiffPage
<1>5. \A x \in Pages : difmap'[x] = IF x = Page THEN q ELSE difmap[x]
  BY <1>1 DEF MapInv
<1>6. /\ \/ pc' = "failed"
         \/ /\ diff' = DiffWritten(o, page, PageSize)
            /\ PieceDone(RawOffset(PageStart))
      /\ diff' = diff \/ \E n \in 0..PageSize : diff' = DiffWritten(o, page, n)
  <2>1. PageSize \in 0..PageSize /\ \A n \in 0..PageSize - 1 : n \in 0..PageSize
    BY <1>2
  <2>2. \/ diff' = DiffWritten(o, page, PageSize) /\ PieceDone(RawOffset(PageStart))
        \/ pc' = "failed" /\ diff' = diff
        \/ /\ pc' = "failed"
           /\ \E n \in 0..PageSize - 1 : diff' = DiffWritten(o, page, n)
    BY DEF CowWriteNew, Failed
  <2> HIDE DEF page, o
  <2>3. QED
    BY <2>1, <2>2
<1>7. ASSUME NEW a \in Addr, NEW v, Stored(a, v)
      PROVE  Stored(a, v)'
  <2>1. difmap[a \div PageSize] # -1 /\ diff[DiffCellOf(a)] = v
    BY <1>7 DEF Stored
  <2>2. a \div PageSize \in Pages /\ a \div PageSize # Page
    BY <1>3, <2>1, AddressFacts
  <2>3. difmap'[a \div PageSize] = difmap[a \div PageSize]
    BY <1>5, <2>2
  <2>4. DiffCellOf(a)' = DiffCellOf(a)
    BY <2>3 DEF DiffCellOf
  <2>5. difmap[a \div PageSize] # q
    <3>1. difmap[a \div PageSize] < q /\ q \in Nat
      BY <1>1, <2>1, <2>2 DEF MapInv, DiffMapSound
    <3>2. difmap[a \div PageSize] \in Int
      BY <1>1, <2>2 DEF MapInv, Pages
    <3> HIDE DEF q
    <3>3. QED
      BY <3>1, <3>2
  <2>6. diff'[DiffCellOf(a)] = diff[DiffCellOf(a)]
    <3>1. CASE diff' = diff
      BY <3>1
    <3>2. CASE \E n \in 0..PageSize : diff' = DiffWritten(o, page, n)
      <4>1. PICK n \in 0..PageSize : diff' = DiffWritten(o, page, n)
        BY <3>2
      <4>2. n \in Nat /\ o \in Int /\ DiffAt(q) <= o /\ o + n <= DiffAt(q) + PageSize
        BY <1>2, <1>4
      <4> HIDE DEF q, o, page
      <4>3. QED
        BY <1>1, <1>3, <2>1, <2>5, <4>1, <4>2, OtherPage
    <3>3. QED
      BY <1>6, <3>1, <3>2
  <2>7. QED
    BY <2>1, <2>3, <2>4, <2>6 DEF Stored
<1>8. ASSUME diff' = DiffWritten(o, page, PageSize),
             NEW a \in Addr, At <= a, a < At + PieceLen
      PROVE  Stored(a, buf[a - request.from + 1])'
  <2> DEFINE r == InPage + (a - At)
  <2>1. a \div PageSize = Page /\ a % PageSize = r
    BY <1>1, <1>8, InPiece
  <2>2. a \in Nat
    BY DEF Addr
  <2>3. /\ r \in 0..PageSize - 1 /\ r + 1 \in 1..PageSize
        /\ InPage < r + 1 /\ r + 1 <= InPage + PieceLen
        /\ done + (r + 1) - InPage = a - request.from + 1
    BY <1>2, <1>8, <2>2
  <2> HIDE DEF r
  <2>4. difmap'[a \div PageSize] = q
    BY <1>2, <1>5, <2>1
  <2>5. DiffCellOf(a)' = DiffAt(q) + r
    BY <2>1, <2>4 DEF DiffCellOf, DiffAt
  <2>6. page[r + 1] = buf[a - request.from + 1]
    BY <2>3 DEF Merged
  <2> HIDE DEF page, q
  <2>7. DiffAt(q) + r \in DiffOffsets /\ DiffAt(q) <= DiffAt(q) + r
        /\ DiffAt(q) + r < DiffAt(q) + PageSize
        /\ (DiffAt(q) + r) - DiffAt(q) + 1 = r + 1
    BY <1>2, <1>4, <2>3
  <2>8. diff'[DiffAt(q) + r] = page[r + 1]
    BY <1>8, <2>7 DEF DiffWritten
  <2>9. QED
    BY <1>1, <1>3, <2>4, <2>5, <2>6, <2>8 DEF Stored
<1>9. CASE pc' = "failed"
  <2> HIDE DEF q, o, page
  <2>1. QED
    BY <1>1, <1>7, <1>9, CowWriteStep
<1>10. CASE /\ diff' = DiffWritten(o, page, PageSize)
            /\ PieceDone(RawOffset(PageStart))
  <2>1. \A a \in Addr : At <= a /\ a < At + PieceLen
           => Stored(a, buf[a - request.from + 1])'
    BY <1>8, <1>10
  <2> HIDE DEF q, o, page
  <2>2. QED
    BY <1>1, <1>7, <1>10, <2>1, CowWriteStep
<1>11. QED
  BY <1>6, <1>9, <1>10

(* The reply: a served write is expected from now on, a failed one is not. *)
LEMMA CowReply == CopyOnWrite /\ TypeInv /\ CowInv /\ Reply => CowInv'
<1> SUFFICES ASSUME CopyOnWrite, TypeInv, CowInv, Reply
             PROVE  CowInv'
  OBVIOUS
<1>1. /\ pc \in {"ok", "failed", "rejected"} /\ pc' = "header"
      /\ UNCHANGED <<difmap, diff>>
  BY DEF Reply, diffVars
<1>2. ASSUME NEW a \in Addr, dev'[a][1] = "data"
      PROVE  Stored(a, dev'[a])
  <2>1. CASE request.type = READ \/ pc = "rejected"
    BY <1>1, <1>2, <2>1 DEF Reply, CowInv, Ended, READ, WRITE
  <2>2. CASE ~(request.type = READ \/ pc = "rejected")
    <3>1. /\ Valid /\ request.from \in Nat /\ request.len \in Nat
          /\ request.type = WRITE /\ pc \in {"ok", "failed"} /\ a \in Nat
      BY <1>1, <2>2, ValidRequest DEF TypeInv, ServeInv, Serving, Addr
    <3>2. dev'[a] = IF ~Touched(a) THEN dev[a]
                    ELSE IF pc = "failed" THEN Any
                    ELSE buf[a - request.from + 1]
      BY <2>2 DEF Reply
    <3>3. CASE ~Touched(a)
      BY <1>1, <1>2, <3>2, <3>3 DEF CowInv, Ended
    <3>4. CASE Touched(a)
      <4>1. pc = "ok"
        BY <1>2, <3>1, <3>2, <3>4 DEF Any
      <4>2. a - request.from + 1 \in 1..done
            /\ request.from + (a - request.from + 1) - 1 = a
        BY <3>1, <3>4, <4>1 DEF Touched, CowInv, Ended
      <4>3. Stored(a, buf[a - request.from + 1])
        BY <3>1, <4>1, <4>2 DEF CowInv, Ended
      <4>4. QED
        BY <3>2, <3>4, <4>1, <4>3
    <3>5. QED
      BY <3>3, <3>4
  <2>3. QED
    BY <2>1, <2>2
<1>3. \A a \in Addr : dev'[a][1] = "data" => Stored(a, dev[a])'
  BY <1>1, <1>2 DEF Stored, DiffCellOf
<1>4. QED
  BY <1>1, <1>3 DEF CowInv

LEMMA CowStep == CopyOnWrite /\ TypeInv /\ CowInv /\ [Next]_vars => CowInv'
<1> SUFFICES ASSUME CopyOnWrite, TypeInv, CowInv, [Next]_vars
             PROVE  CowInv'
  OBVIOUS
<1>1. CASE Client
  <2>1. UNCHANGED <<pc, request, buf, done, difmap, diff, dev>>
    BY <1>1 DEF Client, ClientSend, ClientDisconnect, ConnectionLost, serverVars,
                diffVars
  <2>2. QED
    BY <2>1, CowQuiet
<1>2. CASE ReadHeader
  <2>1. /\ pc = "header" /\ done' = 0 /\ UNCHANGED <<dev, difmap, diff>>
        /\ pc' \in {"exited", "rejected", "payload", "io"}
    BY <1>2 DEF ReadHeader, Exit, diffVars
  <2>2. Ended' \/ pc' \in {"rejected", "payload", "io"}
    BY <2>1 DEF Ended
  <2>3. QED
    BY <2>1, <2>2, CowQuiet
<1>3. CASE ReadPayload
  <2>1. /\ pc = "payload" /\ pc' = "io" /\ done' = done
        /\ UNCHANGED <<dev, difmap, diff>>
    BY <1>3 DEF ReadPayload, diffVars
  <2>2. done = 0
    BY <2>1 DEF CowInv, Ended
  <2>3. QED
    BY <2>1, <2>2, CowQuiet
<1>4. CASE ReadFailed \/ Alarm \/ ReplyFailed \/ Overrun
  <2>1. Ended' /\ UNCHANGED <<dev, difmap, diff>>
    BY <1>4 DEF ReadFailed, Alarm, ReplyFailed, Overrun, Exit, Ended, diffVars
  <2>2. QED
    BY <2>1, CowQuiet
<1>5. CASE PlainRead \/ PlainWrite
  BY <1>5 DEF PlainRead, PlainWrite, Direct
<1>6. CASE CowReadDiff \/ CowReadExport \/ CowWriteMapped \/ CowWriteNew
  BY <1>6, CowReadDiffStep, CowReadExportStep, CowWriteMappedStep, CowWriteNewStep
<1>7. CASE Reply
  BY <1>7, CowReply
<1>8. CASE UNCHANGED vars
  <2>1. UNCHANGED <<pc, request, buf, done, difmap, diff, dev>>
    BY <1>8 DEF vars
  <2>2. QED
    BY <2>1, CowQuiet
<1>9. QED
  BY <1>1, <1>2, <1>3, <1>4, <1>5, <1>6, <1>7, <1>8 DEF Next, Server, Io

(* With -c, what the client has successfully written is what a successful  *)
(* read returns, for every export, page and buffer size: through reads and *)
(* writes of parts of pages, pages reused, and operations that fail half-  *)
(* way.  (What was never written may be read wrongly: nbd_cow_reads.)      *)
THEOREM WrittenIsReadBack == CopyOnWrite => (Spec => []WrittenReadBack)
<1> SUFFICES ASSUME CopyOnWrite
             PROVE  Spec => []WrittenReadBack
  OBVIOUS
<1>1. Init => OrderInv /\ PairInv /\ TypeInv /\ CowInv
  BY OrderInit, PairInit, TypesInit, CowInit
<1>2. OrderInv /\ PairInv /\ TypeInv /\ CowInv /\ [Next]_vars
         => (OrderInv /\ PairInv /\ TypeInv /\ CowInv)'
  BY OrderStep, TypesStep, CowStep
<1>3. CowInv => WrittenReadBack
  BY DEF CowInv, Ended, WrittenReadBack
<1>4. QED
  BY <1>1, <1>2, <1>3, PTL DEF Spec
=============================================================================
