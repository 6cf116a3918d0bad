---------------------------- MODULE Cache_proofs ----------------------------
(***************************************************************************)
(* The cache is invisible, for any number of blocks and words, any         *)
(* accesses, any latency and any errors of the memory behind it.           *)
(***************************************************************************)
EXTENDS CacheSystem, TLAPS

-----------------------------------------------------------------------------
\* The inductive invariant, in three layers: the control engine, what a
\* synchronization has done so far, and where the words are.

Request_o == Cache!bus_req_o
Uploading == Cache!Writing \/ Cache!In({"WRITE_DONE"})
Downloading == Cache!Reading \/ Cache!In({"READ_DONE"})

\* The engine works on an access of the host, not on a synchronization.
Serving == \/ Cache!In({"CHECK", "BYPASS"}) \/ Downloading
           \/ Uploading /\ ~ctrl.sync

SyncInv ==
  /\ Cache!In({"SYNC_DELAY", "SYNC_CHECK", "SYNC_NEXT"}) => ctrl.sync
  /\ Cache!In({"CHECK", "BYPASS", "SYNC_START"}) \/ Downloading => ~ctrl.sync

\* The offset of the words requested runs ahead of that of the words stored, in
\* bursts only, and never past the block.
OffsetInv ==
  /\ Cache!In({"READ_START", "READ_WAIT", "WRITE_START", "WRITE_REQ", "WRITE_RSP"}) =>
       ctrl.ofs_ext = ctrl.ofs_int /\ (bursts_en => ctrl.ofs_int = 0)
  /\ Cache!In({"READ_BURST"}) =>
       1 <= ctrl.ofs_int /\ ctrl.ofs_int <= ctrl.ofs_ext /\ ctrl.ofs_ext <= BLOCK
  /\ Cache!In({"WRITE_WAIT"}) => ctrl.ofs_int = 1 /\ ctrl.ofs_ext = 1
  /\ Cache!In({"WRITE_BURST"}) =>
       /\ 1 <= ctrl.ofs_int /\ ctrl.ofs_int <= ctrl.ofs_buf
       /\ \/ ctrl.ofs_ext = ctrl.ofs_buf + 1 /\ ctrl.ofs_buf <= BLOCK
          \/ ctrl.ofs_ext = BLOCK + 1 /\ ctrl.ofs_buf = BLOCK + 1

\* The host waits as long as the engine works for it; an access that meets a
\* synchronization is shown or stored.
HostInv ==
  /\ Serving => busy /\ ~host.stb
  /\ host.stb => busy
  /\ ctrl.pnd_req => busy /\ (Serving => Cache!In({"CHECK"}))
  /\ busy /\ ~Serving => host.stb \/ ctrl.pnd_req
  /\ ctrl.bp_req => Cache!In({"BYPASS", "READ_START", "WRITE_START", "IDLE"})

ControlInv == SyncInv /\ OffsetInv /\ HostInv /\ Outstanding = Requested

-----------------------------------------------------------------------------
\* A read-only cache has nothing to write.
ReadOnlyInv == /\ ~rd.drt /\ ~Uploading
               /\ \A i \in Cache!Index : ~lines[i].drt

\* The blocks a synchronization has passed are invalid, or dirty after an error.
FlushInv ==
  /\ ctrl.sync /\ ~Cache!In({"IDLE"}) =>
       \A i \in Cache!Index : i < ctrl.idx /\ lines[i].vld => failed /\ lines[i].drt
  /\ ctrl.sync /\ (Uploading \/ Cache!In({"SYNC_NEXT"})) /\ ctrl.bus_err => failed
  /\ READ_ONLY => ReadOnlyInv
  /\ Cache!In({"SYNC_NEXT"}) /\ ctrl.bus_err => ~READ_ONLY

-----------------------------------------------------------------------------
\* Where the words are.  The block at hand is that at the index; while it is
\* downloaded its address is that of the access.

At(tag, i, o) == [tag |-> tag, idx |-> i, ofs |-> o]
BlockTag == IF Downloading THEN ctrl.tag ELSE lines[ctrl.idx].tag
Place(o) == At(BlockTag, ctrl.idx, o)
Here(o)  == lines[ctrl.idx].data[o]
Same(o)  == Here(o) = Content(Place(o))

\* A valid block is a copy of memory unless it is dirty, and then but for the
\* words nobody can have written.
CopyOf(i, o) == lines[i].data[o] = Content(At(lines[i].tag, i, o))
CleanInv ==
  \A i \in Cache!Index, o \in Cache!Offset :
    /\ lines[i].vld /\ ~Filling(i)
    /\ ~lines[i].drt \/ At(lines[i].tag, i, o) \notin Accessed
    => CopyOf(i, o)

\* A block in transfer is copied word by word, in order: the words answered,
\* then those requested.
Answered == ctrl.ofs_int + (IF rsp.ack THEN 1 ELSE 0)
Asks(request, o) == /\ request.addr = Place(o)
                    /\ request.rw <=> Cache!Writing
                    /\ Cache!Writing => request.data = Here(o)
TransferInv ==
  Cache!Reading \/ Cache!Writing =>
    /\ \A k \in 1 .. Len(queue) : Asks(queue[k], Answered + k - 1)
    /\ rsp.ack /\ ~rsp.err => IF Cache!Writing THEN Same(ctrl.ofs_int)
                              ELSE rsp.data = Content(Place(ctrl.ofs_int))

\* The words stored so far are the same in memory, unless one had an error.
Copied == IF Cache!In({"READ_DONE", "WRITE_DONE", "SYNC_NEXT"}) THEN BLOCK ELSE ctrl.ofs_int
CopiedInv ==
  \/ Uploading \/ Downloading
  \/ Cache!In({"SYNC_NEXT"}) /\ lines[ctrl.idx].vld
  => ctrl.bus_err \/ \A o \in Cache!Offset : o < Copied => Same(o)

\* An upload is of a valid and dirty block, and its words are read in time.
UploadInv ==
  /\ Uploading =>
       /\ lines[ctrl.idx].vld /\ lines[ctrl.idx].drt
       /\ lines[ctrl.idx].tag = IF Cache!In({"WRITE_START"}) /\ ctrl.ofs_int = 0
                                THEN rd.tag ELSE ctrl.tag
  /\ Cache!In({"WRITE_REQ"}) => rd.data = Here(ctrl.ofs_int)
  /\ Cache!In({"WRITE_BURST"}) /\ ctrl.ofs_buf < BLOCK => rd.data = Here(ctrl.ofs_buf)
  /\ Cache!In({"SYNC_NEXT"}) /\ ctrl.bus_err =>
       lines[ctrl.idx].vld /\ lines[ctrl.idx].tag = ctrl.tag

\* The status as the engine sees it when it decides is that of the block, or
\* made up for by the forced flags.
AtHost == lines[host.addr.idx]
CheckInv ==
  /\ ctrl.cln => Cache!In({"CHECK", "SYNC_NEXT", "IDLE"})
  /\ ctrl.hit => Cache!In({"CHECK", "IDLE"})
  /\ Cache!In({"SYNC_CHECK"}) => /\ rd.vld = lines[ctrl.idx].vld
                                 /\ rd.drt = lines[ctrl.idx].drt
  /\ Cache!In({"CHECK"}) =>
       /\ ~ctrl.hit => /\ rd.vld = AtHost.vld /\ rd.tag = AtHost.tag
                       /\ IF ctrl.cln THEN ~AtHost.drt ELSE rd.drt = AtHost.drt
       /\ ctrl.hit => AtHost.vld /\ AtHost.tag = host.addr.tag /\ ~ctrl.pnd_bp
       /\ ~ctrl.pnd_bp /\ Cache!hit => rd.data = AtHost.data[host.addr.ofs]
  /\ Downloading => ~ctrl.pnd_bp /\ ctrl.tag = host.addr.tag
  /\ Serving /\ ~Cache!In({"CHECK"}) => ctrl.idx = host.addr.idx
  /\ Uploading /\ ~ctrl.sync /\ ~ctrl.pnd_bp => lines[ctrl.idx].tag /= host.addr.tag

\* The access of the host.  A bypassed one is performed by the memory, and the
\* word it reads is still the one the host saw when it asked.
Performed == Cache!In({"BYPASS"}) /\ rsp.ack
Reads == ~host.rw \/ host.amo
AccessInv ==
  /\ busy => host.addr \in Accessed /\ (READ_ONLY => ~host.rw)
  /\ busy /\ Reads /\ ~Performed => before = View(host.addr)
  /\ Cache!In({"BYPASS"}) =>
       /\ ~(AtHost.vld /\ AtHost.tag = host.addr.tag)
       /\ \A k \in 1 .. Len(queue) : /\ queue[k].addr = host.addr
                                     /\ queue[k].rw <=> host.rw
                                     /\ queue[k].data = host.data
       /\ rsp.ack /\ ~rsp.err => /\ Reads => rsp.data = before
                                 /\ host.rw => Content(host.addr) = host.data

DataInv == CleanInv /\ TransferInv /\ CopiedInv /\ UploadInv /\ CheckInv /\ AccessInv

IInv == TypeOK /\ ControlInv /\ FlushInv /\ DataInv

-----------------------------------------------------------------------------
\* Arithmetic.

LEMMA Modulo ==
  ASSUME NEW m \in Nat \ {0}, NEW n \in 0 .. m - 1
  PROVE  n % m = n
OBVIOUS

LEMMA NextModulo ==
  ASSUME NEW m \in Nat \ {0}, NEW n \in 0 .. m - 1
  PROVE  (n + 1) % m = IF n = m - 1 THEN 0 ELSE n + 1
<1>1. CASE n = m - 1
  <2>1. m % m = 0
    OBVIOUS
  <2>2. QED BY <1>1, <2>1
<1>2. CASE n /= m - 1
  BY <1>2
<1>3. QED BY <1>1, <1>2

LEMMA ModuloRange ==
  ASSUME NEW m \in Nat \ {0}, NEW n \in Nat
  PROVE  n % m \in 0 .. m - 1
OBVIOUS

-----------------------------------------------------------------------------
\* What each step of the engine does to its registers, field by field.

To(state, sync, err, tag, idx, int, ext) ==
  /\ ctrl'.state = state /\ (ctrl'.sync <=> sync) /\ (ctrl'.bus_err <=> err)
  /\ ctrl'.tag = tag /\ ctrl'.idx = idx
  /\ ctrl'.ofs_int = int /\ ctrl'.ofs_ext = ext /\ ctrl'.ofs_buf = ctrl.ofs_ext
Flags(req, bypass, once, hit, clean) ==
  /\ ctrl'.pnd_req <=> req
  /\ ctrl'.pnd_bp  <=> bypass
  /\ ctrl'.bp_req  <=> once
  /\ ctrl'.hit     <=> hit
  /\ ctrl'.cln     <=> clean

Req == ctrl.pnd_req \/ host.stb
Goes(state) == To(state, ctrl.sync, ctrl.bus_err, ctrl.tag, ctrl.idx,
                  ctrl.ofs_int, ctrl.ofs_ext)
Plain == Flags(Req, ctrl.pnd_bp, FALSE, FALSE, FALSE)
Accepts(state) == /\ To(state, ctrl.sync, ctrl.bus_err, host.addr.tag, host.addr.idx, 0, 0)
                  /\ Flags(FALSE, ctrl.pnd_bp, TRUE, FALSE, FALSE)
Wrapped == IF ctrl.ofs_int = BLOCK - 1 THEN 0 ELSE ctrl.ofs_int + 1
Receives(state, ext) == To(state, ctrl.sync, ctrl.bus_err \/ rsp.err, ctrl.tag, ctrl.idx,
                           Wrapped, ext)

LEMMA Arithmetic ==
  ASSUME TypeOK, OffsetInv
  PROVE  /\ Cache!NextWord = Wrapped
         /\ Cache!In({"READ_WAIT", "WRITE_RSP", "WRITE_WAIT"}) =>
              (ctrl.ofs_ext + 1) % (2 * BLOCK) = ctrl.ofs_ext + 1
         /\ Cache!In({"WRITE_BURST"}) /\ ctrl.ofs_buf < BLOCK =>
              (ctrl.ofs_ext + 1) % (2 * BLOCK) = ctrl.ofs_ext + 1
         /\ ctrl.idx /= NUM_BLOCKS - 1 => (ctrl.idx + 1) % NUM_BLOCKS = ctrl.idx + 1
         /\ ctrl.idx = NUM_BLOCKS - 1 => (ctrl.idx + 1) % NUM_BLOCKS = 0
<1>1. Cache!NextWord = Wrapped
  <2>1. BLOCK \in Nat \ {0} /\ ctrl.ofs_int \in 0 .. BLOCK - 1
    BY CacheAssumption DEF TypeOK
  <2>2. QED BY <2>1, NextModulo DEF Cache!NextWord, Wrapped
<1>2. ASSUME ctrl.ofs_ext <= BLOCK
      PROVE  (ctrl.ofs_ext + 1) % (2 * BLOCK) = ctrl.ofs_ext + 1
  <2>1. 2 * BLOCK \in Nat \ {0} /\ ctrl.ofs_ext + 1 \in 0 .. 2 * BLOCK - 1
    BY <1>2, CacheAssumption DEF TypeOK
  <2>2. QED BY <2>1, Modulo
<1>3. Cache!In({"READ_WAIT", "WRITE_RSP", "WRITE_WAIT"}) => ctrl.ofs_ext <= BLOCK
  BY CacheAssumption DEF TypeOK, OffsetInv, Cache!In
<1>4. Cache!In({"WRITE_BURST"}) /\ ctrl.ofs_buf < BLOCK => ctrl.ofs_ext <= BLOCK
  BY CacheAssumption DEF TypeOK, OffsetInv, Cache!In
<1>5. NUM_BLOCKS \in Nat \ {0} /\ ctrl.idx \in 0 .. NUM_BLOCKS - 1
  BY CacheAssumption DEF TypeOK
<1>6. (ctrl.idx + 1) % NUM_BLOCKS = IF ctrl.idx = NUM_BLOCKS - 1 THEN 0 ELSE ctrl.idx + 1
  BY <1>5, NextModulo
<1>7. QED BY <1>1, <1>2, <1>3, <1>4, <1>6

LEMMA IdleStep ==
  ASSUME TypeOK, Cache!Idle
  PROVE  /\ ctrl.state = "IDLE" /\ Cache!Look(host.addr) /\ lines' = lines
         /\ \E bypass \in BOOLEAN : Flags(Req, bypass, FALSE, FALSE, FALSE)
         /\ To(IF ctrl.pnd_syn THEN "SYNC_START" ELSE IF Req THEN "CHECK" ELSE "IDLE",
               FALSE, FALSE, ctrl.tag, ctrl.idx, ctrl.ofs_int, ctrl.ofs_ext)
<1>1. /\ Cache!Look(host.addr) /\ lines' = lines
      /\ To(IF ctrl.pnd_syn THEN "SYNC_START" ELSE IF Req THEN "CHECK" ELSE "IDLE",
            FALSE, FALSE, ctrl.tag, ctrl.idx, ctrl.ofs_int, ctrl.ofs_ext)
      /\ (ctrl'.pnd_req <=> Req) /\ ~ctrl'.bp_req /\ ~ctrl'.hit /\ ~ctrl'.cln
  BY DEF TypeOK, Cache!Idle, Cache!Default, To, Req
<1>2. ctrl.state = "IDLE"
  BY DEF Cache!Idle
<1>3. (ctrl'.pnd_bp <=> TRUE) \/ (ctrl'.pnd_bp <=> FALSE)
  OBVIOUS
<1>4. QED BY <1>1, <1>2, <1>3 DEF Flags

LEMMA CheckStep ==
  ASSUME TypeOK, Cache!CheckBypass \/ Cache!CheckHit \/ Cache!CheckMiss
  PROVE  /\ ctrl.state = "CHECK" /\ Cache!Look(host.addr)
         /\ \/ /\ ctrl.pnd_bp /\ Cache!hit /\ Cache!drt
               /\ Accepts("WRITE_START") /\ lines' = lines
            \/ /\ ctrl.pnd_bp /\ Cache!hit /\ ~Cache!drt
               /\ Accepts("BYPASS") /\ Cache!Mark(host.addr, FALSE, FALSE)
            \/ /\ ctrl.pnd_bp /\ ~Cache!hit
               /\ Accepts("BYPASS") /\ lines' = lines
            \/ /\ ~ctrl.pnd_bp /\ Cache!hit /\ Accepts("IDLE")
               /\ \/ /\ host.rw /\ ~READ_ONLY
                     /\ lines' = [lines EXCEPT ![host.addr.idx].drt = TRUE,
                                    ![host.addr.idx].data[host.addr.ofs] = host.data]
                  \/ ~(host.rw /\ ~READ_ONLY) /\ lines' = lines
            \/ /\ ~ctrl.pnd_bp /\ ~Cache!hit /\ lines' = lines
               /\ \/ Cache!drt /\ Accepts("WRITE_START")
                  \/ ~Cache!drt /\ Accepts("READ_START")
<1>1. \A s : Cache!Checked(s) => Accepts(s)
  BY DEF TypeOK, Cache!Checked, Cache!Default, Accepts, To, Flags
<1> HIDE DEF Accepts
<1>2. CASE Cache!CheckBypass
  BY <1>1, <1>2 DEF Cache!CheckBypass
<1>3. CASE Cache!CheckHit
  BY <1>1, <1>3 DEF Cache!CheckHit
<1>4. CASE Cache!CheckMiss
  BY <1>1, <1>4 DEF Cache!CheckMiss
<1>5. QED BY <1>2, <1>3, <1>4

LEMMA BypassStep ==
  ASSUME TypeOK, Cache!Bypass
  PROVE  /\ ctrl.state = "BYPASS" /\ Cache!Look(host.addr) /\ lines' = lines
         /\ Plain /\ Goes(IF rsp.ack THEN "IDLE" ELSE "BYPASS")
BY DEF TypeOK, Cache!Bypass, Cache!Default, Plain, Req, Goes, To, Flags

LEMMA SyncSteps ==
  ASSUME TypeOK, OffsetInv
  PROVE  /\ Cache!SyncStart =>
              /\ ctrl.state = "SYNC_START" /\ Cache!Look(host.addr) /\ lines' = lines
              /\ Plain /\ To("SYNC_DELAY", TRUE, ctrl.bus_err, ctrl.tag, 0,
                             ctrl.ofs_int, ctrl.ofs_ext)
         /\ Cache!SyncDelay =>
              /\ ctrl.state = "SYNC_DELAY" /\ Cache!Look(Cache!Own(ctrl.ofs_int))
              /\ lines' = lines /\ Plain /\ Goes("SYNC_CHECK")
         /\ Cache!SyncCheck =>
              /\ ctrl.state = "SYNC_CHECK" /\ Cache!Look(Cache!Own(ctrl.ofs_int))
              /\ lines' = lines /\ Plain
              /\ To(IF Cache!drt THEN "WRITE_START" ELSE "SYNC_NEXT", ctrl.sync,
                    FALSE, ctrl.tag, ctrl.idx, 0, 0)
         /\ Cache!SyncNext =>
              /\ ctrl.state = "SYNC_NEXT" /\ Cache!Look(Cache!Own(ctrl.ofs_int))
              /\ Cache!Mark(Cache!Own(ctrl.ofs_int), ctrl.bus_err, ctrl.bus_err) /\ Plain
              /\ \/ /\ ctrl.idx = NUM_BLOCKS - 1
                    /\ To("IDLE", ctrl.sync, ctrl.bus_err, ctrl.tag, 0, ctrl.ofs_int,
                          ctrl.ofs_ext)
                 \/ /\ ctrl.idx /= NUM_BLOCKS - 1
                    /\ To("SYNC_DELAY", ctrl.sync, ctrl.bus_err, ctrl.tag, ctrl.idx + 1,
                          ctrl.ofs_int, ctrl.ofs_ext)
<1> USE DEF TypeOK, Cache!Default, Plain, Req, Goes, To, Flags
<1>1. CASE Cache!SyncStart
  BY <1>1 DEF Cache!SyncStart, Cache!SyncDelay, Cache!SyncCheck, Cache!SyncNext
<1>2. CASE Cache!SyncDelay
  BY <1>2 DEF Cache!SyncStart, Cache!SyncDelay, Cache!SyncCheck, Cache!SyncNext
<1>3. CASE Cache!SyncCheck
  BY <1>3 DEF Cache!SyncStart, Cache!SyncDelay, Cache!SyncCheck, Cache!SyncNext
<1>4. CASE Cache!SyncNext
  BY <1>4, Arithmetic DEF Cache!SyncStart, Cache!SyncDelay, Cache!SyncCheck, Cache!SyncNext
<1>5. QED BY <1>1, <1>2, <1>3, <1>4

LEMMA ReadSteps ==
  ASSUME TypeOK, OffsetInv
  PROVE  /\ Cache!ReadStart =>
              /\ ctrl.state = "READ_START" /\ Cache!Look(host.addr) /\ lines' = lines
              /\ Plain /\ Goes("READ_WAIT")
         /\ Cache!ReadWait =>
              /\ ctrl.state = "READ_WAIT" /\ Cache!Look(Cache!Own(ctrl.ofs_int))
              /\ Cache!Put(Cache!Own(ctrl.ofs_int), rsp.data) /\ Plain
              /\ \/ ~rsp.ack /\ Goes("READ_WAIT")
                 \/ /\ rsp.ack
                    /\ Receives(IF bursts_en THEN "READ_BURST" ELSE
                                IF ctrl.ofs_int = BLOCK - 1 THEN "READ_DONE" ELSE "READ_START",
                                ctrl.ofs_ext + 1)
         /\ Cache!ReadBurst =>
              /\ ctrl.state = "READ_BURST" /\ Cache!Look(Cache!Own(ctrl.ofs_int))
              /\ Cache!Put(Cache!Own(ctrl.ofs_int), rsp.data) /\ Plain
              /\ \E ext \in {IF ctrl.ofs_ext < BLOCK THEN ctrl.ofs_ext + 1 ELSE ctrl.ofs_ext} :
                 \/ ~rsp.ack /\ To("READ_BURST", ctrl.sync, ctrl.bus_err, ctrl.tag,
                                   ctrl.idx, ctrl.ofs_int, ext)
                 \/ /\ rsp.ack
                    /\ Receives(IF ctrl.ofs_int = BLOCK - 1 THEN "READ_DONE" ELSE "READ_BURST",
                                ext)
         /\ Cache!ReadDone =>
              /\ ctrl.state = "READ_DONE" /\ Cache!Look(host.addr)
              /\ Cache!Mark(host.addr, ~ctrl.bus_err, FALSE)
              /\ Flags(Req, ctrl.pnd_bp, FALSE, TRUE, FALSE)
              /\ Goes(IF ctrl.bus_err THEN "IDLE" ELSE "CHECK")
<1> USE DEF TypeOK, Cache!Default, Plain, Req, Goes, To, Flags, Receives
<1>1. CASE Cache!ReadStart
  BY <1>1 DEF Cache!ReadStart, Cache!ReadWait, Cache!ReadBurst, Cache!ReadDone
<1>2. CASE Cache!ReadWait
  BY <1>2, Arithmetic DEF Cache!ReadStart, Cache!ReadWait, Cache!ReadBurst, Cache!ReadDone,
     Cache!In, Cache!Last
<1>3. CASE Cache!ReadBurst
  <2>1. Cache!bus_req_o.stb <=> ctrl.ofs_ext < BLOCK
    BY <1>3 DEF Cache!ReadBurst, Cache!bus_req_o, Cache!In
  <2>2. QED BY <1>3, <2>1, Arithmetic
        DEF Cache!ReadStart, Cache!ReadWait, Cache!ReadBurst, Cache!ReadDone, Cache!Last
<1>4. CASE Cache!ReadDone
  BY <1>4 DEF Cache!ReadStart, Cache!ReadWait, Cache!ReadBurst, Cache!ReadDone
<1>5. QED BY <1>1, <1>2, <1>3, <1>4

LEMMA WriteSteps ==
  ASSUME TypeOK, OffsetInv
  PROVE  /\ Cache!WriteStart =>
              /\ ctrl.state = "WRITE_START" /\ Cache!Look(Cache!Own(ctrl.ofs_int))
              /\ lines' = lines /\ Plain
              /\ To("WRITE_REQ", ctrl.sync, ctrl.bus_err,
                    IF ctrl.ofs_int = 0 THEN rd.tag ELSE ctrl.tag,
                    ctrl.idx, ctrl.ofs_int, ctrl.ofs_ext)
         /\ Cache!WriteReq =>
              /\ ctrl.state = "WRITE_REQ" /\ Cache!Look(Cache!Own(ctrl.ofs_int))
              /\ lines' = lines /\ Plain /\ Goes("WRITE_RSP")
         /\ Cache!WriteRsp =>
              /\ ctrl.state = "WRITE_RSP" /\ Cache!Look(Cache!Own(ctrl.ofs_int))
              /\ lines' = lines /\ Plain
              /\ \/ ~rsp.ack /\ Goes("WRITE_RSP")
                 \/ /\ rsp.ack
                    /\ Receives(IF bursts_en THEN "WRITE_WAIT" ELSE
                                IF ctrl.ofs_int = BLOCK - 1 THEN "WRITE_DONE" ELSE "WRITE_START",
                                ctrl.ofs_ext + 1)
         /\ Cache!WriteWait =>
              /\ ctrl.state = "WRITE_WAIT" /\ Cache!Look(Cache!Own(ctrl.ofs_ext))
              /\ lines' = lines /\ Plain
              /\ To("WRITE_BURST", ctrl.sync, ctrl.bus_err, ctrl.tag, ctrl.idx,
                    ctrl.ofs_int, ctrl.ofs_ext + 1)
         /\ Cache!WriteBurst =>
              /\ ctrl.state = "WRITE_BURST" /\ Cache!Look(Cache!Own(ctrl.ofs_ext))
              /\ lines' = lines /\ Plain
              /\ \E ext \in {IF ctrl.ofs_buf < BLOCK THEN ctrl.ofs_ext + 1 ELSE ctrl.ofs_ext} :
                 \/ ~rsp.ack /\ To("WRITE_BURST", ctrl.sync, ctrl.bus_err, ctrl.tag,
                                   ctrl.idx, ctrl.ofs_int, ext)
                 \/ /\ rsp.ack
                    /\ Receives(IF ctrl.ofs_int = BLOCK - 1 THEN "WRITE_DONE" ELSE "WRITE_BURST",
                                ext)
         /\ Cache!WriteDone =>
              /\ ctrl.state = "WRITE_DONE" /\ Cache!Look(Cache!Own(ctrl.ofs_int))
              /\ IF ctrl.sync THEN lines' = lines
                 ELSE Cache!Mark(Cache!Own(ctrl.ofs_int), ~ctrl.bus_err, FALSE)
              /\ Flags(Req, ctrl.pnd_bp, FALSE, FALSE, TRUE)
              /\ Goes(IF ctrl.sync THEN "SYNC_NEXT"
                      ELSE IF ctrl.bus_err THEN "IDLE" ELSE "CHECK")
<1> USE DEF TypeOK, Cache!Default, Plain, Req, Goes, To, Flags, Receives, Cache!WriteStart,
            Cache!WriteReq, Cache!WriteRsp, Cache!WriteWait, Cache!WriteBurst, Cache!WriteDone
<1>1. CASE Cache!WriteStart
  BY <1>1
<1>2. CASE Cache!WriteReq
  BY <1>2
<1>3. CASE Cache!WriteRsp
  BY <1>3, Arithmetic DEF Cache!In, Cache!Last
<1>4. CASE Cache!WriteWait
  BY <1>4, Arithmetic DEF Cache!In
<1>5. CASE Cache!WriteBurst
  <2>1. Cache!bus_req_o.stb <=> ctrl.ofs_buf < BLOCK
    BY <1>5 DEF Cache!bus_req_o, Cache!In
  <2>2. QED BY <1>5, <2>1, Arithmetic DEF Cache!In, Cache!Last
<1>6. CASE Cache!WriteDone
  BY <1>6
<1>7. QED BY <1>1, <1>2, <1>3, <1>4, <1>5, <1>6

-----------------------------------------------------------------------------
\* The memory and the host.

LEMMA OwnAddress ==
  ASSUME TypeOK, NEW ofs \in Nat
  PROVE  /\ Cache!Own(ofs) \in Address
         /\ Cache!Own(ofs).tag = ctrl.tag /\ Cache!Own(ofs).idx = ctrl.idx
         /\ ofs < BLOCK => Cache!Own(ofs).ofs = ofs
<1>1. ofs % BLOCK \in 0 .. BLOCK - 1
  BY CacheAssumption, ModuloRange
<1>2. ofs < BLOCK => ofs % BLOCK = ofs
  BY CacheAssumption, Modulo
<1>3. QED BY <1>1, <1>2 DEF TypeOK, Cache!Own, Address

LEMMA RequestInType ==
  ASSUME TypeOK
  PROVE  Cache!bus_req_o \in RequestType
<1>1. CASE Cache!In({"BYPASS"})
  BY <1>1 DEF TypeOK, RequestType, Cache!bus_req_o
<1>2. CASE ~Cache!In({"BYPASS"})
  <2> DEFINE stb == \/ Cache!In({"READ_START", "WRITE_REQ"})
                    \/ Cache!In({"READ_BURST"}) /\ ctrl.ofs_ext < BLOCK
                    \/ Cache!In({"WRITE_BURST"}) /\ ctrl.ofs_buf < BLOCK
             lock == Cache!Reading \/ Cache!Writing
             ofs == IF Cache!In({"WRITE_WAIT", "WRITE_BURST"}) THEN ctrl.ofs_buf
                                                               ELSE ctrl.ofs_ext
             addr == Cache!Own(ofs)
  <2>1. stb \in BOOLEAN /\ lock \in BOOLEAN /\ Cache!Writing \in BOOLEAN
    BY DEF Cache!Writing, Cache!In
  <2>2. addr \in Address
    <3>1. ctrl.ofs_buf \in Nat /\ ctrl.ofs_ext \in Nat
      BY CacheAssumption DEF TypeOK
    <3>2. QED BY <3>1, OwnAddress
  <2>3. Cache!bus_req_o = [stb |-> stb, lock |-> lock, rw |-> Cache!Writing, amo |-> FALSE,
                           addr |-> addr, data |-> rd.data]
    BY <1>2 DEF Cache!bus_req_o
  <2>4. rd.data \in Stored
    BY DEF TypeOK
  <2> HIDE DEF stb, lock, ofs, addr
  <2>5. QED BY <2>1, <2>2, <2>3, <2>4 DEF RequestType
<1>3. QED BY <1>1, <1>2

\* The accesses the memory has to answer, with that of this clock.
Pending == IF Cache!bus_req_o.stb THEN Append(queue, Cache!bus_req_o) ELSE queue

LEMMA PendingType ==
  ASSUME TypeOK
  PROVE  /\ Pending \in Seq(RequestType)
         /\ Len(Pending) = Len(queue) + (IF Cache!bus_req_o.stb THEN 1 ELSE 0)
         /\ \A k \in 1 .. Len(queue) : Pending[k] = queue[k]
         /\ Cache!bus_req_o.stb => Pending[Len(queue) + 1] = Cache!bus_req_o
BY RequestInType DEF TypeOK, Pending

\* It answers none of them, or the first.
Answers(access) ==
  /\ Pending /= << >> /\ access = Head(Pending) /\ queue' = Tail(Pending) /\ rsp'.ack
  /\ \/ /\ ~rsp'.err /\ rsp'.data = Content(access.addr)
        /\ mem' = IF access.rw /\ access.addr \in Accessed
                  THEN [mem EXCEPT ![access.addr] = access.data] ELSE mem
     \/ rsp'.err /\ rsp'.data = Junk /\ mem' = mem
LEMMA MemoryStep ==
  ASSUME TypeOK, Memory
  PROVE  \/ ~rsp'.ack /\ ~rsp'.err /\ rsp'.data = Junk /\ queue' = Pending /\ mem' = mem
         \/ \E access \in RequestType : Answers(access)
<1>1. CASE rsp' = NoAnswer /\ queue' = Pending /\ UNCHANGED mem
  BY <1>1 DEF NoAnswer
<1>2. CASE ~(rsp' = NoAnswer /\ queue' = Pending /\ UNCHANGED mem)
  <2>1. Pending /= << >> /\ Head(Pending) \in RequestType
    BY <1>2, PendingType DEF Memory, Pending
  <2>2. Answers(Head(Pending))
    BY <1>2, <2>1 DEF Memory, Pending, Answers
  <2>3. QED BY <2>1, <2>2
<1>3. QED BY <1>1, <1>2

LEMMA ContentType ==
  ASSUME TypeOK, NEW a \in Address
  PROVE  Content(a) \in Stored
BY DEF TypeOK, Content, Word, Stored

LEMMA MemoryType ==
  ASSUME TypeOK, Memory
  PROVE  /\ queue' \in Seq(RequestType)
         /\ mem' \in [Accessed -> Stored]
         /\ rsp' \in [ack : BOOLEAN, err : BOOLEAN, data : Stored]
         /\ Outstanding' = Len(Pending)
<1>1. CASE rsp' = NoAnswer /\ queue' = Pending /\ UNCHANGED mem
  BY <1>1, PendingType DEF TypeOK, NoAnswer, Stored, Outstanding
<1>2. CASE ~(rsp' = NoAnswer /\ queue' = Pending /\ UNCHANGED mem)
  <2>1. PICK access \in RequestType : access = Head(Pending)
    BY <1>2, PendingType DEF Memory, Pending
  <2>2. Content(access.addr) \in Stored
    BY <2>1, ContentType DEF RequestType
  <2>3. /\ Pending /= << >> /\ queue' = Tail(Pending)
        /\ \/ rsp' = [ack |-> TRUE, err |-> FALSE, data |-> Content(access.addr)]
           \/ rsp' = [ack |-> TRUE, err |-> TRUE, data |-> Junk]
        /\ \/ mem' = mem
           \/ mem' = [mem EXCEPT ![access.addr] = access.data]
    BY <1>2, <2>1 DEF Memory, Pending
  <2>4. queue' \in Seq(RequestType) /\ Outstanding' = Len(Pending)
    BY <2>3, PendingType DEF Outstanding
  <2>5. rsp' \in [ack : BOOLEAN, err : BOOLEAN, data : Stored]
    <3>1. Content(access.addr) \in Stored /\ Junk \in Stored
      BY <2>2 DEF Stored
    <3>2. CASE rsp' = [ack |-> TRUE, err |-> FALSE, data |-> Content(access.addr)]
      BY <3>1, <3>2
    <3>3. CASE rsp' = [ack |-> TRUE, err |-> TRUE, data |-> Junk]
      BY <3>1, <3>3
    <3>4. QED BY <2>3, <3>2, <3>3
  <2>6. mem' \in [Accessed -> Stored]
    BY <2>3 DEF TypeOK, RequestType
  <2>7. QED BY <2>4, <2>5, <2>6
<1>3. QED BY <1>1, <1>2

\* The outstanding answers, and the requests of this clock.
LEMMA OutstandingStep ==
  ASSUME TypeOK, Memory
  PROVE  Outstanding' = Outstanding - (IF rsp.ack THEN 1 ELSE 0)
                                    + (IF Cache!bus_req_o.stb THEN 1 ELSE 0)
BY MemoryType, PendingType DEF Outstanding, TypeOK

-----------------------------------------------------------------------------
\* The control engine.

\* It strobes in these states.
LEMMA Strobes ==
  ASSUME TypeOK
  PROVE  Cache!bus_req_o.stb <=>
           \/ ctrl.state \in {"READ_START", "WRITE_REQ"}
           \/ ctrl.state = "BYPASS" /\ ctrl.bp_req
           \/ ctrl.state = "READ_BURST" /\ ctrl.ofs_ext < BLOCK
           \/ ctrl.state = "WRITE_BURST" /\ ctrl.ofs_buf < BLOCK
BY DEF TypeOK, RequestType, Cache!bus_req_o, Cache!In

\* It answers the host in these, and leaves them for the idle state.
LEMMA Acknowledges ==
  ASSUME TypeOK, HostInv
  PROVE  /\ HostAck <=>
              \/ ctrl.state = "BYPASS" /\ rsp.ack
              \/ ctrl.state = "CHECK" /\ ~ctrl.pnd_bp /\ Cache!hit
              \/ ctrl.state = "READ_DONE" /\ ctrl.bus_err
              \/ ctrl.state = "WRITE_DONE" /\ ctrl.bus_err /\ ~ctrl.sync
         /\ HostErr <=>
              \/ ctrl.state = "BYPASS" /\ rsp.ack /\ rsp.err
              \/ ctrl.state = "READ_DONE" /\ ctrl.bus_err
              \/ ctrl.state = "WRITE_DONE" /\ ctrl.bus_err /\ ~ctrl.sync
<1>1. CASE ctrl.state = "BYPASS"
  BY <1>1 DEF HostInv, HostAck, HostErr, Serving, Downloading, Uploading, Cache!host_rsp_o,
     Cache!In
<1>2. CASE ctrl.state /= "BYPASS"
  <2>1. Cache!host_rsp_o.ack <=> Cache!Failing \/ (Cache!In({"CHECK"}) /\ ~ctrl.pnd_bp /\ Cache!hit)
    BY <1>2 DEF Cache!host_rsp_o, Cache!In
  <2>2. Cache!host_rsp_o.err <=> Cache!Failing
    BY <1>2 DEF Cache!host_rsp_o, Cache!In
  <2>3. ctrl.state \in {"CHECK", "READ_DONE"} \/ (ctrl.state = "WRITE_DONE" /\ ~ctrl.sync) => busy
    BY DEF HostInv, Serving, Downloading, Uploading, Cache!In
  <2>4. QED BY <1>2, <2>1, <2>2, <2>3 DEF HostAck, HostErr, Cache!Failing, Cache!In
<1>3. QED BY <1>1, <1>2

LEMMA HostStep ==
  ASSUME TypeOK, Host
  PROVE  /\ ~HostAck /\ busy => busy' /\ ~host'.stb /\ host' = [host EXCEPT !.stb = FALSE]
         /\ HostAck \/ ~busy => (host'.stb <=> busy')
<1>1. CASE busy /\ ~HostAck
  BY <1>1 DEF Host, Wait, TypeOK, RequestType
<1>2. CASE ~(busy /\ ~HostAck)
  BY <1>2 DEF Host, Rest, Request, Idle, HostAck
<1>3. QED BY <1>1, <1>2

LEMMA SyncInvStep ==
  ASSUME TypeOK, ControlInv, Cache!Clock
  PROVE  SyncInv'
<1> USE DEF ControlInv, SyncInv, Downloading, Cache!In, Cache!Reading, To, Goes, Accepts,
        Receives
<1>1. CASE Cache!Idle \/ Cache!Bypass
  BY <1>1, IdleStep, BypassStep
<1>2. CASE Cache!CheckBypass \/ Cache!CheckHit \/ Cache!CheckMiss
  BY <1>2, CheckStep
<1>3. CASE Cache!SyncStart \/ Cache!SyncDelay \/ Cache!SyncCheck \/ Cache!SyncNext
  BY <1>3, SyncSteps
<1>4. CASE Cache!ReadStart \/ Cache!ReadWait \/ Cache!ReadBurst \/ Cache!ReadDone
  BY <1>4, ReadSteps
<1>5. CASE Cache!WriteStart \/ Cache!WriteReq \/ Cache!WriteRsp
  BY <1>5, WriteSteps
<1>6. CASE Cache!WriteWait \/ Cache!WriteBurst \/ Cache!WriteDone
  BY <1>6, WriteSteps
<1>7. QED BY <1>1, <1>2, <1>3, <1>4, <1>5, <1>6 DEF Cache!Clock

LEMMA OffsetStep ==
  ASSUME TypeOK, ControlInv, Cache!Clock
  PROVE  OffsetInv'
<1>0. /\ bursts_en \in BOOLEAN /\ bursts_en' = bursts_en /\ BLOCK \in Nat /\ BLOCK > 1
      /\ ctrl.ofs_int \in 0 .. BLOCK - 1 /\ ctrl.ofs_ext \in Nat /\ ctrl.ofs_buf \in Nat
      /\ rsp.ack => Outstanding > 0
  BY CacheAssumption DEF Cache!Clock, TypeOK, Outstanding
<1> USE DEF OffsetInv, Cache!In, To, Goes
<1>1. CASE Cache!Idle \/ Cache!Bypass
  BY <1>1, IdleStep, BypassStep
<1>2. CASE Cache!CheckBypass \/ Cache!CheckHit \/ Cache!CheckMiss
  BY <1>0, <1>2, CheckStep DEF Accepts
<1>3. CASE Cache!SyncStart \/ Cache!SyncDelay \/ Cache!SyncCheck \/ Cache!SyncNext
  BY <1>0, <1>3, SyncSteps DEF ControlInv
<1>4. CASE Cache!ReadStart \/ Cache!ReadDone
  BY <1>0, <1>4, ReadSteps DEF ControlInv
<1>5. CASE Cache!ReadWait \/ Cache!WriteRsp
  <2>1. /\ ctrl.state \in {"READ_WAIT", "WRITE_RSP"}
        /\ ctrl.ofs_ext = ctrl.ofs_int /\ (bursts_en => ctrl.ofs_int = 0)
        /\ \/ ~rsp.ack /\ Goes(ctrl.state)
           \/ /\ rsp.ack
              /\ \E next \in {"READ_BURST", "WRITE_WAIT"}, done \in {"READ_DONE", "WRITE_DONE"},
                    more \in {"READ_START", "WRITE_START"} :
                   Receives(IF bursts_en THEN next ELSE
                            IF ctrl.ofs_int = BLOCK - 1 THEN done ELSE more, ctrl.ofs_ext + 1)
    BY <1>5, ReadSteps, WriteSteps DEF ControlInv
  <2>2. CASE ~rsp.ack
    BY <1>0, <2>1, <2>2
  <2>3. CASE rsp.ack /\ bursts_en
    BY <1>0, <2>1, <2>3 DEF Receives, Wrapped
  <2>4. CASE rsp.ack /\ ~bursts_en
    BY <1>0, <2>1, <2>4 DEF Receives, Wrapped
  <2>5. QED BY <2>2, <2>3, <2>4
<1>6. CASE Cache!ReadBurst
  <2>1. /\ ctrl.state = "READ_BURST"
        /\ \E ext \in {IF ctrl.ofs_ext < BLOCK THEN ctrl.ofs_ext + 1 ELSE ctrl.ofs_ext} :
                 \/ ~rsp.ack /\ To("READ_BURST", ctrl.sync, ctrl.bus_err, ctrl.tag,
                                   ctrl.idx, ctrl.ofs_int, ext)
                 \/ /\ rsp.ack
                    /\ Receives(IF ctrl.ofs_int = BLOCK - 1 THEN "READ_DONE" ELSE "READ_BURST",
                                ext)
    BY <1>6, ReadSteps DEF ControlInv
  <2>2. Outstanding = ctrl.ofs_ext - ctrl.ofs_int
    BY <2>1 DEF ControlInv, Requested
  <2>3. 1 <= ctrl.ofs_int /\ ctrl.ofs_int <= ctrl.ofs_ext /\ ctrl.ofs_ext <= BLOCK
    BY <2>1 DEF ControlInv
  <2>4. QED BY <1>0, <2>1, <2>2, <2>3 DEF Receives, Wrapped
<1>7. CASE Cache!WriteStart \/ Cache!WriteReq
  <2>1. ctrl.ofs_ext = ctrl.ofs_int /\ (bursts_en => ctrl.ofs_int = 0)
    BY <1>7, WriteSteps DEF ControlInv
  <2>2. ctrl'.state \in {"WRITE_REQ", "WRITE_RSP"} /\ ctrl'.ofs_ext = ctrl.ofs_ext
        /\ ctrl'.ofs_int = ctrl.ofs_int
    BY <1>7, WriteSteps DEF ControlInv
  <2>3. QED BY <1>0, <2>1, <2>2
<1>8. CASE Cache!WriteWait \/ Cache!WriteDone
  <2>1. \/ /\ ctrl.ofs_int = 1 /\ ctrl.ofs_ext = 1 /\ ctrl'.state = "WRITE_BURST"
           /\ ctrl'.ofs_int = 1 /\ ctrl'.ofs_ext = 2 /\ ctrl'.ofs_buf = 1
        \/ ctrl'.state \in {"SYNC_NEXT", "IDLE", "CHECK"}
    <3>1. CASE Cache!WriteWait
      <4>1. ctrl.ofs_int = 1 /\ ctrl.ofs_ext = 1
        BY <3>1, WriteSteps DEF ControlInv
      <4>2. /\ ctrl'.state = "WRITE_BURST" /\ ctrl'.ofs_int = ctrl.ofs_int
            /\ ctrl'.ofs_ext = ctrl.ofs_ext + 1 /\ ctrl'.ofs_buf = ctrl.ofs_ext
        BY <3>1, WriteSteps DEF ControlInv
      <4>3. QED BY <4>1, <4>2
    <3>2. CASE Cache!WriteDone
      BY <3>2, WriteSteps DEF ControlInv
    <3>3. QED BY <1>8, <3>1, <3>2
  <2>2. CASE ctrl'.state = "WRITE_BURST"
    <3>1. ctrl'.ofs_int = 1 /\ ctrl'.ofs_ext = 2 /\ ctrl'.ofs_buf = 1
      BY <2>1, <2>2
    <3>2. QED BY <1>0, <2>2, <3>1
  <2>3. CASE ctrl'.state \in {"SYNC_NEXT", "IDLE", "CHECK"}
    BY <2>3
  <2>4. QED BY <2>1, <2>2, <2>3
<1>9. CASE Cache!WriteBurst
  <2>1. /\ ctrl.state = "WRITE_BURST"
        /\ \E ext \in {IF ctrl.ofs_buf < BLOCK THEN ctrl.ofs_ext + 1 ELSE ctrl.ofs_ext} :
                 \/ ~rsp.ack /\ To("WRITE_BURST", ctrl.sync, ctrl.bus_err, ctrl.tag,
                                   ctrl.idx, ctrl.ofs_int, ext)
                 \/ /\ rsp.ack
                    /\ Receives(IF ctrl.ofs_int = BLOCK - 1 THEN "WRITE_DONE" ELSE "WRITE_BURST",
                                ext)
    BY <1>9, WriteSteps DEF ControlInv
  <2>2. Outstanding = IF ctrl.ofs_buf < BLOCK THEN ctrl.ofs_buf - ctrl.ofs_int
                                              ELSE BLOCK - ctrl.ofs_int
    BY <2>1 DEF ControlInv, Requested
  <2>3. /\ 1 <= ctrl.ofs_int /\ ctrl.ofs_int <= ctrl.ofs_buf
        /\ \/ ctrl.ofs_ext = ctrl.ofs_buf + 1 /\ ctrl.ofs_buf <= BLOCK
           \/ ctrl.ofs_ext = BLOCK + 1 /\ ctrl.ofs_buf = BLOCK + 1
    BY <2>1 DEF ControlInv
  <2>4. QED BY <1>0, <2>1, <2>2, <2>3 DEF Receives, Wrapped
<1>10. QED BY <1>1, <1>2, <1>3, <1>4, <1>5, <1>6, <1>7, <1>8, <1>9 DEF Cache!Clock

LEMMA HostInvStep ==
  ASSUME TypeOK, ControlInv, Cache!Clock, Host
  PROVE  HostInv'
<1>0. /\ Cache!hit \in BOOLEAN /\ host.stb \in BOOLEAN
      /\ ~HostAck /\ busy => busy' /\ ~host'.stb
      /\ HostAck \/ ~busy => (host'.stb <=> busy')
      /\ HostAck <=>
              \/ ctrl.state = "BYPASS" /\ rsp.ack
              \/ ctrl.state = "CHECK" /\ ~ctrl.pnd_bp /\ Cache!hit
              \/ ctrl.state = "READ_DONE" /\ ctrl.bus_err
              \/ ctrl.state = "WRITE_DONE" /\ ctrl.bus_err /\ ~ctrl.sync
  BY HostStep, Acknowledges DEF Cache!hit, ControlInv, TypeOK, RequestType
<1> USE <1>0 DEF ControlInv, SyncInv, HostInv, Serving, Uploading, Downloading, Cache!In,
        Cache!Reading, Cache!Writing, To, Goes, Accepts, Receives, Flags, Plain, Req
<1>1. CASE Cache!Idle \/ Cache!Bypass
  BY <1>1, IdleStep, BypassStep
<1>2. CASE Cache!CheckBypass \/ Cache!CheckHit \/ Cache!CheckMiss
  BY <1>2, CheckStep
<1>3. CASE Cache!SyncStart \/ Cache!SyncDelay \/ Cache!SyncCheck \/ Cache!SyncNext
  BY <1>3, SyncSteps
<1>4. CASE Cache!ReadStart \/ Cache!ReadWait \/ Cache!ReadBurst \/ Cache!ReadDone
  BY <1>4, ReadSteps
<1>5. CASE Cache!WriteStart \/ Cache!WriteReq \/ Cache!WriteRsp
  BY <1>5, WriteSteps
<1>6. CASE Cache!WriteWait \/ Cache!WriteBurst \/ Cache!WriteDone
  BY <1>6, WriteSteps
<1>7. QED BY <1>1, <1>2, <1>3, <1>4, <1>5, <1>6 DEF Cache!Clock


\* What is requested follows what is outstanding.
LEMMA RequestedStep ==
  ASSUME TypeOK, ControlInv, Cache!Clock
  PROVE  Requested' = Requested - (IF rsp.ack THEN 1 ELSE 0)
                                + (IF Cache!bus_req_o.stb THEN 1 ELSE 0)
<1>0. /\ BLOCK \in Nat /\ BLOCK > 1
      /\ ctrl.ofs_int \in 0 .. BLOCK - 1 /\ ctrl.ofs_ext \in Nat /\ ctrl.ofs_buf \in Nat
      /\ rsp.ack => Outstanding > 0
      /\ Outstanding = 0 => ~rsp.ack
      /\ Outstanding = Requested
  BY CacheAssumption DEF TypeOK, Outstanding, ControlInv
<1>1. CASE Cache!Idle
  <2>1. ctrl.state = "IDLE" /\ ctrl'.state \in {"IDLE", "CHECK", "SYNC_START"}
    BY <1>1, IdleStep DEF To
  <2>2. QED BY <1>0, <2>1, Strobes DEF Requested, Cache!In
<1>2. CASE Cache!Bypass
  <2>1. /\ ctrl.state = "BYPASS" /\ ~ctrl'.bp_req
        /\ ctrl'.state = IF rsp.ack THEN "IDLE" ELSE "BYPASS"
    BY <1>2, BypassStep DEF Plain, Flags, Goes, To
  <2>2. QED BY <1>0, <2>1, Strobes DEF Requested, Cache!In
<1>3. CASE Cache!CheckBypass \/ Cache!CheckHit \/ Cache!CheckMiss
  <2>1. /\ ctrl.state = "CHECK" /\ ctrl'.bp_req
        /\ ctrl'.state \in {"WRITE_START", "BYPASS", "IDLE", "READ_START"}
    BY <1>3, CheckStep DEF Accepts, Flags, To
  <2>2. QED BY <1>0, <2>1, Strobes DEF Requested, Cache!In
<1>4. CASE Cache!SyncStart \/ Cache!SyncDelay \/ Cache!SyncCheck \/ Cache!SyncNext
  <2>1. /\ ctrl.state \in {"SYNC_START", "SYNC_DELAY", "SYNC_CHECK", "SYNC_NEXT"}
        /\ ctrl'.state \in {"SYNC_DELAY", "SYNC_CHECK", "SYNC_NEXT", "WRITE_START", "IDLE"}
    BY <1>4, SyncSteps DEF ControlInv, Goes, To
  <2>2. QED BY <1>0, <2>1, Strobes DEF Requested, Cache!In
<1>5. CASE Cache!ReadStart \/ Cache!WriteStart \/ Cache!WriteReq
  <2>1. \/ ctrl.state = "READ_START"  /\ ctrl'.state = "READ_WAIT"
        \/ ctrl.state = "WRITE_START" /\ ctrl'.state = "WRITE_REQ"
        \/ ctrl.state = "WRITE_REQ"   /\ ctrl'.state = "WRITE_RSP"
    BY <1>5, ReadSteps, WriteSteps DEF ControlInv, Goes, To
  <2>2. QED BY <1>0, <2>1, Strobes DEF Requested, Cache!In
<1>6. CASE Cache!ReadDone \/ Cache!WriteDone
  <2>1. /\ ctrl.state \in {"READ_DONE", "WRITE_DONE"}
        /\ ctrl'.state \in {"IDLE", "CHECK", "SYNC_NEXT"}
    BY <1>6, ReadSteps, WriteSteps DEF ControlInv, Goes, To
  <2>2. QED BY <1>0, <2>1, Strobes DEF Requested, Cache!In
<1>7. CASE Cache!ReadWait \/ Cache!WriteRsp
  <2>1. /\ ctrl.state \in {"READ_WAIT", "WRITE_RSP"}
        /\ IF ~rsp.ack THEN ctrl'.state = ctrl.state
           ELSE \/ ctrl'.state \in {"READ_START", "WRITE_START", "READ_DONE", "WRITE_DONE",
                                    "WRITE_WAIT"}
                \/ ctrl'.state = "READ_BURST" /\ ctrl'.ofs_ext = 1 /\ ctrl'.ofs_int = 1
    <3>1. ctrl.state \in {"READ_WAIT", "WRITE_RSP"} /\ ctrl.ofs_ext = ctrl.ofs_int
          /\ (bursts_en => ctrl.ofs_int = 0)
      BY <1>7, ReadSteps, WriteSteps DEF ControlInv, OffsetInv, Cache!In
    <3>2. QED BY <1>0, <1>7, <3>1, ReadSteps, WriteSteps
          DEF ControlInv, Goes, Receives, Wrapped, To
  <2>2. QED BY <1>0, <2>1, Strobes DEF Requested, Cache!In
<1>8. CASE Cache!WriteWait
  <2>1. /\ ctrl.state = "WRITE_WAIT" /\ ctrl'.state = "WRITE_BURST"
        /\ ctrl'.ofs_buf = 1 /\ ctrl'.ofs_int = 1
    BY <1>8, WriteSteps DEF ControlInv, OffsetInv, Cache!In, To
  <2>2. QED BY <1>0, <2>1, Strobes DEF Requested, Cache!In
<1>9. CASE Cache!ReadBurst
  <2>1. /\ ctrl.state = "READ_BURST"
        /\ ctrl'.ofs_ext = IF ctrl.ofs_ext < BLOCK THEN ctrl.ofs_ext + 1 ELSE ctrl.ofs_ext
        /\ IF ~rsp.ack THEN ctrl'.state = "READ_BURST" /\ ctrl'.ofs_int = ctrl.ofs_int
           ELSE IF ctrl.ofs_int = BLOCK - 1 THEN ctrl'.state = "READ_DONE"
           ELSE ctrl'.state = "READ_BURST" /\ ctrl'.ofs_int = ctrl.ofs_int + 1
    BY <1>9, ReadSteps DEF ControlInv, Receives, Wrapped, To
  <2>2. 1 <= ctrl.ofs_int /\ ctrl.ofs_int <= ctrl.ofs_ext /\ ctrl.ofs_ext <= BLOCK
    BY <2>1 DEF ControlInv, OffsetInv, Cache!In
  <2>3. Requested = ctrl.ofs_ext - ctrl.ofs_int
    BY <2>1 DEF Requested, Cache!In
  <2>4. Cache!bus_req_o.stb <=> ctrl.ofs_ext < BLOCK
    BY <2>1, Strobes
  <2>5. Requested' = IF ctrl'.state = "READ_BURST" THEN ctrl'.ofs_ext - ctrl'.ofs_int ELSE 0
    BY <2>1 DEF Requested, Cache!In
  <2>6. QED BY <1>0, <2>1, <2>2, <2>3, <2>4, <2>5
<1>10. CASE Cache!WriteBurst
  <2>1. /\ ctrl.state = "WRITE_BURST" /\ ctrl'.ofs_buf = ctrl.ofs_ext
        /\ IF ~rsp.ack THEN ctrl'.state = "WRITE_BURST" /\ ctrl'.ofs_int = ctrl.ofs_int
           ELSE IF ctrl.ofs_int = BLOCK - 1 THEN ctrl'.state = "WRITE_DONE"
           ELSE ctrl'.state = "WRITE_BURST" /\ ctrl'.ofs_int = ctrl.ofs_int + 1
    BY <1>10, WriteSteps DEF ControlInv, Receives, Wrapped, To
  <2>2. /\ 1 <= ctrl.ofs_int /\ ctrl.ofs_int <= ctrl.ofs_buf
        /\ \/ ctrl.ofs_ext = ctrl.ofs_buf + 1 /\ ctrl.ofs_buf <= BLOCK
           \/ ctrl.ofs_ext = BLOCK + 1 /\ ctrl.ofs_buf = BLOCK + 1
    BY <2>1 DEF ControlInv, OffsetInv, Cache!In
  <2>3. Requested = IF ctrl.ofs_buf < BLOCK THEN ctrl.ofs_buf - ctrl.ofs_int
                                            ELSE BLOCK - ctrl.ofs_int
    BY <2>1 DEF Requested, Cache!In
  <2>4. Cache!bus_req_o.stb <=> ctrl.ofs_buf < BLOCK
    BY <2>1, Strobes
  <2>5. Requested' = IF ctrl'.state = "WRITE_BURST"
                     THEN IF ctrl'.ofs_buf < BLOCK THEN ctrl'.ofs_buf - ctrl'.ofs_int
                                                   ELSE BLOCK - ctrl'.ofs_int
                     ELSE 0
    BY <2>1 DEF Requested, Cache!In
  <2>6. CASE ~rsp.ack
    <3>1. ctrl'.state = "WRITE_BURST" /\ ctrl'.ofs_int = ctrl.ofs_int
      BY <2>1, <2>6
    <3>2. CASE ctrl.ofs_buf < BLOCK
      BY <1>0, <2>1, <2>2, <2>3, <2>4, <2>5, <2>6, <3>1, <3>2
    <3>3. CASE ~(ctrl.ofs_buf < BLOCK)
      BY <1>0, <2>1, <2>2, <2>3, <2>4, <2>5, <2>6, <3>1, <3>3
    <3>4. QED BY <3>2, <3>3
  <2>7. CASE rsp.ack /\ ctrl.ofs_buf < BLOCK
    <3>1. ctrl'.state = "WRITE_BURST" /\ ctrl'.ofs_int = ctrl.ofs_int + 1
      BY <1>0, <2>1, <2>2, <2>3, <2>7
    <3>2. QED BY <1>0, <2>1, <2>2, <2>3, <2>4, <2>5, <2>7, <3>1
  <2>8. CASE rsp.ack /\ ~(ctrl.ofs_buf < BLOCK)
    <3>1. CASE ctrl.ofs_int = BLOCK - 1
      BY <1>0, <2>1, <2>2, <2>3, <2>4, <2>5, <2>8, <3>1
    <3>2. CASE ctrl.ofs_int /= BLOCK - 1
      BY <1>0, <2>1, <2>2, <2>3, <2>4, <2>5, <2>8, <3>2
    <3>3. QED BY <3>1, <3>2
  <2>9. QED BY <2>6, <2>7, <2>8
<1>11. QED BY ONLY Cache!Clock, <1>1, <1>2, <1>3, <1>4, <1>5, <1>6, <1>7, <1>8, <1>9, <1>10
       DEF Cache!Clock

LEMMA ControlStep ==
  ASSUME TypeOK, ControlInv, Clock
  PROVE  ControlInv'
<1>1. Outstanding' = Requested'
  BY OutstandingStep, RequestedStep DEF Clock, ControlInv
<1>2. SyncInv' /\ OffsetInv' /\ HostInv'
  BY SyncInvStep, OffsetStep, HostInvStep DEF Clock
<1>3. QED BY <1>1, <1>2 DEF ControlInv

-----------------------------------------------------------------------------
\* Types.

Fields(c) ==
  c = [state |-> c.state, sync |-> c.sync, bus_err |-> c.bus_err,
       pnd_req |-> c.pnd_req, pnd_syn |-> c.pnd_syn, pnd_bp |-> c.pnd_bp,
       bp_req |-> c.bp_req, hit |-> c.hit, cln |-> c.cln, tag |-> c.tag, idx |-> c.idx,
       ofs_int |-> c.ofs_int, ofs_ext |-> c.ofs_ext, ofs_buf |-> c.ofs_buf]
Booleans(c) ==
  /\ c.sync \in BOOLEAN /\ c.bus_err \in BOOLEAN /\ c.pnd_req \in BOOLEAN
  /\ c.pnd_syn \in BOOLEAN /\ c.pnd_bp \in BOOLEAN /\ c.bp_req \in BOOLEAN
  /\ c.hit \in BOOLEAN /\ c.cln \in BOOLEAN

LEMMA CtrlFields ==
  ASSUME TypeOK, Cache!Clock
  PROVE  Fields(ctrl')
<1>0. Fields(ctrl)
  BY DEF TypeOK, Fields
<1> USE <1>0 DEF Fields, Cache!Default, Cache!Checked
<1>1. CASE Cache!Idle
  BY <1>1 DEF Cache!Idle
<1>2. CASE Cache!CheckBypass
  BY <1>2 DEF Cache!CheckBypass
<1>3. CASE Cache!CheckHit
  BY <1>3 DEF Cache!CheckHit
<1>4. CASE Cache!CheckMiss
  BY <1>4 DEF Cache!CheckMiss
<1>5. CASE Cache!Bypass
  BY <1>5 DEF Cache!Bypass
<1>6. CASE Cache!SyncStart
  BY <1>6 DEF Cache!SyncStart
<1>7. CASE Cache!SyncDelay
  BY <1>7 DEF Cache!SyncDelay
<1>8. CASE Cache!SyncCheck
  BY <1>8 DEF Cache!SyncCheck
<1>9. CASE Cache!SyncNext
  BY <1>9 DEF Cache!SyncNext
<1>10. CASE Cache!ReadStart
  BY <1>10 DEF Cache!ReadStart
<1>11. CASE Cache!ReadWait
  BY <1>11 DEF Cache!ReadWait
<1>12. CASE Cache!ReadBurst
  BY <1>12 DEF Cache!ReadBurst
<1>13. CASE Cache!ReadDone
  BY <1>13 DEF Cache!ReadDone
<1>14. CASE Cache!WriteStart
  BY <1>14 DEF Cache!WriteStart
<1>15. CASE Cache!WriteReq
  BY <1>15 DEF Cache!WriteReq
<1>16. CASE Cache!WriteRsp
  BY <1>16 DEF Cache!WriteRsp
<1>17. CASE Cache!WriteWait
  BY <1>17 DEF Cache!WriteWait
<1>18. CASE Cache!WriteBurst
  BY <1>18 DEF Cache!WriteBurst
<1>19. CASE Cache!WriteDone
  BY <1>19 DEF Cache!WriteDone
<1>20. QED BY <1>1, <1>2, <1>3, <1>4, <1>5, <1>6, <1>7, <1>8, <1>9, <1>10, <1>11, <1>12, <1>13, <1>14, <1>15, <1>16, <1>17, <1>18, <1>19
       DEF Cache!Clock

LEMMA CtrlBooleans ==
  ASSUME TypeOK, Cache!Clock
  PROVE  Booleans(ctrl')
<1> USE DEF TypeOK, RequestType, Booleans, Cache!Default
<1>0. ASSUME NEW next, Cache!Checked(next)
      PROVE  Booleans(ctrl')
  BY <1>0 DEF Cache!Checked
<1>1. CASE Cache!Idle
  BY <1>1 DEF Cache!Idle
<1>2. CASE Cache!CheckBypass
  BY <1>0, <1>2 DEF Cache!CheckBypass
<1>3. CASE Cache!CheckHit
  BY <1>0, <1>3 DEF Cache!CheckHit
<1>4. CASE Cache!CheckMiss
  BY <1>0, <1>4 DEF Cache!CheckMiss
<1>5. CASE Cache!Bypass
  BY <1>5 DEF Cache!Bypass
<1>6. CASE Cache!SyncStart
  BY <1>6 DEF Cache!SyncStart
<1>7. CASE Cache!SyncDelay
  BY <1>7 DEF Cache!SyncDelay
<1>8. CASE Cache!SyncCheck
  BY <1>8 DEF Cache!SyncCheck
<1>9. CASE Cache!SyncNext
  BY <1>9 DEF Cache!SyncNext
<1>10. CASE Cache!ReadStart
  BY <1>10 DEF Cache!ReadStart
<1>11. CASE Cache!ReadWait
  BY <1>11 DEF Cache!ReadWait
<1>12. CASE Cache!ReadBurst
  BY <1>12 DEF Cache!ReadBurst
<1>13. CASE Cache!ReadDone
  BY <1>13 DEF Cache!ReadDone
<1>14. CASE Cache!WriteStart
  BY <1>14 DEF Cache!WriteStart
<1>15. CASE Cache!WriteReq
  BY <1>15 DEF Cache!WriteReq
<1>16. CASE Cache!WriteRsp
  BY <1>16 DEF Cache!WriteRsp
<1>17. CASE Cache!WriteWait
  BY <1>17 DEF Cache!WriteWait
<1>18. CASE Cache!WriteBurst
  BY <1>18 DEF Cache!WriteBurst
<1>19. CASE Cache!WriteDone
  BY <1>19 DEF Cache!WriteDone
<1>20. QED BY <1>1, <1>2, <1>3, <1>4, <1>5, <1>6, <1>7, <1>8, <1>9, <1>10, <1>11, <1>12, <1>13, <1>14, <1>15, <1>16, <1>17, <1>18, <1>19
       DEF Cache!Clock

LEMMA StateType ==
  ASSUME TypeOK, ControlInv, Cache!Clock
  PROVE  ctrl'.state \in {"IDLE", "CHECK", "BYPASS", "SYNC_START", "SYNC_DELAY",
                          "SYNC_CHECK", "SYNC_NEXT", "READ_START", "READ_WAIT",
                          "READ_BURST", "READ_DONE", "WRITE_START", "WRITE_REQ",
                          "WRITE_RSP", "WRITE_WAIT", "WRITE_BURST", "WRITE_DONE"}
<1> USE DEF ControlInv, To, Goes, Accepts, Receives
<1>1. CASE Cache!Idle \/ Cache!Bypass
  BY <1>1, IdleStep, BypassStep
<1>2. CASE Cache!CheckBypass \/ Cache!CheckHit \/ Cache!CheckMiss
  BY <1>2, CheckStep
<1>3. CASE Cache!SyncStart \/ Cache!SyncDelay \/ Cache!SyncCheck \/ Cache!SyncNext
  BY <1>3, SyncSteps
<1>4. CASE Cache!ReadStart \/ Cache!ReadWait \/ Cache!ReadBurst \/ Cache!ReadDone
  BY <1>4, ReadSteps
<1>5. CASE Cache!WriteStart \/ Cache!WriteReq \/ Cache!WriteRsp
  BY <1>5, WriteSteps
<1>6. CASE Cache!WriteWait \/ Cache!WriteBurst \/ Cache!WriteDone
  BY <1>6, WriteSteps
<1>7. QED BY <1>1, <1>2, <1>3, <1>4, <1>5, <1>6 DEF Cache!Clock

LEMMA OffsetType ==
  ASSUME TypeOK, ControlInv, Cache!Clock
  PROVE  /\ ctrl'.tag \in Tag /\ ctrl'.idx \in 0 .. NUM_BLOCKS - 1
         /\ ctrl'.ofs_int \in 0 .. BLOCK - 1
         /\ ctrl'.ofs_ext \in 0 .. 2 * BLOCK - 1 /\ ctrl'.ofs_buf \in 0 .. 2 * BLOCK - 1
<1>0. /\ BLOCK \in Nat /\ BLOCK > 1 /\ NUM_BLOCKS \in Nat /\ NUM_BLOCKS > 1
      /\ ctrl.ofs_int \in 0 .. BLOCK - 1 /\ ctrl.ofs_ext \in 0 .. 2 * BLOCK - 1
      /\ ctrl.tag \in Tag /\ rd.tag \in Tag /\ ctrl.idx \in 0 .. NUM_BLOCKS - 1
      /\ host.addr.tag \in Tag /\ host.addr.idx \in 0 .. NUM_BLOCKS - 1
      /\ Wrapped \in 0 .. BLOCK - 1 /\ ctrl.ofs_buf \in Nat
  BY CacheAssumption DEF TypeOK, RequestType, Address, Wrapped
<1> DEFINE Moves(tag, idx, int, ext) ==
             /\ ctrl'.tag = tag /\ ctrl'.idx = idx /\ ctrl'.ofs_int = int
             /\ ctrl'.ofs_ext = ext /\ ctrl'.ofs_buf = ctrl.ofs_ext
<1>1. ASSUME NEW tag \in Tag, NEW idx \in 0 .. NUM_BLOCKS - 1, NEW int \in 0 .. BLOCK - 1,
             NEW ext \in 0 .. 2 * BLOCK - 1, Moves(tag, idx, int, ext)
      PROVE  /\ ctrl'.tag \in Tag /\ ctrl'.idx \in 0 .. NUM_BLOCKS - 1
             /\ ctrl'.ofs_int \in 0 .. BLOCK - 1
             /\ ctrl'.ofs_ext \in 0 .. 2 * BLOCK - 1 /\ ctrl'.ofs_buf \in 0 .. 2 * BLOCK - 1
  BY <1>0, <1>1
<1> USE DEF To, Goes
<1>2. CASE Cache!Idle \/ Cache!Bypass
  BY <1>0, <1>2, IdleStep, BypassStep
<1>3. CASE Cache!CheckBypass \/ Cache!CheckHit \/ Cache!CheckMiss
  <2>1. Moves(host.addr.tag, host.addr.idx, 0, 0)
    BY <1>3, CheckStep DEF Accepts
  <2>2. 0 \in 0 .. BLOCK - 1 /\ 0 \in 0 .. 2 * BLOCK - 1
    BY <1>0
  <2> HIDE DEF Moves
  <2>3. QED BY <1>0, <1>1, <2>1, <2>2
<1>4. CASE Cache!SyncStart \/ Cache!SyncDelay \/ Cache!SyncCheck \/ Cache!SyncNext
  <2>1. \E idx \in 0 .. NUM_BLOCKS - 1 :
          \/ Moves(ctrl.tag, idx, ctrl.ofs_int, ctrl.ofs_ext) \/ Moves(ctrl.tag, idx, 0, 0)
    BY <1>0, <1>4, SyncSteps DEF ControlInv
  <2>2. 0 \in 0 .. BLOCK - 1 /\ 0 \in 0 .. 2 * BLOCK - 1
    BY <1>0
  <2> HIDE DEF Moves
  <2>3. QED BY <1>0, <1>1, <2>1, <2>2
<1>5. CASE Cache!ReadStart \/ Cache!ReadDone \/ Cache!WriteStart \/ Cache!WriteReq \/ Cache!WriteDone
  <2>1. \E tag \in Tag : Moves(tag, ctrl.idx, ctrl.ofs_int, ctrl.ofs_ext)
    BY <1>0, <1>5, ReadSteps, WriteSteps DEF ControlInv
  <2> HIDE DEF Moves
  <2>2. QED BY <1>0, <1>1, <2>1
<1>6. CASE Cache!ReadWait \/ Cache!ReadBurst \/ Cache!WriteRsp \/ Cache!WriteWait \/ Cache!WriteBurst
  <2>1. \E int \in {ctrl.ofs_int, Wrapped}, ext \in {ctrl.ofs_ext, ctrl.ofs_ext + 1} :
          /\ Moves(ctrl.tag, ctrl.idx, int, ext)
          /\ ext = ctrl.ofs_ext \/ ctrl.ofs_ext <= BLOCK
    <3> USE DEF ControlInv
    <3>1. CASE Cache!ReadWait
      <4>1. ctrl.ofs_ext = ctrl.ofs_int
        BY <3>1, ReadSteps DEF OffsetInv, Cache!In
      <4>2. QED BY <1>0, <3>1, <4>1, ReadSteps DEF Receives
    <3>2. CASE Cache!WriteRsp
      <4>1. ctrl.ofs_ext = ctrl.ofs_int
        BY <3>2, WriteSteps DEF OffsetInv, Cache!In
      <4>2. QED BY <1>0, <3>2, <4>1, WriteSteps DEF Receives
    <3>3. CASE Cache!ReadBurst
      BY <1>0, <3>3, ReadSteps DEF Receives
    <3>4. CASE Cache!WriteWait
      <4>1. ctrl.ofs_ext = 1
        BY <3>4, WriteSteps DEF OffsetInv, Cache!In
      <4>2. QED BY <1>0, <3>4, <4>1, WriteSteps
    <3>5. CASE Cache!WriteBurst
      <4>1. ctrl.ofs_buf < BLOCK => ctrl.ofs_ext <= BLOCK
        <5>1. ctrl.state = "WRITE_BURST"
          BY <3>5, WriteSteps
        <5>2. QED BY <1>0, <5>1 DEF OffsetInv, Cache!In
      <4>2. \E ext \in {ctrl.ofs_ext, ctrl.ofs_ext + 1} :
              /\ ext = ctrl.ofs_ext \/ ctrl.ofs_buf < BLOCK
              /\ Moves(ctrl.tag, ctrl.idx, ctrl.ofs_int, ext)
                 \/ Moves(ctrl.tag, ctrl.idx, Wrapped, ext)
        BY <3>5, WriteSteps DEF Receives
      <4>3. QED BY <4>1, <4>2
    <3>6. QED BY <1>6, <3>1, <3>2, <3>3, <3>4, <3>5
  <2>2. \A ext \in {ctrl.ofs_ext, ctrl.ofs_ext + 1} :
          ext = ctrl.ofs_ext \/ ctrl.ofs_ext <= BLOCK => ext \in 0 .. 2 * BLOCK - 1
    BY <1>0
  <2>3. \A int \in {ctrl.ofs_int, Wrapped} : int \in 0 .. BLOCK - 1
    BY <1>0
  <2> HIDE DEF Moves
  <2>4. QED BY <1>0, <1>1, <2>1, <2>2, <2>3
<1>7. QED BY ONLY Cache!Clock, <1>2, <1>3, <1>4, <1>5, <1>6 DEF Cache!Clock

LEMMA HostType ==
  ASSUME TypeOK, Host, \A access \in Accesses : View(access.addr)' \in Stored
  PROVE  host' \in RequestType /\ busy' \in BOOLEAN /\ sync_i' \in BOOLEAN
         /\ before' \in Stored
<1>1. CASE Wait
  BY <1>1 DEF TypeOK, Host, Wait, RequestType
<1>2. CASE Rest
  <2>1. Idle \in RequestType
    BY CacheAssumption DEF Idle, RequestType, Address, Stored
  <2>2. QED BY <1>2, <2>1 DEF Host, Rest, Stored
<1>3. ASSUME NEW access \in Accesses, Request(access)
      PROVE  host' \in RequestType /\ busy' \in BOOLEAN /\ before' \in Stored
  <2>1. /\ access.addr \in Address /\ access.rw \in BOOLEAN /\ access.amo \in BOOLEAN
        /\ Word(access.addr, access.version) \in Stored /\ Junk \in Stored
    BY CacheAssumption DEF Word, Stored
  <2>2. before' \in Stored /\ busy'
    BY <1>3, <2>1 DEF Request
  <2>3. host' = [stb |-> TRUE, rw |-> access.rw, amo |-> access.amo, lock |-> FALSE,
                 addr |-> access.addr, data |-> Word(access.addr, access.version)]
    BY <1>3 DEF Request
  <2>4. host' \in RequestType
    BY <2>1, <2>3 DEF RequestType
  <2>5. QED BY <1>3, <2>2, <2>4 DEF Request
<1>4. sync_i' \in BOOLEAN
  BY DEF Host
<1>5. QED BY <1>1, <1>2, <1>3, <1>4 DEF Host

\* The memories of the cache.
BlockType == [vld : BOOLEAN, drt : BOOLEAN, tag : Tag, data : [0 .. BLOCK - 1 -> Stored]]

LEMMA MarkType ==
  ASSUME TypeOK, NEW a \in Address, NEW vld \in BOOLEAN, NEW dirty \in BOOLEAN,
         Cache!Mark(a, vld, dirty)
  PROVE  lines' \in [0 .. NUM_BLOCKS - 1 -> BlockType]
<1> DEFINE d == dirty /\ ~READ_ONLY
<1>1. d \in BOOLEAN
  OBVIOUS
<1>2. lines' = [lines EXCEPT ![a.idx].vld = vld, ![a.idx].tag = a.tag, ![a.idx].drt = d]
  BY DEF Cache!Mark
<1>3. lines \in [0 .. NUM_BLOCKS - 1 -> BlockType] /\ a.tag \in Tag
  BY DEF TypeOK, Address, BlockType
<1> HIDE DEF d
<1>4. QED BY <1>1, <1>2, <1>3 DEF BlockType

LEMMA PutType ==
  ASSUME TypeOK, NEW a \in Address, NEW word \in Stored, Cache!Put(a, word)
  PROVE  lines' \in [0 .. NUM_BLOCKS - 1 -> BlockType]
BY DEF TypeOK, Cache!Put, BlockType

LEMMA LinesType ==
  ASSUME TypeOK, ControlInv, Cache!Clock
  PROVE  lines' \in [0 .. NUM_BLOCKS - 1 -> BlockType]
<1>0. /\ lines \in [0 .. NUM_BLOCKS - 1 -> BlockType] /\ OffsetInv
      /\ host.addr \in Address /\ host.data \in Stored /\ rsp.data \in Stored
      /\ Cache!Own(ctrl.ofs_int) \in Address /\ ctrl.bus_err \in BOOLEAN
      /\ ctrl.ofs_int \in Nat
  <2>1. ctrl.ofs_int \in Nat
    BY CacheAssumption DEF TypeOK
  <2>2. QED BY <2>1, OwnAddress DEF TypeOK, RequestType, BlockType, ControlInv
<1>1. CASE Cache!Idle \/ Cache!Bypass
  BY <1>0, <1>1, IdleStep, BypassStep
<1>2. CASE Cache!CheckBypass \/ Cache!CheckHit \/ Cache!CheckMiss
  <2>1. \/ lines' = lines \/ Cache!Mark(host.addr, FALSE, FALSE)
        \/ lines' = [lines EXCEPT ![host.addr.idx].drt = TRUE,
                       ![host.addr.idx].data[host.addr.ofs] = host.data]
    BY <1>2, CheckStep
  <2>2. CASE lines' = [lines EXCEPT ![host.addr.idx].drt = TRUE,
                         ![host.addr.idx].data[host.addr.ofs] = host.data]
    BY <1>0, <2>2 DEF BlockType
  <2>3. QED BY <1>0, <2>1, <2>2, MarkType
<1>3. CASE Cache!SyncStart \/ Cache!SyncDelay \/ Cache!SyncCheck \/ Cache!SyncNext
  BY <1>0, <1>3, SyncSteps, MarkType
<1>4. CASE Cache!ReadStart \/ Cache!ReadWait \/ Cache!ReadBurst \/ Cache!ReadDone
  BY <1>0, <1>4, ReadSteps, MarkType, PutType
<1>5. CASE Cache!WriteStart \/ Cache!WriteReq \/ Cache!WriteRsp
  BY <1>0, <1>5, WriteSteps
<1>6. CASE Cache!WriteWait \/ Cache!WriteBurst \/ Cache!WriteDone
  BY <1>0, <1>6, WriteSteps, MarkType
<1>7. QED BY <1>1, <1>2, <1>3, <1>4, <1>5, <1>6 DEF Cache!Clock

LEMMA LookType ==
  ASSUME TypeOK, NEW a \in Address, Cache!Look(a)
  PROVE  rd' \in [vld : BOOLEAN, drt : BOOLEAN, tag : Tag, data : Stored]
<1>1. /\ lines[a.idx].vld \in BOOLEAN /\ lines[a.idx].drt \in BOOLEAN
      /\ lines[a.idx].tag \in Tag /\ lines[a.idx].data[a.ofs] \in Stored
  <2>1. lines[a.idx] \in BlockType /\ a.ofs \in 0 .. BLOCK - 1
    BY DEF TypeOK, Address, BlockType
  <2>2. QED BY <2>1 DEF BlockType
<1>2. \A v, d \in BOOLEAN, t \in Tag, w \in Stored :
        [vld |-> v, drt |-> d, tag |-> t, data |-> w]
          \in [vld : BOOLEAN, drt : BOOLEAN, tag : Tag, data : Stored]
  OBVIOUS
<1>3. QED BY <1>1, <1>2 DEF Cache!Look

LEMMA ReadType ==
  ASSUME TypeOK, ControlInv, Cache!Clock
  PROVE  rd' \in [vld : BOOLEAN, drt : BOOLEAN, tag : Tag, data : Stored]
<1>0. /\ host.addr \in Address /\ OffsetInv
      /\ Cache!Own(ctrl.ofs_int) \in Address /\ Cache!Own(ctrl.ofs_ext) \in Address
  <2>1. ctrl.ofs_int \in Nat /\ ctrl.ofs_ext \in Nat
    BY CacheAssumption DEF TypeOK
  <2>2. QED BY <2>1, OwnAddress DEF TypeOK, RequestType, ControlInv
<1>1. \E a \in Address : Cache!Look(a)
  <2>1. CASE Cache!Idle \/ Cache!Bypass
    BY <1>0, <2>1, IdleStep, BypassStep
  <2>2. CASE Cache!CheckBypass \/ Cache!CheckHit \/ Cache!CheckMiss
    BY <1>0, <2>2, CheckStep
  <2>3. CASE Cache!SyncStart \/ Cache!SyncDelay \/ Cache!SyncCheck \/ Cache!SyncNext
    BY <1>0, <2>3, SyncSteps
  <2>4. CASE Cache!ReadStart \/ Cache!ReadWait \/ Cache!ReadBurst \/ Cache!ReadDone
    BY <1>0, <2>4, ReadSteps
  <2>5. CASE Cache!WriteStart \/ Cache!WriteReq \/ Cache!WriteRsp
    BY <1>0, <2>5, WriteSteps
  <2>6. CASE Cache!WriteWait \/ Cache!WriteBurst \/ Cache!WriteDone
    BY <1>0, <2>6, WriteSteps
  <2>7. QED BY <2>1, <2>2, <2>3, <2>4, <2>5, <2>6 DEF Cache!Clock
<1>2. QED BY <1>1, LookType

LEMMA TypeStep ==
  ASSUME TypeOK, ControlInv, Clock
  PROVE  TypeOK'
<1>1. Cache!Clock /\ Memory /\ Host
  BY DEF Clock
<1>2. /\ ctrl' \in [state : {"IDLE", "CHECK", "BYPASS", "SYNC_START", "SYNC_DELAY",
                        "SYNC_CHECK", "SYNC_NEXT", "READ_START", "READ_WAIT",
                        "READ_BURST", "READ_DONE", "WRITE_START", "WRITE_REQ",
                        "WRITE_RSP", "WRITE_WAIT", "WRITE_BURST", "WRITE_DONE"},
               sync : BOOLEAN, bus_err : BOOLEAN, pnd_req : BOOLEAN,
               pnd_syn : BOOLEAN, pnd_bp : BOOLEAN, bp_req : BOOLEAN,
               hit : BOOLEAN, cln : BOOLEAN, tag : Tag, idx : 0 .. NUM_BLOCKS - 1,
               ofs_int : 0 .. BLOCK - 1, ofs_ext : 0 .. 2 * BLOCK - 1,
               ofs_buf : 0 .. 2 * BLOCK - 1]
  BY <1>1, CtrlFields, CtrlBooleans, StateType, OffsetType DEF Fields, Booleans
<1>3. lines' \in [0 .. NUM_BLOCKS - 1 -> BlockType]
  BY <1>1, LinesType
<1>4. rd' \in [vld : BOOLEAN, drt : BOOLEAN, tag : Tag, data : Stored]
  BY <1>1, ReadType
<1>5. /\ queue' \in Seq(RequestType) /\ mem' \in [Accessed -> Stored]
      /\ rsp' \in [ack : BOOLEAN, err : BOOLEAN, data : Stored]
  BY <1>1, MemoryType
<1>6. bursts_en' \in BOOLEAN
  BY <1>1 DEF Cache!Clock, TypeOK
<1>8. \A access \in Accesses : View(access.addr)' \in Stored
  <2> SUFFICES ASSUME NEW access \in Accesses
               PROVE  View(access.addr)' \in Stored
    OBVIOUS
  <2>0. access.addr \in Address
    BY CacheAssumption
  <2>1. lines'[access.addr.idx].data[access.addr.ofs] \in Stored
    BY <1>3, <2>0 DEF BlockType, Address
  <2>2. Content(access.addr)' \in Stored
    BY <1>5, <2>0 DEF Content, Word, Stored
  <2>3. QED BY <2>1, <2>2 DEF View
<1>9. host' \in RequestType /\ busy' \in BOOLEAN /\ sync_i' \in BOOLEAN /\ before' \in Stored
  BY <1>1, <1>8, HostType
<1>10. failed' \in BOOLEAN
  BY DEF Clock
<1>11. QED BY <1>2, <1>3, <1>4, <1>5, <1>6, <1>9, <1>10 DEF TypeOK, BlockType

-----------------------------------------------------------------------------
\* The memories of the cache, block by block.

Others(a) == \A i \in 0 .. NUM_BLOCKS - 1 : i /= a.idx => lines'[i] = lines[i]
SameStatus(a) == /\ lines'[a.idx].vld <=> lines[a.idx].vld
                 /\ lines'[a.idx].drt <=> lines[a.idx].drt
                 /\ lines'[a.idx].tag = lines[a.idx].tag
WordWritten(a, word) ==
  \A o \in 0 .. BLOCK - 1 :
    lines'[a.idx].data[o] = IF o = a.ofs THEN word ELSE lines[a.idx].data[o]

LEMMA Marked ==
  ASSUME TypeOK, NEW a \in Address, NEW vld, NEW dirty, Cache!Mark(a, vld, dirty)
  PROVE  /\ Others(a)
         /\ lines'[a.idx].vld = vld /\ lines'[a.idx].tag = a.tag
         /\ lines'[a.idx].drt = (dirty /\ ~READ_ONLY)
         /\ lines'[a.idx].data = lines[a.idx].data
<1>1. a.idx \in 0 .. NUM_BLOCKS - 1 /\ lines \in [0 .. NUM_BLOCKS - 1 -> BlockType]
  BY DEF TypeOK, Address, BlockType
<1>2. QED BY <1>1 DEF Cache!Mark, Others, BlockType

LEMMA WasPut ==
  ASSUME TypeOK, NEW a \in Address, NEW word, Cache!Put(a, word)
  PROVE  Others(a) /\ SameStatus(a) /\ WordWritten(a, word)
<1>1. /\ a.idx \in 0 .. NUM_BLOCKS - 1 /\ a.ofs \in 0 .. BLOCK - 1
      /\ lines \in [0 .. NUM_BLOCKS - 1 -> BlockType]
  BY DEF TypeOK, Address, BlockType
<1>2. QED BY <1>1 DEF Cache!Put, Others, SameStatus, WordWritten, BlockType

LEMMA WasHit ==
  ASSUME TypeOK, NEW a \in Address, NEW word,
         lines' = [lines EXCEPT ![a.idx].drt = TRUE, ![a.idx].data[a.ofs] = word]
  PROVE  /\ Others(a) /\ WordWritten(a, word)
         /\ lines'[a.idx].vld = lines[a.idx].vld /\ lines'[a.idx].tag = lines[a.idx].tag
         /\ lines'[a.idx].drt
<1>1. /\ a.idx \in 0 .. NUM_BLOCKS - 1 /\ a.ofs \in 0 .. BLOCK - 1
      /\ lines \in [0 .. NUM_BLOCKS - 1 -> BlockType]
  BY DEF TypeOK, Address, BlockType
<1>2. QED BY <1>1 DEF Others, WordWritten, BlockType

LEMMA Looked ==
  ASSUME NEW a, Cache!Look(a)
  PROVE  /\ rd'.vld = lines[a.idx].vld /\ rd'.drt = lines[a.idx].drt
         /\ rd'.tag = lines[a.idx].tag /\ rd'.data = lines[a.idx].data[a.ofs]
BY DEF Cache!Look

-----------------------------------------------------------------------------
\* A read-only cache never writes.

LEMMA ReadOnlyStep ==
  ASSUME TypeOK, ControlInv, ReadOnlyInv, READ_ONLY, Cache!Clock
  PROVE  ReadOnlyInv'
<1>0. /\ host.addr \in Address /\ OffsetInv
      /\ Cache!Own(ctrl.ofs_int) \in Address /\ Cache!Own(ctrl.ofs_ext) \in Address
      /\ ~Cache!drt /\ \A a \in Address : ~lines[a.idx].drt
  <2>1. ctrl.ofs_int \in Nat /\ ctrl.ofs_ext \in Nat
    BY CacheAssumption DEF TypeOK
  <2>2. \A a \in Address : a.idx \in 0 .. NUM_BLOCKS - 1
    BY DEF Address
  <2>3. QED BY <2>1, <2>2, OwnAddress
        DEF TypeOK, RequestType, ControlInv, ReadOnlyInv, Cache!drt, Cache!Index
<1>1. \A a \in Address : \A v, d : Cache!Mark(a, v, d) => \A i \in Cache!Index : ~lines'[i].drt
  <2> SUFFICES ASSUME NEW a \in Address, NEW v, NEW d, Cache!Mark(a, v, d),
                      NEW i \in Cache!Index
               PROVE  ~lines'[i].drt
    OBVIOUS
  <2>1. QED BY Marked DEF Others, Cache!Index, ReadOnlyInv
<1>2. \A a \in Address : \A w : Cache!Put(a, w) => \A i \in Cache!Index : ~lines'[i].drt
  <2> SUFFICES ASSUME NEW a \in Address, NEW w, Cache!Put(a, w), NEW i \in Cache!Index
               PROVE  ~lines'[i].drt
    OBVIOUS
  <2>1. QED BY WasPut DEF Others, SameStatus, Cache!Index, ReadOnlyInv
<1>3. \A a \in Address : Cache!Look(a) => ~rd'.drt
  BY <1>0, Looked
<1>4. lines' = lines => \A i \in Cache!Index : ~lines'[i].drt
  BY DEF ReadOnlyInv
<1> DEFINE Clean == \A i \in Cache!Index : ~lines'[i].drt
<1>5. Clean /\ ~rd'.drt /\ ctrl'.state \notin {"WRITE_START", "WRITE_REQ", "WRITE_RSP",
                                     "WRITE_WAIT", "WRITE_BURST", "WRITE_DONE"}
  <2> HIDE DEF Clean
  <2>0. \A a \in Address : \A v, d : Cache!Mark(a, v, d) => Clean
    BY <1>1 DEF Clean
  <2>1. \A a \in Address : \A w : Cache!Put(a, w) => Clean
    BY <1>2 DEF Clean
  <2>2. lines' = lines => Clean
    BY <1>4 DEF Clean
  <2> USE <1>0, <1>3, <2>0, <2>1, <2>2 DEF To, Goes, Accepts, Receives
  <2>3. CASE Cache!Idle \/ Cache!Bypass
    BY <2>3, IdleStep, BypassStep
  <2>4. CASE Cache!CheckBypass \/ Cache!CheckHit \/ Cache!CheckMiss
    BY <2>4, CheckStep
  <2>5. CASE Cache!SyncStart \/ Cache!SyncDelay \/ Cache!SyncCheck \/ Cache!SyncNext
    BY <2>5, SyncSteps
  <2>6. CASE Cache!ReadStart \/ Cache!ReadWait \/ Cache!ReadBurst \/ Cache!ReadDone
    BY <2>6, ReadSteps
  <2>7. CASE Cache!WriteStart \/ Cache!WriteReq \/ Cache!WriteRsp \/ Cache!WriteWait
             \/ Cache!WriteBurst \/ Cache!WriteDone
    BY <2>7, WriteSteps DEF ReadOnlyInv, Uploading, Cache!Writing, Cache!In
  <2>8. QED BY <2>3, <2>4, <2>5, <2>6, <2>7 DEF Cache!Clock
<1>6. QED BY <1>5 DEF ReadOnlyInv, Uploading, Cache!Writing, Cache!In, Cache!Index

-----------------------------------------------------------------------------
\* What a synchronization has passed is invalid, or dirty after an error.

LEMMA FailedStep ==
  ASSUME TypeOK, ControlInv, FlushInv, Clock
  PROVE  (ctrl.sync /\ (Uploading \/ Cache!In({"SYNC_NEXT"})) /\ ctrl.bus_err => failed)'
<1>0. /\ Cache!Clock /\ OffsetInv /\ SyncInv
      /\ (failed' <=> ctrl.sync /\ (failed \/ rsp.err))
      /\ ctrl.sync /\ (Uploading \/ Cache!In({"SYNC_NEXT"})) /\ ctrl.bus_err => failed
  BY DEF Clock, ControlInv, FlushInv
<1> USE <1>0 DEF SyncInv, Downloading, Uploading, Cache!In, Cache!Reading, Cache!Writing, To,
        Goes, Accepts, Receives
<1>1. CASE Cache!Idle \/ Cache!Bypass
  BY <1>1, IdleStep, BypassStep
<1>2. CASE Cache!CheckBypass \/ Cache!CheckHit \/ Cache!CheckMiss
  BY <1>2, CheckStep
<1>3. CASE Cache!SyncStart \/ Cache!SyncDelay \/ Cache!SyncCheck \/ Cache!SyncNext
  BY <1>3, SyncSteps
<1>4. CASE Cache!ReadStart \/ Cache!ReadWait \/ Cache!ReadBurst \/ Cache!ReadDone
  BY <1>4, ReadSteps
<1>5. CASE Cache!WriteStart \/ Cache!WriteReq \/ Cache!WriteRsp
  BY <1>5, WriteSteps
<1>6. CASE Cache!WriteWait \/ Cache!WriteBurst \/ Cache!WriteDone
  BY <1>6, WriteSteps
<1>7. QED BY <1>1, <1>2, <1>3, <1>4, <1>5, <1>6 DEF Cache!Clock

\* The blocks before index n.
Passed(n) == \A i \in Cache!Index : i < n /\ lines[i].vld => failed /\ lines[i].drt

\* The step that passes one.
LEMMA PassStep ==
  ASSUME TypeOK, ControlInv, FlushInv, Clock, Cache!SyncNext
  PROVE  \A i \in Cache!Index :
           i < ctrl.idx + 1 /\ lines'[i].vld => failed /\ failed' /\ lines'[i].drt
<1>0. /\ (failed' <=> ctrl.sync /\ (failed \/ rsp.err))
      /\ ctrl.state = "SYNC_NEXT" /\ ctrl.sync
      /\ ctrl.idx \in 0 .. NUM_BLOCKS - 1 /\ NUM_BLOCKS \in Nat
      /\ Cache!Mark(Cache!Own(ctrl.ofs_int), ctrl.bus_err, ctrl.bus_err)
      /\ Cache!Own(ctrl.ofs_int) \in Address /\ Cache!Own(ctrl.ofs_int).idx = ctrl.idx
  <2>1. ctrl.ofs_int \in Nat
    BY CacheAssumption DEF TypeOK
  <2>2. ctrl.state = "SYNC_NEXT" /\ ctrl.sync
    BY SyncSteps DEF ControlInv, SyncInv, Cache!In
  <2>3. QED BY <2>1, <2>2, SyncSteps, OwnAddress, CacheAssumption DEF Clock, ControlInv, TypeOK
<1>1. /\ Passed(ctrl.idx) /\ (ctrl.bus_err => failed /\ ~READ_ONLY)
  BY <1>0 DEF FlushInv, Passed, Cache!In
<1>2. /\ \A i \in Cache!Index : i /= ctrl.idx => lines'[i] = lines[i]
      /\ lines'[ctrl.idx].vld = ctrl.bus_err
      /\ lines'[ctrl.idx].drt = (ctrl.bus_err /\ ~READ_ONLY)
  BY <1>0, Marked DEF Others, Cache!Index
<1>3. SUFFICES ASSUME NEW i \in Cache!Index, i < ctrl.idx + 1, lines'[i].vld
               PROVE  failed /\ failed' /\ lines'[i].drt
  OBVIOUS
<1>4. CASE i = ctrl.idx
  BY <1>0, <1>1, <1>2, <1>3, <1>4
<1>5. CASE i /= ctrl.idx
  <2>1. i < ctrl.idx
    BY <1>0, <1>3, <1>5 DEF Cache!Index
  <2>2. failed /\ lines'[i].drt
    BY <1>1, <1>2, <1>3, <1>5, <2>1 DEF Passed
  <2>3. QED BY <1>0, <2>2
<1>6. QED BY <1>4, <1>5

\* The other steps of a synchronization leave the blocks alone.
LEMMA PassingStep ==
  ASSUME TypeOK, ControlInv, FlushInv, Clock, ctrl'.sync, ctrl'.state /= "IDLE"
  PROVE  Passed(ctrl.idx)'
<1>0. /\ Cache!Clock /\ OffsetInv /\ SyncInv
      /\ (failed' <=> ctrl.sync /\ (failed \/ rsp.err))
      /\ ctrl.idx \in 0 .. NUM_BLOCKS - 1 /\ NUM_BLOCKS \in Nat
      /\ ctrl'.sync /\ ctrl'.state /= "IDLE"
  BY CacheAssumption DEF Clock, ControlInv, TypeOK
<1>1. CASE Cache!SyncStart
  <2>1. ctrl'.idx = 0
    BY <1>1, <1>0, SyncSteps DEF To
  <2>2. QED BY <2>1 DEF Passed, Cache!Index
<1>2. CASE Cache!SyncNext
  <2>1. ctrl'.idx = ctrl.idx + 1
    BY <1>0, <1>2, SyncSteps DEF To
  <2>2. QED BY <1>2, <2>1, PassStep DEF Passed, Cache!Index
<1>3. CASE ~Cache!SyncStart /\ ~Cache!SyncNext
  <2>1. lines' = lines /\ ctrl'.idx = ctrl.idx /\ ctrl.sync /\ ctrl.state /= "IDLE"
    <3> USE <1>0, <1>3 DEF SyncInv, Downloading, Cache!In, Cache!Reading, To, Goes, Accepts,
            Receives
    <3>1. ~Cache!Idle /\ ~Cache!Bypass
      BY IdleStep, BypassStep
    <3>2. ~(Cache!CheckBypass \/ Cache!CheckHit \/ Cache!CheckMiss)
      BY CheckStep
    <3>3. ~(Cache!ReadStart \/ Cache!ReadWait \/ Cache!ReadBurst \/ Cache!ReadDone)
      BY ReadSteps
    <3>4. CASE Cache!SyncDelay \/ Cache!SyncCheck
      BY <3>4, SyncSteps
    <3>5. CASE Cache!WriteStart \/ Cache!WriteReq \/ Cache!WriteRsp \/ Cache!WriteWait
               \/ Cache!WriteBurst \/ Cache!WriteDone
      BY <3>5, WriteSteps
    <3>6. QED BY <3>1, <3>2, <3>3, <3>4, <3>5 DEF Cache!Clock
  <2>2. Passed(ctrl.idx)
    BY <2>1 DEF FlushInv, Passed, Cache!In
  <2>3. failed => failed'
    BY <1>0, <2>1
  <2>4. QED BY <2>1, <2>2, <2>3 DEF Passed, Cache!Index
<1>4. QED BY <1>1, <1>2, <1>3

LEMMA FlushStep ==
  ASSUME TypeOK, ControlInv, FlushInv, Clock
  PROVE  FlushInv'
<1>1. (ctrl.sync /\ ~Cache!In({"IDLE"}) => Passed(ctrl.idx))'
  <2>1. CASE ctrl'.sync /\ ctrl'.state /= "IDLE"
    BY <2>1, PassingStep
  <2>2. CASE ~(ctrl'.sync /\ ctrl'.state /= "IDLE")
    BY <2>2 DEF Cache!In
  <2>3. QED BY <2>1, <2>2
<1>2. (READ_ONLY => ReadOnlyInv)'
  BY ReadOnlyStep DEF FlushInv, Clock
<1>3. (Cache!In({"SYNC_NEXT"}) /\ ctrl.bus_err => ~READ_ONLY)'
  <2>1. READ_ONLY /\ ctrl'.state = "SYNC_NEXT" => ~ctrl'.bus_err
    <3>1. /\ Cache!Clock /\ OffsetInv /\ (READ_ONLY => ~Uploading)
      BY DEF Clock, ControlInv, FlushInv, ReadOnlyInv
    <3> USE <3>1 DEF To, Goes, Accepts, Receives
    <3>2. CASE Cache!Idle \/ Cache!Bypass
      BY <3>2, IdleStep, BypassStep
    <3>3. CASE Cache!CheckBypass \/ Cache!CheckHit \/ Cache!CheckMiss
      BY <3>3, CheckStep
    <3>4. CASE Cache!SyncStart \/ Cache!SyncDelay \/ Cache!SyncCheck \/ Cache!SyncNext
      BY <3>4, SyncSteps
    <3>5. CASE Cache!ReadStart \/ Cache!ReadWait \/ Cache!ReadBurst \/ Cache!ReadDone
      BY <3>5, ReadSteps
    <3>6. CASE Cache!WriteStart \/ Cache!WriteReq \/ Cache!WriteRsp \/ Cache!WriteWait
               \/ Cache!WriteBurst \/ Cache!WriteDone
      BY <3>6, WriteSteps DEF Uploading, Cache!Writing, Cache!In
    <3>7. QED BY <3>2, <3>3, <3>4, <3>5, <3>6 DEF Cache!Clock
  <2>2. QED BY <2>1 DEF Cache!In
<1>4. QED BY <1>1, <1>2, <1>3, FailedStep DEF FlushInv, Passed

-----------------------------------------------------------------------------
\* Addresses, and the accesses the memory has to answer during a transfer.

LEMMA Addresses ==
  /\ \A a \in Address : /\ a = At(a.tag, a.idx, a.ofs) /\ a.tag \in Tag
                        /\ a.idx \in Cache!Index /\ a.ofs \in Cache!Offset
  /\ \A t \in Tag, i \in Cache!Index, o \in Cache!Offset :
       /\ At(t, i, o) \in Address
       /\ At(t, i, o).tag = t /\ At(t, i, o).idx = i /\ At(t, i, o).ofs = o
  /\ Accessed \subseteq Address
BY CacheAssumption DEF Address, At, Cache!Index, Cache!Offset, Accessed

LEMMA Numbers ==
  ASSUME TypeOK
  PROVE  /\ BLOCK \in Nat /\ BLOCK > 1 /\ NUM_BLOCKS \in Nat /\ NUM_BLOCKS > 1
         /\ ctrl.idx \in Cache!Index /\ ctrl.ofs_int \in Cache!Offset /\ ctrl.tag \in Tag
         /\ ctrl.ofs_int \in Nat /\ ctrl.ofs_ext \in Nat /\ ctrl.ofs_buf \in Nat
         /\ ctrl.ofs_int < BLOCK
         /\ Len(queue) \in Nat
         /\ rsp.ack \in BOOLEAN /\ rsp.err \in BOOLEAN
         /\ host.addr \in Address /\ host.rw \in BOOLEAN /\ host.amo \in BOOLEAN
         /\ \A i \in Cache!Index : /\ lines[i].vld \in BOOLEAN /\ lines[i].drt \in BOOLEAN
                                   /\ lines[i].tag \in Tag
<1>1. \A i \in Cache!Index : lines[i] \in BlockType
  BY DEF TypeOK, Cache!Index, BlockType
<1>2. \A i \in Cache!Index : /\ lines[i].vld \in BOOLEAN /\ lines[i].drt \in BOOLEAN
                             /\ lines[i].tag \in Tag
  BY <1>1 DEF BlockType
<1>3. QED BY <1>2, CacheAssumption
      DEF TypeOK, RequestType, Cache!Index, Cache!Offset

LEMMA NextRequest ==
  ASSUME TypeOK, ControlInv, UploadInv, Cache!Reading \/ Cache!Writing, Cache!bus_req_o.stb
  PROVE  Asks(Cache!bus_req_o, Answered + Len(queue))
<1>0. /\ ctrl.ofs_int \in Nat /\ ctrl.ofs_ext \in Nat /\ ctrl.ofs_buf \in Nat
      /\ ctrl.ofs_int < BLOCK /\ Len(queue) \in Nat /\ BLOCK \in Nat
  BY Numbers
<1>1. Answered + Len(queue) = ctrl.ofs_int + Outstanding /\ Outstanding = Requested
  BY <1>0 DEF Answered, Outstanding, ControlInv
<1>2. ctrl.state \in {"READ_START", "WRITE_REQ", "READ_BURST", "WRITE_BURST"}
  BY Strobes DEF Cache!Reading, Cache!Writing, Cache!In
<1>3. PICK ofs \in Nat : /\ ofs = ctrl.ofs_int + Outstanding /\ ofs < BLOCK
                         /\ Cache!bus_req_o.addr = Cache!Own(ofs)
                         /\ Cache!Writing => rd.data = Here(ofs)
  <2>1. CASE ctrl.state \in {"READ_START", "WRITE_REQ"}
    <3>1. ctrl.ofs_ext = ctrl.ofs_int /\ Outstanding = 0
      BY <1>1, <2>1 DEF ControlInv, OffsetInv, Requested, Cache!In
    <3>2. Cache!bus_req_o.addr = Cache!Own(ctrl.ofs_ext)
      BY <2>1 DEF Cache!bus_req_o, Cache!In
    <3>3. Cache!Writing => rd.data = Here(ctrl.ofs_int)
      BY <2>1 DEF UploadInv, Cache!Writing, Cache!In
    <3>4. QED BY <1>0, <3>1, <3>2, <3>3
  <2>2. CASE ctrl.state = "READ_BURST"
    <3>1. Outstanding = ctrl.ofs_ext - ctrl.ofs_int /\ ctrl.ofs_ext < BLOCK
      BY <1>1, <2>2, Strobes DEF Requested, Cache!In
    <3>2. Cache!bus_req_o.addr = Cache!Own(ctrl.ofs_ext) /\ ~Cache!Writing
      BY <2>2 DEF Cache!bus_req_o, Cache!In, Cache!Writing
    <3>3. QED BY <1>0, <3>1, <3>2
  <2>3. CASE ctrl.state = "WRITE_BURST"
    <3>1. Outstanding = ctrl.ofs_buf - ctrl.ofs_int /\ ctrl.ofs_buf < BLOCK
      BY <1>1, <2>3, Strobes DEF Requested, Cache!In
    <3>2. Cache!bus_req_o.addr = Cache!Own(ctrl.ofs_buf) /\ rd.data = Here(ctrl.ofs_buf)
      BY <2>3, <3>1 DEF Cache!bus_req_o, Cache!In, UploadInv
    <3>3. QED BY <1>0, <3>1, <3>2
  <2>4. QED BY <1>2, <2>1, <2>2, <2>3
<1>4. Cache!bus_req_o.addr = Place(ofs)
  <2>1. Cache!Own(ofs) = At(ctrl.tag, ctrl.idx, ofs)
    BY <1>3, OwnAddress, Addresses
  <2>2. BlockTag = ctrl.tag
    BY <1>2 DEF BlockTag, Downloading, UploadInv, Uploading, Cache!Reading, Cache!Writing,
       Cache!In
  <2>3. QED BY <1>3, <2>1, <2>2 DEF Place
<1>5. (Cache!bus_req_o.rw <=> Cache!Writing) /\ Cache!bus_req_o.data = rd.data
  BY <1>2 DEF Cache!bus_req_o, Cache!In, Cache!Writing
<1>6. QED BY <1>1, <1>3, <1>4, <1>5 DEF Asks

LEMMA PendingTransfer ==
  ASSUME TypeOK, ControlInv, UploadInv, TransferInv, Cache!Reading \/ Cache!Writing,
         NEW k \in 1 .. Len(Pending)
  PROVE  Asks(Pending[k], Answered + k - 1)
<1>0. /\ Answered \in Nat /\ Len(queue) \in Nat /\ k \in Nat
      /\ Len(Pending) = Len(queue) + (IF Cache!bus_req_o.stb THEN 1 ELSE 0)
      /\ \A j \in 1 .. Len(queue) : Pending[j] = queue[j]
      /\ Cache!bus_req_o.stb => Pending[Len(queue) + 1] = Cache!bus_req_o
  BY Numbers, PendingType DEF Answered
<1>1. CASE k \in 1 .. Len(queue)
  BY <1>0, <1>1 DEF TransferInv
<1>2. CASE k \notin 1 .. Len(queue)
  <2>1. Cache!bus_req_o.stb /\ k = Len(queue) + 1
    BY <1>0, <1>2
  <2>2. Answered + k - 1 = Answered + Len(queue)
    BY <1>0, <2>1
  <2>3. QED BY <1>0, <2>1, <2>2, NextRequest
<1>3. QED BY <1>1, <1>2

-----------------------------------------------------------------------------
\* What the memory does in a clock.

LEMMA SomeContent ==
  ASSUME TypeOK, NEW access \in RequestType, Answers(access)
  PROVE  /\ access \in RequestType /\ access = Pending[1] /\ 1 \in 1 .. Len(Pending)
         /\ Len(queue') = Len(Pending) - 1
         /\ \A k \in 1 .. Len(queue') : queue'[k] = Pending[k + 1]
         /\ \A a \in Address :
              Content(a)' = IF a = access.addr /\ a \in Accessed /\ access.rw /\ ~rsp'.err
                            THEN access.data ELSE Content(a)
<1>1. /\ access = Pending[1] /\ 1 \in 1 .. Len(Pending)
      /\ Len(queue') = Len(Pending) - 1
      /\ \A k \in 1 .. Len(queue') : queue'[k] = Pending[k + 1]
  BY PendingType DEF Answers
<1>2. ASSUME NEW a \in Address
      PROVE  Content(a)' = IF a = access.addr /\ a \in Accessed /\ access.rw /\ ~rsp'.err
                           THEN access.data ELSE Content(a)
  BY DEF Content, Answers, TypeOK
<1>3. QED BY <1>1, <1>2

\* Nothing is pending: nothing happens.
LEMMA MemoryQuiet ==
  ASSUME TypeOK, Memory, Outstanding = 0, ~Cache!bus_req_o.stb
  PROVE  /\ ~rsp.ack /\ ~rsp'.ack /\ queue = << >> /\ queue' = << >>
         /\ \A a \in Address : Content(a)' = Content(a)
<1>1. ~rsp.ack /\ Len(queue) = 0
  BY DEF Outstanding, TypeOK
<1>2. queue = << >> /\ Pending = << >>
  BY <1>1 DEF TypeOK, Pending
<1>3. ~rsp'.ack /\ queue' = Pending /\ mem' = mem
  BY <1>2, MemoryStep DEF Answers
<1>4. QED BY <1>1, <1>2, <1>3 DEF Content

\* During a transfer.
LEMMA MemoryTransfer ==
  ASSUME TypeOK, ControlInv, CleanInv, UploadInv, TransferInv, Memory,
         Cache!Reading \/ Cache!Writing
  PROVE  /\ \A a \in Address :
              \/ Content(a)' = Content(a)
              \/ /\ Cache!Writing /\ a \in Accessed
                 /\ a = Place(Answered) /\ Content(a)' = Here(Answered)
         /\ rsp'.ack => /\ Len(queue') = Len(Pending) - 1
                        /\ \A k \in 1 .. Len(queue') : queue'[k] = Pending[k + 1]
         /\ ~rsp'.ack => queue' = Pending
         /\ rsp'.ack /\ ~rsp'.err =>
              /\ Place(Answered) \in Address
              /\ \A a \in Address : a = Place(Answered) =>
                   IF Cache!Writing THEN Content(a)' = Here(Answered)
                   ELSE rsp'.data = Content(a) /\ Content(a)' = Content(a)
<1>1. CASE ~rsp'.ack
  <2>1. queue' = Pending /\ mem' = mem
    BY <1>1, MemoryStep DEF Answers
  <2>2. QED BY <1>1, <2>1 DEF Content
<1>2. CASE rsp'.ack
  <2>1. PICK access \in RequestType : Answers(access)
    BY <1>2, MemoryStep
  <2>2. Asks(access, Answered)
    <3>1. Answered + 1 - 1 = Answered
      BY Numbers DEF Answered
    <3>2. access = Pending[1] /\ 1 \in 1 .. Len(Pending)
      BY <2>1, SomeContent
    <3>3. QED BY <3>1, <3>2, PendingTransfer
  <2>3. /\ Place(Answered) \in Address /\ access.addr = Place(Answered)
        /\ access.rw <=> Cache!Writing
        /\ Cache!Writing => access.data = Here(Answered)
    BY <2>1, <2>2 DEF Asks, RequestType
  <2>4. \A a \in Address :
          Content(a)' = IF a = access.addr /\ a \in Accessed /\ access.rw /\ ~rsp'.err
                        THEN access.data ELSE Content(a)
    BY <2>1, SomeContent
  \* A word nobody can have written is the same in the block that is uploaded.
  <2>5. ASSUME Cache!Writing, Place(Answered) \notin Accessed
        PROVE  Here(Answered) = Content(Place(Answered))
    <3>1. Uploading /\ ~Downloading /\ ~Filling(ctrl.idx)
      BY <2>5 DEF Uploading, Downloading, Filling, Cache!Reading, Cache!Writing, Cache!In
    <3>2. /\ lines[ctrl.idx].vld /\ ctrl.idx \in Cache!Index
          /\ Place(Answered) = At(lines[ctrl.idx].tag, ctrl.idx, Answered)
      BY <3>1, Numbers DEF UploadInv, Place, BlockTag
    <3>3. Answered \in Cache!Offset
      BY <2>3, <3>2, Addresses DEF At
    <3>4. CopyOf(ctrl.idx, Answered)
      BY <2>5, <3>1, <3>2, <3>3 DEF CleanInv
    <3>5. QED BY <3>2, <3>4 DEF CopyOf, Here
  <2>6. rsp'.err \/ rsp'.data = Content(access.addr)
    BY <2>1 DEF Answers
  <2>7. \A a \in Address : \/ Content(a)' = Content(a)
                           \/ /\ Cache!Writing /\ a \in Accessed
                              /\ a = Place(Answered) /\ Content(a)' = Here(Answered)
    BY <2>3, <2>4
  <2>8. ~rsp'.err => /\ Place(Answered) \in Address
                     /\ \A a \in Address : a = Place(Answered) =>
                          IF Cache!Writing THEN Content(a)' = Here(Answered)
                          ELSE rsp'.data = Content(a) /\ Content(a)' = Content(a)
    BY <2>3, <2>4, <2>5, <2>6
  <2>9. /\ Len(queue') = Len(Pending) - 1
        /\ \A k \in 1 .. Len(queue') : queue'[k] = Pending[k + 1]
    BY <2>1, SomeContent
  <2>10. QED BY <1>2, <2>7, <2>8, <2>9
<1>3. QED BY <1>1, <1>2

\* During a bypass.
LEMMA MemoryBypass ==
  ASSUME TypeOK, ControlInv, AccessInv, Memory, Cache!In({"BYPASS"})
  PROVE  /\ \A a \in Address :
              \/ Content(a)' = Content(a)
              \/ /\ a = host.addr /\ host.rw /\ rsp'.ack /\ ~rsp.ack
                 /\ Content(a)' = host.data
         /\ rsp.ack => ~rsp'.ack
         /\ \A k \in 1 .. Len(queue') : /\ queue'[k].addr = host.addr
                                        /\ queue'[k].rw <=> host.rw
                                        /\ queue'[k].data = host.data
         /\ rsp'.ack /\ ~rsp'.err =>
              /\ rsp'.data = Content(host.addr)
              /\ \A a \in Address : a = host.addr /\ host.rw => Content(a)' = host.data
<1> DEFINE OfHost(request) == /\ request.addr = host.addr
                              /\ request.rw <=> host.rw
                              /\ request.data = host.data
<1>0. host.addr \in Address /\ host.addr \in Accessed
  BY Numbers DEF AccessInv, ControlInv, HostInv, Serving, Cache!In
<1>1. \A k \in 1 .. Len(Pending) : OfHost(Pending[k])
  <2>1. Cache!bus_req_o.stb => OfHost(Cache!bus_req_o)
    BY DEF Cache!bus_req_o, TypeOK, RequestType
  <2>2. \A k \in 1 .. Len(queue) : OfHost(queue[k])
    BY DEF AccessInv
  <2> HIDE DEF OfHost
  <2>3. \A k \in 1 .. Len(Pending) : k \in 1 .. Len(queue) \/
                                     (Cache!bus_req_o.stb /\ k = Len(queue) + 1)
    BY PendingType, Numbers
  <2>4. QED BY <2>1, <2>2, <2>3, PendingType
<1>2. rsp.ack => Pending = << >>
  <2>1. rsp.ack => ctrl.bp_req = FALSE /\ Len(queue) = 0
    BY Numbers DEF ControlInv, Outstanding, Requested, Cache!In, TypeOK
  <2>2. rsp.ack => ~Cache!bus_req_o.stb /\ queue = << >>
    BY <2>1 DEF Cache!bus_req_o, TypeOK
  <2>3. QED BY <2>2 DEF Pending
<1>3. CASE ~rsp'.ack
  <2>1. queue' = Pending /\ mem' = mem
    BY <1>3, MemoryStep DEF Answers
  <2>2. QED BY <1>1, <1>3, <2>1 DEF Content
<1>4. CASE rsp'.ack
  <2>1. PICK access \in RequestType : Answers(access)
    BY <1>4, MemoryStep
  <2>2. /\ OfHost(access) /\ Pending /= << >>
        /\ \A k \in 1 .. Len(queue') : OfHost(queue'[k])
    <3>1. \A k \in 1 .. Len(queue') : k + 1 \in 1 .. Len(Pending)
      BY <2>1, SomeContent, PendingType
    <3> HIDE DEF OfHost
    <3>2. QED BY <1>1, <2>1, <3>1, SomeContent DEF Answers
  <2>3. \A a \in Address :
          Content(a)' = IF a = access.addr /\ a \in Accessed /\ access.rw /\ ~rsp'.err
                        THEN access.data ELSE Content(a)
    BY <2>1, SomeContent
  <2>4. rsp'.err \/ rsp'.data = Content(access.addr)
    BY <2>1 DEF Answers
  <2>5. QED BY <1>0, <1>2, <1>4, <2>2, <2>3, <2>4
<1>5. QED BY <1>3, <1>4

-----------------------------------------------------------------------------
\* A block that is not being filled keeps its words while it is a copy.

\* As long as the engine works for the host the request does not change.
LEMMA HostStable ==
  ASSUME TypeOK, ControlInv, Clock, Serving'
  PROVE  /\ busy /\ busy' /\ ~HostAck /\ before' = before
         /\ host'.addr = host.addr /\ host'.data = host.data
         /\ (host'.rw <=> host.rw) /\ (host'.amo <=> host.amo)
<1>0. Cache!Clock /\ Host /\ OffsetInv /\ SyncInv /\ HostInv
  BY DEF Clock, ControlInv
<1>1. ctrl'.state /= "IDLE" /\ (ctrl'.state = "WRITE_START" => ~ctrl'.sync)
  BY DEF Serving, Downloading, Uploading, Cache!In, Cache!Reading, Cache!Writing
<1>2. ~HostAck
  <2>1. SUFFICES ASSUME HostAck PROVE ctrl'.state \in {"IDLE"}
    BY <1>1
  <2>2. CASE ctrl.state = "BYPASS" /\ rsp.ack
    BY <1>0, <2>2, IdleStep, CheckStep, BypassStep, SyncSteps, ReadSteps, WriteSteps
       DEF Cache!Clock, Goes, To
  <2>3. CASE ctrl.state = "CHECK" /\ ~ctrl.pnd_bp /\ Cache!hit
    BY <1>0, <2>3, IdleStep, CheckStep, BypassStep, SyncSteps, ReadSteps, WriteSteps
       DEF Cache!Clock, Accepts, To
  <2>4. CASE ctrl.state = "READ_DONE" /\ ctrl.bus_err
    BY <1>0, <2>4, IdleStep, CheckStep, BypassStep, SyncSteps, ReadSteps, WriteSteps
       DEF Cache!Clock, Goes, To
  <2>5. CASE ctrl.state = "WRITE_DONE" /\ ctrl.bus_err /\ ~ctrl.sync
    BY <1>0, <2>5, IdleStep, CheckStep, BypassStep, SyncSteps, ReadSteps, WriteSteps
       DEF Cache!Clock, Goes, To
  <2>6. QED BY <1>0, <2>1, <2>2, <2>3, <2>4, <2>5, Acknowledges
<1>3. busy
  <2>1. SUFFICES ASSUME ~busy PROVE FALSE
    OBVIOUS
  <2>2. ~Serving /\ ~host.stb /\ ~ctrl.pnd_req
    BY <1>0, <2>1 DEF HostInv
  <2> USE <1>0, <1>1, <2>2 DEF SyncInv, Serving, Downloading, Uploading, Cache!In,
          Cache!Reading, Cache!Writing, To, Goes, Req
  <2>3. CASE Cache!Idle \/ Cache!Bypass
    BY <2>3, IdleStep, BypassStep
  <2>4. CASE Cache!CheckBypass \/ Cache!CheckHit \/ Cache!CheckMiss
    BY <2>4, CheckStep
  <2>5. CASE Cache!SyncStart \/ Cache!SyncDelay \/ Cache!SyncCheck \/ Cache!SyncNext
    BY <2>5, SyncSteps
  <2>6. CASE Cache!ReadStart \/ Cache!ReadWait \/ Cache!ReadBurst \/ Cache!ReadDone
    BY <2>6, ReadSteps
  <2>7. CASE Cache!WriteStart \/ Cache!WriteReq \/ Cache!WriteRsp
    BY <2>7, WriteSteps DEF Receives
  <2>8. CASE Cache!WriteWait \/ Cache!WriteBurst \/ Cache!WriteDone
    BY <2>8, WriteSteps DEF Receives
  <2>9. QED BY <2>3, <2>4, <2>5, <2>6, <2>7, <2>8 DEF Cache!Clock
<1>4. host' = [host EXCEPT !.stb = FALSE] /\ before' = before /\ busy'
  BY <1>0, <1>2, <1>3 DEF Host, Wait
<1>5. QED BY <1>2, <1>3, <1>4 DEF TypeOK, RequestType

\* The memory changes only the words of the block in transfer, and the one of
\* the access that bypasses the cache.
LEMMA ContentKept ==
  ASSUME TypeOK, ControlInv, DataInv, Memory,
         NEW i \in Cache!Index, NEW o \in Cache!Offset, lines[i].vld,
         ~lines[i].drt \/ At(lines[i].tag, i, o) \notin Accessed,
         NEW a \in Address, a = At(lines[i].tag, i, o)
  PROVE  Content(a)' = Content(a)
<1>0. lines[i].tag \in Tag /\ a.idx = i /\ a.tag = lines[i].tag
  BY Numbers, Addresses DEF At
<1>1. CASE Cache!Reading \/ Cache!Writing
  <2>1. SUFFICES ASSUME Cache!Writing, a \in Accessed, a = Place(Answered) PROVE FALSE
    BY <1>1, MemoryTransfer DEF DataInv
  <2>2. i = ctrl.idx
    BY <1>0, <2>1, Addresses DEF Place, At
  <2>3. lines[ctrl.idx].drt
    BY <2>1 DEF DataInv, UploadInv, Uploading
  <2>4. QED BY <2>1, <2>2, <2>3
<1>2. CASE Cache!In({"BYPASS"})
  <2>1. SUFFICES ASSUME a = host.addr PROVE FALSE
    BY <1>2, MemoryBypass DEF DataInv
  <2>2. QED BY <1>0, <1>2, <2>1 DEF DataInv, AccessInv, AtHost
<1>3. CASE ~(Cache!Reading \/ Cache!Writing) /\ ~Cache!In({"BYPASS"})
  <2>1. Outstanding = 0 /\ ~Cache!bus_req_o.stb
    BY <1>3, Strobes DEF ControlInv, Requested, Cache!In, Cache!Reading, Cache!Writing
  <2>2. QED BY <2>1, MemoryQuiet
<1>4. QED BY <1>1, <1>2, <1>3

\* The addresses at which the memories are accessed.
LEMMA Accessing ==
  ASSUME TypeOK
  PROVE  /\ host.addr \in Address
         /\ Cache!Own(ctrl.ofs_int) \in Address
         /\ Cache!Own(ctrl.ofs_int).tag = ctrl.tag /\ Cache!Own(ctrl.ofs_int).idx = ctrl.idx
         /\ Cache!Own(ctrl.ofs_int).ofs = ctrl.ofs_int
         /\ Cache!Own(ctrl.ofs_ext) \in Address /\ Cache!Own(ctrl.ofs_ext).idx = ctrl.idx
         /\ ctrl.ofs_ext < BLOCK => Cache!Own(ctrl.ofs_ext).ofs = ctrl.ofs_ext
BY Numbers, OwnAddress

\* Without a hit or with a clean block the block at the index is not dirty.
LEMMA CheckedStatus ==
  ASSUME TypeOK, CheckInv, Cache!In({"CHECK"})
  PROVE  /\ Cache!hit => AtHost.vld /\ AtHost.tag = host.addr.tag
         /\ ctrl.pnd_bp /\ ~Cache!hit => ~(AtHost.vld /\ AtHost.tag = host.addr.tag)
         /\ ~ctrl.hit /\ ~Cache!drt => ~AtHost.vld \/ ~AtHost.drt
         /\ ~ctrl.hit /\ Cache!drt => AtHost.vld /\ AtHost.drt /\ rd.tag = AtHost.tag
         /\ ~Cache!hit \/ ctrl.pnd_bp => ~ctrl.hit
         /\ ~Cache!hit => ~(AtHost.vld /\ AtHost.tag = host.addr.tag)
<1>1. host.addr.idx \in Cache!Index
  BY Numbers, Addresses
<1>2. AtHost.vld \in BOOLEAN /\ AtHost.drt \in BOOLEAN
  BY <1>1, Numbers DEF AtHost
<1>3. QED BY <1>2 DEF CheckInv, Cache!hit, Cache!drt

LEMMA CleanBlock ==
  ASSUME IInv, Clock, NEW i \in Cache!Index, NEW o \in Cache!Offset,
         lines'[i].vld, ~Filling(i)',
         ~lines'[i].drt \/ At(lines'[i].tag, i, o) \notin Accessed,
         NEW a \in Address, a = At(lines'[i].tag, i, o)
  PROVE  lines'[i].data[o] = Content(a)'
<1> USE DEF Cache!Index, Cache!Offset
<1>2. /\ TypeOK /\ ControlInv /\ DataInv /\ Cache!Clock /\ Memory /\ OffsetInv
      /\ UploadInv /\ CheckInv /\ CleanInv /\ CopiedInv
  BY DEF IInv, Clock, ControlInv, DataInv
<1>3. lines'[i].vld /\ (~lines'[i].drt \/ a \notin Accessed) /\ lines[i].vld \in BOOLEAN
      /\ a = At(lines'[i].tag, i, o)
  BY <1>2, Numbers
<1>4. ASSUME lines[i].vld, lines'[i].tag = lines[i].tag,
             lines'[i].data[o] = lines[i].data[o], ~Filling(i),
             ~lines[i].drt \/ a \notin Accessed
      PROVE  lines'[i].data[o] = Content(a)'
  <2>1. lines[i].data[o] = Content(a)
    BY <1>2, <1>3, <1>4 DEF CleanInv, CopyOf
  <2>2. Content(a)' = Content(a)
    BY <1>2, <1>3, <1>4, ContentKept
  <2>3. QED BY <1>4, <2>1, <2>2
<1>5. ASSUME lines'[i] = lines[i], ~Filling(i)
      PROVE  lines'[i].data[o] = Content(a)'
  BY <1>3, <1>4, <1>5
<1>6. CASE Cache!Idle \/ Cache!Bypass \/ Cache!SyncStart \/ Cache!SyncDelay \/ Cache!SyncCheck
  <2>1. lines' = lines /\ ctrl.state \notin {"READ_START", "READ_WAIT", "READ_BURST", "READ_DONE"}
    BY <1>2, <1>6, IdleStep, BypassStep, SyncSteps
  <2>2. QED BY <1>5, <2>1 DEF Filling, Cache!In
<1>7. CASE Cache!CheckBypass \/ Cache!CheckHit \/ Cache!CheckMiss
  <2>1. ctrl.state = "CHECK" /\ ~Filling(i)
    BY <1>2, <1>7, CheckStep DEF Filling, Cache!In
  <2>2. \/ lines' = lines \/ Cache!Mark(host.addr, FALSE, FALSE)
        \/ /\ Cache!hit
           /\ lines' = [lines EXCEPT ![host.addr.idx].drt = TRUE,
                                     ![host.addr.idx].data[host.addr.ofs] = host.data]
    BY <1>2, <1>7, CheckStep
  <2>3. CASE lines' = lines
    BY <1>5, <2>1, <2>3
  <2>4. CASE Cache!Mark(host.addr, FALSE, FALSE)
    <3>1. Others(host.addr) /\ ~lines'[host.addr.idx].vld
      BY <1>2, <2>4, Accessing, Marked
    <3>2. QED BY <1>3, <1>5, <2>1, <3>1 DEF Others
  <2>5. CASE Cache!hit /\ lines' = [lines EXCEPT ![host.addr.idx].drt = TRUE,
                                     ![host.addr.idx].data[host.addr.ofs] = host.data]
    <3>1. /\ Others(host.addr) /\ WordWritten(host.addr, host.data)
          /\ lines'[host.addr.idx].vld = lines[host.addr.idx].vld
          /\ lines'[host.addr.idx].tag = lines[host.addr.idx].tag
          /\ lines'[host.addr.idx].drt
      BY <1>2, <2>5, Accessing, WasHit
    <3>2. CASE i /= host.addr.idx
      BY <1>5, <2>1, <3>1, <3>2 DEF Others
    <3>3. CASE i = host.addr.idx
      <4>1. lines[i].vld /\ lines[i].tag = host.addr.tag
        BY <1>2, <2>1, <2>5, <3>3, CheckedStatus DEF AtHost, Cache!In
      <4>2. a \notin Accessed
        BY <1>3, <3>1, <3>3
      <4>3. host.addr \in Accessed
        BY <1>2, <2>1 DEF DataInv, AccessInv, ControlInv, HostInv, Serving, Cache!In
      <4>4. o /= host.addr.ofs
        <5>1. a = At(host.addr.tag, host.addr.idx, o)
          BY <1>3, <3>1, <3>3, <4>1
        <5>2. host.addr = At(host.addr.tag, host.addr.idx, host.addr.ofs)
          BY <1>2, Accessing, Addresses
        <5>3. QED BY <4>2, <4>3, <5>1, <5>2
      <4>5. lines'[i].data[o] = lines[i].data[o]
        BY <3>1, <3>3, <4>4 DEF WordWritten
      <4>6. QED BY <1>4, <2>1, <3>1, <3>3, <4>1, <4>2, <4>5
    <3>4. QED BY <3>2, <3>3
  <2>6. QED BY <2>2, <2>3, <2>4, <2>5
<1>8. CASE Cache!ReadStart \/ Cache!ReadWait \/ Cache!ReadBurst
  <2>1. /\ ctrl'.idx = ctrl.idx
        /\ ctrl'.state \in {"READ_START", "READ_WAIT", "READ_BURST", "READ_DONE"}
        /\ lines' = lines \/ Cache!Put(Cache!Own(ctrl.ofs_int), rsp.data)
    BY <1>2, <1>8, ReadSteps DEF Goes, Receives, To
  <2>2. i /= ctrl.idx
    BY <2>1 DEF Filling, Cache!In
  <2>3. lines'[i] = lines[i] /\ ~Filling(i)
    BY <1>2, <2>1, <2>2, Accessing, WasPut DEF Filling, Others
  <2>4. QED BY <1>5, <2>3
<1>9. CASE Cache!ReadDone
  <2>1. /\ ctrl.state = "READ_DONE"
        /\ Cache!Mark(host.addr, ~ctrl.bus_err, FALSE)
    BY <1>2, <1>9, ReadSteps
  <2>2. /\ Others(host.addr) /\ (lines'[host.addr.idx].vld <=> ~ctrl.bus_err)
        /\ lines'[host.addr.idx].tag = host.addr.tag
        /\ lines'[host.addr.idx].data = lines[host.addr.idx].data
    BY <1>2, <2>1, Accessing, Marked
  <2>3. ctrl.idx = host.addr.idx /\ ctrl.tag = host.addr.tag
    BY <1>2, <2>1 DEF CheckInv, Serving, Downloading, Cache!In
  <2>4. CASE i /= ctrl.idx
    BY <1>5, <2>2, <2>3, <2>4 DEF Others, Filling
  <2>5. CASE i = ctrl.idx
    <3>1. Same(o) /\ Place(o) = a
      <4>1. ~ctrl.bus_err /\ Copied = BLOCK
        BY <1>3, <2>1, <2>2, <2>3, <2>5 DEF Copied, Cache!In
      <4>2. Same(o)
        BY <1>2, <2>1, <4>1, Numbers DEF CopiedInv, Downloading, Cache!In
      <4>3. Place(o) = a
        BY <1>3, <2>1, <2>2, <2>3, <2>5 DEF Place, BlockTag, Downloading, Cache!In
      <4>4. QED BY <4>2, <4>3
    <3>2. Content(a)' = Content(a)
      <4>1. Outstanding = 0 /\ ~Cache!bus_req_o.stb
        BY <1>2, <2>1, Strobes DEF ControlInv, Requested, Cache!In
      <4>2. QED BY <1>2, <4>1, MemoryQuiet
    <3>3. lines'[i].data[o] = Here(o)
      BY <2>2, <2>3, <2>5 DEF Here
    <3>4. QED BY <3>1, <3>2, <3>3 DEF Same
  <2>6. QED BY <2>4, <2>5
<1>10. CASE Cache!WriteStart \/ Cache!WriteReq \/ Cache!WriteRsp \/ Cache!WriteWait
            \/ Cache!WriteBurst
  <2>1. lines' = lines /\ ctrl.state \notin {"READ_START", "READ_WAIT", "READ_BURST", "READ_DONE"}
    BY <1>2, <1>10, WriteSteps
  <2>2. QED BY <1>5, <2>1 DEF Filling, Cache!In
<1>11. CASE Cache!WriteDone
  <2>1. /\ ctrl.state = "WRITE_DONE" /\ ~Filling(i)
        /\ \/ lines' = lines
           \/ Cache!Mark(Cache!Own(ctrl.ofs_int), ~ctrl.bus_err, FALSE)
    BY <1>2, <1>11, WriteSteps DEF Filling, Cache!In
  <2>2. CASE lines' = lines
    BY <1>5, <2>1, <2>2
  <2>3. CASE Cache!Mark(Cache!Own(ctrl.ofs_int), ~ctrl.bus_err, FALSE)
    <3>1. /\ Others(Cache!Own(ctrl.ofs_int)) /\ (lines'[ctrl.idx].vld <=> ~ctrl.bus_err)
          /\ lines'[ctrl.idx].tag = ctrl.tag
          /\ lines'[ctrl.idx].data = lines[ctrl.idx].data
      BY <1>2, <2>3, Accessing, Marked
    <3>2. CASE i /= ctrl.idx
      BY <1>2, <1>5, <2>1, <3>1, <3>2, Accessing DEF Others
    <3>3. CASE i = ctrl.idx
      <4>1. lines[i].tag = ctrl.tag
        BY <1>2, <2>1, <3>3 DEF UploadInv, Uploading, Cache!In
      <4>2. ~ctrl.bus_err /\ Copied = BLOCK
        BY <1>3, <2>1, <3>1, <3>3 DEF Copied, Cache!In
      <4>3. Same(o)
        BY <1>2, <2>1, <4>2, Numbers DEF CopiedInv, Uploading, Cache!In
      <4>4. Place(o) = a
        BY <1>3, <2>1, <3>1, <3>3, <4>1
           DEF Place, BlockTag, Downloading, Cache!Reading, Cache!In
      <4>5. Content(a)' = Content(a)
        <5>1. Outstanding = 0 /\ ~Cache!bus_req_o.stb
          BY <1>2, <2>1, Strobes DEF ControlInv, Requested, Cache!In
        <5>2. QED BY <1>2, <5>1, MemoryQuiet
      <4>6. QED BY <3>1, <3>3, <4>3, <4>4, <4>5 DEF Same, Here
    <3>4. QED BY <3>2, <3>3
  <2>4. QED BY <2>1, <2>2, <2>3
<1>12. CASE Cache!SyncNext
  <2>1. /\ ctrl.state = "SYNC_NEXT" /\ ~Filling(i)
        /\ Cache!Mark(Cache!Own(ctrl.ofs_int), ctrl.bus_err, ctrl.bus_err)
    BY <1>2, <1>12, SyncSteps DEF Filling, Cache!In
  <2>2. /\ Others(Cache!Own(ctrl.ofs_int)) /\ lines'[ctrl.idx].vld = ctrl.bus_err
        /\ lines'[ctrl.idx].drt = (ctrl.bus_err /\ ~READ_ONLY)
        /\ lines'[ctrl.idx].tag = ctrl.tag
        /\ lines'[ctrl.idx].data = lines[ctrl.idx].data
    BY <1>2, <2>1, Accessing, Marked
  <2>3. CASE i /= ctrl.idx
    <3>1. lines'[i] = lines[i]
      BY <1>2, <2>2, <2>3, Accessing DEF Others
    <3>2. QED BY <1>5, <2>1, <3>1
  <2>4. CASE i = ctrl.idx
    <3>1. ctrl.bus_err /\ ~READ_ONLY
      BY <1>3, <2>1, <2>2, <2>4 DEF IInv, FlushInv, Cache!In
    <3>2. lines[i].vld /\ lines[i].tag = ctrl.tag
      BY <1>2, <2>1, <2>4, <3>1 DEF UploadInv, Cache!In
    <3>3. a \notin Accessed
      BY <1>3, <2>2, <2>4, <3>1
    <3>4. QED BY <1>4, <2>1, <2>2, <2>4, <3>2, <3>3
  <2>5. QED BY <2>3, <2>4
<1>13. Cache!Clock
  BY <1>2
<1>14. QED BY ONLY <1>13, <1>6, <1>7, <1>8, <1>9, <1>10, <1>11, <1>12 DEF Cache!Clock

LEMMA CleanStep ==
  ASSUME IInv, Clock
  PROVE  CleanInv'
<1>1. SUFFICES ASSUME NEW i \in Cache!Index, NEW o \in Cache!Offset,
                      lines'[i].vld, ~Filling(i)',
                      ~lines'[i].drt \/ At(lines'[i].tag, i, o) \notin Accessed
               PROVE  CopyOf(i, o)'
  BY DEF CleanInv, Accessed, At, Cache!Index, Cache!Offset
<1>2. lines'[i].tag \in Tag
  <2>1. TypeOK'
    BY TypeStep DEF IInv
  <2>2. lines'[i] \in BlockType
    BY <2>1 DEF TypeOK, BlockType, Cache!Index
  <2>3. QED BY <2>2 DEF BlockType
<1>3. PICK a \in Address : a = At(lines'[i].tag, i, o)
  BY <1>2, Addresses
<1>4. lines'[i].data[o] = Content(a)'
  BY <1>1, <1>3, CleanBlock
<1>5. QED BY <1>3, <1>4 DEF CopyOf, At, Content, Accessed, Word

-----------------------------------------------------------------------------
\* A transfer goes on: the answers still due are those of the words after the
\* ones answered.

LEMMA TransferGoesOn ==
  ASSUME TypeOK, ControlInv, Cache!Clock,
         ctrl'.state \in {"READ_WAIT", "READ_BURST", "WRITE_RSP", "WRITE_BURST"}
  PROVE  /\ Cache!Reading \/ Cache!Writing
         /\ (Cache!Reading' <=> Cache!Reading) /\ (Cache!Writing' <=> Cache!Writing)
         /\ ctrl'.idx = ctrl.idx /\ ctrl'.ofs_int = Answered
         /\ Cache!Reading => ctrl'.tag = ctrl.tag
         /\ Cache!Writing => lines' = lines
<1>0. /\ OffsetInv /\ ctrl.ofs_int \in Nat /\ BLOCK \in Nat /\ BLOCK > 1
      /\ (rsp.ack => Outstanding > 0) /\ Outstanding = Requested
  BY Numbers DEF ControlInv, Outstanding
<1> USE DEF Cache!Reading, Cache!Writing, Cache!In
<1>1. ~Cache!Idle /\ ~Cache!Bypass
  BY <1>0, IdleStep, BypassStep DEF To, Goes
<1>2. ~(Cache!CheckBypass \/ Cache!CheckHit \/ Cache!CheckMiss)
  BY <1>0, CheckStep DEF Accepts, To
<1>3. ~(Cache!SyncStart \/ Cache!SyncDelay \/ Cache!SyncCheck \/ Cache!SyncNext)
  BY <1>0, SyncSteps DEF Goes, To
<1>4. ~Cache!ReadDone /\ ~Cache!WriteDone /\ ~Cache!WriteStart
  BY <1>0, ReadSteps, WriteSteps DEF Goes, To
<1>5. CASE Cache!ReadStart \/ Cache!WriteReq
  <2>1. /\ ctrl.state \in {"READ_START", "WRITE_REQ"} /\ ctrl'.idx = ctrl.idx
        /\ ctrl'.ofs_int = ctrl.ofs_int /\ ctrl'.tag = ctrl.tag /\ lines' = lines
        /\ ctrl'.state = IF ctrl.state = "READ_START" THEN "READ_WAIT" ELSE "WRITE_RSP"
    BY <1>0, <1>5, ReadSteps, WriteSteps DEF Goes, To
  <2>2. ~rsp.ack
    BY <1>0, <2>1 DEF Requested
  <2>3. Answered = ctrl.ofs_int
    BY <1>0, <2>2 DEF Answered
  <2>4. QED BY <2>1, <2>3
<1>6. CASE Cache!WriteWait
  <2>1. /\ ctrl.state = "WRITE_WAIT" /\ ctrl'.idx = ctrl.idx
        /\ ctrl'.ofs_int = ctrl.ofs_int /\ lines' = lines
        /\ ctrl'.state = "WRITE_BURST"
    BY <1>0, <1>6, WriteSteps DEF To
  <2>2. ~rsp.ack
    BY <1>0, <2>1 DEF Requested
  <2>3. Answered = ctrl.ofs_int
    BY <1>0, <2>2 DEF Answered
  <2>4. QED BY <2>1, <2>3
<1>7. CASE Cache!ReadWait \/ Cache!ReadBurst
  <2>1. /\ ctrl.state \in {"READ_WAIT", "READ_BURST"} /\ ctrl'.idx = ctrl.idx
        /\ ctrl'.tag = ctrl.tag
        /\ ctrl.state = "READ_WAIT" => (bursts_en => ctrl.ofs_int = 0)
        /\ \/ ~rsp.ack /\ ctrl'.ofs_int = ctrl.ofs_int /\ ctrl'.state = ctrl.state
           \/ /\ rsp.ack /\ ctrl'.ofs_int = Wrapped
              /\ ctrl'.state = IF ctrl.state = "READ_WAIT"
                               THEN IF bursts_en THEN "READ_BURST"
                                    ELSE IF ctrl.ofs_int = BLOCK - 1 THEN "READ_DONE"
                                    ELSE "READ_START"
                               ELSE IF ctrl.ofs_int = BLOCK - 1 THEN "READ_DONE"
                                    ELSE "READ_BURST"
    BY <1>0, <1>7, ReadSteps DEF OffsetInv, Goes, Receives, To
  <2>2. ctrl'.ofs_int = Answered
    BY <1>0, <2>1 DEF Answered, Wrapped
  <2>3. ctrl'.state \in {"READ_WAIT", "READ_BURST"}
    BY <2>1
  <2>4. QED BY <2>1, <2>2, <2>3
<1>8. CASE Cache!WriteRsp \/ Cache!WriteBurst
  <2>1. /\ ctrl.state \in {"WRITE_RSP", "WRITE_BURST"} /\ ctrl'.idx = ctrl.idx
        /\ lines' = lines
        /\ \/ ~rsp.ack /\ ctrl'.ofs_int = ctrl.ofs_int /\ ctrl'.state = ctrl.state
           \/ /\ rsp.ack /\ ctrl'.ofs_int = Wrapped
              /\ ctrl.state = "WRITE_BURST" /\ ctrl.ofs_int /= BLOCK - 1
              /\ ctrl'.state = "WRITE_BURST"
    BY <1>0, <1>8, WriteSteps DEF OffsetInv, Goes, Receives, To
  <2>2. ctrl'.ofs_int = Answered
    BY <1>0, <2>1 DEF Answered, Wrapped
  <2>3. QED BY <2>1, <2>2
<1>9. QED BY ONLY Cache!Clock, <1>1, <1>2, <1>3, <1>4, <1>5, <1>6, <1>7, <1>8 DEF Cache!Clock

LEMMA TransferStep ==
  ASSUME IInv, Clock
  PROVE  TransferInv'
<1>0. /\ TypeOK /\ ControlInv /\ DataInv /\ Cache!Clock /\ Memory
      /\ CleanInv /\ UploadInv /\ TransferInv /\ CopiedInv
  BY DEF IInv, Clock, DataInv
<1>1. TypeOK' /\ ControlInv' /\ rsp'.ack \in BOOLEAN
  BY <1>0, TypeStep, ControlStep DEF TypeOK
<1>2. CASE Outstanding' = 0
  <2>1. Len(queue)' = 0 /\ ~rsp'.ack
    BY <1>1, <1>2 DEF Outstanding, TypeOK
  <2>2. QED BY <2>1 DEF TransferInv
<1>3. CASE ctrl'.state = "BYPASS"
  BY <1>3 DEF TransferInv, Cache!Reading, Cache!Writing, Cache!In
<1>4. CASE Outstanding' /= 0 /\ ctrl'.state /= "BYPASS"
  <2>1. ctrl'.state \in {"READ_WAIT", "READ_BURST", "WRITE_RSP", "WRITE_BURST"}
    BY <1>1, <1>4 DEF ControlInv, Requested, Cache!In
  <2>2. /\ Cache!Reading \/ Cache!Writing
        /\ (Cache!Reading' <=> Cache!Reading) /\ (Cache!Writing' <=> Cache!Writing)
        /\ ctrl'.idx = ctrl.idx /\ ctrl'.ofs_int = Answered
        /\ Cache!Reading => ctrl'.tag = ctrl.tag
        /\ Cache!Writing => lines' = lines
    BY <1>0, <2>1, TransferGoesOn
  <2>3. \A o : Place(o)' = Place(o)
    BY <2>2 DEF Place, BlockTag, Downloading, Cache!In, Cache!Reading, Cache!Writing
  <2>4. Cache!Writing => \A o : Here(o)' = Here(o)
    BY <2>2 DEF Here
  <2>5. \A request, o : Asks(request, o) => Asks(request, o)'
    BY <2>2, <2>3, <2>4 DEF Asks
  <2>6. Answered \in Nat /\ Len(Pending) \in Nat
        /\ Answered' = Answered + (IF rsp'.ack THEN 1 ELSE 0)
    <3>1. Answered \in Nat /\ Len(Pending) \in Nat
      BY <1>0, Numbers, PendingType DEF Answered
    <3>2. QED BY <2>2, <3>1 DEF Answered
  <2>7. ASSUME NEW k \in 1 .. Len(queue')
        PROVE  Asks(queue[k], Answered + k - 1)'
    <3>1. PICK j \in 1 .. Len(Pending) :
            queue'[k] = Pending[j] /\ (Answered + k - 1)' = Answered + j - 1
      <4>1. CASE ~rsp'.ack
        <5>1. queue' = Pending
          BY <1>0, <2>2, <4>1, MemoryTransfer
        <5>2. (Answered + k - 1)' = Answered + k - 1
          BY <2>6, <4>1
        <5>3. QED BY <2>7, <5>1, <5>2
      <4>2. CASE rsp'.ack
        <5>1. Len(queue') = Len(Pending) - 1 /\ queue'[k] = Pending[k + 1]
          BY <1>0, <2>2, <2>7, <4>2, MemoryTransfer
        <5>2. k + 1 \in 1 .. Len(Pending)
          BY <2>6, <2>7, <5>1
        <5>3. (Answered + k - 1)' = Answered + (k + 1) - 1
          BY <2>6, <4>2
        <5>4. QED BY <5>1, <5>2, <5>3
      <4>3. QED BY <4>1, <4>2
    <3>2. PICK request, o : request = Pending[j] /\ o = Answered + j - 1
      OBVIOUS
    <3>3. Asks(request, o)
      BY <1>0, <2>2, <3>1, <3>2, PendingTransfer
    <3>4. Asks(request, o)'
      BY <2>5, <3>3
    <3>5. queue'[k] = request /\ (Answered + k - 1)' = o
      BY <3>1, <3>2
    <3>6. QED BY <3>4, <3>5 DEF Asks, Place, Here
  <2>8. rsp'.ack /\ ~rsp'.err =>
          IF Cache!Writing THEN \A a \in Address : a = Place(Answered) => Content(a)' = Here(Answered)
          ELSE \A a \in Address : a = Place(Answered) => rsp'.data = Content(a)'
    BY <1>0, <2>2, MemoryTransfer
  <2>9. rsp'.ack /\ ~rsp'.err => Place(Answered) \in Address
    BY <1>0, <2>2, MemoryTransfer
  <2>10. ASSUME rsp'.ack, ~rsp'.err
         PROVE  IF Cache!Writing' THEN Same(ctrl.ofs_int)'
                ELSE rsp'.data = Content(Place(ctrl.ofs_int))'
    <3>1. PICK a \in Address : a = Place(Answered)
      BY <2>9, <2>10
    <3>2. Place(ctrl.ofs_int)' = a
      BY <2>2, <3>1 DEF Place, BlockTag, Downloading, Cache!In, Cache!Reading, Cache!Writing
    <3>3. Cache!Writing => Content(a)' = Here(ctrl.ofs_int)'
      BY <2>2, <2>8, <2>10, <3>1 DEF Here
    <3>4. ~Cache!Writing => rsp'.data = Content(a)'
      BY <2>8, <2>10, <3>1
    <3>5. Content(Place(ctrl.ofs_int))' = Content(a)'
      BY <3>2 DEF Content, Word, Accessed
    <3>6. QED BY <2>2, <3>3, <3>4, <3>5 DEF Same
  <2>11. QED BY <2>7, <2>10 DEF TransferInv
<1>5. QED BY <1>2, <1>3, <1>4

-----------------------------------------------------------------------------
\* What has been copied stays the same on both sides.

LEMMA CopiedContent ==
  ASSUME TypeOK, ControlInv, DataInv, Memory, ~Cache!In({"BYPASS"}),
         NEW o \in Nat, Cache!Writing => o < Answered,
         NEW a \in Address, a = Place(o)
  PROVE  Content(a)' = Content(a)
<1>1. CASE Cache!Reading \/ Cache!Writing
  <2>1. SUFFICES ASSUME Cache!Writing, a = Place(Answered) PROVE FALSE
    BY <1>1, MemoryTransfer DEF DataInv
  <2>2. o = Answered
    BY <2>1 DEF Place, At
  <2>3. Answered \in Nat
    BY Numbers DEF Answered
  <2>4. QED BY <2>1, <2>2, <2>3
<1>2. CASE ~(Cache!Reading \/ Cache!Writing)
  <2>1. Outstanding = 0 /\ ~Cache!bus_req_o.stb
    BY <1>2, Strobes DEF ControlInv, Requested, Cache!In, Cache!Reading, Cache!Writing
  <2>2. QED BY <2>1, MemoryQuiet
<1>3. QED BY <1>1, <1>2

LEMMA CopiedWord ==
  ASSUME IInv, Clock, NEW o \in Cache!Offset,
         Uploading' \/ Downloading' \/ (Cache!In({"SYNC_NEXT"})' /\ lines'[ctrl'.idx].vld),
         ~ctrl'.bus_err, o < Copied'
  PROVE  Same(o)'
<1>0. /\ TypeOK /\ ControlInv /\ DataInv /\ Cache!Clock /\ Memory /\ OffsetInv
      /\ CleanInv /\ UploadInv /\ TransferInv /\ CopiedInv /\ CheckInv
      /\ o \in Nat /\ o < BLOCK /\ BLOCK \in Nat
      /\ ctrl.ofs_int \in Nat /\ ctrl.ofs_int < BLOCK /\ BLOCK > 1
  BY Numbers DEF IInv, Clock, DataInv, ControlInv, Cache!Offset
<1>1. ctrl'.state \in {"READ_START", "READ_WAIT", "READ_BURST", "READ_DONE", "WRITE_START",
                       "WRITE_REQ", "WRITE_RSP", "WRITE_WAIT", "WRITE_BURST", "WRITE_DONE",
                       "SYNC_NEXT"}
  BY DEF Uploading, Downloading, Cache!In, Cache!Reading, Cache!Writing
<1>2. Copied' = IF ctrl'.state \in {"READ_DONE", "WRITE_DONE", "SYNC_NEXT"} THEN BLOCK
                ELSE ctrl'.ofs_int
  BY DEF Copied, Cache!In
<1>3. ~(ctrl'.state \in {"READ_START", "WRITE_START"} /\ ctrl'.ofs_int = 0)
  BY <1>0, <1>2
\* A word copied earlier.
<1>4. ASSUME ctrl'.idx = ctrl.idx, BlockTag' = BlockTag, Here(o)' = Here(o), Same(o),
             ~Cache!In({"BYPASS"}), Cache!Writing => o < Answered
      PROVE  Same(o)'
  <2>1. BlockTag \in Tag
    BY <1>0, Numbers DEF BlockTag
  <2>2. PICK a \in Address : a = Place(o)
    BY <1>0, <2>1, Numbers, Addresses DEF Place
  <2>3. Content(a)' = Content(a)
    BY <1>0, <1>4, <2>2, CopiedContent
  <2>4. Place(o)' = a
    BY <1>4, <2>2 DEF Place
  <2>5. Content(Place(o))' = Content(a)'
    BY <2>4 DEF Content, Word, Accessed
  <2>6. QED BY <1>4, <2>2, <2>3, <2>5 DEF Same
<1>5. ASSUME Uploading \/ Downloading \/ (Cache!In({"SYNC_NEXT"}) /\ lines[ctrl.idx].vld),
             ~ctrl.bus_err, o < Copied
      PROVE  Same(o)
  BY <1>0, <1>5 DEF CopiedInv
<1>6. ~Cache!Idle /\ ~Cache!Bypass
  BY <1>0, <1>1, IdleStep, BypassStep DEF To, Goes
<1>7. ~(Cache!CheckBypass \/ Cache!CheckHit \/ Cache!CheckMiss)
  BY <1>0, <1>1, <1>3, CheckStep DEF Accepts, To
<1>8. ~Cache!SyncStart /\ ~Cache!SyncDelay /\ ~Cache!SyncNext
  BY <1>0, <1>1, SyncSteps DEF Goes, To
<1>9. ~Cache!ReadDone
  BY <1>0, <1>1, ReadSteps DEF Goes, To
<1>10. CASE Cache!SyncCheck
  <2>1. /\ ctrl.state = "SYNC_CHECK" /\ ctrl'.state = "SYNC_NEXT" /\ ~Cache!drt
        /\ lines' = lines /\ ctrl'.idx = ctrl.idx
    BY <1>0, <1>3, <1>10, SyncSteps DEF To
  <2>2. lines[ctrl.idx].vld
    BY <2>1 DEF Uploading, Downloading, Cache!In, Cache!Reading, Cache!Writing
  <2>3. ~lines[ctrl.idx].drt
    <3>1. ~ctrl.cln /\ rd.vld = lines[ctrl.idx].vld /\ rd.drt = lines[ctrl.idx].drt
      BY <1>0, <2>1 DEF CheckInv, Cache!In
    <3>2. QED BY <2>1, <2>2, <3>1 DEF Cache!drt
  <2>4. /\ ~Filling(ctrl.idx) /\ BlockTag = lines[ctrl.idx].tag
        /\ BlockTag' = lines'[ctrl'.idx].tag /\ ~Cache!In({"BYPASS"}) /\ ~Cache!Writing
    BY <2>1 DEF Filling, BlockTag, Downloading, Cache!In, Cache!Reading, Cache!Writing
  <2>5. Same(o)
    BY <1>0, <2>2, <2>3, <2>4, Numbers DEF CleanInv, CopyOf, Same, Here, Place
  <2>6. QED BY <1>4, <2>1, <2>4, <2>5 DEF Here
<1>11. CASE Cache!ReadStart \/ Cache!WriteStart \/ Cache!WriteReq \/ Cache!WriteWait
            \/ (Cache!WriteDone /\ ctrl'.state = "SYNC_NEXT")
  <2>1. /\ Uploading \/ Downloading
        /\ ctrl.state /= "BYPASS" /\ (Downloading' <=> Downloading)
        /\ ctrl'.idx = ctrl.idx /\ lines' = lines /\ (Downloading => ctrl'.tag = ctrl.tag)
        /\ (ctrl'.bus_err <=> ctrl.bus_err)
        /\ IF ctrl.state = "WRITE_DONE" THEN ctrl'.state = "SYNC_NEXT"
           ELSE /\ ctrl'.ofs_int = ctrl.ofs_int /\ ctrl.state \notin {"READ_DONE", "SYNC_NEXT"}
                /\ ctrl'.state \notin {"READ_DONE", "WRITE_DONE", "SYNC_NEXT"}
    <3> USE <1>0 DEF Uploading, Downloading, Cache!In, Cache!Reading, Cache!Writing, Goes, To
    <3>1. CASE Cache!ReadStart
      BY <3>1, ReadSteps
    <3>2. CASE Cache!WriteStart
      BY <3>2, WriteSteps
    <3>3. CASE Cache!WriteReq
      BY <3>3, WriteSteps
    <3>4. CASE Cache!WriteWait
      BY <3>4, WriteSteps
    <3>5. CASE Cache!WriteDone /\ ctrl'.state = "SYNC_NEXT"
      BY <3>5, WriteSteps
    <3>6. QED BY <1>11, <3>1, <3>2, <3>3, <3>4, <3>5
  <2>2. Copied' = Copied
    BY <1>2, <2>1 DEF Copied, Cache!In
  <2>3. Same(o)
    BY <1>5, <2>1, <2>2
  <2>4. Cache!Writing => o < Answered
    <3>1. Cache!Writing => Copied = ctrl.ofs_int
      BY DEF Copied, Cache!Writing, Cache!In
    <3>2. ctrl.ofs_int <= Answered /\ Answered \in Nat
      BY <1>0 DEF Answered
    <3>3. QED BY <1>0, <2>2, <3>1, <3>2
  <2>5. BlockTag' = BlockTag /\ Here(o)' = Here(o) /\ ~Cache!In({"BYPASS"})
    BY <2>1 DEF BlockTag, Here, Cache!In
  <2>6. QED BY <1>4, <2>1, <2>3, <2>4, <2>5
<1>12. CASE Cache!ReadWait \/ Cache!ReadBurst
  <2>1. /\ ctrl.state \in {"READ_WAIT", "READ_BURST"}
        /\ ctrl'.state \in {"READ_START", "READ_WAIT", "READ_BURST", "READ_DONE"}
        /\ ctrl'.idx = ctrl.idx /\ ctrl'.tag = ctrl.tag
        /\ Cache!Put(Cache!Own(ctrl.ofs_int), rsp.data)
        /\ ctrl.state = "READ_WAIT" => (bursts_en => ctrl.ofs_int = 0)
        /\ \/ /\ ~rsp.ack /\ ctrl'.ofs_int = ctrl.ofs_int /\ ctrl'.state = ctrl.state
              /\ (ctrl'.bus_err <=> ctrl.bus_err)
           \/ /\ rsp.ack /\ (ctrl'.bus_err <=> ctrl.bus_err \/ rsp.err)
              /\ ctrl'.ofs_int = Wrapped
              /\ ctrl'.state = IF ctrl.state = "READ_WAIT"
                               THEN IF bursts_en THEN "READ_BURST"
                                    ELSE IF ctrl.ofs_int = BLOCK - 1 THEN "READ_DONE"
                                    ELSE "READ_START"
                               ELSE IF ctrl.ofs_int = BLOCK - 1 THEN "READ_DONE"
                                    ELSE "READ_BURST"
    BY <1>0, <1>12, ReadSteps DEF OffsetInv, Cache!In, Goes, Receives, To
  <2>2. Copied' = Answered /\ Copied = ctrl.ofs_int
    BY <1>0, <1>2, <2>1 DEF Answered, Wrapped, Copied, Cache!In
  <2>3. ~ctrl.bus_err /\ (rsp.ack => ~rsp.err)
    BY <2>1
  <2>4. /\ Downloading /\ ~Cache!Writing /\ ~Cache!In({"BYPASS"}) /\ BlockTag' = BlockTag
        /\ Cache!Reading
    BY <2>1 DEF Downloading, BlockTag, Cache!In, Cache!Reading, Cache!Writing
  <2>5. Here(o)' = IF o = ctrl.ofs_int THEN rsp.data ELSE Here(o)
    BY <1>0, <2>1, WasPut, Accessing DEF WordWritten, Here, Cache!Offset
  <2>6. CASE o < ctrl.ofs_int
    <3>1. Same(o) /\ Here(o)' = Here(o)
      BY <1>0, <1>5, <2>2, <2>3, <2>4, <2>5, <2>6
    <3>2. QED BY <1>4, <2>1, <2>4, <3>1
  <2>7. CASE ~(o < ctrl.ofs_int)
    <3>1. rsp.ack /\ o = ctrl.ofs_int
      BY <1>0, <2>2, <2>7 DEF Answered
    <3>2. rsp.data = Content(Place(o))
      BY <1>0, <2>3, <2>4, <3>1 DEF TransferInv
    <3>3. BlockTag \in Tag
      BY <1>0, Numbers DEF BlockTag
    <3>4. PICK a \in Address : a = Place(o)
      BY <1>0, <3>3, Numbers, Addresses DEF Place
    <3>5. Content(a)' = Content(a)
      BY <1>0, <2>4, <3>4, CopiedContent
    <3>6. Place(o)' = a
      BY <2>1, <2>4, <3>4 DEF Place
    <3>7. Content(Place(o))' = Content(a)'
      BY <3>6 DEF Content, Word, Accessed
    <3>8. QED BY <2>5, <3>1, <3>2, <3>4, <3>5, <3>7 DEF Same
  <2>8. QED BY <2>6, <2>7
<1>13. CASE Cache!WriteRsp \/ Cache!WriteBurst
  <2>1. /\ ctrl.state \in {"WRITE_RSP", "WRITE_BURST"}
        /\ ctrl'.idx = ctrl.idx /\ lines' = lines
        /\ ctrl'.state \in {"WRITE_START", "WRITE_RSP", "WRITE_WAIT", "WRITE_BURST", "WRITE_DONE"}
        /\ ctrl.state = "WRITE_RSP" => (bursts_en => ctrl.ofs_int = 0)
        /\ \/ /\ ~rsp.ack /\ ctrl'.ofs_int = ctrl.ofs_int /\ ctrl'.state = ctrl.state
              /\ (ctrl'.bus_err <=> ctrl.bus_err)
           \/ /\ rsp.ack /\ (ctrl'.bus_err <=> ctrl.bus_err \/ rsp.err)
              /\ ctrl'.ofs_int = Wrapped
              /\ ctrl'.state = IF ctrl.state = "WRITE_RSP"
                               THEN IF bursts_en THEN "WRITE_WAIT"
                                    ELSE IF ctrl.ofs_int = BLOCK - 1 THEN "WRITE_DONE"
                                    ELSE "WRITE_START"
                               ELSE IF ctrl.ofs_int = BLOCK - 1 THEN "WRITE_DONE"
                                    ELSE "WRITE_BURST"
    BY <1>0, <1>13, WriteSteps DEF OffsetInv, Cache!In, Goes, Receives, To
  <2>2. Copied' = Answered /\ Copied = ctrl.ofs_int
    BY <1>0, <1>2, <2>1 DEF Answered, Wrapped, Copied, Cache!In
  <2>3. ~ctrl.bus_err /\ (rsp.ack => ~rsp.err)
    BY <2>1
  <2>4. /\ Uploading /\ Cache!Writing /\ ~Cache!In({"BYPASS"}) /\ BlockTag' = BlockTag
        /\ Here(o)' = Here(o)
    BY <2>1 DEF Uploading, Downloading, BlockTag, Here, Cache!In, Cache!Reading, Cache!Writing
  <2>5. Same(o)
    <3>1. CASE o < ctrl.ofs_int
      BY <1>5, <2>2, <2>3, <2>4, <3>1
    <3>2. CASE ~(o < ctrl.ofs_int)
      <4>1. rsp.ack /\ o = ctrl.ofs_int
        BY <1>0, <2>2, <3>2 DEF Answered
      <4>2. QED BY <1>0, <2>3, <2>4, <4>1 DEF TransferInv
    <3>3. QED BY <3>1, <3>2
  <2>6. o < Answered
    BY <2>2
  <2>7. QED BY <1>4, <2>1, <2>4, <2>5, <2>6
<1>14. CASE Cache!WriteDone /\ ctrl'.state /= "SYNC_NEXT"
  BY <1>0, <1>1, <1>14, WriteSteps DEF Goes, To
<1>15. Cache!Clock
  BY <1>0
<1>16. QED BY ONLY <1>15, <1>6, <1>7, <1>8, <1>9, <1>10, <1>11, <1>12, <1>13, <1>14 DEF Cache!Clock

LEMMA CopiedStep ==
  ASSUME IInv, Clock
  PROVE  CopiedInv'
<1>1. Cache!Offset' = Cache!Offset
  BY DEF Cache!Offset
<1>2. QED BY <1>1, CopiedWord DEF CopiedInv

-----------------------------------------------------------------------------
\* The block that is uploaded stays as it is, and its words are read in time.

LEMMA UploadStep ==
  ASSUME IInv, Clock
  PROVE  UploadInv'
<1>0. /\ TypeOK /\ ControlInv /\ Cache!Clock /\ OffsetInv /\ UploadInv /\ CheckInv
      /\ BLOCK \in Nat /\ BLOCK > 1 /\ ctrl.ofs_int \in Nat /\ ctrl.ofs_int < BLOCK
      /\ ctrl.ofs_ext \in Nat
  BY Numbers DEF IInv, Clock, DataInv, ControlInv
<1> DEFINE Goal == /\ ctrl'.state \in {"WRITE_START", "WRITE_REQ", "WRITE_RSP", "WRITE_WAIT",
                                       "WRITE_BURST", "WRITE_DONE"} =>
                        /\ lines'[ctrl'.idx].vld /\ lines'[ctrl'.idx].drt
                        /\ lines'[ctrl'.idx].tag =
                             IF ctrl'.state = "WRITE_START" /\ ctrl'.ofs_int = 0
                             THEN rd'.tag ELSE ctrl'.tag
                   /\ ctrl'.state = "WRITE_REQ" =>
                        rd'.data = lines'[ctrl'.idx].data[ctrl'.ofs_int]
                   /\ ctrl'.state = "WRITE_BURST" /\ ctrl'.ofs_buf < BLOCK =>
                        rd'.data = lines'[ctrl'.idx].data[ctrl'.ofs_buf]
                   /\ ctrl'.state = "SYNC_NEXT" /\ ctrl'.bus_err =>
                        lines'[ctrl'.idx].vld /\ lines'[ctrl'.idx].tag = ctrl'.tag
<1>1. SUFFICES Goal
  BY DEF UploadInv, Uploading, Cache!Writing, Cache!In, Here
<1>2. ASSUME Uploading
      PROVE  /\ lines[ctrl.idx].vld /\ lines[ctrl.idx].drt
             /\ lines[ctrl.idx].tag = IF ctrl.state = "WRITE_START" /\ ctrl.ofs_int = 0
                                      THEN rd.tag ELSE ctrl.tag
  BY <1>0, <1>2 DEF UploadInv, Cache!In
<1>3. CASE Cache!Idle \/ Cache!Bypass
  BY <1>0, <1>3, IdleStep, BypassStep DEF To, Goes
<1>4. CASE Cache!CheckBypass \/ Cache!CheckHit \/ Cache!CheckMiss
  <2>1. /\ ctrl.state = "CHECK" /\ Cache!Look(host.addr)
        /\ ctrl'.state \in {"WRITE_START", "BYPASS", "IDLE", "READ_START"}
        /\ ctrl'.state = "WRITE_START" =>
             /\ Cache!drt /\ (~Cache!hit \/ ctrl.pnd_bp) /\ lines' = lines
             /\ ctrl'.idx = host.addr.idx /\ ctrl'.ofs_int = 0
    BY <1>0, <1>4, CheckStep DEF Accepts, To
  <2>2. ctrl'.state = "WRITE_START" => AtHost.vld /\ AtHost.drt
    BY <1>0, <2>1, CheckedStatus DEF Cache!In
  <2>3. rd'.tag = AtHost.tag
    BY <2>1, Looked DEF AtHost
  <2>4. QED BY <2>1, <2>2, <2>3 DEF AtHost
<1>5. CASE Cache!SyncStart \/ Cache!SyncDelay \/ Cache!SyncNext
  BY <1>0, <1>5, SyncSteps DEF To, Goes
<1>6. CASE Cache!SyncCheck
  <2>1. /\ ctrl.state = "SYNC_CHECK" /\ Cache!Look(Cache!Own(ctrl.ofs_int))
        /\ lines' = lines /\ ctrl'.idx = ctrl.idx /\ ctrl'.ofs_int = 0 /\ ~ctrl'.bus_err
        /\ ctrl'.state = IF Cache!drt THEN "WRITE_START" ELSE "SYNC_NEXT"
    BY <1>0, <1>6, SyncSteps DEF To
  <2>2. rd'.tag = lines[ctrl.idx].tag
    BY <1>0, <2>1, Accessing, Looked
  <2>3. Cache!drt => lines[ctrl.idx].vld /\ lines[ctrl.idx].drt
    BY <1>0, <2>1 DEF CheckInv, Cache!drt, Cache!In
  <2>4. QED BY <2>1, <2>2, <2>3
<1>7. CASE Cache!ReadStart \/ Cache!ReadWait \/ Cache!ReadBurst \/ Cache!ReadDone
  BY <1>0, <1>7, ReadSteps DEF To, Goes, Receives
<1>8. CASE Cache!WriteStart \/ Cache!WriteReq
  <2>1. /\ Uploading /\ lines' = lines /\ ctrl'.idx = ctrl.idx
        /\ ctrl'.ofs_int = ctrl.ofs_int
        /\ ctrl'.state = IF ctrl.state = "WRITE_START" THEN "WRITE_REQ" ELSE "WRITE_RSP"
        /\ ctrl'.tag = IF ctrl.state = "WRITE_START" /\ ctrl.ofs_int = 0 THEN rd.tag ELSE ctrl.tag
        /\ Cache!Look(Cache!Own(ctrl.ofs_int))
    BY <1>0, <1>8, WriteSteps DEF To, Goes, Uploading, Cache!Writing, Cache!In
  <2>2. rd'.data = lines[ctrl.idx].data[ctrl.ofs_int]
    BY <1>0, <2>1, Accessing, Looked
  <2>3. QED BY <1>2, <2>1, <2>2
<1>9. CASE Cache!WriteRsp
  <2>1. /\ Uploading /\ ctrl.state = "WRITE_RSP" /\ lines' = lines /\ ctrl'.idx = ctrl.idx
        /\ ctrl'.tag = ctrl.tag
        /\ ctrl'.state \in {"WRITE_RSP", "WRITE_WAIT", "WRITE_DONE", "WRITE_START"}
        /\ ctrl'.state = "WRITE_START" => ctrl'.ofs_int = Wrapped /\ ctrl.ofs_int /= BLOCK - 1
    BY <1>0, <1>9, WriteSteps DEF To, Goes, Receives, Uploading, Cache!Writing, Cache!In
  <2>2. ctrl'.state = "WRITE_START" => ctrl'.ofs_int /= 0
    BY <1>0, <2>1 DEF Wrapped
  <2>3. QED BY <1>2, <2>1, <2>2
<1>10. CASE Cache!WriteWait \/ Cache!WriteBurst
  <2>1. /\ Uploading /\ ctrl.state \in {"WRITE_WAIT", "WRITE_BURST"}
        /\ lines' = lines /\ ctrl'.idx = ctrl.idx /\ ctrl'.tag = ctrl.tag
        /\ ctrl'.ofs_buf = ctrl.ofs_ext
        /\ ctrl'.state \in {"WRITE_BURST", "WRITE_DONE"}
        /\ Cache!Look(Cache!Own(ctrl.ofs_ext))
    BY <1>0, <1>10, WriteSteps DEF To, Goes, Receives, Uploading, Cache!Writing, Cache!In
  <2>2. ctrl.ofs_ext < BLOCK => rd'.data = lines[ctrl.idx].data[ctrl.ofs_ext]
    BY <1>0, <2>1, Accessing, Looked
  <2>3. QED BY <1>2, <2>1, <2>2
<1>11. CASE Cache!WriteDone
  <2>1. /\ Uploading /\ ctrl.state = "WRITE_DONE" /\ ctrl'.idx = ctrl.idx
        /\ ctrl'.tag = ctrl.tag
        /\ ctrl'.state \in {"SYNC_NEXT", "IDLE", "CHECK"}
        /\ ctrl'.state = "SYNC_NEXT" => lines' = lines
    BY <1>0, <1>11, WriteSteps DEF To, Goes, Uploading, Cache!Writing, Cache!In
  <2>2. QED BY <1>2, <2>1
<1>12. Cache!Clock
  BY <1>0
<1>13. QED BY ONLY <1>12, <1>3, <1>4, <1>5, <1>6, <1>7, <1>8, <1>9, <1>10, <1>11 DEF Cache!Clock

-----------------------------------------------------------------------------
\* What the engine decides by is what is in the block.

LEMMA ForcedFlags ==
  ASSUME TypeOK, ControlInv, CheckInv, Cache!Clock
  PROVE  /\ ctrl'.cln => ctrl'.state \in {"CHECK", "SYNC_NEXT", "IDLE"}
         /\ ctrl'.hit => ctrl'.state \in {"CHECK", "IDLE"}
         /\ ctrl'.state = "SYNC_CHECK" => /\ rd'.vld = lines'[ctrl'.idx].vld
                                          /\ rd'.drt = lines'[ctrl'.idx].drt
<1>0. OffsetInv
  BY DEF ControlInv
<1> USE DEF To, Goes, Accepts, Receives, Flags, Plain
<1>1. CASE Cache!Idle \/ Cache!Bypass
  BY <1>1, IdleStep, BypassStep
<1>2. CASE Cache!CheckBypass \/ Cache!CheckHit \/ Cache!CheckMiss
  BY <1>2, CheckStep
<1>3. CASE Cache!SyncStart \/ Cache!SyncCheck \/ Cache!SyncNext
  BY <1>0, <1>3, SyncSteps
<1>4. CASE Cache!SyncDelay
  <2>1. /\ ctrl'.state = "SYNC_CHECK" /\ ~ctrl'.cln /\ ~ctrl'.hit
        /\ lines' = lines /\ ctrl'.idx = ctrl.idx /\ Cache!Look(Cache!Own(ctrl.ofs_int))
    BY <1>0, <1>4, SyncSteps
  <2>2. QED BY <2>1, Accessing, Looked
<1>5. CASE Cache!ReadStart \/ Cache!ReadWait \/ Cache!ReadBurst \/ Cache!ReadDone
  BY <1>0, <1>5, ReadSteps
<1>6. CASE Cache!WriteStart \/ Cache!WriteReq \/ Cache!WriteRsp
  BY <1>0, <1>6, WriteSteps
<1>7. CASE Cache!WriteWait \/ Cache!WriteBurst \/ Cache!WriteDone
  BY <1>0, <1>7, WriteSteps
<1>8. QED BY <1>1, <1>2, <1>3, <1>4, <1>5, <1>6, <1>7 DEF Cache!Clock

\* The block at hand is the one of the host while the engine works for it.
LEMMA ServedBlock ==
  ASSUME IInv, Clock, Serving', ctrl'.state /= "CHECK"
  PROVE  /\ Downloading' => ~ctrl'.pnd_bp /\ ctrl'.tag = host.addr.tag
         /\ ctrl'.idx = host.addr.idx
         /\ Uploading' /\ ~ctrl'.pnd_bp => lines'[ctrl'.idx].tag /= host.addr.tag
<1>0. /\ TypeOK /\ ControlInv /\ Cache!Clock /\ OffsetInv /\ SyncInv /\ UploadInv /\ CheckInv
  BY DEF IInv, Clock, DataInv, ControlInv
<1>1. /\ Downloading' <=> ctrl'.state \in {"READ_START", "READ_WAIT", "READ_BURST", "READ_DONE"}
      /\ Uploading' <=> ctrl'.state \in {"WRITE_START", "WRITE_REQ", "WRITE_RSP", "WRITE_WAIT",
                                         "WRITE_BURST", "WRITE_DONE"}
      /\ Downloading <=> ctrl.state \in {"READ_START", "READ_WAIT", "READ_BURST", "READ_DONE"}
      /\ Uploading <=> ctrl.state \in {"WRITE_START", "WRITE_REQ", "WRITE_RSP", "WRITE_WAIT",
                                         "WRITE_BURST", "WRITE_DONE"}
  BY DEF Downloading, Uploading, Cache!Reading, Cache!Writing, Cache!In
<1>2. /\ Downloading' \/ (Uploading' /\ ~ctrl'.sync) \/ ctrl'.state = "BYPASS"
  BY DEF Serving, Cache!In
\* The block stays the same during a transfer.
<1>3. ASSUME ctrl'.idx = ctrl.idx, ctrl'.tag = ctrl.tag \/ ~Downloading',
             ctrl'.pnd_bp <=> ctrl.pnd_bp, ctrl'.sync <=> ctrl.sync,
             Downloading' => Downloading, Uploading' => Uploading /\ lines' = lines,
             Serving, ctrl.state /= "CHECK"
      PROVE  /\ Downloading' => ~ctrl'.pnd_bp /\ ctrl'.tag = host.addr.tag
             /\ ctrl'.idx = host.addr.idx
             /\ Uploading' /\ ~ctrl'.pnd_bp => lines'[ctrl'.idx].tag /= host.addr.tag
  BY <1>0, <1>1, <1>2, <1>3 DEF CheckInv, Cache!In
<1>4. ~Cache!Idle
  BY <1>0, <1>1, <1>2, IdleStep DEF To
<1>5. CASE Cache!Bypass
  <2>1. ctrl.state = "BYPASS" /\ ctrl'.state = "BYPASS" /\ ctrl'.idx = ctrl.idx
    BY <1>0, <1>1, <1>2, <1>5, BypassStep DEF Goes, To
  <2>2. ctrl.idx = host.addr.idx
    BY <1>0, <2>1 DEF CheckInv, Serving, Cache!In
  <2>3. QED BY <1>1, <2>1, <2>2
<1>6. CASE Cache!CheckBypass \/ Cache!CheckHit \/ Cache!CheckMiss
  <2>1. /\ ctrl.state = "CHECK" /\ (ctrl'.pnd_bp <=> ctrl.pnd_bp)
        /\ ctrl'.state \in {"WRITE_START", "BYPASS", "IDLE", "READ_START"}
        /\ ctrl'.tag = host.addr.tag /\ ctrl'.idx = host.addr.idx
        /\ ctrl'.state = "READ_START" => ~ctrl.pnd_bp
        /\ ctrl'.state = "WRITE_START" =>
             Cache!drt /\ (~Cache!hit \/ ctrl.pnd_bp) /\ lines' = lines
    BY <1>0, <1>6, CheckStep DEF Accepts, To, Flags
  <2>2. ctrl'.state = "WRITE_START" /\ ~ctrl.pnd_bp => AtHost.tag /= host.addr.tag
    BY <1>0, <2>1, CheckedStatus DEF Cache!In
  <2>3. QED BY <1>1, <2>1, <2>2 DEF AtHost
<1>7. CASE Cache!SyncStart \/ Cache!SyncDelay \/ Cache!SyncCheck \/ Cache!SyncNext
  BY <1>0, <1>1, <1>2, <1>7, SyncSteps DEF Goes, To, SyncInv, Cache!In
<1>8. CASE Cache!ReadStart \/ Cache!ReadWait \/ Cache!ReadBurst \/ Cache!ReadDone
  <2>1. /\ ctrl.state \in {"READ_START", "READ_WAIT", "READ_BURST", "READ_DONE"}
        /\ ctrl'.state \in {"READ_START", "READ_WAIT", "READ_BURST", "READ_DONE", "IDLE", "CHECK"}
        /\ ctrl'.idx = ctrl.idx /\ ctrl'.tag = ctrl.tag
        /\ (ctrl'.pnd_bp <=> ctrl.pnd_bp) /\ (ctrl'.sync <=> ctrl.sync)
    BY <1>0, <1>8, ReadSteps DEF Goes, To, Receives, Flags, Plain
  <2>2. QED BY <1>1, <1>3, <2>1 DEF Serving
<1>9. CASE Cache!WriteStart \/ Cache!WriteReq \/ Cache!WriteRsp \/ Cache!WriteWait
           \/ Cache!WriteBurst
  <2>1. /\ ctrl.state \in {"WRITE_START", "WRITE_REQ", "WRITE_RSP", "WRITE_WAIT", "WRITE_BURST"}
        /\ ctrl'.state \in {"WRITE_START", "WRITE_REQ", "WRITE_RSP", "WRITE_WAIT", "WRITE_BURST",
                            "WRITE_DONE"}
        /\ ctrl'.idx = ctrl.idx /\ lines' = lines
        /\ (ctrl'.pnd_bp <=> ctrl.pnd_bp) /\ (ctrl'.sync <=> ctrl.sync)
    <3> USE <1>0 DEF Goes, To, Receives, Flags, Plain
    <3>1. CASE Cache!WriteStart \/ Cache!WriteReq
      BY <3>1, WriteSteps
    <3>2. CASE Cache!WriteRsp \/ Cache!WriteWait
      BY <3>2, WriteSteps
    <3>3. CASE Cache!WriteBurst
      BY <3>3, WriteSteps
    <3>4. QED BY <1>9, <3>1, <3>2, <3>3
  <2>2. QED BY <1>1, <1>2, <1>3, <2>1 DEF Serving
<1>10. ~Cache!WriteDone
  BY <1>0, <1>1, <1>2, WriteSteps DEF Goes, To
<1>11. Cache!Clock
  BY <1>0
<1>12. QED BY ONLY <1>11, <1>4, <1>5, <1>6, <1>7, <1>8, <1>9, <1>10 DEF Cache!Clock

\* The status and the word read for the check.
LEMMA CheckedBlock ==
  ASSUME IInv, Clock, ctrl'.state = "CHECK"
  PROVE  LET block == lines'[host.addr.idx]
         IN  /\ ~ctrl'.hit => /\ rd'.vld = block.vld /\ rd'.tag = block.tag
                              /\ IF ctrl'.cln THEN ~block.drt ELSE rd'.drt = block.drt
             /\ ctrl'.hit => block.vld /\ block.tag = host.addr.tag /\ ~ctrl'.pnd_bp
             /\ ~ctrl'.pnd_bp /\ (ctrl'.hit \/ (rd'.vld /\ rd'.tag = host.addr.tag)) =>
                  rd'.data = block.data[host.addr.ofs]
<1>0. /\ TypeOK /\ ControlInv /\ Cache!Clock /\ OffsetInv /\ SyncInv /\ UploadInv /\ CheckInv
      /\ ctrl'.state = "CHECK"
  BY DEF IInv, Clock, DataInv, ControlInv
<1>1. ~Cache!Bypass /\ ~Cache!CheckBypass /\ ~Cache!CheckHit /\ ~Cache!CheckMiss
  BY <1>0, BypassStep, CheckStep DEF Goes, Accepts, To
<1>2. ~Cache!SyncStart /\ ~Cache!SyncDelay /\ ~Cache!SyncCheck /\ ~Cache!SyncNext
  BY <1>0, SyncSteps DEF Goes, To
<1>3. ~Cache!ReadStart /\ ~Cache!ReadWait /\ ~Cache!ReadBurst
  BY <1>0, ReadSteps DEF Goes, Receives, To
<1>4. ~(Cache!WriteStart \/ Cache!WriteReq \/ Cache!WriteRsp \/ Cache!WriteWait
        \/ Cache!WriteBurst)
  BY <1>0, WriteSteps DEF Goes, Receives, To
<1>5. CASE Cache!Idle
  <2>1. /\ Cache!Look(host.addr) /\ lines' = lines /\ ~ctrl'.hit /\ ~ctrl'.cln
    BY <1>0, <1>5, IdleStep DEF Flags
  <2>2. QED BY <2>1, Looked
<1>6. CASE Cache!ReadDone
  <2>1. /\ ctrl.state = "READ_DONE" /\ ~ctrl.bus_err /\ ctrl'.hit
        /\ (ctrl'.pnd_bp <=> ctrl.pnd_bp)
        /\ Cache!Look(host.addr) /\ Cache!Mark(host.addr, ~ctrl.bus_err, FALSE)
    BY <1>0, <1>6, ReadSteps DEF Goes, To, Flags
  <2>2. ~ctrl.pnd_bp
    BY <1>0, <2>1 DEF CheckInv, Downloading, Cache!In
  <2>3. /\ lines'[host.addr.idx].vld = ~ctrl.bus_err
        /\ lines'[host.addr.idx].tag = host.addr.tag
        /\ lines'[host.addr.idx].data = lines[host.addr.idx].data
    BY <1>0, <2>1, Accessing, Marked
  <2>4. rd'.data = lines[host.addr.idx].data[host.addr.ofs]
    BY <2>1, Looked
  <2>5. QED BY <2>1, <2>2, <2>3, <2>4
<1>7. CASE Cache!WriteDone
  <2>1. /\ ctrl.state = "WRITE_DONE" /\ ~ctrl.sync /\ ~ctrl.bus_err /\ ~ctrl'.hit /\ ctrl'.cln
        /\ (ctrl'.pnd_bp <=> ctrl.pnd_bp)
        /\ Cache!Look(Cache!Own(ctrl.ofs_int))
        /\ Cache!Mark(Cache!Own(ctrl.ofs_int), ~ctrl.bus_err, FALSE)
    BY <1>0, <1>7, WriteSteps DEF Goes, To, Flags
  <2>2. /\ ctrl.idx = host.addr.idx /\ lines[ctrl.idx].vld /\ lines[ctrl.idx].tag = ctrl.tag
        /\ ~ctrl.pnd_bp => lines[ctrl.idx].tag /= host.addr.tag
    BY <1>0, <2>1 DEF CheckInv, UploadInv, Serving, Uploading, Cache!In
  <2>3. /\ lines'[ctrl.idx].vld = ~ctrl.bus_err /\ lines'[ctrl.idx].tag = ctrl.tag
        /\ ~lines'[ctrl.idx].drt
    BY <1>0, <2>1, Accessing, Marked
  <2>4. rd'.vld = lines[ctrl.idx].vld /\ rd'.tag = lines[ctrl.idx].tag
    BY <1>0, <2>1, Accessing, Looked
  <2>5. rd'.vld = TRUE /\ lines'[ctrl.idx].vld = TRUE
    BY <1>0, <2>1, <2>2, <2>3, <2>4, Numbers
  <2>6. QED BY <2>1, <2>2, <2>3, <2>4, <2>5
<1>8. QED BY <1>0, <1>1, <1>2, <1>3, <1>4, <1>5, <1>6, <1>7 DEF Cache!Clock

LEMMA CheckInvStep ==
  ASSUME IInv, Clock
  PROVE  CheckInv'
<1>0. TypeOK /\ ControlInv /\ CheckInv /\ Cache!Clock
  BY DEF IInv, Clock, DataInv
<1>1. Serving' => host'.addr = host.addr
  BY <1>0, HostStable
<1>2. ctrl'.state = "CHECK" \/ Downloading' \/ (Uploading' /\ ~ctrl'.sync) => Serving'
  BY DEF Serving, Cache!In
<1>3. (/\ ctrl.cln => Cache!In({"CHECK", "SYNC_NEXT", "IDLE"})
       /\ ctrl.hit => Cache!In({"CHECK", "IDLE"})
       /\ Cache!In({"SYNC_CHECK"}) => /\ rd.vld = lines[ctrl.idx].vld
                                      /\ rd.drt = lines[ctrl.idx].drt)'
  BY <1>0, ForcedFlags DEF Cache!In
<1>4. (Cache!In({"CHECK"}) =>
       /\ ~ctrl.hit => /\ rd.vld = AtHost.vld /\ rd.tag = AtHost.tag
                       /\ IF ctrl.cln THEN ~AtHost.drt ELSE rd.drt = AtHost.drt
       /\ ctrl.hit => AtHost.vld /\ AtHost.tag = host.addr.tag /\ ~ctrl.pnd_bp
       /\ ~ctrl.pnd_bp /\ Cache!hit => rd.data = AtHost.data[host.addr.ofs])'
  BY <1>1, <1>2, CheckedBlock DEF AtHost, Cache!In, Cache!hit
<1>5. (/\ Downloading => ~ctrl.pnd_bp /\ ctrl.tag = host.addr.tag
       /\ Serving /\ ~Cache!In({"CHECK"}) => ctrl.idx = host.addr.idx
       /\ Uploading /\ ~ctrl.sync /\ ~ctrl.pnd_bp => lines[ctrl.idx].tag /= host.addr.tag)'
  <2>1. ctrl'.state = "CHECK" => ~Downloading' /\ ~Uploading'
    BY DEF Downloading, Uploading, Cache!Reading, Cache!Writing, Cache!In
  <2>2. QED BY <1>1, <1>2, <2>1, ServedBlock DEF Cache!In
<1>6. QED BY <1>3, <1>4, <1>5 DEF CheckInv

-----------------------------------------------------------------------------
\* What the host sees changes by its own writes and by errors only.

LEMMA ViewStep ==
  ASSUME IInv, Clock, NEW a \in Accessed
  PROVE  \/ View(a)' = View(a)
         \/ HostErr
         \/ Writing(a) /\ View(a)' = host.data /\ (HostAck \/ Performed')
<1>0. /\ TypeOK /\ ControlInv /\ DataInv /\ Cache!Clock /\ Memory /\ OffsetInv /\ HostInv
      /\ CleanInv /\ UploadInv /\ CheckInv /\ CopiedInv /\ AccessInv
  BY DEF IInv, Clock, ControlInv, DataInv
<1>1. /\ a \in Address /\ a = At(a.tag, a.idx, a.ofs) /\ a.idx \in Cache!Index
      /\ a.ofs \in Cache!Offset
  BY Addresses
<1>2. Cached(a) /\ ~lines[a.idx].drt => View(a) = Content(a)
  <2>1. SUFFICES ASSUME Cached(a), ~lines[a.idx].drt PROVE View(a) = Content(a)
    OBVIOUS
  <2>2. CopyOf(a.idx, a.ofs)
    BY <1>0, <1>1, <2>1 DEF CleanInv, Cached
  <2>3. QED BY <1>1, <2>1, <2>2 DEF CopyOf, View, Cached
\* The memory changes where the block is cached, or the host has bypassed.
<1>3. Cached(a) \/ Content(a)' = Content(a)
        \/ (Writing(a) /\ Content(a)' = host.data /\ Performed')
  <2>1. CASE Cache!Reading \/ Cache!Writing
    <3>1. SUFFICES ASSUME Cache!Writing, a = Place(Answered) PROVE Cached(a)
      BY <1>0, <1>1, <2>1, MemoryTransfer DEF DataInv
    <3>2. Uploading /\ ~Downloading /\ ~Filling(a.idx)
      BY <3>1 DEF Uploading, Downloading, Filling, Cache!Reading, Cache!Writing, Cache!In
    <3>3. a.idx = ctrl.idx /\ a.tag = lines[ctrl.idx].tag
      BY <3>1, <3>2 DEF Place, BlockTag, At
    <3>4. QED BY <1>0, <3>2, <3>3 DEF UploadInv, Cached
  <2>2. CASE Cache!In({"BYPASS"})
    <3>1. SUFFICES ASSUME a = host.addr, host.rw, rsp'.ack, ~rsp.ack, Content(a)' = host.data
                   PROVE  Writing(a) /\ Performed'
      BY <1>0, <1>1, <2>2, MemoryBypass
    <3>2. ctrl'.state = "BYPASS"
      <4>1. ctrl.state = "BYPASS"
        BY <2>2 DEF Cache!In
      <4>2. QED BY <1>0, <3>1, <4>1, IdleStep, CheckStep, BypassStep, SyncSteps, ReadSteps,
                   WriteSteps DEF Cache!Clock, Goes, To
    <3>3. QED BY <1>0, <2>2, <3>1, <3>2 DEF Writing, Performed, HostInv, Serving, Cache!In
  <2>3. CASE ~(Cache!Reading \/ Cache!Writing) /\ ~Cache!In({"BYPASS"})
    <3>1. Outstanding = 0 /\ ~Cache!bus_req_o.stb
      BY <1>0, <2>3, Strobes DEF ControlInv, Requested, Cache!In, Cache!Reading, Cache!Writing
    <3>2. QED BY <1>0, <1>1, <3>1, MemoryQuiet
  <2>4. QED BY <2>1, <2>2, <2>3
<1>4. ctrl.state \in {"CHECK", "READ_DONE", "SYNC_NEXT"} => Content(a)' = Content(a)
  <2>1. ctrl.state \in {"CHECK", "READ_DONE", "SYNC_NEXT"} =>
          Outstanding = 0 /\ ~Cache!bus_req_o.stb
    BY <1>0, Strobes DEF ControlInv, Requested, Cache!In
  <2>2. QED BY <1>0, <1>1, <2>1, MemoryQuiet
\* A step that leaves the block of this address as it is.
<1> DEFINE Goal == \/ View(a)' = View(a)
                   \/ HostErr
                   \/ Writing(a) /\ View(a)' = host.data /\ (HostAck \/ Performed')
<1>5. ASSUME lines'[a.idx].vld = lines[a.idx].vld, lines'[a.idx].tag = lines[a.idx].tag,
             lines'[a.idx].data[a.ofs] = lines[a.idx].data[a.ofs],
             Filling(a.idx)' = Filling(a.idx)
      PROVE  Goal
  <2>1. Cached(a)' = Cached(a)
    BY <1>5 DEF Cached
  <2>2. CASE Cached(a)
    BY <1>5, <2>1, <2>2 DEF View
  <2>3. CASE ~Cached(a)
    BY <1>3, <2>1, <2>3 DEF View
  <2>4. QED BY <2>2, <2>3
<1>6. ASSUME lines'[a.idx] = lines[a.idx], Filling(a.idx)' = Filling(a.idx)
      PROVE  Goal
  BY <1>5, <1>6
\* A step that uncovers the memory.
<1>7. ASSUME ~Cached(a)', Content(a)' = Content(a), Cached(a) => View(a) = Content(a)
      PROVE  Goal
  BY <1>7 DEF View
<1>8. /\ Filling(a.idx)' <=> ctrl'.state \in {"READ_START", "READ_WAIT", "READ_BURST", "READ_DONE"}
                             /\ ctrl'.idx = a.idx
      /\ Filling(a.idx) <=> ctrl.state \in {"READ_START", "READ_WAIT", "READ_BURST", "READ_DONE"}
                             /\ ctrl.idx = a.idx
  BY DEF Filling, Cache!In
<1>9. Filling(a.idx)' \in BOOLEAN /\ Filling(a.idx) \in BOOLEAN
  BY DEF Filling, Cache!In
<1>10. SUFFICES Goal
  BY DEF Goal
<1> HIDE DEF Goal
<1>11. CASE Cache!Idle \/ Cache!Bypass \/ Cache!SyncStart \/ Cache!SyncDelay \/ Cache!SyncCheck
  <2>1. /\ lines' = lines
        /\ ctrl.state  \notin {"READ_START", "READ_WAIT", "READ_BURST", "READ_DONE"}
        /\ ctrl'.state \notin {"READ_START", "READ_WAIT", "READ_BURST", "READ_DONE"}
    BY <1>0, <1>11, IdleStep, BypassStep, SyncSteps DEF Goes, To
  <2>2. QED BY <1>6, <1>8, <1>9, <2>1
<1>12. CASE Cache!WriteStart \/ Cache!WriteReq \/ Cache!WriteRsp \/ Cache!WriteWait
            \/ Cache!WriteBurst
  <2>1. /\ lines' = lines
        /\ ctrl.state  \notin {"READ_START", "READ_WAIT", "READ_BURST", "READ_DONE"}
        /\ ctrl'.state \notin {"READ_START", "READ_WAIT", "READ_BURST", "READ_DONE"}
    BY <1>0, <1>12, WriteSteps DEF Goes, To, Receives
  <2>2. QED BY <1>6, <1>8, <1>9, <2>1
<1>13. CASE Cache!CheckBypass \/ Cache!CheckHit \/ Cache!CheckMiss
  <2>1. ctrl.state = "CHECK"
    BY <1>0, <1>13, CheckStep
  <2>2. \/ lines' = lines /\ ctrl'.state \in {"WRITE_START", "BYPASS", "IDLE"}
        \/ /\ Cache!Mark(host.addr, FALSE, FALSE) /\ ctrl'.state = "BYPASS"
           /\ ~Cache!drt /\ ctrl.pnd_bp
        \/ /\ lines' = lines /\ ctrl'.state = "READ_START" /\ ctrl'.idx = host.addr.idx
           /\ ~Cache!drt /\ ~Cache!hit
        \/ /\ Cache!hit /\ ~ctrl.pnd_bp /\ host.rw /\ ctrl'.state = "IDLE"
           /\ lines' = [lines EXCEPT ![host.addr.idx].drt = TRUE,
                                     ![host.addr.idx].data[host.addr.ofs] = host.data]
    BY <1>0, <1>13, CheckStep DEF Accepts, To
  <2>3. CASE lines' = lines /\ ctrl'.state \in {"WRITE_START", "BYPASS", "IDLE"}
    BY <1>6, <1>8, <1>9, <2>1, <2>3
  <2>4. CASE Cache!Mark(host.addr, FALSE, FALSE) /\ ctrl'.state = "BYPASS"
             /\ ~Cache!drt /\ ctrl.pnd_bp
    <3>1. Others(host.addr) /\ ~lines'[host.addr.idx].vld
      BY <1>0, <2>4, Accessing, Marked
    <3>2. CASE a.idx /= host.addr.idx
      <4>1. lines'[a.idx] = lines[a.idx]
        BY <1>1, <3>1, <3>2 DEF Others, Cache!Index
      <4>2. QED BY <1>6, <1>8, <1>9, <2>1, <2>4, <4>1
    <3>3. CASE a.idx = host.addr.idx
      <4>1. ~Cached(a)'
        BY <3>1, <3>3 DEF Cached
      <4>2. ~ctrl.hit /\ (~AtHost.vld \/ ~AtHost.drt)
        BY <1>0, <2>1, <2>4, CheckedStatus DEF Cache!In
      <4>3. Cached(a) => View(a) = Content(a)
        BY <1>2, <3>3, <4>2 DEF Cached, AtHost
      <4>4. QED BY <1>4, <1>7, <2>1, <4>1, <4>3
    <3>4. QED BY <3>2, <3>3
  <2>5. CASE lines' = lines /\ ctrl'.state = "READ_START" /\ ctrl'.idx = host.addr.idx
             /\ ~Cache!drt /\ ~Cache!hit
    <3>1. CASE a.idx /= host.addr.idx
      BY <1>6, <1>8, <1>9, <2>1, <2>5, <3>1
    <3>2. CASE a.idx = host.addr.idx
      <4>1. ~Cached(a)'
        BY <1>8, <2>5, <3>2 DEF Cached
      <4>2. ~ctrl.hit /\ (~AtHost.vld \/ ~AtHost.drt)
        BY <1>0, <2>1, <2>5, CheckedStatus DEF Cache!In
      <4>3. Cached(a) => View(a) = Content(a)
        BY <1>2, <3>2, <4>2 DEF Cached, AtHost
      <4>4. QED BY <1>4, <1>7, <2>1, <4>1, <4>3
    <3>3. QED BY <3>1, <3>2
  <2>6. CASE Cache!hit /\ ~ctrl.pnd_bp /\ host.rw /\ ctrl'.state = "IDLE"
           /\ lines' = [lines EXCEPT ![host.addr.idx].drt = TRUE,
                                     ![host.addr.idx].data[host.addr.ofs] = host.data]
    <3>1. /\ Others(host.addr) /\ WordWritten(host.addr, host.data)
          /\ lines'[host.addr.idx].vld = lines[host.addr.idx].vld
          /\ lines'[host.addr.idx].tag = lines[host.addr.idx].tag
      BY <1>0, <2>6, Accessing, WasHit
    <3>2. ~Filling(a.idx)' /\ ~Filling(a.idx)
      BY <1>8, <2>1, <2>6
    <3>3. CASE a.idx /= host.addr.idx
      <4>1. lines'[a.idx] = lines[a.idx]
        BY <1>1, <3>1, <3>3 DEF Others, Cache!Index
      <4>2. QED BY <1>6, <1>9, <3>2, <4>1
    <3>4. CASE a.idx = host.addr.idx /\ a.ofs /= host.addr.ofs
      <4>1. lines'[a.idx].data[a.ofs] = lines[a.idx].data[a.ofs]
        BY <1>1, <3>1, <3>4 DEF WordWritten, Cache!Offset
      <4>2. QED BY <1>5, <1>9, <3>1, <3>2, <3>4, <4>1
    <3>5. CASE a.idx = host.addr.idx /\ a.ofs = host.addr.ofs /\ a.tag /= host.addr.tag
      <4>1. ~Cached(a) /\ ~Cached(a)'
        BY <1>0, <2>1, <2>6, <3>1, <3>5, CheckedStatus DEF Cached, AtHost, Cache!In
      <4>2. QED BY <1>4, <1>7, <2>1, <4>1
    <3>6. CASE a.idx = host.addr.idx /\ a.ofs = host.addr.ofs /\ a.tag = host.addr.tag
      <4>1. a = host.addr
        BY <1>0, <1>1, <3>6, Addresses, Accessing
      <4>2. lines[host.addr.idx].vld /\ lines[host.addr.idx].tag = host.addr.tag
        BY <1>0, <2>1, <2>6, CheckedStatus DEF AtHost, Cache!In
      <4>3. Cached(a)'
        BY <3>1, <3>2, <3>6, <4>2 DEF Cached
      <4>4. lines'[a.idx].data[a.ofs] = host.data
        BY <1>1, <3>1, <3>6 DEF WordWritten, Cache!Offset
      <4>5. View(a)' = host.data
        BY <4>3, <4>4 DEF View
      <4>6. HostAck
        BY <1>0, <2>1, <2>6, Acknowledges
      <4>7. Writing(a)
        BY <2>6, <4>1, <4>6 DEF Writing, HostAck
      <4>8. QED BY <4>5, <4>6, <4>7 DEF Goal
    <3>7. QED BY <3>3, <3>4, <3>5, <3>6
  <2>7. QED BY <2>2, <2>3, <2>4, <2>5, <2>6
<1>14. CASE Cache!ReadStart \/ Cache!ReadWait \/ Cache!ReadBurst
  <2>1. /\ ctrl'.idx = ctrl.idx
        /\ ctrl.state \in {"READ_START", "READ_WAIT", "READ_BURST"}
        /\ ctrl'.state \in {"READ_START", "READ_WAIT", "READ_BURST", "READ_DONE"}
        /\ lines' = lines \/ Cache!Put(Cache!Own(ctrl.ofs_int), rsp.data)
    BY <1>0, <1>14, ReadSteps DEF Goes, Receives, To
  <2>2. CASE a.idx /= ctrl.idx
    <3>1. lines'[a.idx] = lines[a.idx]
      BY <1>0, <1>1, <2>1, <2>2, Accessing, WasPut DEF Others, Cache!Index
    <3>2. QED BY <1>6, <1>8, <1>9, <2>1, <2>2, <3>1
  <2>3. CASE a.idx = ctrl.idx
    <3>1. ~Cached(a) /\ ~Cached(a)'
      BY <1>8, <2>1, <2>3 DEF Cached
    <3>2. Content(a)' = Content(a)
      <4>1. Cache!Reading /\ ~Cache!Writing /\ TransferInv
        BY <1>0, <2>1 DEF DataInv, Cache!Reading, Cache!Writing, Cache!In
      <4>2. QED BY <1>0, <1>1, <4>1, MemoryTransfer
    <3>3. QED BY <1>7, <3>1, <3>2
  <2>4. QED BY <2>2, <2>3
<1>15. CASE Cache!ReadDone
  <2>1. /\ ctrl.state = "READ_DONE" /\ ctrl'.state \in {"IDLE", "CHECK"}
        /\ Cache!Mark(host.addr, ~ctrl.bus_err, FALSE)
    BY <1>0, <1>15, ReadSteps DEF Goes, To
  <2>2. /\ Others(host.addr) /\ (lines'[host.addr.idx].vld <=> ~ctrl.bus_err)
        /\ lines'[host.addr.idx].tag = host.addr.tag
        /\ lines'[host.addr.idx].data = lines[host.addr.idx].data
    BY <1>0, <2>1, Accessing, Marked
  <2>3. ctrl.idx = host.addr.idx /\ ctrl.tag = host.addr.tag
    BY <1>0, <2>1 DEF CheckInv, Serving, Downloading, Cache!In
  <2>4. CASE a.idx /= ctrl.idx
    <3>1. lines'[a.idx] = lines[a.idx]
      BY <1>1, <2>2, <2>3, <2>4 DEF Others, Cache!Index
    <3>2. QED BY <1>6, <1>8, <1>9, <2>1, <2>4, <3>1
  <2>5. CASE a.idx = ctrl.idx /\ ~Cached(a)'
    <3>1. ~Cached(a)
      BY <1>8, <2>1, <2>5 DEF Cached
    <3>2. QED BY <1>4, <1>7, <2>1, <2>5, <3>1
  <2>6. CASE a.idx = ctrl.idx /\ Cached(a)'
    <3>1. ~Cached(a) /\ a.tag = host.addr.tag /\ ~ctrl.bus_err
      BY <1>8, <2>1, <2>2, <2>3, <2>6 DEF Cached
    <3>2. Copied = BLOCK /\ Downloading
      BY <2>1 DEF Copied, Downloading, Cache!In
    <3>3. Same(a.ofs)
      BY <1>0, <1>1, <3>1, <3>2, Numbers DEF CopiedInv, Cache!Offset
    <3>4. Place(a.ofs) = a
      BY <1>1, <2>3, <2>6, <3>1, <3>2 DEF Place, BlockTag
    <3>5. View(a)' = View(a)
      BY <2>2, <2>3, <2>6, <3>1, <3>3, <3>4 DEF View, Same, Here
    <3>6. QED BY <3>5 DEF Goal
  <2>7. QED BY <2>4, <2>5, <2>6
<1>16. CASE Cache!WriteDone
  <2>1. /\ ctrl.state = "WRITE_DONE" /\ ctrl'.state \in {"SYNC_NEXT", "IDLE", "CHECK"}
        /\ \/ lines' = lines
           \/ ~ctrl.sync /\ Cache!Mark(Cache!Own(ctrl.ofs_int), ~ctrl.bus_err, FALSE)
    BY <1>0, <1>16, WriteSteps DEF Goes, To
  <2>2. Filling(a.idx)' = Filling(a.idx)
    BY <1>8, <1>9, <2>1
  <2>3. CASE lines' = lines
    BY <1>6, <2>2, <2>3
  <2>4. CASE ~ctrl.sync /\ Cache!Mark(Cache!Own(ctrl.ofs_int), ~ctrl.bus_err, FALSE)
    <3>1. /\ Others(Cache!Own(ctrl.ofs_int)) /\ (lines'[ctrl.idx].vld <=> ~ctrl.bus_err)
          /\ lines'[ctrl.idx].tag = ctrl.tag
          /\ lines'[ctrl.idx].data = lines[ctrl.idx].data
      BY <1>0, <2>4, Accessing, Marked
    <3>2. CASE ctrl.bus_err
      BY <1>0, <2>1, <2>4, <3>2, Acknowledges DEF Goal
    <3>3. CASE a.idx /= ctrl.idx
      <4>1. lines'[a.idx] = lines[a.idx]
        BY <1>0, <1>1, <3>1, <3>3, Accessing DEF Others, Cache!Index
      <4>2. QED BY <1>6, <2>2, <4>1
    <3>4. CASE ~ctrl.bus_err /\ a.idx = ctrl.idx
      <4>1. lines[ctrl.idx].vld /\ lines[ctrl.idx].tag = ctrl.tag
        BY <1>0, <2>1 DEF UploadInv, Uploading, Cache!In
      <4>2. lines'[a.idx].vld = lines[a.idx].vld
        <5>1. lines'[a.idx] \in BlockType /\ lines[a.idx].vld \in BOOLEAN
          BY <1>0, <1>1, LinesType, Numbers DEF Cache!Index
        <5>2. lines'[a.idx].vld \in BOOLEAN
          BY <5>1 DEF BlockType
        <5>3. QED BY <3>1, <3>4, <4>1, <5>1, <5>2
      <4>3. QED BY <1>5, <2>2, <3>1, <3>4, <4>1, <4>2
    <3>5. QED BY <3>2, <3>3, <3>4
  <2>5. QED BY <2>1, <2>3, <2>4
<1>17. CASE Cache!SyncNext
  <2>1. /\ ctrl.state = "SYNC_NEXT" /\ ctrl'.state \in {"IDLE", "SYNC_DELAY"}
        /\ Cache!Mark(Cache!Own(ctrl.ofs_int), ctrl.bus_err, ctrl.bus_err)
    BY <1>0, <1>17, SyncSteps DEF To
  <2>2. Filling(a.idx)' = Filling(a.idx)
    BY <1>8, <1>9, <2>1
  <2>3. /\ Others(Cache!Own(ctrl.ofs_int)) /\ lines'[ctrl.idx].vld = ctrl.bus_err
        /\ lines'[ctrl.idx].tag = ctrl.tag
        /\ lines'[ctrl.idx].data = lines[ctrl.idx].data
    BY <1>0, <2>1, Accessing, Marked
  <2>4. CASE a.idx /= ctrl.idx
    <3>1. lines'[a.idx] = lines[a.idx]
      BY <1>0, <1>1, <2>3, <2>4, Accessing DEF Others, Cache!Index
    <3>2. QED BY <1>6, <2>2, <3>1
  <2>5. CASE a.idx = ctrl.idx /\ ctrl.bus_err
    <3>1. lines[ctrl.idx].vld /\ lines[ctrl.idx].tag = ctrl.tag
      BY <1>0, <2>1, <2>5 DEF UploadInv, Cache!In
    <3>2. lines'[a.idx].vld = lines[a.idx].vld
      BY <1>0, <1>1, <2>3, <2>5, <3>1, Numbers
    <3>3. QED BY <1>5, <2>2, <2>3, <2>5, <3>1, <3>2
  <2>6. CASE a.idx = ctrl.idx /\ ~ctrl.bus_err
    <3>1. ~Cached(a)'
      BY <2>3, <2>6 DEF Cached
    <3>2. Cached(a) => View(a) = Content(a)
      <4>1. SUFFICES ASSUME Cached(a) PROVE View(a) = Content(a)
        OBVIOUS
      <4>2. lines[ctrl.idx].vld /\ lines[ctrl.idx].tag = a.tag
        BY <2>6, <4>1 DEF Cached
      <4>3. Copied = BLOCK /\ ~Downloading
        BY <2>1 DEF Copied, Downloading, Cache!Reading, Cache!In
      <4>4. Same(a.ofs)
        BY <1>0, <1>1, <2>1, <2>6, <4>2, <4>3, Numbers DEF CopiedInv, Cache!In, Cache!Offset
      <4>5. Place(a.ofs) = a
        BY <1>1, <2>6, <4>2, <4>3 DEF Place, BlockTag
      <4>6. QED BY <2>6, <4>1, <4>4, <4>5 DEF View, Same, Here
    <3>3. QED BY <1>4, <1>7, <2>1, <3>1, <3>2
  <2>7. QED BY <2>4, <2>5, <2>6
<1>18. Cache!Clock
  BY <1>0
<1>19. QED BY ONLY <1>18, <1>11, <1>12, <1>13, <1>14, <1>15, <1>16, <1>17 DEF Cache!Clock

-----------------------------------------------------------------------------
\* The access of the host.

\* One that bypasses the cache is performed by the memory.
LEMMA BypassedAccess ==
  ASSUME IInv, Clock, ctrl'.state = "BYPASS"
  PROVE  /\ host'.addr = host.addr /\ host'.data = host.data /\ before' = before
         /\ (host'.rw <=> host.rw) /\ (host'.amo <=> host.amo)
         /\ ~(lines'[host.addr.idx].vld /\ lines'[host.addr.idx].tag = host.addr.tag)
         /\ \A k \in 1 .. Len(queue') : /\ queue'[k].addr = host.addr
                                        /\ queue'[k].rw <=> host.rw
                                        /\ queue'[k].data = host.data
         /\ rsp'.ack /\ ~rsp'.err =>
              /\ Reads => rsp'.data = before
              /\ \A a \in Address : a = host.addr /\ host.rw => Content(a)' = host.data
<1>0. /\ TypeOK /\ ControlInv /\ Cache!Clock /\ Memory /\ OffsetInv /\ CheckInv /\ AccessInv
      /\ HostInv /\ ctrl'.state = "BYPASS"
  BY DEF IInv, Clock, DataInv, ControlInv
<1>1. /\ host'.addr = host.addr /\ host'.data = host.data /\ before' = before
      /\ (host'.rw <=> host.rw) /\ (host'.amo <=> host.amo)
  BY <1>0, HostStable DEF Serving, Cache!In
<1>2. ~Cache!Idle /\ ~Cache!SyncStart /\ ~Cache!SyncDelay /\ ~Cache!SyncCheck /\ ~Cache!SyncNext
  BY <1>0, IdleStep, SyncSteps DEF Goes, To
<1>3. ~(Cache!ReadStart \/ Cache!ReadWait \/ Cache!ReadBurst \/ Cache!ReadDone)
  BY <1>0, ReadSteps DEF Goes, Receives, To
<1>4. ~(Cache!WriteStart \/ Cache!WriteReq \/ Cache!WriteRsp \/ Cache!WriteWait
        \/ Cache!WriteBurst \/ Cache!WriteDone)
  BY <1>0, WriteSteps DEF Goes, Receives, To
<1>5. CASE Cache!Bypass
  <2>1. ctrl.state = "BYPASS" /\ Cache!In({"BYPASS"}) /\ lines' = lines /\ ~rsp.ack
    BY <1>0, <1>5, BypassStep DEF Goes, To, Cache!In
  <2>2. ~(lines[host.addr.idx].vld /\ lines[host.addr.idx].tag = host.addr.tag)
    BY <1>0, <2>1 DEF AccessInv, AtHost
  <2>3. /\ \A k \in 1 .. Len(queue') : /\ queue'[k].addr = host.addr
                                       /\ queue'[k].rw <=> host.rw
                                       /\ queue'[k].data = host.data
        /\ rsp'.ack /\ ~rsp'.err =>
             /\ rsp'.data = Content(host.addr)
             /\ \A a \in Address : a = host.addr /\ host.rw => Content(a)' = host.data
    BY <1>0, <2>1, MemoryBypass
  <2>4. Reads => before = Content(host.addr)
    <3>1. busy /\ ~Performed
      BY <1>0, <2>1 DEF HostInv, Serving, Performed, Cache!In
    <3>2. QED BY <1>0, <2>2, <3>1 DEF AccessInv, View, Cached
  <2>5. QED BY <1>1, <2>1, <2>2, <2>3, <2>4
<1>6. CASE Cache!CheckBypass \/ Cache!CheckHit \/ Cache!CheckMiss
  <2>1. /\ ctrl.state = "CHECK" /\ ctrl.pnd_bp
        /\ \/ Cache!Mark(host.addr, FALSE, FALSE)
           \/ ~Cache!hit /\ lines' = lines
    BY <1>0, <1>6, CheckStep DEF Accepts, To
  <2>2. ~(lines'[host.addr.idx].vld /\ lines'[host.addr.idx].tag = host.addr.tag)
    <3>1. CASE Cache!Mark(host.addr, FALSE, FALSE)
      BY <1>0, <3>1, Accessing, Marked
    <3>2. CASE ~Cache!hit /\ lines' = lines
      BY <1>0, <2>1, <3>2, CheckedStatus DEF AtHost, Cache!In
    <3>3. QED BY <2>1, <3>1, <3>2
  <2>3. ~rsp'.ack /\ queue' = << >>
    <3>1. Outstanding = 0 /\ ~Cache!bus_req_o.stb
      BY <1>0, <2>1, Strobes DEF ControlInv, Requested, Cache!In
    <3>2. QED BY <1>0, <3>1, MemoryQuiet
  <2>4. QED BY <1>1, <2>2, <2>3
<1>7. QED BY <1>0, <1>2, <1>3, <1>4, <1>5, <1>6 DEF Cache!Clock

LEMMA AccessStep ==
  ASSUME IInv, Clock
  PROVE  AccessInv'
<1>0. /\ TypeOK /\ ControlInv /\ Host /\ AccessInv
      /\ \A access \in Accesses : access.addr \in Accessed /\ (READ_ONLY => ~access.rw)
  BY CacheAssumption DEF IInv, Clock, DataInv, Accessed
<1>1. CASE busy /\ ~HostAck
  <2>1. /\ busy' /\ host'.addr = host.addr /\ before' = before
        /\ (host'.rw <=> host.rw) /\ (host'.amo <=> host.amo)
    BY <1>0, <1>1 DEF Host, Wait, TypeOK, RequestType
  <2>2. host.addr \in Accessed /\ (READ_ONLY => ~host.rw)
    BY <1>0, <1>1 DEF AccessInv
  <2>3. ~Performed /\ ~HostErr
    BY <1>0, <1>1, Acknowledges DEF Performed, Cache!In, HostErr, ControlInv
  <2>4. ASSUME Reads', ~Performed'
        PROVE  before' = View(host.addr)'
    <3>1. PICK a \in Accessed : a = host.addr
      BY <2>2
    <3>2. before = View(a)
      BY <1>0, <1>1, <2>1, <2>3, <2>4, <3>1 DEF AccessInv, Reads
    <3>3. View(a)' = View(a)
      BY <1>1, <2>3, <2>4, ViewStep
    <3>4. View(host.addr)' = View(a)'
      BY <2>1, <3>1 DEF View, Cached, Filling, Cache!In, Content, Word, Accessed
    <3>5. QED BY <2>1, <3>2, <3>3, <3>4
  <2>5. /\ (busy => host.addr \in Accessed /\ (READ_ONLY => ~host.rw))'
        /\ (busy /\ Reads /\ ~Performed => before = View(host.addr))'
    BY <2>1, <2>2, <2>4 DEF Accessed
  <2>6. ASSUME ctrl'.state = "BYPASS"
        PROVE  (/\ ~(AtHost.vld /\ AtHost.tag = host.addr.tag)
                /\ \A k \in 1 .. Len(queue) : /\ queue[k].addr = host.addr
                                              /\ queue[k].rw <=> host.rw
                                              /\ queue[k].data = host.data
                /\ rsp.ack /\ ~rsp.err => /\ Reads => rsp.data = before
                                          /\ host.rw => Content(host.addr) = host.data)'
    <3>1. /\ host'.addr = host.addr /\ host'.data = host.data /\ before' = before
          /\ (host'.rw <=> host.rw) /\ (host'.amo <=> host.amo)
      BY <2>6, BypassedAccess
    <3>2. ~(AtHost.vld /\ AtHost.tag = host.addr.tag)'
      BY <2>6, <3>1, BypassedAccess DEF AtHost
    <3>3. \A k \in 1 .. Len(queue') : /\ queue'[k].addr = host'.addr
                                      /\ queue'[k].rw <=> host'.rw
                                      /\ queue'[k].data = host'.data
      BY <2>6, <3>1, BypassedAccess
    <3>4. rsp'.ack /\ ~rsp'.err => (Reads' => rsp'.data = before')
      BY <2>6, <3>1, BypassedAccess DEF Reads
    <3>5. PICK a \in Address : a = host.addr
      BY <1>0, Numbers
    <3>6. rsp'.ack /\ ~rsp'.err => (host'.rw => Content(a)' = host'.data)
      BY <2>6, <3>1, <3>5, BypassedAccess
    <3>7. Content(host.addr)' = Content(a)'
      BY <3>1, <3>5 DEF Content, Word, Accessed
    <3>8. QED BY <3>2, <3>3, <3>4, <3>6, <3>7
  <2>7. QED BY <2>5, <2>6 DEF AccessInv, Cache!In
<1>2. CASE ~(busy /\ ~HostAck)
  <2>1. Rest \/ \E access \in Accesses : Request(access)
    BY <1>0, <1>2 DEF Host
  <2>2. ctrl'.state /= "BYPASS"
    BY <1>0, <1>2, HostStable DEF Serving, Cache!In
  <2>3. CASE Rest
    BY <2>2, <2>3 DEF Rest, AccessInv, Cache!In
  <2>4. CASE \E access \in Accesses : Request(access)
    <3>1. PICK access \in Accesses : Request(access)
      BY <2>4
    <3>2. /\ host'.addr = access.addr /\ (host'.rw <=> access.rw) /\ (host'.amo <=> access.amo)
          /\ before' = IF access.rw /\ ~access.amo THEN Junk ELSE View(access.addr)'
      BY <3>1 DEF Request
    <3>3. access.addr \in Accessed /\ (READ_ONLY => ~access.rw)
      BY <1>0
    <3>4. View(host.addr)' = View(access.addr)'
      BY <3>2 DEF View, Cached, Filling, Cache!In, Content, Word, Accessed
    <3>5. Reads' => before' = View(host.addr)'
      BY <3>2, <3>4 DEF Reads
    <3>6. QED BY <2>2, <3>2, <3>3, <3>5 DEF AccessInv, Cache!In, Accessed
  <2>5. QED BY <2>1, <2>3, <2>4
<1>3. QED BY <1>1, <1>2

-----------------------------------------------------------------------------
\* The invariant is inductive.

LEMMA InitInv == Init => IInv
<1> SUFFICES ASSUME Init PROVE IInv
  OBVIOUS
<1>1. /\ bursts_en \in BOOLEAN
      /\ ctrl = [state |-> "IDLE", sync |-> FALSE, bus_err |-> FALSE,
                 pnd_req |-> FALSE, pnd_syn |-> FALSE, pnd_bp |-> FALSE,
                 bp_req |-> FALSE, hit |-> FALSE, cln |-> FALSE, tag |-> ResetTag,
                 idx |-> 0, ofs_int |-> 0, ofs_ext |-> 0, ofs_buf |-> 0]
      /\ rd = [vld |-> FALSE, drt |-> FALSE, tag |-> ResetTag, data |-> Junk]
      /\ ~host.stb /\ ~busy /\ queue = << >> /\ ~rsp.ack
  BY DEF Init, Cache!Init, Idle, NoAnswer
<1>2. /\ lines \in [0 .. NUM_BLOCKS - 1 -> BlockType]
      /\ \A i \in 0 .. NUM_BLOCKS - 1 : ~lines[i].vld /\ (READ_ONLY => ~lines[i].drt)
  <2>1. PICK dirty \in [Cache!Index -> IF READ_ONLY THEN {FALSE} ELSE BOOLEAN] :
          lines = [i \in Cache!Index |->
                     [vld |-> FALSE, drt |-> dirty[i], tag |-> ResetTag,
                      data |-> [o \in Cache!Offset |-> Junk]]]
    BY DEF Init, Cache!Init
  <2>2. \A i \in Cache!Index : dirty[i] \in BOOLEAN /\ (READ_ONLY => ~dirty[i])
    BY CacheAssumption
  <2>3. [o \in Cache!Offset |-> Junk] \in [0 .. BLOCK - 1 -> Stored]
    BY DEF Stored, Cache!Offset
  <2>4. ResetTag \in Tag
    BY CacheAssumption
  <2>5. QED BY <2>1, <2>2, <2>3, <2>4 DEF BlockType, Cache!Index
<1>3. TypeOK
  <2>1. 0 \in 0 .. NUM_BLOCKS - 1 /\ 0 \in 0 .. BLOCK - 1 /\ 0 \in 0 .. 2 * BLOCK - 1
        /\ ResetTag \in Tag /\ Junk \in Stored
    BY CacheAssumption DEF Stored
  <2>2. host \in RequestType
    BY <2>1 DEF Init, Idle, RequestType, Address
  <2>3. mem \in [Accessed -> Stored]
    <3>1. \A a \in Accessed : Word(a, 0) \in Stored
      BY Addresses DEF Word, Stored
    <3>2. QED BY <3>1 DEF Init
  <2>4. queue \in Seq(RequestType) /\ rsp \in [ack : BOOLEAN, err : BOOLEAN, data : Stored]
        /\ rd \in [vld : BOOLEAN, drt : BOOLEAN, tag : Tag, data : Stored]
        /\ busy \in BOOLEAN /\ sync_i \in BOOLEAN /\ before \in Stored /\ failed \in BOOLEAN
    <3>1. queue \in Seq(RequestType)
      BY <1>1
    <3>2. rsp \in [ack : BOOLEAN, err : BOOLEAN, data : Stored]
      BY <2>1 DEF Init, NoAnswer
    <3>3. rd \in [vld : BOOLEAN, drt : BOOLEAN, tag : Tag, data : Stored]
      BY <1>1, <2>1
    <3>4. busy \in BOOLEAN /\ sync_i \in BOOLEAN /\ before \in Stored /\ failed \in BOOLEAN
      BY <2>1 DEF Init
    <3>5. QED BY <3>1, <3>2, <3>3, <3>4
  <2>5. ctrl \in [state : {"IDLE", "CHECK", "BYPASS", "SYNC_START", "SYNC_DELAY",
                        "SYNC_CHECK", "SYNC_NEXT", "READ_START", "READ_WAIT",
                        "READ_BURST", "READ_DONE", "WRITE_START", "WRITE_REQ",
                        "WRITE_RSP", "WRITE_WAIT", "WRITE_BURST", "WRITE_DONE"},
               sync : BOOLEAN, bus_err : BOOLEAN, pnd_req : BOOLEAN,
               pnd_syn : BOOLEAN, pnd_bp : BOOLEAN, bp_req : BOOLEAN,
               hit : BOOLEAN, cln : BOOLEAN, tag : Tag, idx : 0 .. NUM_BLOCKS - 1,
               ofs_int : 0 .. BLOCK - 1, ofs_ext : 0 .. 2 * BLOCK - 1,
               ofs_buf : 0 .. 2 * BLOCK - 1]
    BY <1>1, <2>1
  <2>6. QED BY <1>1, <1>2, <2>2, <2>3, <2>4, <2>5 DEF TypeOK, BlockType
<1>4. /\ ctrl.state = "IDLE" /\ ~ctrl.sync /\ ~ctrl.pnd_req /\ ~ctrl.bp_req /\ ~ctrl.cln
      /\ ~ctrl.hit /\ ~rd.drt
  BY <1>1
<1>5. ~Uploading /\ ~Downloading /\ ~Serving /\ ~Cache!Reading /\ ~Cache!Writing
  BY <1>4 DEF Uploading, Downloading, Serving, Cache!Reading, Cache!Writing, Cache!In
<1>6. ControlInv
  <2>1. SyncInv /\ OffsetInv /\ HostInv
    BY <1>1, <1>4, <1>5 DEF SyncInv, OffsetInv, HostInv, Cache!In
  <2>2. Outstanding = 0 /\ Requested = 0
    BY <1>1, <1>4 DEF Outstanding, Requested, Cache!In
  <2>3. QED BY <2>1, <2>2 DEF ControlInv
<1>7. FlushInv
  BY <1>2, <1>4, <1>5 DEF FlushInv, ReadOnlyInv, Cache!In, Cache!Index
<1>8. DataInv
  BY <1>1, <1>2, <1>4, <1>5
     DEF DataInv, CleanInv, TransferInv, CopiedInv, UploadInv, CheckInv, AccessInv, Performed,
         Cache!In, Cache!Index
<1>9. QED BY <1>3, <1>6, <1>7, <1>8 DEF IInv

LEMMA StutterInv == IInv /\ UNCHANGED vars => IInv'
<1> SUFFICES ASSUME IInv, UNCHANGED vars PROVE IInv'
  OBVIOUS
<1> USE DEF IInv, vars, cache
<1>1. TypeOK'
  BY DEF TypeOK, Accessed
<1>2. ControlInv'
  BY DEF ControlInv, SyncInv, OffsetInv, HostInv, Serving, Uploading, Downloading, Outstanding,
         Requested, Cache!Reading, Cache!Writing, Cache!In
<1>3. FlushInv'
  BY DEF FlushInv, ReadOnlyInv, Uploading, Cache!Index, Cache!Writing, Cache!In
<1>4. CleanInv'
  BY DEF DataInv, CleanInv, CopyOf, Filling, Content, Word, Accessed, At, Cache!Index,
         Cache!Offset, Cache!In
<1>5. TransferInv'
  BY DEF DataInv, TransferInv, Asks, Answered, Same, Here, Place, BlockTag, Content, Word,
         Accessed, At, Downloading, Cache!Reading, Cache!Writing, Cache!In
<1>6. CopiedInv' /\ UploadInv'
  BY DEF DataInv, CopiedInv, UploadInv, Copied, Same, Here, Place, BlockTag, Content, Word,
         Accessed, At, Uploading, Downloading, Cache!Offset, Cache!Reading, Cache!Writing,
         Cache!In
<1>7. CheckInv'
  BY DEF DataInv, CheckInv, AtHost, Serving, Uploading, Downloading, Cache!hit, Cache!Reading,
         Cache!Writing, Cache!In
<1>8. AccessInv'
  BY DEF DataInv, AccessInv, AtHost, Performed, Reads, View, Cached, Filling, Content, Word,
         Accessed, Cache!In
<1>9. QED BY <1>1, <1>2, <1>3, <1>4, <1>5, <1>6, <1>7, <1>8 DEF DataInv

LEMMA StepInv == IInv /\ [Next]_vars => IInv'
<1>1. ASSUME IInv, Clock PROVE IInv'
  <2>1. TypeOK' /\ ControlInv' /\ FlushInv'
    BY <1>1, TypeStep, ControlStep, FlushStep DEF IInv
  <2>2. DataInv'
    BY <1>1, CleanStep, TransferStep, CopiedStep, UploadStep, CheckInvStep, AccessStep DEF DataInv
  <2>3. QED BY <2>1, <2>2 DEF IInv
<1>2. QED BY <1>1, StutterInv DEF Next

LEMMA CacheInvariant == Spec => []IInv
BY InitInv, StepInv, PTL DEF Spec

-----------------------------------------------------------------------------
\* The theorems.

\* Every variable has its type: no offset leaves its block.
THEOREM CacheTypeOK == Spec => []TypeOK
<1>1. IInv => TypeOK
  BY DEF IInv
<1>2. QED BY <1>1, CacheInvariant, PTL

\* A read, or the read half of an atomic access, that succeeds returns the word
\* the host saw when it issued the access.
THEOREM CacheReadsLatest == Spec => []ReadsLatest
<1>1. IInv => ReadsLatest
  <2> SUFFICES ASSUME IInv, HostAck, ~HostErr, Reads
               PROVE  Cache!host_rsp_o.data = before
    BY DEF ReadsLatest, Reads
  <2>1. /\ TypeOK /\ HostInv /\ AccessInv /\ CheckInv /\ busy
    BY DEF IInv, ControlInv, DataInv, HostAck
  <2>2. CASE ctrl.state = "BYPASS" /\ rsp.ack
    <3>1. ~rsp.err
      BY <2>1, <2>2, Acknowledges
    <3>2. QED BY <2>1, <2>2, <3>1 DEF AccessInv, Cache!host_rsp_o, Cache!In
  <2>3. CASE ctrl.state = "CHECK" /\ ~ctrl.pnd_bp /\ Cache!hit
    <3>1. /\ rd.data = AtHost.data[host.addr.ofs]
          /\ AtHost.vld /\ AtHost.tag = host.addr.tag
      BY <2>1, <2>3, CheckedStatus DEF CheckInv, Cache!In
    <3>2. View(host.addr) = AtHost.data[host.addr.ofs]
      BY <2>3, <3>1 DEF View, Cached, Filling, AtHost, Cache!In
    <3>3. before = View(host.addr)
      BY <2>1, <2>3 DEF AccessInv, Performed, Cache!In
    <3>4. Cache!host_rsp_o.data = rd.data
      BY <2>3 DEF Cache!host_rsp_o, Cache!In
    <3>5. QED BY <3>1, <3>2, <3>3, <3>4
  <2>4. QED BY <2>1, <2>2, <2>3, Acknowledges
<1>2. QED BY <1>1, CacheInvariant, PTL

\* What the engine waits for is under way, and an access of the host is never
\* forgotten in favour of a synchronization.
THEOREM CacheNothingForgotten == Spec => []NothingForgotten
<1>1. IInv => NothingForgotten
  <2> SUFFICES ASSUME IInv PROVE NothingForgotten
    OBVIOUS
  <2>1. TypeOK /\ SyncInv /\ OffsetInv /\ HostInv /\ Outstanding = Requested
    BY DEF IInv, ControlInv
  <2>2. Cache!In({"READ_BURST", "WRITE_BURST"}) => Cache!bus_req_o.stb \/ Outstanding > 0
    <3>1. CASE ctrl.state = "READ_BURST"
      BY <2>1, <3>1, Strobes, Numbers DEF OffsetInv, Requested, Cache!In
    <3>2. CASE ctrl.state = "WRITE_BURST"
      BY <2>1, <3>2, Strobes, Numbers DEF OffsetInv, Requested, Cache!In
    <3>3. QED BY <3>1, <3>2 DEF Cache!In
  <2>3. busy /\ (Cache!In({"IDLE", "SYNC_START"}) \/ ctrl.sync) => host.stb \/ ctrl.pnd_req
    BY <2>1 DEF SyncInv, HostInv, Serving, Uploading, Downloading, Cache!Reading,
       Cache!Writing, Cache!In
  <2>4. QED BY <2>1, <2>2, <2>3 DEF NothingForgotten
<1>2. QED BY <1>1, CacheInvariant, PTL

\* After a synchronization no block is left valid, but for those whose upload
\* failed, and these are still dirty.
THEOREM CacheSyncFlushes == Spec => SyncFlushes
<1> DEFINE Flushed == ctrl.state = "SYNC_NEXT" /\ ctrl'.state = "IDLE" =>
                        \A i \in Cache!Index : lines'[i].vld => failed /\ lines'[i].drt
<1>1. IInv /\ [Next]_vars => [Flushed]_vars
  <2> SUFFICES ASSUME IInv, Clock, ctrl.state = "SYNC_NEXT", ctrl'.state = "IDLE",
                      NEW i \in Cache!Index, lines'[i].vld
               PROVE  failed /\ lines'[i].drt
    BY DEF Next
  <2>1. TypeOK /\ ControlInv /\ FlushInv /\ OffsetInv /\ Cache!Clock
    BY DEF IInv, ControlInv, Clock
  <2>2. Cache!SyncNext
    BY <2>1, IdleStep, CheckStep, BypassStep, SyncSteps, ReadSteps, WriteSteps DEF Cache!Clock
  <2>3. ctrl.idx = NUM_BLOCKS - 1 /\ NUM_BLOCKS \in Nat
    BY <2>1, <2>2, SyncSteps, Numbers DEF To
  <2>4. i < ctrl.idx + 1
    BY <2>3 DEF Cache!Index
  <2>5. QED BY <2>1, <2>2, <2>4, PassStep
<1>2. QED BY <1>1, CacheInvariant, PTL DEF Spec, SyncFlushes

\* The host sees its write when it succeeds.
LEMMA WriteShows ==
  ASSUME IInv, Clock, NEW a \in Accessed, Writing(a), HostAck, ~HostErr
  PROVE  View(a)' = host.data
<1>0. /\ TypeOK /\ ControlInv /\ Cache!Clock /\ Memory /\ OffsetInv /\ HostInv /\ CheckInv
      /\ AccessInv /\ busy /\ host.rw /\ a = host.addr /\ a \in Address /\ ~READ_ONLY
  BY Addresses DEF IInv, Clock, ControlInv, DataInv, Writing, AccessInv
<1>1. CASE ctrl.state = "BYPASS" /\ rsp.ack
  <2>1. lines' = lines /\ ctrl'.state = "IDLE"
    BY <1>0, <1>1, IdleStep, CheckStep, BypassStep, SyncSteps, ReadSteps, WriteSteps
       DEF Cache!Clock, Goes, To
  <2>2. ~(lines[a.idx].vld /\ lines[a.idx].tag = a.tag) /\ Content(a) = host.data
    <3>1. ~rsp.err
      BY <1>0, <1>1, Acknowledges
    <3>2. QED BY <1>0, <1>1, <3>1 DEF AccessInv, AtHost, Cache!In
  <2>3. Content(a)' = Content(a)
    BY <1>0, <1>1, MemoryBypass DEF Cache!In
  <2>4. QED BY <2>1, <2>2, <2>3 DEF View, Cached
<1>2. CASE ctrl.state = "CHECK" /\ ~ctrl.pnd_bp /\ Cache!hit
  <2>1. Cache!CheckBypass \/ Cache!CheckHit \/ Cache!CheckMiss
    BY <1>0, <1>2, IdleStep, BypassStep, SyncSteps, ReadSteps, WriteSteps DEF Cache!Clock
  <2>2. /\ ctrl'.state = "IDLE"
        /\ lines' = [lines EXCEPT ![host.addr.idx].drt = TRUE,
                                  ![host.addr.idx].data[host.addr.ofs] = host.data]
    BY <1>0, <1>2, <2>1, CheckStep DEF Accepts, To
  <2>3. /\ WordWritten(host.addr, host.data)
        /\ lines'[host.addr.idx].vld = lines[host.addr.idx].vld
        /\ lines'[host.addr.idx].tag = lines[host.addr.idx].tag
    BY <1>0, <2>2, WasHit
  <2>4. lines[host.addr.idx].vld /\ lines[host.addr.idx].tag = host.addr.tag
    BY <1>0, <1>2, CheckedStatus DEF AtHost, Cache!In
  <2>5. lines'[a.idx].data[a.ofs] = host.data
    BY <1>0, <2>3, Addresses DEF WordWritten, Cache!Offset
  <2>6. QED BY <1>0, <2>2, <2>3, <2>4, <2>5 DEF View, Cached, Filling, Cache!In
<1>3. QED BY <1>0, <1>1, <1>2, Acknowledges

\* What the host sees changes only by its own writes, or with an error.
THEOREM CacheWritesOnly == Spec => WritesOnly
<1> DEFINE Sees == \A a \in Accessed :
       /\ Writing(a) /\ HostAck /\ ~HostErr => View(a)' = host.data
       /\ \/ View(a)' = View(a)
          \/ Writing(a) /\ View(a)' = host.data
          \/ HostErr
<1>1. IInv /\ [Next]_vars => [Sees]_vars
  BY ViewStep, WriteShows DEF Next
<1>2. QED BY <1>1, CacheInvariant, PTL DEF Spec, WritesOnly

=============================================================================
