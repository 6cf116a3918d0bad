----------------------------- MODULE CacheSystem -----------------------------
(***************************************************************************)
(* The data cache in its place: a host in front of it that has one access  *)
(* in progress at a time and pulses the synchronization request, a memory  *)
(* behind it that answers in order, after any time, perhaps with an error. *)
(*                                                                         *)
(* A word is the address it was written to with a version, so a word in a  *)
(* wrong place or of a wrong time shows.                                   *)
(***************************************************************************)
EXTENDS Sequences, Naturals

CONSTANTS Tag, Uncached, NUM_BLOCKS, BLOCK, READ_ONLY,  \* of the cache
          ResetTag,
          Accesses,  \* what the host may ask for: [addr, rw, amo, version]
          Faulty,    \* the blocks memory may answer with an error, by index
          Junk       \* what the bus holds without an answer, or with an error

Address == [tag : Tag, idx : 0 .. NUM_BLOCKS - 1, ofs : 0 .. BLOCK - 1]

\* Nobody writes through a read-only cache: it serves the instruction fetch.
ASSUME CacheAssumption ==
  /\ Uncached \subseteq Tag /\ ResetTag \in Tag
  /\ NUM_BLOCKS \in Nat \ {0, 1}
  /\ BLOCK \in Nat \ {0, 1}
  /\ READ_ONLY \in BOOLEAN
  /\ Accesses \subseteq [addr : Address, rw : BOOLEAN, amo : BOOLEAN, version : Nat]
  /\ READ_ONLY => \A access \in Accesses : ~access.rw

VARIABLES bursts_en, ctrl, lines, rd,   \* the cache
          host,     \* the request signals of the host
          busy,     \* the host waits for an answer
          sync_i,   \* synchronization request
          mem,      \* the words at the addresses accessed, in memory
          queue,    \* accesses the memory has not answered
          rsp,      \* the answer of the memory in this clock
          before,   \* ghost: the word the host sees when it issues an access
          failed    \* ghost: an error response since the synchronization began

cache == << bursts_en, ctrl, lines, rd >>
vars  == << cache, host, busy, sync_i, mem, queue, rsp, before, failed >>

Cache == INSTANCE Cache WITH host_req_i <- host, bus_rsp_i <- rsp

Accessed == {access.addr : access \in Accesses}
Word(a, version) == [addr |-> a, version |-> version]
Content(a) == IF a \in Accessed THEN mem[a] ELSE Word(a, 0)

\* What the host sees at an address: the valid block, the memory otherwise.  A
\* block that is being read from memory is not a copy of anything yet.
Filling(i) == Cache!In({"READ_START", "READ_WAIT", "READ_BURST", "READ_DONE"})
              /\ ctrl.idx = i
Cached(a) == lines[a.idx].vld /\ lines[a.idx].tag = a.tag /\ ~Filling(a.idx)
View(a) == IF Cached(a) THEN lines[a.idx].data[a.ofs] ELSE Content(a)

Stored == {Junk} \cup [addr : Address, version : Nat]
RequestType == [stb : BOOLEAN, rw : BOOLEAN, amo : BOOLEAN, lock : BOOLEAN,
                addr : Address, data : Stored]

TypeOK ==
  /\ bursts_en \in BOOLEAN
  /\ ctrl \in [state : {"IDLE", "CHECK", "BYPASS", "SYNC_START", "SYNC_DELAY",
                        "SYNC_CHECK", "SYNC_NEXT", "READ_START", "READ_WAIT",
                        "READ_BURST", "READ_DONE", "WRITE_START", "WRITE_REQ",
                        "WRITE_RSP", "WRITE_WAIT", "WRITE_BURST", "WRITE_DONE"},
               sync : BOOLEAN, bus_err : BOOLEAN, pnd_req : BOOLEAN,
               pnd_syn : BOOLEAN, pnd_bp : BOOLEAN, bp_req : BOOLEAN,
               hit : BOOLEAN, cln : BOOLEAN, tag : Tag, idx : 0 .. NUM_BLOCKS - 1,
               ofs_int : 0 .. BLOCK - 1, ofs_ext : 0 .. 2 * BLOCK - 1,
               ofs_buf : 0 .. 2 * BLOCK - 1]
  /\ lines \in [0 .. NUM_BLOCKS - 1 ->
               [vld : BOOLEAN, drt : BOOLEAN, tag : Tag,
                data : [0 .. BLOCK - 1 -> Stored]]]
  /\ rd \in [vld : BOOLEAN, drt : BOOLEAN, tag : Tag, data : Stored]
  /\ host \in RequestType /\ busy \in BOOLEAN /\ sync_i \in BOOLEAN
  /\ mem \in [Accessed -> Stored]
  /\ queue \in Seq(RequestType)
  /\ rsp \in [ack : BOOLEAN, err : BOOLEAN, data : Stored]
  /\ before \in Stored
  /\ failed \in BOOLEAN

NoAnswer == [ack |-> FALSE, err |-> FALSE, data |-> Junk]

Idle == [stb |-> FALSE, rw |-> FALSE, amo |-> FALSE, lock |-> FALSE,
         addr |-> [tag |-> ResetTag, idx |-> 0, ofs |-> 0], data |-> Junk]

Init ==
  /\ Cache!Init(ResetTag, Junk)
  /\ host = Idle
  /\ busy = FALSE /\ sync_i = FALSE
  /\ mem = [a \in Accessed |-> Word(a, 0)]
  /\ queue = << >>
  /\ rsp = NoAnswer
  /\ before = Junk
  /\ failed = FALSE

-----------------------------------------------------------------------------
\* The host: its request signals are stable until the answer.  What they hold
\* between two accesses is of no consequence.  It executes a fence only when it
\* has no access in progress.
HostAck == busy /\ Cache!host_rsp_o.ack
HostErr == HostAck /\ Cache!host_rsp_o.err

Wait == busy' = TRUE /\ host' = [host EXCEPT !.stb = FALSE] /\ UNCHANGED before
Rest == busy' = FALSE /\ host' = Idle /\ before' = Junk
Request(access) ==
  /\ busy' = TRUE
  /\ host' = [stb |-> TRUE, rw |-> access.rw, amo |-> access.amo, lock |-> FALSE,
              addr |-> access.addr, data |-> Word(access.addr, access.version)]
  /\ before' = IF access.rw /\ ~access.amo THEN Junk ELSE View(access.addr)'

Host ==
  /\ IF busy /\ ~HostAck THEN Wait
     ELSE \/ Rest
          \/ \E access \in Accesses : Request(access)
  /\ sync_i' \in (IF busy' THEN {FALSE} ELSE BOOLEAN)

-----------------------------------------------------------------------------
\* The memory.  An atomic access swaps; an access that fails has no effect.
Memory ==
  LET request == Cache!bus_req_o
      pending == IF request.stb THEN Append(queue, request) ELSE queue
  IN  \/ rsp' = NoAnswer /\ queue' = pending /\ UNCHANGED mem
      \/ /\ pending /= << >>
         /\ queue' = Tail(pending)
         /\ LET access == Head(pending)
            IN  \/ /\ rsp' = [ack |-> TRUE, err |-> FALSE, data |-> Content(access.addr)]
                   /\ mem' = IF access.rw /\ access.addr \in Accessed
                             THEN [mem EXCEPT ![access.addr] = access.data]
                             ELSE mem
                \/ /\ access.addr.idx \in Faulty
                   /\ rsp' = [ack |-> TRUE, err |-> TRUE, data |-> Junk]
                   /\ UNCHANGED mem

Clock == /\ Cache!Clock
         /\ Memory
         /\ Host
         /\ failed' = (ctrl.sync /\ (failed \/ rsp.err))
Next == Clock

Spec == Init /\ [][Next]_vars

-----------------------------------------------------------------------------
\* A read, or the read half of an atomic access, that succeeds returns the word
\* the host saw when it issued the access: neither eviction and refill of the
\* block nor a synchronization in between change it.
ReadsLatest ==
  HostAck /\ ~HostErr /\ (~host.rw \/ host.amo) => Cache!host_rsp_o.data = before

\* What the host sees changes only by its own writes - when they succeed, to
\* the word written - or in the clock of an error response: write-back,
\* refill, eviction and synchronization never show.
Writing(a) == busy /\ host.rw /\ host.addr = a
WritesOnly ==
  [][\A a \in Accessed :
       /\ Writing(a) /\ HostAck /\ ~HostErr => View(a)' = host.data
       /\ \/ View(a)' = View(a)
          \/ Writing(a) /\ View(a)' = host.data
          \/ HostErr]_vars

\* After a synchronization memory holds what the host sees: no block is left
\* valid - unless an upload failed, and what is left then is still dirty, so
\* that the next synchronization tries again.
SyncFlushes ==
  [][ctrl.state = "SYNC_NEXT" /\ ctrl'.state = "IDLE" =>
       \A i \in Cache!Index : lines'[i].vld => failed /\ lines'[i].drt]_vars

\* What the engine waits for is under way: an access of the host is never
\* forgotten in favour of a synchronization, and the answers outstanding are
\* those of the words requested and not yet stored - none comes when the engine
\* is elsewhere, or has released the lock of the bus.
Outstanding == Len(queue) + (IF rsp.ack THEN 1 ELSE 0)
Requested ==
  CASE Cache!In({"READ_WAIT", "WRITE_RSP"}) -> 1
    [] Cache!In({"READ_BURST"})  -> ctrl.ofs_ext - ctrl.ofs_int
    [] Cache!In({"WRITE_BURST"}) -> IF ctrl.ofs_buf < BLOCK THEN ctrl.ofs_buf - ctrl.ofs_int
                                                            ELSE BLOCK - ctrl.ofs_int
    [] Cache!In({"BYPASS"})      -> IF ctrl.bp_req THEN 0 ELSE 1
    [] OTHER -> 0
NothingForgotten ==
  /\ Outstanding = Requested
  /\ Cache!In({"READ_BURST", "WRITE_BURST"}) => Cache!bus_req_o.stb \/ Outstanding > 0
  /\ busy /\ (Cache!In({"IDLE", "SYNC_START"}) \/ ctrl.sync) => host.stb \/ ctrl.pnd_req
=============================================================================
