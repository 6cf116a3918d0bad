-------------------------------- MODULE Cache --------------------------------
(***************************************************************************)
(* The direct-mapped write-back cache (neorv32_cache.vhd) between a host   *)
(* that issues one access at a time and the bus.  One action per state of  *)
(* its control engine; one step is one clock edge.                         *)
(*                                                                         *)
(* An address is a record [tag, idx, ofs]; words are opaque, and a write   *)
(* replaces the whole word (byte enables are left out).  At least two      *)
(* blocks: with one the status memory is read without the clock of delay.  *)
(***************************************************************************)
EXTENDS Naturals

CONSTANTS Tag,        \* the tags of the address space
          Uncached,   \* the tags at and above UC_BEGIN
          NUM_BLOCKS,
          BLOCK,      \* words in a block (BLOCK_SIZE / 4)
          READ_ONLY

VARIABLES bursts_en,  \* the generic BURSTS_EN: Init chooses, no step changes it
          ctrl,       \* control engine
          lines,      \* per block: valid, dirty, tag and data memories
          rd,         \* the clocked outputs of these memories
          host_req_i, sync_i, bus_rsp_i  \* inputs: [stb, rw, amo, lock, addr,
                                         \* data], a flag, [ack, err, data]

vars == << bursts_en, ctrl, lines, rd >>

Index   == 0 .. NUM_BLOCKS - 1
Offset  == 0 .. BLOCK - 1
\* After reset only the valid flags are known: the memories are not reset.
Init(reset_tag, word) ==
  /\ bursts_en \in BOOLEAN
  /\ ctrl = [state |-> "IDLE", sync |-> FALSE, bus_err |-> FALSE,
             pnd_req |-> FALSE, pnd_syn |-> FALSE, pnd_bp |-> FALSE,
             bp_req |-> FALSE, hit |-> FALSE, cln |-> FALSE, tag |-> reset_tag,
             idx |-> 0, ofs_int |-> 0, ofs_ext |-> 0, ofs_buf |-> 0]
  /\ \E dirty \in [Index -> IF READ_ONLY THEN {FALSE} ELSE BOOLEAN] :
       lines = [i \in Index |-> [vld |-> FALSE, drt |-> dirty[i], tag |-> reset_tag,
                                 data |-> [o \in Offset |-> word]]]
  /\ rd = [vld |-> FALSE, drt |-> FALSE, tag |-> reset_tag, data |-> word]

-----------------------------------------------------------------------------
\* What the control engine sees of the memories.
hit == ctrl.hit \/ (rd.vld /\ rd.tag = host_req_i.addr.tag)
drt == ~ctrl.cln /\ rd.drt /\ rd.vld

\* The addresses it forms itself, and its defaults.
Own(ofs) == [tag |-> ctrl.tag, idx |-> ctrl.idx, ofs |-> ofs % BLOCK]
\* Mutant: a strobe is not stored.
Default_forgetful == [ctrl EXCEPT !.pnd_syn = @ \/ sync_i, !.bp_req = FALSE,
                                  !.hit = FALSE, !.cln = FALSE, !.ofs_buf = ctrl.ofs_ext]
Default == [ctrl EXCEPT !.pnd_req = @ \/ host_req_i.stb,
                        !.pnd_syn = @ \/ sync_i,
                        !.bp_req = FALSE, !.hit = FALSE, !.cln = FALSE,
                        !.ofs_buf = ctrl.ofs_ext]
Last == ctrl.ofs_int = BLOCK - 1
NextWord == (ctrl.ofs_int + 1) % BLOCK

\* Access to the memories at address a: they are always read (the old word
\* when they are written); the status or a word may be written.
Look(a) == rd' = [vld |-> lines[a.idx].vld, drt |-> lines[a.idx].drt,
                  tag |-> lines[a.idx].tag, data |-> lines[a.idx].data[a.ofs]]
Mark(a, vld, dirty) ==
  lines' = [lines EXCEPT ![a.idx].vld = vld, ![a.idx].tag = a.tag,
                         ![a.idx].drt = dirty /\ ~READ_ONLY]
Put(a, word) == lines' = [lines EXCEPT ![a.idx].data[a.ofs] = word]

-----------------------------------------------------------------------------
\* The bus request.
In(states) == ctrl.state \in states
Reading == In({"READ_START", "READ_WAIT", "READ_BURST"})
Writing == In({"WRITE_START", "WRITE_REQ", "WRITE_RSP", "WRITE_WAIT", "WRITE_BURST"})

bus_req_o ==
  IF In({"BYPASS"}) THEN [host_req_i EXCEPT !.stb = ctrl.bp_req]
  ELSE [stb  |-> \/ In({"READ_START", "WRITE_REQ"})
                 \/ In({"READ_BURST"}) /\ ctrl.ofs_ext < BLOCK
                 \/ In({"WRITE_BURST"}) /\ ctrl.ofs_buf < BLOCK,
        lock |-> Reading \/ Writing,
        rw   |-> Writing,
        amo  |-> FALSE,
        addr |-> Own(IF In({"WRITE_WAIT", "WRITE_BURST"}) THEN ctrl.ofs_buf
                                                           ELSE ctrl.ofs_ext),
        data |-> rd.data]

\* The host response.
Failing == ctrl.bus_err /\ \/ In({"READ_DONE"})
                           \/ In({"WRITE_DONE"}) /\ ~ctrl.sync
host_rsp_o ==
  IF In({"BYPASS"}) THEN bus_rsp_i
  ELSE [ack  |-> Failing \/ (In({"CHECK"}) /\ ~ctrl.pnd_bp /\ hit),
        err  |-> Failing,
        data |-> rd.data]

-----------------------------------------------------------------------------
\* Access check: hit, miss or bypass.
Idle ==
  /\ ctrl.state = "IDLE"
  /\ LET request == host_req_i.stb \/ ctrl.pnd_req
     IN  ctrl' = [Default EXCEPT
                    !.bus_err = FALSE, !.sync = FALSE,
                    !.pnd_bp = /\ ~ctrl.pnd_syn /\ request
                               /\ host_req_i.addr.tag \in Uncached \/ host_req_i.amo,
                    !.state = IF ctrl.pnd_syn THEN "SYNC_START"
                              ELSE IF request THEN "CHECK" ELSE "IDLE"]
  /\ Look(host_req_i.addr)
  /\ UNCHANGED lines

Checked(next) ==
  ctrl' = [Default EXCEPT !.tag = host_req_i.addr.tag, !.idx = host_req_i.addr.idx,
                          !.ofs_ext = 0, !.ofs_int = 0,
                          !.pnd_req = FALSE, !.bp_req = TRUE, !.state = next]

\* Mutant: a clean copy is kept.
CheckBypass_keeping ==
  /\ ctrl.state = "CHECK" /\ ctrl.pnd_bp
  /\ Look(host_req_i.addr)
  /\ Checked(IF hit /\ drt THEN "WRITE_START" ELSE "BYPASS")
  /\ UNCHANGED lines

\* An uncached or atomic access: a cached copy is written back and dropped.
CheckBypass ==
  /\ ctrl.state = "CHECK" /\ ctrl.pnd_bp
  /\ Look(host_req_i.addr)
  /\ \/ hit /\ drt /\ Checked("WRITE_START") /\ UNCHANGED lines
     \/ hit /\ ~drt /\ Checked("BYPASS") /\ Mark(host_req_i.addr, FALSE, FALSE)
     \/ ~hit /\ Checked("BYPASS") /\ UNCHANGED lines

\* A hit is answered in this clock; a write makes the block dirty.
CheckHit ==
  /\ ctrl.state = "CHECK" /\ ~ctrl.pnd_bp /\ hit
  /\ Look(host_req_i.addr)
  /\ Checked("IDLE")
  /\ LET a == host_req_i.addr
     IN  lines' = IF host_req_i.rw /\ ~READ_ONLY
                  THEN [lines EXCEPT ![a.idx].drt = TRUE,
                                     ![a.idx].data[a.ofs] = host_req_i.data]
                  ELSE lines

CheckMiss ==
  /\ ctrl.state = "CHECK" /\ ~ctrl.pnd_bp /\ ~hit
  /\ Look(host_req_i.addr)
  /\ Checked(IF drt THEN "WRITE_START" ELSE "READ_START")
  /\ UNCHANGED lines

Bypass ==
  /\ ctrl.state = "BYPASS"
  /\ ctrl' = [Default EXCEPT !.state = IF bus_rsp_i.ack THEN "IDLE" ELSE @]
  /\ Look(host_req_i.addr)
  /\ UNCHANGED lines

-----------------------------------------------------------------------------
\* Synchronization: write the dirty blocks back, invalidate all.
SyncStart ==
  /\ ctrl.state = "SYNC_START"
  /\ ctrl' = [Default EXCEPT !.pnd_syn = FALSE, !.sync = TRUE, !.idx = 0,
                             !.state = "SYNC_DELAY"]
  /\ Look(host_req_i.addr)
  /\ UNCHANGED lines

SyncDelay ==
  /\ ctrl.state = "SYNC_DELAY"
  /\ ctrl' = [Default EXCEPT !.state = "SYNC_CHECK"]
  /\ Look(Own(ctrl.ofs_int))
  /\ UNCHANGED lines

SyncCheck ==
  /\ ctrl.state = "SYNC_CHECK"
  /\ ctrl' = [Default EXCEPT !.ofs_ext = 0, !.ofs_int = 0, !.bus_err = FALSE,
                             !.state = IF drt THEN "WRITE_START" ELSE "SYNC_NEXT"]
  /\ Look(Own(ctrl.ofs_int))
  /\ UNCHANGED lines

\* Mutant: the block counts as clean also when its upload failed.
SyncNext_clean ==
  /\ ctrl.state = "SYNC_NEXT"
  /\ ctrl' = [Default EXCEPT !.idx = (@ + 1) % NUM_BLOCKS,
                             !.state = IF ctrl.idx = NUM_BLOCKS - 1 THEN "IDLE"
                                       ELSE "SYNC_DELAY"]
  /\ Look(Own(ctrl.ofs_int))
  /\ Mark(Own(ctrl.ofs_int), ctrl.bus_err, FALSE)

\* A block whose upload failed stays valid and dirty.
SyncNext ==
  /\ ctrl.state = "SYNC_NEXT"
  /\ ctrl' = [Default EXCEPT !.idx = (@ + 1) % NUM_BLOCKS,
                             !.state = IF ctrl.idx = NUM_BLOCKS - 1 THEN "IDLE"
                                       ELSE "SYNC_DELAY"]
  /\ Look(Own(ctrl.ofs_int))
  /\ Mark(Own(ctrl.ofs_int), ctrl.bus_err, ctrl.bus_err)

-----------------------------------------------------------------------------
\* Download of a block.  The answers are written as they come - and, until
\* they come, whatever the bus holds.
ReadStart ==
  /\ ctrl.state = "READ_START"
  /\ ctrl' = [Default EXCEPT !.state = "READ_WAIT"]
  /\ Look(host_req_i.addr)
  /\ UNCHANGED lines

ReadWait ==
  /\ ctrl.state = "READ_WAIT"
  /\ ctrl' = IF bus_rsp_i.ack
             THEN [Default EXCEPT
                     !.bus_err = @ \/ bus_rsp_i.err,
                     !.ofs_int = NextWord,
                     !.ofs_ext = (@ + 1) % (2 * BLOCK),
                     !.state = IF bursts_en THEN "READ_BURST"
                               ELSE IF Last THEN "READ_DONE" ELSE "READ_START"]
             ELSE Default
  /\ Look(Own(ctrl.ofs_int))
  /\ Put(Own(ctrl.ofs_int), bus_rsp_i.data)

ReadBurst ==
  /\ ctrl.state = "READ_BURST"
  /\ LET sent == [Default EXCEPT !.ofs_ext = IF bus_req_o.stb THEN @ + 1 ELSE @]
     IN  ctrl' = IF bus_rsp_i.ack
                 THEN [sent EXCEPT !.bus_err = @ \/ bus_rsp_i.err,
                                   !.ofs_int = NextWord,
                                   !.state = IF Last THEN "READ_DONE" ELSE @]
                 ELSE sent
  /\ Look(Own(ctrl.ofs_int))
  /\ Put(Own(ctrl.ofs_int), bus_rsp_i.data)

\* Mutant: the word read for the host is the one written last.
ReadDone_own ==
  /\ ctrl.state = "READ_DONE"
  /\ ctrl' = [Default EXCEPT !.hit = TRUE,
                             !.state = IF ctrl.bus_err THEN "IDLE" ELSE "CHECK"]
  /\ Look(Own(ctrl.ofs_int))
  /\ Mark(host_req_i.addr, ~ctrl.bus_err, FALSE)

\* The status is written and the word of the host read.
ReadDone ==
  /\ ctrl.state = "READ_DONE"
  /\ ctrl' = [Default EXCEPT !.hit = TRUE,
                             !.state = IF ctrl.bus_err THEN "IDLE" ELSE "CHECK"]
  /\ Look(host_req_i.addr)
  /\ Mark(host_req_i.addr, ~ctrl.bus_err, FALSE)

-----------------------------------------------------------------------------
\* Upload of a block.
WriteStart ==
  /\ ctrl.state = "WRITE_START"
  /\ ctrl' = [Default EXCEPT !.tag = IF ctrl.ofs_int = 0 THEN rd.tag ELSE @,
                             !.state = "WRITE_REQ"]
  /\ Look(Own(ctrl.ofs_int))
  /\ UNCHANGED lines

WriteReq ==
  /\ ctrl.state = "WRITE_REQ"
  /\ ctrl' = [Default EXCEPT !.state = "WRITE_RSP"]
  /\ Look(Own(ctrl.ofs_int))
  /\ UNCHANGED lines

WriteRsp ==
  /\ ctrl.state = "WRITE_RSP"
  /\ ctrl' = IF bus_rsp_i.ack
             THEN [Default EXCEPT
                     !.bus_err = @ \/ bus_rsp_i.err,
                     !.ofs_int = NextWord,
                     !.ofs_ext = (@ + 1) % (2 * BLOCK),
                     !.state = IF bursts_en THEN "WRITE_WAIT"
                               ELSE IF Last THEN "WRITE_DONE" ELSE "WRITE_START"]
             ELSE Default
  /\ Look(Own(ctrl.ofs_int))
  /\ UNCHANGED lines

WriteWait ==
  /\ ctrl.state = "WRITE_WAIT"
  /\ ctrl' = [Default EXCEPT !.ofs_ext = (@ + 1) % (2 * BLOCK),
                             !.state = "WRITE_BURST"]
  /\ Look(Own(ctrl.ofs_ext))
  /\ UNCHANGED lines

WriteBurst ==
  /\ ctrl.state = "WRITE_BURST"
  /\ LET sent == [Default EXCEPT !.ofs_ext = IF bus_req_o.stb
                                             THEN (@ + 1) % (2 * BLOCK) ELSE @]
     IN  ctrl' = IF bus_rsp_i.ack
                 THEN [sent EXCEPT !.bus_err = @ \/ bus_rsp_i.err,
                                   !.ofs_int = NextWord,
                                   !.state = IF Last THEN "WRITE_DONE" ELSE @]
                 ELSE sent
  /\ Look(Own(ctrl.ofs_ext))
  /\ UNCHANGED lines

\* After a failed upload for a miss the block is given up.
WriteDone ==
  /\ ctrl.state = "WRITE_DONE"
  /\ ctrl' = [Default EXCEPT !.cln = TRUE,
                             !.state = IF ctrl.sync THEN "SYNC_NEXT"
                                       ELSE IF ctrl.bus_err THEN "IDLE" ELSE "CHECK"]
  /\ Look(Own(ctrl.ofs_int))
  /\ IF ctrl.sync THEN UNCHANGED lines
     ELSE Mark(Own(ctrl.ofs_int), ~ctrl.bus_err, FALSE)

Clock ==
  /\ \/ Idle \/ CheckBypass \/ CheckHit \/ CheckMiss \/ Bypass
     \/ SyncStart \/ SyncDelay \/ SyncCheck \/ SyncNext
     \/ ReadStart \/ ReadWait \/ ReadBurst \/ ReadDone
     \/ WriteStart \/ WriteReq \/ WriteRsp \/ WriteWait \/ WriteBurst \/ WriteDone
  /\ UNCHANGED bursts_en
=============================================================================
