------------------------------ MODULE RingFlush ------------------------------
(***************************************************************************)
(* The ring under `flush`: Ring::reset of the ring, removal of its entry   *)
(* from the channel index and reset of the slab (index.rs `flush`), all    *)
(* under the global flock, while the hot path, which never takes it, goes  *)
(* on; then the re-creation of the ring by the next send                   *)
(* (ChannelManager.get_or_create_ring, Ring::init).  The wiped slab hands  *)
(* out the same block again, so the new ring lies where the old one did    *)
(* and a call that began before the flush works on the new one.            *)
(*                                                                         *)
(* The stores of one slot are three actions: seq, owner record, payload.   *)
(***************************************************************************)
EXTENDS Ring

CONSTANTS
    MaxFlushes,  \* bound: number of flushes
    MaxInits     \* bound: number of times the ring is created again

ASSUME FlushAssumption == MaxFlushes \in Nat /\ MaxInits \in Nat

VARIABLES
    cold,    \* the holder of the flock: what it does, and to which slot
    live,    \* the channel index names the ring
    inits,   \* re-creations that have reached the generation
    epoch,   \* flushes begun (history)
    ep       \* epoch and inits when each call sampled the generation (history)

fvars == <<vars, cold, live, inits, epoch, ep>>

FInit ==
    /\ Init
    /\ cold = [op |-> "none", at |-> "idle", i |-> 0]
    /\ live = TRUE /\ inits = 0
    /\ epoch = 0 /\ ep = [p \in Procs |-> [flush |-> 0, init |-> 0]]

hot == <<pc, loc, sends, ep>>
At(op, l) == cold.op \in op /\ cold.at = l
ColdGoto(l) == cold' = [cold EXCEPT !.at = l]
Free == [op |-> "none", at |-> "idle", i |-> 0]

\* Variant: reset without the fence.
FlushUnfenced ==
    /\ At({"none"}, "idle") /\ live /\ epoch < MaxFlushes
    /\ epoch' = epoch + 1
    /\ cold' = [op |-> "flush", at |-> "enq", i |-> 0]
    /\ UNCHANGED <<positions, gen, slot, slab, log, base, hot, live, inits>>

\* reset bumps the generation first; init zeroes it after the positions.
FlushBegin ==
    /\ At({"none"}, "idle") /\ live /\ epoch < MaxFlushes
    /\ gen' = gen + 1 /\ epoch' = epoch + 1
    /\ cold' = [op |-> "flush", at |-> "enq", i |-> 0]
    /\ UNCHANGED <<positions, slot, slab, log, base, hot, live, inits>>

InitBegin ==
    /\ At({"none"}, "idle") /\ ~live /\ inits < MaxInits
    /\ cold' = [op |-> "init", at |-> "enq", i |-> 0]
    /\ UNCHANGED <<positions, gen, slot, slab, log, base, hot, live, inits,
                   epoch>>

WipeEnq ==
    /\ At({"flush", "init"}, "enq")
    /\ enq' = 0 /\ base' = [base EXCEPT !.enq = -Len(log)]
    /\ ColdGoto("deq")
    /\ UNCHANGED <<deq, gen, slot, slab, log, hot, live, inits, epoch>>

WipeDeq ==
    /\ At({"flush", "init"}, "deq")
    /\ deq' = 0 /\ base' = [base EXCEPT !.deq = base.enq]
    /\ ColdGoto(IF cold.op = "init" THEN "gen" ELSE "seq")
    /\ UNCHANGED <<enq, gen, slot, slab, log, hot, live, inits, epoch>>

InitGen ==
    /\ At({"init"}, "gen")
    /\ gen' = 0 /\ inits' = inits + 1
    /\ ColdGoto("seq")
    /\ UNCHANGED <<positions, slot, slab, log, base, hot, live, epoch>>

WipeSeq ==
    /\ At({"flush", "init"}, "seq")
    /\ slot' = [slot EXCEPT ![cold.i].seq = cold.i]
    /\ ColdGoto("owner")
    /\ UNCHANGED <<positions, gen, slab, log, base, hot, live, inits, epoch>>

WipeOwner ==
    /\ At({"flush", "init"}, "owner")
    /\ slot' = [slot EXCEPT ![cold.i] =
                  [@ EXCEPT !.pid = None, !.ticket = 0, !.start = 0]]
    /\ ColdGoto("payload")
    /\ UNCHANGED <<positions, gen, slab, log, base, hot, live, inits, epoch>>

\* Variant: one slot too many.
WipePayloadFar ==
    /\ At({"flush", "init"}, "payload")
    /\ slot' = [slot EXCEPT ![cold.i] = [@ EXCEPT !.body = None, !.ovf = None]]
    /\ cold' = IF cold.i < Capacity
               THEN [cold EXCEPT !.at = "seq", !.i = @ + 1]
               ELSE [cold EXCEPT !.at = "index", !.i = 0]
    /\ UNCHANGED <<positions, gen, slab, log, base, hot, live, inits, epoch>>

WipePayload ==
    /\ At({"flush", "init"}, "payload")
    /\ slot' = [slot EXCEPT ![cold.i] = [@ EXCEPT !.body = None, !.ovf = None]]
    /\ cold' = IF cold.i + 1 < Capacity
               THEN [cold EXCEPT !.at = "seq", !.i = @ + 1]
               ELSE [cold EXCEPT !.at = "index", !.i = 0]
    /\ UNCHANGED <<positions, gen, slab, log, base, hot, live, inits, epoch>>

Unlink ==
    /\ At({"flush"}, "index")
    /\ live' = FALSE
    /\ ColdGoto("slab")
    /\ UNCHANGED <<positions, gen, slot, slab, log, base, hot, inits, epoch>>

WipeSlab ==
    /\ At({"flush"}, "slab")
    /\ free' = Pages
    /\ cold' = Free
    /\ UNCHANGED <<positions, gen, slot, page, log, base, hot, live, inits,
                   epoch>>

Link ==
    /\ At({"init"}, "index")
    /\ live' = TRUE
    /\ cold' = Free
    /\ UNCHANGED <<positions, gen, slot, slab, log, base, hot, inits, epoch>>

Cold == \/ FlushBegin \/ InitBegin \/ WipeEnq \/ WipeDeq \/ InitGen
        \/ WipeSeq \/ WipeOwner \/ WipePayload \/ Unlink \/ WipeSlab \/ Link

\* A call looks the ring up in the index before it begins, and remembers the
\* epoch in which it samples the generation.
Hot(p) ==
    /\ \/ p \in Senders /\ Enqueue(p)
       \/ p \in Receivers /\ Dequeue(p)
       \/ Repair(p) \/ Fenced(p)
    /\ pc[p] = "idle" => live
    /\ ep' = IF pc[p] \in {"idle", "d_gen"}
             THEN [ep EXCEPT ![p] = [flush |-> epoch, init |-> inits]]
             ELSE ep
    /\ UNCHANGED <<cold, live, inits, epoch>>

FNext == Cold \/ \E p \in Procs : Hot(p)
FSpec == FInit /\ [][FNext]_fvars

-----------------------------------------------------------------------------
(* Properties.                                                             *)

\* Type invariant of the cold path (flush, get_or_create_ring).
FTypeOK ==
    /\ TypeOK
    /\ cold \in [op : {"none", "flush", "init"}, i : Slots,
                 at : {"idle", "enq", "deq", "gen", "seq", "owner", "payload",
                       "index", "slab"}]
    /\ live \in BOOLEAN /\ inits \in 0 .. MaxInits
    /\ epoch \in 0 .. MaxFlushes
    /\ ep \in [Procs -> [flush : 0 .. MaxFlushes, init : 0 .. MaxInits]]

\* A step of p tests the generation and finds the one p sampled.
Passes(p) == \/ pc[p] = "e_gen" /\ pc'[p] = "e_pub"
             \/ pc[p] = "d_fence" /\ pc'[p] = "d_exp"

\* The generation fence: a call that sampled the generation before a flush
\* and tests it again after the flush began does not go on to publish, or to
\* read and release a page (try_enqueue step 5, try_dequeue after its claim).
FenceCatches == [][\A p \in Procs : Passes(p) => ep[p].flush = epoch]_fvars

\* What the fence does achieve: it lets no such call through until Ring::init
\* starts the generation over.
FenceUntilInit ==
    [][\A p \in Procs :
          Passes(p) => ep[p].flush = epoch \/ ep[p].init # inits]_fvars
=============================================================================
