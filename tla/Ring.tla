-------------------------------- MODULE Ring --------------------------------
(***************************************************************************)
(* The lock-free hot path of one channel's ring: `try_enqueue`,            *)
(* `try_dequeue` and the repair of a slot whose recorded owner looks dead  *)
(* (crates/_channels_shm_native/src/ring.rs).  One action is one access to *)
(* the shared mapping; the words of a payload are written, and read, in    *)
(* one action, and SlotExclusive is what makes that sound.  Memory is      *)
(* sequentially consistent: the code publishes with release stores, reads  *)
(* with acquire loads and claims with AcqRel compare-and-swaps.            *)
(*                                                                         *)
(* A process runs one call at a time.  Nothing crashes, flushes or         *)
(* compacts here: RingRecovery adds those to these actions.                *)
(***************************************************************************)
EXTENDS Integers, Sequences

CONSTANTS
    Senders, Receivers,  \* the processes that call try_enqueue, try_dequeue
    Capacity,            \* number of slots
    Msgs,                \* the messages
    Large,               \* those longer than the inline area of a slot
    Mortal,              \* those whose expiry may pass before they are read
    Pages,               \* overflow pages of the slab
    StartTime,           \* start time (clock ticks) of each process
    FirstTicket,         \* first ticket: 0 for a fresh ring, else rounds done
    FirstStart,          \* start time left in the slots by earlier rounds
    MaxSends,            \* bound: number of calls of try_enqueue
    SpinBound,           \* SEQ_AHEAD_SPIN_BOUND
    None,                \* no process, no page, no message
    Recovering           \* the SLOT_RECOVERING sentinel

Procs == Senders \cup Receivers
Slots == 0 .. Capacity - 1

\* `init` demands capacity >= 2: with one slot, seq = pos+1 (published) and
\* seq = pos+cap (recycled) are the same number.
ASSUME CapacityAssumption == Capacity \in Nat /\ Capacity >= 2

ASSUME ConstantAssumption ==
    /\ FirstTicket \in Nat /\ FirstTicket % Capacity = 0
    /\ FirstStart \in Nat /\ StartTime \in [Procs -> Nat]
    /\ MaxSends \in Nat /\ SpinBound \in Nat \ {0}
    /\ Large \subseteq Msgs /\ Mortal \subseteq Msgs
    /\ None \notin Procs \cup Pages \cup Msgs
    /\ Recovering \notin Procs /\ Recovering # None

VARIABLES
    enq, deq,   \* RING_ENQUEUE_POS, RING_DEQUEUE_POS
    gen,        \* RING_GENERATION, bumped by a flush
    slot,       \* the slots: seq, owner record, overflow offset, payload
    free, page, \* free pages of the slab, and what each page holds
    pc, loc,    \* where each process stands in its call, and its locals
    sends,      \* calls of try_enqueue so far
    log, base   \* history: what became of each ticket (see Entry)

positions == <<enq, deq>>
slab == <<free, page>>
ghost == <<log, base>>
vars == <<enq, deq, gen, slot, free, page, pc, loc, sends, log, base>>

(***************************************************************************)
(* History.  log[n] is the n-th ticket taken: the message it was taken     *)
(* for, its fate, and what the consumer got.  `base` turns a position into *)
(* an index of log, for the producer and the consumer counter (a flush     *)
(* restarts both).                                                         *)
(***************************************************************************)
Fates == {"claimed", "ready", "void", "taken", "delivered", "expired"}
Entry(t) == t + 1 - base.enq
Taken(t) == t + 1 - base.deq
Fate(n, f) == log' = [log EXCEPT ![n].fate = f]

Blank == [msg |-> None, gen |-> 0, pos |-> 0, ent |-> 0, obs |-> 0, tgt |-> 0,
          vic |-> None, pg |-> None, ret |-> "idle", spins |-> 0]

Init ==
    /\ enq = FirstTicket /\ deq = FirstTicket /\ gen = 0
    /\ slot = [i \in Slots |->
                 [seq |-> FirstTicket + i, pid |-> None, ticket |-> 0,
                  start |-> FirstStart, ovf |-> None, body |-> None]]
    /\ free = Pages /\ page = [g \in Pages |-> None]
    /\ pc = [p \in Procs |-> "idle"] /\ loc = [p \in Procs |-> Blank]
    /\ sends = 0
    /\ log = <<>> /\ base = [enq |-> FirstTicket, deq |-> FirstTicket]

-----------------------------------------------------------------------------
(* Steps the two calls and the repair share.                               *)

I(p) == loc[p].pos % Capacity
Goto(p, l) == pc' = [pc EXCEPT ![p] = l]
Return(p) == Goto(p, "idle") /\ loc' = [loc EXCEPT ![p] = Blank]

\* Variants: the comparison of start times reversed; no test that the process
\* still exists.
PidDeadReversed(v, start) == pc[v] = "dead" \/ start = StartTime[v]
PidDeadStartOnly(v, start) == start # StartTime[v]

\* A process is dead when it is gone, or when the recorded start time is not
\* its own (the PID was reused).
PidDead(v, start) == pc[v] = "dead" \/ start # StartTime[v]

\* A slot field gets a value: a plain store.
Store(p, at, new, next) ==
    /\ pc[p] = at
    /\ slot' = [slot EXCEPT ![I(p)] = new]
    /\ Goto(p, next)
    /\ UNCHANGED <<positions, gen, slab, loc, sends>>

StoreOwnerPid(p, at, v, next) ==
    Store(p, at, [slot[I(p)] EXCEPT !.pid = v], next) /\ UNCHANGED ghost
StoreOwnerTicket(p, at, t, next) ==
    Store(p, at, [slot[I(p)] EXCEPT !.ticket = t], next) /\ UNCHANGED ghost
StoreOwnerStart(p, at, next) ==
    /\ Store(p, at, [slot[I(p)] EXCEPT !.start = StartTime[p]], next)
    /\ UNCHANGED ghost

\* The last store of a call: clear the owner's ticket and return.
ClearTicketReturn(p, at) ==
    /\ pc[p] = at
    /\ slot' = [slot EXCEPT ![I(p)].ticket = 0]
    /\ Return(p)
    /\ UNCHANGED <<positions, gen, slab, sends, ghost>>

\* Compare-and-swap of the slot's seq, of its overflow offset.
CasSeq(p, expected, new) ==
    slot' = IF slot[I(p)].seq = expected
            THEN [slot EXCEPT ![I(p)].seq = new] ELSE slot

LoadOverflow(p, at, some, none) ==
    /\ pc[p] = at
    /\ loc' = [loc EXCEPT ![p].pg = slot[I(p)].ovf]
    /\ Goto(p, IF slot[I(p)].ovf # None THEN some ELSE none)
    /\ UNCHANGED <<positions, gen, slot, slab, sends, ghost>>

\* Variant: the page is freed while the slot still refers to it.
ClaimOverflowFreeFirst(p, at, won, lost) ==
    /\ pc[p] = at
    /\ Goto(p, won)
    /\ UNCHANGED <<positions, gen, slot, slab, loc, sends, ghost>>

ClaimOverflow(p, at, won, lost) ==
    /\ pc[p] = at
    /\ \/ /\ slot[I(p)].ovf = loc[p].pg
          /\ slot' = [slot EXCEPT ![I(p)].ovf = None]
          /\ Goto(p, won)
       \/ /\ slot[I(p)].ovf # loc[p].pg
          /\ Goto(p, lost)
          /\ UNCHANGED slot
    /\ UNCHANGED <<positions, gen, slab, loc, sends, ghost>>

FreePage(p, at, next) ==
    /\ pc[p] = at
    /\ free' = free \cup {loc[p].pg}
    /\ Goto(p, next)
    /\ UNCHANGED <<positions, gen, slot, page, loc, sends, ghost>>

\* A slot still on an earlier round: is its recorded owner dead?  Otherwise
\* the call ends here, with Full or with nothing to read.
LoadOwnerPid(p, at, next) ==
    /\ pc[p] = at
    /\ \/ /\ slot[I(p)].pid \in {None, Recovering}
          /\ Return(p)
       \/ /\ slot[I(p)].pid \notin {None, Recovering}
          /\ loc' = [loc EXCEPT ![p].vic = slot[I(p)].pid]
          /\ Goto(p, next)
    /\ UNCHANGED <<positions, gen, slot, slab, sends, ghost>>

CheckDead(p, at) ==
    /\ pc[p] = at
    /\ \/ /\ PidDead(loc[p].vic, slot[I(p)].start)
          /\ Goto(p, "r_cas")
          /\ UNCHANGED loc
       \/ /\ ~PidDead(loc[p].vic, slot[I(p)].start)
          /\ Return(p)
    /\ UNCHANGED <<positions, gen, slot, slab, sends, ghost>>

-----------------------------------------------------------------------------
(* recover_slot and repair_slot_to.                                        *)

\* The compare-and-swap dead pid -> RECOVERING elects one repairer.
RecoverClaim(p) ==
    /\ pc[p] = "r_cas"
    /\ \/ /\ slot[I(p)].pid = loc[p].vic
          /\ slot' = [slot EXCEPT ![I(p)].pid = Recovering]
          /\ Goto(p, "r_ticket")
       \/ /\ slot[I(p)].pid # loc[p].vic
          /\ Goto(p, loc[p].ret)
          /\ UNCHANGED slot
    /\ UNCHANGED <<positions, gen, slab, loc, sends, ghost>>

\* Variants of the repair's target: READY instead of EMPTY; one round too far.
RecoverTicketReady(p) ==
    /\ pc[p] = "r_ticket"
    /\ loc' = [loc EXCEPT ![p].tgt = slot[I(p)].ticket + 1]
    /\ Goto(p, "r_seq")
    /\ UNCHANGED <<positions, gen, slot, slab, sends, ghost>>

RecoverTicketAhead(p) ==
    /\ pc[p] = "r_ticket"
    /\ loc' = [loc EXCEPT ![p].tgt = slot[I(p)].ticket + 2 * Capacity]
    /\ Goto(p, "r_seq")
    /\ UNCHANGED <<positions, gen, slot, slab, sends, ghost>>

RecoverTicket(p) ==
    /\ pc[p] = "r_ticket"
    /\ loc' = [loc EXCEPT ![p].tgt = slot[I(p)].ticket + Capacity]
    /\ Goto(p, "r_seq")
    /\ UNCHANGED <<positions, gen, slot, slab, sends, ghost>>

RecoverSeq(p) ==
    /\ pc[p] = "r_seq"
    /\ loc' = [loc EXCEPT ![p].obs = slot[I(p)].seq]
    /\ Goto(p, "r_ovf")
    /\ UNCHANGED <<positions, gen, slot, slab, sends, ghost>>

RepairLoadOverflow(p)  == LoadOverflow(p, "r_ovf", "r_claim", "r_fix")
RepairClaimOverflow(p) == ClaimOverflow(p, "r_claim", "r_free", "r_fix")
RepairFree(p)          == FreePage(p, "r_free", "r_fix")

RepairSeq(p) ==
    /\ pc[p] = "r_fix"
    /\ CasSeq(p, loc[p].obs, loc[p].tgt)
    /\ Goto(p, "r_clear")
    /\ UNCHANGED <<positions, gen, slab, loc, sends, ghost>>

RepairClearOwner(p) ==
    /\ pc[p] = "r_clear"
    /\ slot' = IF slot[I(p)].pid = Recovering
               THEN [slot EXCEPT ![I(p)].pid = None] ELSE slot
    /\ Goto(p, "r_zero")
    /\ UNCHANGED <<positions, gen, slab, loc, sends, ghost>>

\* Back to the loop of the call that found the slot stuck.
RepairClearTicket(p) == StoreOwnerTicket(p, "r_zero", 0, loc[p].ret)

Repair(p) ==
    \/ RecoverClaim(p) \/ RecoverTicket(p) \/ RecoverSeq(p)
    \/ RepairLoadOverflow(p) \/ RepairClaimOverflow(p) \/ RepairFree(p)
    \/ RepairSeq(p) \/ RepairClearOwner(p) \/ RepairClearTicket(p)

-----------------------------------------------------------------------------
(* try_enqueue.  Step 1: verify that the slot is empty, then claim.        *)

EnqStart(p, m) ==
    /\ pc[p] = "idle" /\ sends < MaxSends
    /\ sends' = sends + 1
    /\ loc' = [loc EXCEPT ![p] =
                 [Blank EXCEPT !.msg = m, !.gen = gen, !.ret = "e_pos"]]
    /\ Goto(p, "e_pos")
    /\ UNCHANGED <<positions, gen, slot, slab, ghost>>

EnqLoadPos(p) ==
    /\ pc[p] = "e_pos"
    /\ loc' = [loc EXCEPT ![p] =
                 [@ EXCEPT !.pos = enq, !.vic = None, !.pg = None,
                           !.obs = 0, !.tgt = 0]]
    /\ Goto(p, "e_seq")
    /\ UNCHANGED <<positions, gen, slot, slab, sends, ghost>>

EnqLoadSeq(p) ==
    /\ pc[p] = "e_seq"
    /\ \/ /\ slot[I(p)].seq = loc[p].pos
          /\ Goto(p, "e_cas")
          /\ UNCHANGED loc
       \/ /\ slot[I(p)].seq < loc[p].pos
          /\ Goto(p, "e_owner")
          /\ UNCHANGED loc
       \/ /\ slot[I(p)].seq > loc[p].pos
          /\ \/ /\ loc[p].spins + 1 < SpinBound
                /\ loc' = [loc EXCEPT ![p].spins = @ + 1]
                /\ Goto(p, "e_pos")
             \/ /\ loc[p].spins + 1 >= SpinBound
                /\ Return(p)
    /\ UNCHANGED <<positions, gen, slot, slab, sends, ghost>>

EnqLoadOwnerPid(p) == LoadOwnerPid(p, "e_owner", "e_dead")
EnqCheckDead(p)    == CheckDead(p, "e_dead")

EnqClaim(p) ==
    /\ pc[p] = "e_cas"
    /\ \/ /\ enq = loc[p].pos
          /\ enq' = enq + 1
          /\ log' = Append(log, [msg |-> loc[p].msg, fate |-> "claimed",
                                 got |-> None])
          /\ loc' = [loc EXCEPT ![p].ent = Entry(enq)]
          /\ Goto(p, "e_pid")
       \/ /\ enq # loc[p].pos
          /\ Goto(p, "e_pos")
          /\ UNCHANGED <<enq, log, loc>>
    /\ UNCHANGED <<deq, gen, slot, slab, sends, base>>

(* Steps 2 and 3: the owner record, then the overflow page.                *)

EnqOwnerPid(p)    == StoreOwnerPid(p, "e_pid", p, "e_ticket")
EnqOwnerTicket(p) == StoreOwnerTicket(p, "e_ticket", loc[p].pos, "e_start")
EnqOwnerStart(p)  == StoreOwnerStart(p, "e_start", "e_alloc")

EnqAlloc(p) ==
    /\ pc[p] = "e_alloc"
    /\ \/ /\ loc[p].msg \notin Large
          /\ Goto(p, "e_body")
          /\ UNCHANGED <<free, loc>>
       \/ /\ loc[p].msg \in Large
          /\ \E g \in free :
                /\ free' = free \ {g}
                /\ loc' = [loc EXCEPT ![p].pg = g]
          /\ Goto(p, "e_body")
       \/ /\ loc[p].msg \in Large /\ free = {}
          /\ Goto(p, "x_gen")
          /\ UNCHANGED <<free, loc>>
    /\ UNCHANGED <<positions, gen, slot, page, sends, ghost>>

\* The slab is exhausted: give the round back as a SKIP tombstone, unless a
\* flush has already wiped it.
EnqExhausted(p) ==
    /\ pc[p] = "x_gen"
    /\ Goto(p, IF gen # loc[p].gen THEN "e_drop" ELSE "x_seq")
    /\ UNCHANGED <<positions, gen, slot, slab, loc, sends, ghost>>

\* Variant: the tombstone is READY instead of EMPTY for the next round.
EnqTombstoneReady(p) ==
    /\ pc[p] = "x_seq"
    /\ CasSeq(p, loc[p].pos, loc[p].pos + 1)
    /\ Fate(loc[p].ent, "void")
    /\ Goto(p, "x_pid")
    /\ UNCHANGED <<positions, gen, slab, loc, sends, base>>

EnqTombstone(p) ==
    /\ pc[p] = "x_seq"
    /\ CasSeq(p, loc[p].pos, loc[p].pos + Capacity)
    /\ Fate(loc[p].ent, "void")
    /\ Goto(p, "x_pid")
    /\ UNCHANGED <<positions, gen, slab, loc, sends, base>>

EnqTombstonePid(p)    == StoreOwnerPid(p, "x_pid", None, "x_ticket")
EnqTombstoneTicket(p) == ClearTicketReturn(p, "x_ticket")

(* Steps 4 to 7: payload, overflow offset, fence, publish, fence.          *)

\* The slot's expiry, name and length, and the bytes: inline or in the page.
EnqPayload(p) ==
    /\ pc[p] = "e_body"
    /\ slot' = [slot EXCEPT ![I(p)].body = loc[p].msg]
    /\ page' = IF loc[p].pg = None THEN page
               ELSE [page EXCEPT ![loc[p].pg] = loc[p].msg]
    /\ Goto(p, "e_ovf")
    /\ UNCHANGED <<positions, gen, free, loc, sends, ghost>>

EnqOverflow(p) ==
    /\ Store(p, "e_ovf", [slot[I(p)] EXCEPT !.ovf = loc[p].pg], "e_gen")
    /\ UNCHANGED ghost

EnqFence(p) ==
    /\ pc[p] = "e_gen"
    /\ Goto(p, IF gen # loc[p].gen THEN "e_drop" ELSE "e_pub")
    /\ UNCHANGED <<positions, gen, slot, slab, loc, sends, ghost>>

\* A flush raced the call: drop the owner record if it is still ours, and
\* return Full without touching the wiped slot.
EnqDrop(p) ==
    /\ pc[p] = "e_drop"
    /\ slot' = IF slot[I(p)].pid = p
               THEN [slot EXCEPT ![I(p)].pid = None] ELSE slot
    /\ Return(p)
    /\ UNCHANGED <<positions, gen, slab, sends, ghost>>

EnqPublish(p) ==
    /\ Store(p, "e_pub", [slot[I(p)] EXCEPT !.seq = loc[p].pos + 1], "c_pid")
    /\ Fate(loc[p].ent, "ready")
    /\ UNCHANGED base

EnqClearPid(p)    == StoreOwnerPid(p, "c_pid", None, "c_ticket")
EnqClearTicket(p) == StoreOwnerTicket(p, "c_ticket", 0, "c_gen")

\* The last fence.  A retraction withdraws a message the call reports as sent.
EnqLastFence(p) ==
    /\ pc[p] = "c_gen"
    /\ \/ gen = loc[p].gen /\ Return(p)
       \/ gen # loc[p].gen /\ Goto(p, "c_retract") /\ UNCHANGED loc
    /\ UNCHANGED <<positions, gen, slot, slab, sends, ghost>>

EnqRetract(p) ==
    /\ pc[p] = "c_retract"
    /\ CasSeq(p, loc[p].pos + 1, loc[p].pos + Capacity)
    /\ Return(p)
    /\ UNCHANGED <<positions, gen, slab, sends, ghost>>

Enqueue(p) ==
    \/ \E m \in Msgs : EnqStart(p, m)
    \/ EnqLoadPos(p) \/ EnqLoadSeq(p) \/ EnqLoadOwnerPid(p) \/ EnqCheckDead(p)
    \/ EnqClaim(p)
    \/ EnqOwnerPid(p) \/ EnqOwnerTicket(p) \/ EnqOwnerStart(p) \/ EnqAlloc(p)
    \/ EnqExhausted(p) \/ EnqTombstone(p)
    \/ EnqTombstonePid(p) \/ EnqTombstoneTicket(p)
    \/ EnqPayload(p) \/ EnqOverflow(p) \/ EnqFence(p)
    \/ EnqPublish(p) \/ EnqClearPid(p) \/ EnqClearTicket(p)
    \/ EnqLastFence(p)

-----------------------------------------------------------------------------
(* try_dequeue.  Find the slot at the consumer position.                   *)

DeqLoadPos(p) ==
    /\ pc[p] \in {"idle", "d_pos"}
    /\ loc' = [loc EXCEPT ![p] = [Blank EXCEPT !.pos = deq, !.ret = "d_pos"]]
    /\ Goto(p, "d_gen")
    /\ UNCHANGED <<positions, gen, slot, slab, sends, ghost>>

DeqLoadGen(p) ==
    /\ pc[p] = "d_gen"
    /\ loc' = [loc EXCEPT ![p].gen = gen]
    /\ Goto(p, "d_seq")
    /\ UNCHANGED <<positions, gen, slot, slab, sends, ghost>>

\* Variants: off by one, EMPTY taken for READY; behind treated like ahead.
DeqLoadSeqEarly(p) ==
    /\ pc[p] = "d_seq"
    /\ \/ slot[I(p)].seq < loc[p].pos /\ Goto(p, "d_owner")
       \/ slot[I(p)].seq > loc[p].pos + 1 /\ Goto(p, "d_skip")
       \/ slot[I(p)].seq \in {loc[p].pos, loc[p].pos + 1} /\ Goto(p, "d_cas")
    /\ UNCHANGED <<positions, gen, slot, slab, loc, sends, ghost>>

DeqLoadSeqSkip(p) ==
    /\ pc[p] = "d_seq"
    /\ Goto(p, IF slot[I(p)].seq # loc[p].pos + 1 THEN "d_skip" ELSE "d_cas")
    /\ UNCHANGED <<positions, gen, slot, slab, loc, sends, ghost>>

DeqLoadSeq(p) ==
    /\ pc[p] = "d_seq"
    /\ \/ slot[I(p)].seq < loc[p].pos + 1 /\ Goto(p, "d_owner")
       \/ slot[I(p)].seq > loc[p].pos + 1 /\ Goto(p, "d_skip")
       \/ slot[I(p)].seq = loc[p].pos + 1 /\ Goto(p, "d_cas")
    /\ UNCHANGED <<positions, gen, slot, slab, loc, sends, ghost>>

DeqLoadOwnerPid(p) == LoadOwnerPid(p, "d_owner", "d_dead")
DeqCheckDead(p)    == CheckDead(p, "d_dead")

\* The slot is ahead of the position: move on, whoever moves it.
DeqSkip(p) ==
    /\ pc[p] = "d_skip"
    /\ deq' = IF deq = loc[p].pos THEN deq + 1 ELSE deq
    /\ Goto(p, "d_pos")
    /\ UNCHANGED <<enq, gen, slot, slab, loc, sends, ghost>>

\* Variant: a store instead of a compare-and-swap.
DeqClaimStore(p) ==
    /\ pc[p] = "d_cas"
    /\ deq' = loc[p].pos + 1
    /\ Fate(Taken(loc[p].pos), "taken")
    /\ loc' = [loc EXCEPT ![p].ent = Taken(loc[p].pos)]
    /\ Goto(p, "d_fence")
    /\ UNCHANGED <<enq, gen, slot, slab, sends, base>>

DeqClaim(p) ==
    /\ pc[p] = "d_cas"
    /\ \/ /\ deq = loc[p].pos
          /\ deq' = deq + 1
          /\ Fate(Taken(deq), "taken")
          /\ loc' = [loc EXCEPT ![p].ent = Taken(deq)]
          /\ Goto(p, "d_fence")
       \/ /\ deq # loc[p].pos
          /\ Goto(p, "d_pos")
          /\ UNCHANGED <<deq, log, loc>>
    /\ UNCHANGED <<enq, gen, slot, slab, sends, base>>

(* A flush raced the claim: recycle the slot and leave its page alone.     *)

DeqFence(p) ==
    /\ pc[p] = "d_fence"
    /\ Goto(p, IF gen # loc[p].gen THEN "f_seq" ELSE "d_exp")
    /\ UNCHANGED <<positions, gen, slot, slab, loc, sends, ghost>>

DeqFenced(p) ==
    /\ pc[p] = "f_seq"
    /\ CasSeq(p, loc[p].pos + 1, loc[p].pos + Capacity)
    /\ Goto(p, "f_pid")
    /\ UNCHANGED <<positions, gen, slab, loc, sends, ghost>>

DeqFencedPid(p)    == StoreOwnerPid(p, "f_pid", None, "f_ticket")
DeqFencedTicket(p) == ClearTicketReturn(p, "f_ticket")

(* The message has expired: recycle the slot, then release the page.       *)

DeqExpiry(p) ==
    /\ pc[p] = "d_exp"
    /\ \/ Goto(p, "d_pid")
       \/ slot[I(p)].body \in Mortal /\ Goto(p, "t_seq")
    /\ UNCHANGED <<positions, gen, slot, slab, loc, sends, ghost>>

DeqExpire(p) ==
    /\ Store(p, "t_seq", [slot[I(p)] EXCEPT !.seq = loc[p].pos + Capacity],
             "t_pid")
    /\ Fate(loc[p].ent, "expired")
    /\ UNCHANGED base

DeqExpirePid(p)      == StoreOwnerPid(p, "t_pid", None, "t_ticket")
DeqExpireTicket(p)   == StoreOwnerTicket(p, "t_ticket", 0, "t_ovf")
DeqExpireLoad(p)     == LoadOverflow(p, "t_ovf", "t_claim", "d_pos")
DeqExpireClaim(p)    == ClaimOverflow(p, "t_claim", "t_free", "d_pos")
DeqExpireFree(p)     == FreePage(p, "t_free", "d_pos")

(* The message is due: own the slot, read, release the page, recycle.      *)

DeqOwnerPid(p)    == StoreOwnerPid(p, "d_pid", p, "d_ticket")
DeqOwnerTicket(p) == StoreOwnerTicket(p, "d_ticket", loc[p].pos, "d_start")
DeqOwnerStart(p)  == StoreOwnerStart(p, "d_start", "d_ovf")

DeqLoadOverflow(p) == LoadOverflow(p, "d_ovf", "d_copy", "d_copy")

\* Variant: no test for "no overflow page".
DeqCopyUntested(p) ==
    /\ pc[p] = "d_copy"
    /\ loc' = [loc EXCEPT ![p].msg = slot[I(p)].body]
    /\ Goto(p, "d_claim")
    /\ UNCHANGED <<positions, gen, slot, slab, sends, ghost>>

\* A large message without a page reads bytes nobody wrote for it.
DeqCopy(p) ==
    /\ pc[p] = "d_copy"
    /\ loc' = [loc EXCEPT ![p].msg =
                 IF loc[p].pg # None THEN page[loc[p].pg]
                 ELSE IF slot[I(p)].body \in Large THEN None
                 ELSE slot[I(p)].body]
    /\ Goto(p, IF loc[p].pg # None THEN "d_claim" ELSE "d_rec")
    /\ UNCHANGED <<positions, gen, slot, slab, sends, ghost>>

\* Variant: the claimed page is not given back.
DeqClaimOverflowKeep(p) == ClaimOverflow(p, "d_claim", "d_rec", "d_rec")
DeqClaimOverflow(p) == ClaimOverflow(p, "d_claim", "d_free", "d_rec")
DeqFree(p)          == FreePage(p, "d_free", "d_rec")

DeqRecycle(p) ==
    /\ Store(p, "d_rec", [slot[I(p)] EXCEPT !.seq = loc[p].pos + Capacity],
             "y_pid")
    /\ log' = [log EXCEPT ![loc[p].ent] =
                 [@ EXCEPT !.fate = "delivered", !.got = loc[p].msg]]
    /\ UNCHANGED base

DeqClearPid(p)    == StoreOwnerPid(p, "y_pid", None, "y_ticket")
DeqClearTicket(p) == ClearTicketReturn(p, "y_ticket")

Dequeue(p) ==
    \/ DeqLoadPos(p) \/ DeqLoadGen(p) \/ DeqLoadSeq(p)
    \/ DeqLoadOwnerPid(p) \/ DeqCheckDead(p) \/ DeqSkip(p) \/ DeqClaim(p)
    \/ DeqFence(p)
    \/ DeqExpiry(p) \/ DeqExpire(p) \/ DeqExpirePid(p) \/ DeqExpireTicket(p)
    \/ DeqExpireLoad(p) \/ DeqExpireClaim(p) \/ DeqExpireFree(p)
    \/ DeqOwnerPid(p) \/ DeqOwnerTicket(p) \/ DeqOwnerStart(p)
    \/ DeqLoadOverflow(p) \/ DeqCopy(p) \/ DeqClaimOverflow(p) \/ DeqFree(p)
    \/ DeqRecycle(p) \/ DeqClearPid(p) \/ DeqClearTicket(p)

\* The branches of both calls that only a flush leads to: RingFlush adds them.
Fenced(p) ==
    \/ EnqDrop(p) \/ EnqRetract(p)
    \/ DeqFenced(p) \/ DeqFencedPid(p) \/ DeqFencedTicket(p)

-----------------------------------------------------------------------------
Next ==
    \/ \E p \in Senders : Enqueue(p)
    \/ \E p \in Receivers : Dequeue(p)
    \/ \E p \in Procs : Repair(p)

Spec == Init /\ [][Next]_vars

-----------------------------------------------------------------------------
(* Where a call stands.  Writing, Reading: inside the slot it has claimed. *)

RepairPcs == {"r_cas", "r_ticket", "r_seq", "r_ovf", "r_claim", "r_free",
              "r_fix", "r_clear", "r_zero"}
CompactPcs == {"k_enq", "k_deq", "k_seq", "k_pid", "k_ticket", "k_done",
               "k_end"}
Writing == {"e_pid", "e_ticket", "e_start", "e_alloc", "x_gen", "x_seq",
            "e_body", "e_ovf", "e_gen", "e_pub"}
Reading == {"d_fence", "d_exp", "t_seq", "d_pid", "d_ticket", "d_start",
            "d_ovf", "d_copy", "d_claim", "d_free", "d_rec"}
\* The payload is done with, the owner record not yet cleared.
LateClear == {"c_pid", "c_ticket", "x_pid", "x_ticket", "f_pid", "f_ticket",
              "t_pid", "t_ticket", "y_pid", "y_ticket", "r_clear", "r_zero"}
EnqPcs == Writing \cup {"e_pos", "e_seq", "e_owner", "e_dead", "e_cas",
                        "x_pid", "x_ticket", "e_drop",
                        "c_pid", "c_ticket", "c_gen", "c_retract"}
DeqPcs == Reading \cup {"d_pos", "d_gen", "d_seq", "d_owner", "d_dead",
                        "d_skip", "d_cas", "f_seq", "f_pid", "f_ticket",
                        "t_pid", "t_ticket", "t_ovf", "t_claim", "t_free",
                        "y_pid", "y_ticket"}

Labels == {"idle", "dead"} \cup EnqPcs \cup DeqPcs \cup RepairPcs
              \cup CompactPcs

\* What the words of a slot, the locals of a call and the history may hold.
SlotWords == [seq : Nat, pid : Procs \cup {None, Recovering}, ticket : Nat,
              start : Nat, ovf : Pages \cup {None}, body : Msgs \cup {None}]
Locals == [msg : Msgs \cup {None}, gen : Nat, pos : Nat, ent : Int, obs : Nat,
           tgt : Nat, vic : Procs \cup {None}, pg : Pages \cup {None},
           ret : {"idle", "e_pos", "d_pos", "k_done"}, spins : Nat]
Tickets == [msg : Msgs \cup {None}, fate : Fates, got : Msgs \cup {None}]

\* p carries page g outside any slot: taken from the slab and not yet stored,
\* or claimed from a slot and not yet given back.
Carrying == {"e_body", "e_ovf", "t_free", "d_free", "r_free"}
Carries(p, g) == pc[p] \in Carrying /\ loc[p].pg = g

-----------------------------------------------------------------------------
(* Properties.                                                             *)

\* Type invariant: every shared word and every local of try_enqueue,
\* try_dequeue and recover_slot stays in its range.
WordsOK ==
    /\ enq \in Nat /\ deq \in Nat /\ gen \in Nat
    /\ slot \in [Slots -> SlotWords]
    /\ free \subseteq Pages /\ page \in [Pages -> Msgs \cup {None}]
    /\ pc \in [Procs -> Labels] /\ loc \in [Procs -> Locals]
    /\ sends \in Nat
HistoryOK == log \in Seq(Tickets) /\ base \in [enq : Int, deq : Int]
TypeOK == WordsOK /\ HistoryOK

\* No two calls are inside the same slot: a payload is never written while
\* another producer writes it or a consumer reads it (the claims of
\* try_enqueue and try_dequeue, ring.rs steps 1 and "READY").
SlotExclusive ==
    \A p, q \in Procs :
        (p # q /\ pc[p] \in Writing \cup Reading
               /\ pc[q] \in Writing \cup Reading) => I(p) # I(q)

\* What try_dequeue returns for a position is the message try_enqueue took
\* that ticket for: neither torn, nor of another round, nor of a page that
\* now belongs to someone else.
DeliveredIntact ==
    \A n \in DOMAIN log : log[n].fate = "delivered" => log[n].got = log[n].msg

\* The consumer position never runs past a message: each ticket behind it was
\* taken by a consumer or given back by its producer as a tombstone.
NoneSkipped ==
    \A n \in DOMAIN log :
        n <= deq - base.deq => log[n].fate \notin {"claimed", "ready"}

\* A page is free, or referenced by one slot, or carried by one call: no page
\* is freed twice or handed out while in use (the "claim-then-free" comments
\* of ring.rs).
NoDoubleFree ==
    \A g \in Pages :
        /\ g \in free => /\ \A i \in Slots : slot[i].ovf # g
                         /\ \A p \in Procs : ~Carries(p, g)
        /\ \A i, j \in Slots : slot[i].ovf = g /\ slot[j].ovf = g => i = j
        /\ \A p, q \in Procs : Carries(p, g) /\ Carries(q, g) => p = q
        /\ \A p \in Procs, i \in Slots : Carries(p, g) => slot[i].ovf # g

\* No page is lost: what is neither free nor in a slot nor carried by a call
\* could never be allocated again.
NoPageLeak ==
    \A g \in Pages : \/ g \in free
                     \/ \E i \in Slots : slot[i].ovf = g
                     \/ \E p \in Procs : Carries(p, g)

-----------------------------------------------------------------------------
\* The ring implements the queue: each ticket's history is the queue's log,
\* and the consumer position its head.
Queue == INSTANCE TicketQueue WITH head <- deq - base.deq
ImplementsQueue == Queue!Spec
=============================================================================
