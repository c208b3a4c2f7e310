---------------------------- MODULE RingRecovery ----------------------------
(***************************************************************************)
(* The ring with crashes, and with the compaction that repairs what they   *)
(* leave behind (`Ring::compact`, run by the pump's watchdog under the     *)
(* global flock).  A crash stops a process between two accesses to the     *)
(* shared mapping; the kernel releases the flock of a process that dies.   *)
(***************************************************************************)
EXTENDS Ring

CONSTANTS
    Keepers,     \* processes whose watchdog runs compact
    CrashPcs,    \* where a crash may strike
    Recorded,    \* TRUE: and only while the slot's owner record is settled
    Quiet,       \* TRUE: compact meets no live call inside a slot
    MaxCrashes   \* bound: number of crashes

ASSUME RecoveryAssumption == 
    /\ Keepers \subseteq Procs /\ MaxCrashes \in Nat
    /\ Recorded \in BOOLEAN /\ Quiet \in BOOLEAN

VARIABLES
    flock,   \* holder of the global flock, or None
    scan,    \* the compaction in progress: frontier and slot
    mark,    \* SLOT_COMPACT_MARK of each slot
    crashes  \* crashes so far

maintenance == <<flock, scan, mark, crashes>>
rvars == <<vars, maintenance>>

RInit ==
    /\ Init
    /\ flock = None /\ scan = [front |-> 0, i |-> 0]
    /\ mark = [i \in Slots |-> 0] /\ crashes = 0

-----------------------------------------------------------------------------
CompactStart(p) ==
    /\ pc[p] = "idle" /\ flock = None
    /\ flock' = p
    /\ loc' = [loc EXCEPT ![p] = [Blank EXCEPT !.ret = "k_done"]]
    /\ Goto(p, "k_enq")
    /\ UNCHANGED <<positions, gen, slot, slab, sends, ghost>>
    /\ UNCHANGED <<scan, mark, crashes>>

CompactEnq(p) ==
    /\ pc[p] = "k_enq"
    /\ scan' = [front |-> enq, i |-> 0]
    /\ Goto(p, "k_deq")
    /\ UNCHANGED <<positions, gen, slot, slab, loc, sends, ghost>>
    /\ UNCHANGED <<flock, mark, crashes>>

CompactDeq(p) ==
    /\ pc[p] = "k_deq"
    /\ scan' = [scan EXCEPT !.front = IF deq > @ THEN deq ELSE @]
    /\ Goto(p, "k_seq")
    /\ UNCHANGED <<positions, gen, slot, slab, loc, sends, ghost>>
    /\ UNCHANGED <<flock, mark, crashes>>

\* A live call is inside slot i, writing it or repairing it.  Nothing in the
\* code keeps compact from the slot meanwhile; Quiet is the timing it needs.
Caught(i, p) == \E q \in Procs \ {p} :
                   pc[q] \in Writing \cup RepairPcs /\ I(q) = i

CompactSeq(p) ==
    /\ pc[p] = "k_seq"
    /\ Quiet => ~Caught(scan.i, p)
    /\ loc' = [loc EXCEPT ![p] = [@ EXCEPT !.pos = scan.i,
                                           !.obs = slot[scan.i].seq]]
    /\ Goto(p, "k_pid")
    /\ UNCHANGED <<positions, gen, slot, slab, sends, ghost>>
    /\ UNCHANGED <<flock, scan, mark, crashes>>

\* The next ticket of slot i at or after the frontier.
NextTicket(front, i) ==
    LET base0 == (front \div Capacity) * Capacity
    IN  IF front % Capacity <= i THEN base0 + i ELSE base0 + Capacity + i

\* Variant: condition (a) without "- cap".
BehindFrontier(seq) == scan.front >= Capacity /\ seq <= scan.front

\* Condition (a): a whole round behind the frontier.
Behind(seq) == scan.front >= Capacity /\ seq <= scan.front - Capacity

\* On to the next slot, or done.
Advance(p) ==
    IF scan.i + 1 < Capacity
    THEN scan' = [scan EXCEPT !.i = @ + 1] /\ Goto(p, "k_seq")
    ELSE scan' = [scan EXCEPT !.i = 0] /\ Goto(p, "k_end")

\* Stuck and ownerless: marked by the first pass, repaired by the second.  A
\* parked RECOVERING is finished at its own round, others at NextTicket.
CompactPid(p) ==
    LET i == scan.i
        stuck == Behind(loc[p].obs) /\ slot[i].pid \in {None, Recovering}
    IN
    /\ pc[p] = "k_pid"
    /\ \/ /\ stuck /\ mark[i] = 1 /\ slot[i].pid = Recovering
          /\ Goto(p, "k_ticket")
          /\ UNCHANGED <<loc, mark, scan>>
       \/ /\ stuck /\ mark[i] = 1 /\ slot[i].pid = None
          /\ loc' = [loc EXCEPT ![p].tgt = NextTicket(scan.front, i)]
          /\ Goto(p, "r_ovf")
          /\ UNCHANGED <<mark, scan>>
       \/ /\ stuck /\ mark[i] = 0
          /\ mark' = [mark EXCEPT ![i] = 1]
          /\ Advance(p)
          /\ UNCHANGED loc
       \/ /\ ~stuck
          /\ mark' = [mark EXCEPT ![i] = 0]
          /\ Advance(p)
          /\ UNCHANGED loc
    /\ UNCHANGED <<positions, gen, slot, slab, sends, ghost, flock, crashes>>

CompactTicket(p) ==
    /\ pc[p] = "k_ticket"
    /\ loc' = [loc EXCEPT ![p].tgt = slot[scan.i].ticket + Capacity]
    /\ Goto(p, "r_ovf")
    /\ UNCHANGED <<positions, gen, slot, slab, sends, ghost, maintenance>>

CompactUnmark(p) ==
    /\ pc[p] = "k_done"
    /\ mark' = [mark EXCEPT ![scan.i] = 0]
    /\ Advance(p)
    /\ UNCHANGED <<positions, gen, slot, slab, loc, sends, ghost>>
    /\ UNCHANGED <<flock, crashes>>

CompactEnd(p) ==
    /\ pc[p] = "k_end"
    /\ flock' = None
    /\ scan' = [front |-> 0, i |-> 0]
    /\ Return(p)
    /\ UNCHANGED <<positions, gen, slot, slab, sends, ghost, mark, crashes>>

Compact(p) ==
    \/ CompactStart(p) \/ CompactEnq(p) \/ CompactDeq(p) \/ CompactSeq(p)
    \/ CompactPid(p) \/ CompactTicket(p) \/ CompactUnmark(p) \/ CompactEnd(p)

-----------------------------------------------------------------------------
\* The record of the slot p is inside names p, its ticket and its start time,
\* and no other call still has a store to that record ahead of it.
Settled(p) ==
    /\ slot[I(p)].pid = p /\ slot[I(p)].ticket = loc[p].pos
    /\ slot[I(p)].start = StartTime[p]
    /\ \A q \in Procs \ {p} : I(q) = I(p) => pc[q] \notin LateClear

Crash(p) ==
    /\ pc[p] \in CrashPcs /\ crashes < MaxCrashes
    /\ Recorded => Settled(p)
    /\ crashes' = crashes + 1
    /\ pc' = [pc EXCEPT ![p] = "dead"]
    /\ loc' = [loc EXCEPT ![p] = Blank]
    /\ IF flock = p THEN flock' = None /\ scan' = [front |-> 0, i |-> 0]
                    ELSE UNCHANGED <<flock, scan>>
    /\ UNCHANGED <<positions, gen, slot, slab, sends, ghost, mark>>

HotPath(p) ==
    \/ p \in Senders /\ Enqueue(p)
    \/ p \in Receivers /\ Dequeue(p)
    \/ Repair(p)

RNext ==
    \/ \E p \in Procs : HotPath(p) /\ UNCHANGED maintenance
    \/ \E p \in Keepers : Compact(p)
    \/ \E p \in Procs : Crash(p)

RSpec == RInit /\ [][RNext]_rvars

(***************************************************************************)
(* Fairness: a call that has begun goes on (the operating system schedules *)
(* live processes); the watchdog of a live receiver polls again and again  *)
(* and compacts on every tick.  Nobody has to send.                        *)
(***************************************************************************)
Continue(p) ==
    /\ pc[p] # "idle"
    /\ \/ HotPath(p) /\ UNCHANGED maintenance
       \/ p \in Keepers /\ Compact(p)
Poll(p) == pc[p] = "idle" /\ DeqLoadPos(p) /\ UNCHANGED maintenance

Fairness ==
    /\ \A p \in Procs : WF_rvars(Continue(p))
    /\ \A p \in Receivers : SF_rvars(Poll(p))
    /\ \A p \in Keepers : SF_rvars(CompactStart(p))

RFairSpec == RSpec /\ Fairness

-----------------------------------------------------------------------------
(* Properties.                                                             *)

\* Type invariant of what compact and the flock add (Ring::compact).
RTypeOK ==
    /\ TypeOK
    /\ flock \in Procs \cup {None}
    /\ scan \in [front : Nat, i : Slots]
    /\ mark \in [Slots -> {0, 1}] /\ crashes \in 0 .. MaxCrashes

\* A message reported as sent is not passed over: the consumer position only
\* leaves behind tickets that were consumed, given back, or never published
\* (try_dequeue's skip branch, recover_slot, compact).
AcceptedNotSkipped ==
    \A n \in DOMAIN log : n <= deq - base.deq => log[n].fate # "ready"

Ready(n) == n \in DOMAIN log /\ log[n].fate = "ready"

\* A published message is eventually taken, whatever became of the processes
\* that used the ring before (README: a worker that dies mid-message never
\* blocks the others).
ReadyTaken == \A n \in 1 .. MaxSends : Ready(n) ~> ~Ready(n)

\* A drained ring eventually accepts the next send: its slot becomes EMPTY for
\* the ticket at enqueue_pos, or a send gets in before (try_enqueue step 1,
\* recover_slot, compact).
Drained == enq <= deq
DrainedAccepts == Drained ~> (~Drained \/ slot[enq % Capacity].seq = enq)
=============================================================================
