------------------------- MODULE RingRecoveryProofs -------------------------
(***************************************************************************)
(* What survives crashes and compaction.                                   *)
(*                                                                         *)
(* The page tokens of RingProofs survive both, anywhere: a crash takes the *)
(* token of the call it stops out of the game, and compact moves tokens    *)
(* only through the claim-then-free steps of the repair.                   *)
(*                                                                         *)
(* The order of the ring (Lined, RingProofs) survives crashes inside a     *)
(* slot whose owner record is settled, without compact, or beside a        *)
(* compact that meets no live call inside a slot, for one crash.  With it, *)
(* what is delivered is what was sent.                                     *)
(***************************************************************************)
EXTENDS RingRecovery, RingProofs

Desk == /\ flock \in Procs \cup {None}
        /\ scan \in [front : Nat, i : Slots]
        /\ mark \in [Slots -> {0, 1}] /\ crashes \in 0 .. MaxCrashes

\* The inductive invariant.
RInv == IInv /\ Desk

LEMMA FirstSlot == 0 \in Slots
  BY CapacityAssumption DEF Slots

-----------------------------------------------------------------------------
(* The desk: what compact and the flock add.                               *)

LEMMA AdvanceDesk ==
  ASSUME Desk, NEW p \in Procs, Advance(p)
  PROVE  /\ scan' \in [front : Nat, i : Slots]
         /\ \E l \in Loose : Goto(p, l)
<1>1. {"k_seq", "k_end"} \subseteq Loose BY LooseLabels DEF CompactPcs
<1>2. CASE scan.i + 1 < Capacity
  <2>1. scan.i + 1 \in Slots
    BY <1>2, CapacityAssumption DEF Desk, Slots
  <2> QED BY <1>1, <1>2, <2>1 DEF Advance, Desk
<1>3. CASE ~(scan.i + 1 < Capacity)
  BY <1>1, <1>3, FirstSlot DEF Advance, Desk
<1> QED BY <1>2, <1>3

LEMMA NextTicketNat ==
  ASSUME NEW front \in Nat, NEW i \in Slots
  PROVE  NextTicket(front, i) \in Nat
<1>1. front \div Capacity \in Nat BY CapacityAssumption
<1>2. (front \div Capacity) * Capacity \in Nat BY <1>1, CapacityAssumption
<1> QED BY <1>2, CapacityAssumption DEF NextTicket, Slots

\* A step of compact that leaves slots and slab alone: one local record
\* changes and the compaction goes on at a loose label.
LEMMA DeskStep ==
  ASSUME IInv, NEW p \in Procs, NEW l \in Loose, NEW new \in Locals,
         Goto(p, l), loc' = [loc EXCEPT ![p] = new],
         UNCHANGED <<positions, gen, slot, slab, sends, ghost>>
  PROVE  IInv'
<1>1. Kept BY LooseLocal DEF IInv
<1>2. HistoryOK' BY GhostStep DEF IInv
<1> QED BY <1>1, <1>2 DEF IInv, Kept

\* The same when no local changes.
LEMMA DeskGoto ==
  ASSUME IInv, NEW p \in Procs, NEW l \in Loose, Goto(p, l), loc' = loc,
         UNCHANGED <<positions, gen, slot, slab, sends, ghost>>
  PROVE  IInv'
<1>1. loc[p] \in Locals /\ loc' = [loc EXCEPT ![p] = loc[p]]
  BY DEF IInv, Tokens, WordsOK
<1> QED BY <1>1, DeskStep

LEMMA CompactHolds ==
  ASSUME RInv, NEW p \in Procs, Compact(p)
  PROVE  RInv'
<1> USE DEF RInv
<1>l. CompactPcs \subseteq Loose /\ "r_ovf" \in Loose
  BY LooseLabels DEF RepairPcs
<1>0. /\ loc[p] \in Locals /\ Blank \in Locals /\ enq \in Nat /\ deq \in Nat
      /\ scan.i \in Slots /\ scan.front \in Nat
      /\ slot[scan.i] \in SlotWords /\ scan.i \in Nat
  BY BlankOK DEF IInv, Tokens, WordsOK, Desk, Slots
<1>1. CASE CompactStart(p)
  <2> DEFINE new == [Blank EXCEPT !.ret = "k_done"]
  <2>1. new \in Locals BY <1>0 DEF Locals
  <2>2. loc' = [loc EXCEPT ![p] = new] /\ Goto(p, "k_enq")
        /\ UNCHANGED <<positions, gen, slot, slab, sends, ghost>>
    BY <1>1 DEF CompactStart
  <2>3. "k_enq" \in Loose BY <1>l DEF CompactPcs
  <2> HIDE DEF new
  <2>4. IInv' BY <2>1, <2>2, <2>3, DeskStep
  <2>5. Desk' BY <1>1 DEF CompactStart, Desk
  <2> QED BY <2>4, <2>5
<1>2. CASE CompactEnq(p)
  <2>1. IInv' BY <1>2, <1>l, DeskGoto DEF CompactEnq, CompactPcs
  <2>2. Desk' BY <1>2, <1>0, FirstSlot DEF CompactEnq, Desk
  <2> QED BY <2>1, <2>2
<1>3. CASE CompactDeq(p)
  <2>1. IInv' BY <1>3, <1>l, DeskGoto DEF CompactDeq, CompactPcs
  <2>2. Desk' BY <1>3, <1>0 DEF CompactDeq, Desk
  <2> QED BY <2>1, <2>2
<1>4. CASE CompactSeq(p)
  <2> DEFINE new == [loc[p] EXCEPT !.pos = scan.i, !.obs = slot[scan.i].seq]
  <2>1. new \in Locals BY <1>0 DEF Locals, SlotWords
  <2>2. loc' = [loc EXCEPT ![p] = new] /\ Goto(p, "k_pid")
        /\ UNCHANGED <<positions, gen, slot, slab, sends, ghost>>
    BY <1>4 DEF CompactSeq
  <2>3. "k_pid" \in Loose BY <1>l DEF CompactPcs
  <2> HIDE DEF new
  <2>4. IInv' BY <2>1, <2>2, <2>3, DeskStep
  <2>5. Desk' BY <1>4 DEF CompactSeq, Desk
  <2> QED BY <2>4, <2>5
<1>5. CASE CompactPid(p)
  <2>0. UNCHANGED <<positions, gen, slot, slab, sends, ghost>>
        /\ UNCHANGED <<flock, crashes>>
    BY <1>5 DEF CompactPid
  <2>1. CASE Goto(p, "k_ticket") /\ UNCHANGED <<loc, mark, scan>>
    <3>1. IInv' BY <2>0, <2>1, <1>l, DeskGoto DEF CompactPcs
    <3> QED BY <3>1, <2>0, <2>1 DEF Desk
  <2>2. CASE /\ loc' = [loc EXCEPT ![p].tgt = NextTicket(scan.front, scan.i)]
             /\ Goto(p, "r_ovf") /\ UNCHANGED <<mark, scan>>
    <3> DEFINE new == [loc[p] EXCEPT !.tgt = NextTicket(scan.front, scan.i)]
    <3>1. new \in Locals BY <1>0, NextTicketNat DEF Locals
    <3>2. loc' = [loc EXCEPT ![p] = new] BY <2>2
    <3> HIDE DEF new
    <3>3. IInv' BY <3>1, <3>2, <2>0, <2>2, <1>l, DeskStep
    <3> QED BY <3>3, <2>0, <2>2 DEF Desk
  <2>3. CASE /\ mark' = [mark EXCEPT ![scan.i] = 1]
                \/ mark' = [mark EXCEPT ![scan.i] = 0]
             /\ Advance(p) /\ UNCHANGED loc
    <3>1. scan' \in [front : Nat, i : Slots] /\ \E l \in Loose : Goto(p, l)
      BY <2>3, AdvanceDesk
    <3>2. IInv' BY <3>1, <2>0, <2>3, DeskGoto
    <3> QED BY <3>1, <3>2, <2>0, <2>3 DEF Desk
  <2> QED BY <1>5, <2>1, <2>2, <2>3 DEF CompactPid
<1>6. CASE CompactTicket(p)
  <2> DEFINE new == [loc[p] EXCEPT !.tgt = slot[scan.i].ticket + Capacity]
  <2>1. new \in Locals BY <1>0, CapacityAssumption DEF Locals, SlotWords
  <2>2. loc' = [loc EXCEPT ![p] = new] /\ Goto(p, "r_ovf")
        /\ UNCHANGED <<positions, gen, slot, slab, sends, ghost>>
    BY <1>6 DEF CompactTicket
  <2> HIDE DEF new
  <2>3. IInv' BY <2>1, <2>2, <1>l, DeskStep
  <2>4. Desk' BY <1>6 DEF CompactTicket, Desk, maintenance
  <2> QED BY <2>3, <2>4
<1>7. CASE CompactUnmark(p)
  <2>1. scan' \in [front : Nat, i : Slots] /\ \E l \in Loose : Goto(p, l)
    BY <1>7, AdvanceDesk DEF CompactUnmark
  <2>2. IInv' BY <1>7, <2>1, DeskGoto DEF CompactUnmark
  <2>3. Desk' BY <1>7, <2>1 DEF CompactUnmark, Desk
  <2> QED BY <2>2, <2>3
<1>8. CASE CompactEnd(p)
  <2>1. "idle" \in Loose BY LooseLabels
  <2>2. IInv' BY <1>8, <1>0, <2>1, DeskStep DEF CompactEnd, Return
  <2>3. Desk' BY <1>8, FirstSlot DEF CompactEnd, Desk
  <2> QED BY <2>2, <2>3
<1> QED BY <1>1, <1>2, <1>3, <1>4, <1>5, <1>6, <1>7, <1>8 DEF Compact

\* A crash: the token of the call that stops is gone for good.
LEMMA CrashHolds ==
  ASSUME RInv, NEW p \in Procs, Crash(p)
  PROVE  RInv'
<1>1. "dead" \in Loose BY LooseLabels
<1>2. Goto(p, "dead") /\ loc' = [loc EXCEPT ![p] = Blank]
      /\ UNCHANGED <<positions, gen, slot, slab, sends, ghost>>
  BY DEF Crash, Goto
<1>3. IInv' BY <1>1, <1>2, BlankOK, DeskStep DEF RInv
<1>4. Desk'
  <2>1. crashes' \in 0 .. MaxCrashes /\ mark' = mark
    BY RecoveryAssumption DEF RInv, Desk, Crash
  <2>2. flock' \in Procs \cup {None} /\ scan' \in [front : Nat, i : Slots]
    BY FirstSlot DEF RInv, Desk, Crash
  <2> QED BY <2>1, <2>2 DEF RInv, Desk
<1> QED BY <1>3, <1>4 DEF RInv

LEMMA HotPathHolds ==
  ASSUME IInv, NEW p \in Procs, HotPath(p)
  PROVE  IInv'
<1>1. Tokens /\ HistoryOK /\ TypeOK BY DEF IInv, Tokens, TypeOK
<1> QED
  BY <1>1, EnqueueTokens, EnqueueHistory, DequeueTokens, DequeueHistory,
     RepairTokens, RepairHistory DEF HotPath, IInv, Kept

-----------------------------------------------------------------------------
(* The theorems.                                                           *)

LEMMA RInitHolds == RInit => RInv
<1> SUFFICES ASSUME RInit PROVE RInv OBVIOUS
<1>1. IInv BY InitHolds DEF RInit
<1>2. Desk BY RecoveryAssumption, FirstSlot DEF RInit, Desk
<1> QED BY <1>1, <1>2 DEF RInv

LEMMA RStepHolds == RInv /\ [RNext]_rvars => RInv'
<1> SUFFICES ASSUME RInv, [RNext]_rvars PROVE RInv' OBVIOUS
<1>1. ASSUME NEW p \in Procs, HotPath(p), UNCHANGED maintenance PROVE RInv'
  BY <1>1, HotPathHolds DEF RInv, Desk, maintenance
<1>2. ASSUME NEW p \in Keepers, Compact(p) PROVE RInv'
  BY <1>2, CompactHolds, RecoveryAssumption
<1>3. ASSUME NEW p \in Procs, Crash(p) PROVE RInv'
  BY <1>3, CrashHolds
<1>4. CASE UNCHANGED rvars
  <2>1. UNCHANGED vars /\ UNCHANGED maintenance BY <1>4 DEF rvars
  <2>2. IInv' BY <2>1, StepHolds DEF RInv
  <2> QED BY <2>1, <2>2 DEF RInv, Desk, maintenance
<1> QED BY <1>1, <1>2, <1>3, <1>4 DEF RNext

LEMMA RInvariance == RSpec => []RInv
<1>1. RInit => RInv BY RInitHolds
<1>2. RInv /\ [RNext]_rvars => RInv' BY RStepHolds
<1> QED BY <1>1, <1>2, PTL DEF RSpec

\* Type correctness with crashes anywhere, any number of them, and compact
\* running beside the calls or not (Ring::compact, try_enqueue, try_dequeue).
THEOREM RecoveryTypeCorrect == RSpec => []RTypeOK
<1>1. RInv => RTypeOK
  BY DEF RInv, IInv, Tokens, Desk, RTypeOK, TypeOK
<1> QED BY <1>1, RInvariance, PTL

\* No overflow page is freed twice or handed out while a slot or another call
\* still has it, wherever processes crash and however many do, and even where
\* compact repairs a slot a live producer is still inside (Quiet = FALSE): the
\* repair may lose a page but never gives one away twice.
THEOREM RecoveryKeepsPages == RSpec => []NoDoubleFree
<1>1. RInv => NoDoubleFree BY DEF RInv, IInv
<1> QED BY <1>1, RInvariance, PTL

-----------------------------------------------------------------------------
(***************************************************************************)
(* AcceptedNotSkipped and SlotExclusive beside crashes.  The order of the  *)
(* ring (Lined, RingProofs) survives a crash and the repair by recover_slot*)
(* as long as the owner record of the slot tells the truth: a record that  *)
(* names a live process names the slot that process is inside (Signed),    *)
(* and a slot whose recorded owner is dead, or that is being repaired, is  *)
(* that of an entry no call will ever finish, of the recorded ticket       *)
(* (GivenUp).                                                              *)
(***************************************************************************)
Repairing == RepairPcs \ {"r_cas", "r_clear", "r_zero"}

\* The call has stored its pid in its slot's record and not yet removed it.
Signing == (Writing \ {"e_pid"})
              \cup (Reading \ {"d_fence", "d_exp", "t_seq", "d_pid"})
              \cup {"c_pid", "x_pid", "y_pid"}

\* The call writes no slot.
Outer == Labels \ (Inside \cup LateClear \cup Repairing \cup CompactPcs
                     \cup {"dead"})

Dead(i) == \E v \in Procs : slot[i].pid = v /\ pc[v] = "dead"
Repaired(i) == \E q \in Procs : pc[q] \in Repairing /\ I(q) = i

\* The n-th ticket's call crashed inside slot i and the slot says so.
Orphan(i, n) ==
    /\ log[n].fate \in {"claimed", "taken"} /\ ~Past(n)
    /\ Lap(Ticket(n)) = i /\ slot[i].ticket = Ticket(n)
    /\ \A q \in Procs : pc[q] \in Inside => loc[q].ent # n

GivenUp(i) ==
    Dead(i) \/ Repaired(i) =>
        /\ \E n \in DOMAIN log : Orphan(i, n)
        /\ \A q \in Procs : I(q) = i => pc[q] \notin LateClear
Signed(i) ==
    \A q \in Procs : slot[i].pid = q /\ pc[q] # "dead" =>
        I(q) = i /\ pc[q] \in Signing

\* What recover_slot knows of the owner it has read and of the slot it mends.
VictimOK(p) ==
    /\ pc[p] \in {"e_dead", "d_dead", "r_cas"} => loc[p].vic \in Procs
    /\ pc[p] = "r_cas" => pc[loc[p].vic] = "dead"
MendOK(p) ==
    pc[p] \in Repairing =>
        /\ slot[I(p)].pid = Recovering
        /\ pc[p] # "r_ticket" => loc[p].tgt = slot[I(p)].ticket + Capacity
        /\ pc[p] \notin {"r_ticket", "r_seq"} => loc[p].obs = slot[I(p)].seq
OneMender ==
    \A p, q \in Procs : p # q /\ pc[p] \in Repairing /\ pc[q] \in Repairing
                            => I(p) # I(q)

Records ==
    /\ \A i \in Slots : Signed(i) /\ GivenUp(i)
    /\ \A p \in Procs : VictimOK(p) /\ MendOK(p)
    /\ OneMender

\* No call goes on in compact after a repair: only compact's own does.
Homed == \A p \in Procs : pc[p] \notin CompactPcs => loc[p].ret # "k_done"
Mindful == Lined /\ Starts /\ Fresh /\ Records /\ Homed

-----------------------------------------------------------------------------
(* Labels.                                                                 *)

LEMMA OuterLabels ==
  /\ {"idle", "e_pos", "e_seq", "e_owner", "e_dead", "e_cas", "c_gen",
      "c_retract", "d_pos", "d_gen", "d_seq", "d_owner", "d_dead", "d_skip",
      "d_cas", "t_ovf", "t_claim", "t_free", "r_cas"} \subseteq Outer
  /\ Outer \cap (Inside \cup LateClear \cup Repairing \cup Signing
                    \cup CompactPcs) = {}
  /\ "dead" \notin Outer
  BY DEF Outer, Labels, EnqPcs, DeqPcs, RepairPcs, CompactPcs, Inside,
         Writing, Reading, LateClear, Repairing, Signing

LEMMA SlotLabels ==
  /\ Inside \cap (LateClear \cup Repairing \cup {"r_cas", "dead"}) = {}
  /\ LateClear \cap (Repairing \cup {"r_cas", "dead"}) = {}
  /\ Repairing \cap (Signing \cup {"r_cas", "r_clear", "dead"}) = {}
  /\ {"e_dead", "d_dead"} \cap (Inside \cup LateClear \cup Repairing) = {}
  /\ {"r_cas", "r_clear", "r_zero", "dead"} \cap Signing = {}
  BY DEF RepairPcs, Inside, Writing, Reading, LateClear, Repairing, Signing

-----------------------------------------------------------------------------
(* What a step of p does to the records.                                   *)

Same(i) == /\ slot'[i].seq = slot[i].seq /\ slot'[i].pid = slot[i].pid
           /\ slot'[i].ticket = slot[i].ticket
Elsewhere(p) == \A i \in Slots \ {I(p)} : Same(i)

\* p stays outside every slot.
Away(p) ==
    /\ pc[p] \in Outer /\ pc'[p] \in Outer /\ VictimOK(p)'
    /\ \A i \in Slots : Same(i)
    /\ log' = log

\* p claims a ticket and is not yet its slot's recorded owner.
Enter(p) ==
    /\ pc[p] \in Outer /\ pc'[p] \in Inside \ Signing
    /\ \A i \in Slots : Same(i)
    /\ \A n \in DOMAIN log' \ {loc'[p].ent} :
          n \in DOMAIN log /\ log'[n] = log[n]
    /\ \A n \in DOMAIN log : /\ n \in DOMAIN log'
                             /\ log[n].fate # "ready" => loc'[p].ent # n

\* p goes on inside its slot: the record stays as it is or comes to name p.
Within(p) ==
    /\ pc[p] \in Inside /\ pc'[p] \in Inside
    /\ loc'[p].pos = loc[p].pos
    /\ Elsewhere(p) /\ slot'[I(p)].seq = slot[I(p)].seq
    /\ \/ /\ slot'[I(p)].pid = slot[I(p)].pid
          /\ pc[p] \in Signing => pc'[p] \in Signing
       \/ slot'[I(p)].pid = p /\ pc'[p] \in Signing
    /\ loc'[p].ent = loc[p].ent /\ log' = log

\* p is done with its slot: its entry ends, or the message is published.
Leave(p) ==
    /\ pc[p] \in Inside /\ pc'[p] \in LateClear
    /\ loc'[p].pos = loc[p].pos
    /\ Elsewhere(p) /\ slot'[I(p)].pid = slot[I(p)].pid
    /\ pc[p] \in Signing => pc'[p] \in Signing
    /\ slot'[I(p)].seq \in {slot[I(p)].seq, loc[p].pos + 1,
                             loc[p].pos + Capacity}
    /\ DOMAIN log' = DOMAIN log
    /\ \A n \in DOMAIN log \ {loc[p].ent} : log'[n] = log[n]
    /\ log'[loc[p].ent].fate \notin {"claimed", "taken"}

\* p removes the record of the slot it has left or mended.
Clear(p) ==
    /\ pc[p] \in LateClear
    /\ \/ pc'[p] \in LateClear /\ loc'[p].pos = loc[p].pos
       \/ pc'[p] \in Outer /\ VictimOK(p)'
    /\ Elsewhere(p) /\ slot'[I(p)].pid \in {slot[I(p)].pid, None}
    /\ slot'[I(p)].seq = slot[I(p)].seq
    /\ pc[p] \in Signing => slot'[I(p)].pid # p
    /\ log' = log

\* p is elected to repair the slot of a dead owner.
Elect(p) ==
    /\ pc[p] = "r_cas" /\ pc'[p] = "r_ticket"
    /\ loc'[p].pos = loc[p].pos
    /\ Elsewhere(p)
    /\ slot[I(p)].pid = loc[p].vic /\ slot'[I(p)].pid = Recovering
    /\ slot'[I(p)].seq = slot[I(p)].seq
    /\ slot'[I(p)].ticket = slot[I(p)].ticket
    /\ log' = log

\* p gets ready to move the slot on.
Mend(p) ==
    /\ pc[p] \in Repairing /\ pc'[p] \in Repairing
    /\ loc'[p].pos = loc[p].pos /\ MendOK(p)'
    /\ \A i \in Slots : Same(i)
    /\ log' = log

\* p moves the slot on.
Fix(p) ==
    /\ pc[p] = "r_fix" /\ pc'[p] = "r_clear"
    /\ loc'[p].pos = loc[p].pos
    /\ Elsewhere(p) /\ slot'[I(p)].pid = slot[I(p)].pid
    /\ slot'[I(p)].seq = IF slot[I(p)].seq = loc[p].obs THEN loc[p].tgt
                                                       ELSE slot[I(p)].seq
    /\ log' = log

Kind(p) == \/ Away(p) \/ Enter(p) \/ Within(p) \/ Leave(p)
           \/ Clear(p) \/ Elect(p) \/ Mend(p) \/ Fix(p)

-----------------------------------------------------------------------------
(* Each kind of step keeps the records.                                    *)

LEMMA OthersAt ==
  ASSUME NEW p \in Procs, Others(p), NEW q \in Procs, q # p
  PROVE  pc'[q] = pc[q] /\ loc'[q] = loc[q] /\ I(q)' = I(q)
  BY DEF Others, I

\* A slot whose words do not change stays given up.
LEMMA GivenStays ==
  ASSUME TypeOK, Lined, NEW p \in Procs, Others(p), NEW i \in Slots,
         GivenUp(i), Same(i), pc'[p] = "dead" => slot[i].pid # p,
         pc'[p] \in Repairing /\ I(p)' = i => pc[p] \in Repairing /\ I(p) = i,
         pc'[p] \in LateClear /\ I(p)' = i => pc[p] \in LateClear /\ I(p) = i,
         \A n \in DOMAIN log : Orphan(i, n) =>
            /\ n \in DOMAIN log' /\ log'[n].fate = log[n].fate
            /\ pc'[p] \in Inside => loc'[p].ent # n
  PROVE  GivenUp(i)'
<1> SUFFICES ASSUME Dead(i)' \/ Repaired(i)'
             PROVE  /\ \E n \in DOMAIN log' : Orphan(i, n)'
                    /\ \A q \in Procs : I(q)' = i => pc'[q] \notin LateClear
  BY DEF GivenUp
<1>1. Dead(i) \/ Repaired(i)
  <2>1. CASE Dead(i)'
    <3>1. PICK v \in Procs : slot'[i].pid = v /\ pc'[v] = "dead"
      BY <2>1 DEF Dead
    <3>2. v # p /\ slot[i].pid = v BY <3>1 DEF Same
    <3> QED BY <3>1, <3>2 DEF Dead, Others
  <2>2. CASE Repaired(i)'
    <3>1. PICK q \in Procs : pc'[q] \in Repairing /\ I(q)' = i
      BY <2>2 DEF Repaired
    <3> QED BY <3>1, OthersAt DEF Repaired
  <2> QED BY <2>1, <2>2
<1>2. PICK n \in DOMAIN log : Orphan(i, n) BY <1>1 DEF GivenUp
<1>3. n \in DOMAIN log' /\ log'[n].fate = log[n].fate
      /\ (pc'[p] \in Inside => loc'[p].ent # n)
  BY <1>2
<1>4. Past(n)' <=> Past(n) BY <1>2 DEF Past, SeqOf, Ticket, Lap, Same, Orphan
<1>5. Orphan(i, n)'
  <2>1. \A q \in Procs : pc'[q] \in Inside => loc'[q].ent # n
    BY <1>2, <1>3, OthersAt DEF Orphan
  <2> QED BY <1>2, <1>3, <1>4, <2>1 DEF Orphan, Same, Ticket, Lap
<1>6. \A q \in Procs : I(q)' = i => pc'[q] \notin LateClear
  BY <1>1, OthersAt DEF GivenUp
<1> QED BY <1>3, <1>5, <1>6

\* Nobody repairs the slot a call is inside, and its owner is not dead.
LEMMA InsideHeld ==
  ASSUME TypeOK, Lined, NEW p \in Procs, pc[p] \in Inside, GivenUp(I(p))
  PROVE  ~Dead(I(p)) /\ ~Repaired(I(p))
<1> SUFFICES ASSUME NEW n \in DOMAIN log, Orphan(I(p), n) PROVE FALSE
  BY DEF GivenUp
<1>1. loc[p].ent \in DOMAIN log /\ Busy(loc[p].ent)
      /\ Ticket(loc[p].ent) = loc[p].pos
  BY InsideBusy, InsideOwns DEF Lined
<1>2. Busy(n) /\ Lap(Ticket(n)) = I(p) BY DEF Orphan, Busy, Unfinished
<1>3. I(p) = Lap(loc[p].pos) BY Ranges DEF Lined
<1>4. n = loc[p].ent BY <1>1, <1>2, <1>3, OneBusy DEF Lined
<1> QED BY <1>4 DEF Orphan

\* The calls other than p, given what p's step does to the slots they mend.
LEMMA RecordsStay ==
  ASSUME TypeOK, Records, NEW p \in Procs, Others(p), pc[p] # "dead",
         \A q \in Procs \ {p} : pc[q] \in Repairing => Same(I(q)),
         pc'[p] \in Repairing => \A q \in Procs \ {p} :
                                    pc[q] \in Repairing => I(q) # I(p)',
         VictimOK(p)', MendOK(p)',
         \A i \in Slots : Signed(i)' /\ GivenUp(i)'
  PROVE  Records'
<1>1. ASSUME NEW q \in Procs, q # p PROVE VictimOK(q)' /\ MendOK(q)'
  <2>1. /\ pc'[q] = pc[q] /\ loc'[q] = loc[q] /\ I(q)' = I(q)
        /\ VictimOK(q) /\ MendOK(q)
    BY <1>1, OthersAt DEF Records
  <2>2. VictimOK(q)' BY <2>1 DEF VictimOK, Others
  <2>3. MendOK(q)' BY <1>1, <2>1 DEF MendOK, Same
  <2> QED BY <2>2, <2>3
<1>2. OneMender' BY OthersAt DEF Records, OneMender
<1> QED BY <1>1, <1>2 DEF Records

\* Where the pid does not change the record stays true.
LEMMA SignedStays ==
  ASSUME NEW p \in Procs, Others(p), NEW i \in Slots, Signed(i),
         slot'[i].pid = slot[i].pid,
         pc[p] \in Signing => \/ pc'[p] \in Signing /\ I(p)' = I(p)
                              \/ I(p) # i,
         pc[p] # "dead"
  PROVE  Signed(i)'
  BY OthersAt DEF Signed

\* A step that stays outside the slots, in a call or in compact.
LEMMA AsideRecords ==
  ASSUME TypeOK, Lined, Records, NEW p \in Procs, Others(p),
         pc[p] \in Outer \cup CompactPcs, pc'[p] \in Outer \cup CompactPcs,
         VictimOK(p)', \A i \in Slots : Same(i), log' = log
  PROVE  Records'
<1>1. pc[p] \notin Signing /\ pc[p] # "dead" /\ pc'[p] # "dead"
      /\ pc'[p] \notin Inside \cup LateClear \cup Repairing
  BY OuterLabels
  DEF CompactPcs, Signing, Inside, Writing, Reading, LateClear, Repairing,
      RepairPcs
<1>2. ASSUME NEW i \in Slots PROVE Signed(i)' /\ GivenUp(i)'
  <2>1. Signed(i)' BY <1>1, SignedStays DEF Records, Same
  <2>2. GivenUp(i)' BY <1>1, GivenStays DEF Records
  <2> QED BY <2>1, <2>2
<1>3. \A q \in Procs : I(q) \in Slots BY Ranges DEF Lined
<1> QED BY <1>1, <1>2, <1>3, RecordsStay DEF MendOK

LEMMA EnterRecords ==
  ASSUME TypeOK, Lined, Records, NEW p \in Procs, Others(p), Enter(p)
  PROVE  Records'
<1> USE DEF Enter
<1>1. pc[p] \notin Signing /\ pc[p] # "dead" /\ pc'[p] # "dead"
      /\ pc'[p] \notin LateClear \cup Repairing
      /\ pc'[p] \notin {"e_dead", "d_dead", "r_cas"}
  BY OuterLabels, SlotLabels
<1>2. ASSUME NEW i \in Slots PROVE Signed(i)' /\ GivenUp(i)'
  <2>1. Signed(i)' BY <1>1, SignedStays DEF Records, Same
  <2>2. GivenUp(i)' BY <1>1, GivenStays DEF Records, Orphan
  <2> QED BY <2>1, <2>2
<1>3. \A q \in Procs : I(q) \in Slots BY Ranges DEF Lined
<1> QED BY <1>1, <1>2, <1>3, RecordsStay DEF MendOK, VictimOK

LEMMA WithinRecords ==
  ASSUME TypeOK, Lined, Records, NEW p \in Procs, Others(p), Within(p)
  PROVE  Records'
<1> USE DEF Within
<1>0. /\ \A q \in Procs : I(q) \in Slots
      /\ I(p)' = I(p) /\ pc[p] # "dead" /\ pc'[p] # "dead"
      /\ pc'[p] \notin LateClear \cup Repairing
      /\ pc'[p] \notin {"e_dead", "d_dead", "r_cas"}
      /\ \A i \in Slots : Signed(i) /\ GivenUp(i)
  BY SlotLabels, Ranges DEF Lined, Records, I
<1>1. ~Dead(I(p)) /\ ~Repaired(I(p)) BY <1>0, InsideHeld
<1>2. ASSUME NEW i \in Slots, i # I(p) PROVE Signed(i)' /\ GivenUp(i)'
  <2>0. Same(i) BY <1>2 DEF Elsewhere
  <2>1. Signed(i)' BY <1>0, <1>2, <2>0, SignedStays DEF Same
  <2>2. GivenUp(i)' BY <1>0, <2>0, GivenStays DEF Orphan
  <2> QED BY <2>1, <2>2
<1>3. Signed(I(p))'
  <2>1. CASE slot'[I(p)].pid = slot[I(p)].pid
             /\ (pc[p] \in Signing => pc'[p] \in Signing)
    BY <1>0, <2>1, SignedStays DEF Signed
  <2>2. CASE slot'[I(p)].pid = p /\ pc'[p] \in Signing
    BY <1>0, <2>2 DEF Signed
  <2> QED BY <2>1, <2>2
<1>4. GivenUp(I(p))'
  <2>1. ~Dead(I(p))'
    BY <1>0, <1>1 DEF Dead, Others
  <2>2. ~Repaired(I(p))' BY <1>0, <1>1, OthersAt DEF Repaired
  <2> QED BY <1>0, <2>1, <2>2 DEF GivenUp
<1>5. \A q \in Procs \ {p} : pc[q] \in Repairing => Same(I(q))
  BY <1>0, <1>1 DEF Repaired, Elsewhere
<1>6. \A i \in Slots : Signed(i)' /\ GivenUp(i)' BY <1>0, <1>2, <1>3, <1>4
<1> QED BY <1>0, <1>5, <1>6, RecordsStay DEF MendOK, VictimOK

LEMMA LeaveRecords ==
  ASSUME TypeOK, Lined, Records, NEW p \in Procs, Others(p), Leave(p)
  PROVE  Records'
<1> USE DEF Leave
<1>0. /\ \A q \in Procs : I(q) \in Slots
      /\ I(p)' = I(p) /\ pc[p] # "dead" /\ pc'[p] # "dead"
      /\ pc'[p] \notin Inside \cup Repairing
      /\ pc'[p] \notin {"e_dead", "d_dead", "r_cas"}
      /\ \A i \in Slots : Signed(i) /\ GivenUp(i)
  BY SlotLabels, Ranges DEF Lined, Records, I
<1>1. ~Dead(I(p)) /\ ~Repaired(I(p)) BY <1>0, InsideHeld
<1>2. ASSUME NEW i \in Slots, i # I(p) PROVE Signed(i)' /\ GivenUp(i)'
  <2>0. Same(i) BY <1>2 DEF Elsewhere
  <2>1. Signed(i)' BY <1>0, <1>2, <2>0, SignedStays DEF Same
  <2>2. Lap(Ticket(loc[p].ent)) = I(p) BY InsideOwns, Ranges DEF Lined
  <2>3. \A n \in DOMAIN log : Orphan(i, n) => n # loc[p].ent
    BY <1>2, <2>2 DEF Orphan
  <2>4. GivenUp(i)' BY <1>0, <1>2, <2>0, <2>3, GivenStays
  <2> QED BY <2>1, <2>4
<1>3. ASSUME NEW i \in Slots, i = I(p) PROVE Signed(i)'
  <2>0. slot'[i].pid = slot[i].pid BY <1>3
  <2>1. pc[p] \in Signing => pc'[p] \in Signing /\ I(p)' = I(p) BY <1>0
  <2> HIDE DEF Leave
  <2> QED BY <1>0, <2>0, <2>1, SignedStays
<1>4. GivenUp(I(p))'
  <2>0. slot'[I(p)].pid = slot[I(p)].pid OBVIOUS
  <2> HIDE DEF Leave
  <2>1. ~Dead(I(p))'
    <3> SUFFICES ASSUME NEW v \in Procs, slot'[I(p)'].pid = v, pc'[v] = "dead"
                 PROVE  FALSE
      BY DEF Dead
    <3>1. slot[I(p)].pid = v BY <1>0, <2>0
    <3>2. pc[v] = "dead" BY <1>0 DEF Others
    <3> QED BY <1>1, <3>1, <3>2 DEF Dead
  <2>2. ~Repaired(I(p))' BY <1>0, <1>1, OthersAt DEF Repaired
  <2> QED BY <1>0, <2>1, <2>2 DEF GivenUp
<1>5. \A q \in Procs \ {p} : pc[q] \in Repairing => Same(I(q))
  BY <1>0, <1>1 DEF Repaired, Elsewhere
<1>6. \A i \in Slots : Signed(i)' /\ GivenUp(i)' BY <1>0, <1>2, <1>3, <1>4
<1> QED BY <1>0, <1>5, <1>6, RecordsStay DEF MendOK, VictimOK

LEMMA ClearRecords ==
  ASSUME TypeOK, Lined, Records, NEW p \in Procs, Others(p), Clear(p)
  PROVE  Records'
<1> USE DEF Clear
<1>0. /\ \A q \in Procs : I(q) \in Slots
      /\ pc[p] # "dead" /\ pc'[p] # "dead" /\ VictimOK(p)'
      /\ pc'[p] \notin Inside \cup Repairing
      /\ pc'[p] \in LateClear => I(p)' = I(p)
      /\ pc'[p] \in Signing => I(p)' = I(p)
      /\ \A i \in Slots : Signed(i) /\ GivenUp(i)
  BY SlotLabels, OuterLabels, Ranges DEF Lined, Records, I, VictimOK
<1>1. ~Dead(I(p)) /\ ~Repaired(I(p)) BY <1>0 DEF GivenUp
<1>2. ASSUME NEW i \in Slots, i # I(p) PROVE Signed(i)' /\ GivenUp(i)'
  <2>0. Same(i) BY <1>2 DEF Elsewhere
  <2>1. Signed(i)' BY <1>0, <1>2, <2>0, SignedStays DEF Same
  <2>2. GivenUp(i)' BY <1>0, <1>2, <2>0, GivenStays
  <2> QED BY <2>1, <2>2
<1>i. ASSUME NEW i, i = I(p) PROVE Signed(i)' /\ GivenUp(i)'
  <2>0. slot'[i].pid \in {slot[i].pid, None} /\ None \notin Procs
        /\ Signed(i) /\ (pc[p] \in Signing => slot'[i].pid # p)
    BY <1>0, <1>i, ConstantAssumption
  <2>1. Signed(i)' BY <1>0, <2>0, OthersAt DEF Signed
  <2>2. ~Dead(i)' BY <1>0, <1>1, <1>i, <2>0 DEF Dead, Others
  <2>3. ~Repaired(i)' BY <1>0, <1>1, <1>i, OthersAt DEF Repaired
  <2> QED BY <2>1, <2>2, <2>3 DEF GivenUp
<1>5. \A q \in Procs \ {p} : pc[q] \in Repairing => Same(I(q))
  BY <1>0, <1>1 DEF Repaired, Elsewhere
<1>6. \A i \in Slots : Signed(i)' /\ GivenUp(i)' BY <1>2, <1>i
<1> QED BY <1>0, <1>5, <1>6, RecordsStay DEF MendOK

LEMMA ElectRecords ==
  ASSUME TypeOK, Lined, Records, NEW p \in Procs, Others(p), Elect(p)
  PROVE  Records'
<1> USE DEF Elect
<1>0. /\ \A q \in Procs : I(q) \in Slots
      /\ I(p)' = I(p) /\ pc[p] # "dead" /\ pc'[p] # "dead"
      /\ pc'[p] \in Repairing /\ pc'[p] \notin Inside \cup LateClear
      /\ pc[p] \notin Signing \cup Repairing
      /\ \A i \in Slots : Signed(i) /\ GivenUp(i)
      /\ Recovering \notin Procs
  BY SlotLabels, OuterLabels, Ranges, ConstantAssumption
  DEF Lined, Records, I, Repairing, RepairPcs
<1>1. loc[p].vic \in Procs /\ pc[loc[p].vic] = "dead"
  BY DEF Records, VictimOK
<1>2. ASSUME NEW i \in Slots, i # I(p) PROVE Signed(i)' /\ GivenUp(i)'
  <2>0. Same(i) BY <1>2 DEF Elsewhere
  <2>1. Signed(i)' BY <1>0, <1>2, <2>0, SignedStays DEF Same
  <2>2. GivenUp(i)' BY <1>0, <1>2, <2>0, GivenStays
  <2> QED BY <2>1, <2>2
<1>i. ASSUME NEW i, i = I(p) PROVE Signed(i)' /\ GivenUp(i)'
  <2>0. /\ slot'[i].pid = Recovering /\ slot'[i].seq = slot[i].seq
        /\ slot'[i].ticket = slot[i].ticket /\ Dead(i) /\ GivenUp(i)
    BY <1>0, <1>1, <1>i DEF Dead
  <2>1. Signed(i)' BY <1>0, <2>0 DEF Signed
  <2>2. PICK n \in DOMAIN log : Orphan(i, n) BY <2>0 DEF GivenUp
  <2>3. Past(n)' <=> Past(n)
    BY <2>0, <2>2 DEF Past, SeqOf, Ticket, Lap, Orphan
  <2>4. \A q \in Procs : pc'[q] \in Inside => loc'[q].ent # n
    BY <1>0, <2>2, OthersAt DEF Orphan
  <2>5. Orphan(i, n)' BY <2>0, <2>2, <2>3, <2>4 DEF Orphan, Ticket, Lap
  <2>6. \A q \in Procs : I(q)' = i => pc'[q] \notin LateClear
    BY <1>0, <2>0, OthersAt DEF GivenUp
  <2>7. GivenUp(i)' BY <2>5, <2>6 DEF GivenUp
  <2> QED BY <2>1, <2>7
<1>5. \A q \in Procs \ {p} : pc[q] \in Repairing => I(q) # I(p)
  BY <1>0, <1>1 DEF Records, MendOK
<1>6. \A i \in Slots : Signed(i)' /\ GivenUp(i)' BY <1>2, <1>i
<1>7. VictimOK(p)' /\ MendOK(p)' BY <1>0 DEF VictimOK, MendOK
<1>8. \A q \in Procs \ {p} : pc[q] \in Repairing => Same(I(q))
  BY <1>0, <1>5 DEF Elsewhere
<1> QED BY <1>0, <1>5, <1>6, <1>7, <1>8, RecordsStay

LEMMA MendRecords ==
  ASSUME TypeOK, Lined, Records, NEW p \in Procs, Others(p), Mend(p)
  PROVE  Records'
<1> USE DEF Mend
<1>0. /\ \A q \in Procs : I(q) \in Slots
      /\ I(p)' = I(p) /\ pc[p] # "dead" /\ pc'[p] # "dead"
      /\ pc'[p] \notin Inside \cup LateClear
      /\ pc'[p] \notin {"e_dead", "d_dead", "r_cas"}
      /\ pc[p] \notin Signing
      /\ \A i \in Slots : Signed(i) /\ GivenUp(i)
  BY SlotLabels, Ranges DEF Lined, Records, I
<1>2. ASSUME NEW i \in Slots PROVE Signed(i)' /\ GivenUp(i)'
  <2>1. Signed(i)' BY <1>0, SignedStays DEF Same
  <2>2. GivenUp(i)' BY <1>0, GivenStays DEF Orphan
  <2> QED BY <2>1, <2>2
<1>3. \A q \in Procs \ {p} : pc[q] \in Repairing => I(q) # I(p)
  BY DEF Records, OneMender
<1> QED BY <1>0, <1>2, <1>3, RecordsStay DEF VictimOK

LEMMA FixRecords ==
  ASSUME TypeOK, Lined, Records, NEW p \in Procs, Others(p), Fix(p)
  PROVE  Records'
<1> USE DEF Fix
<1>0. /\ \A q \in Procs : I(q) \in Slots
      /\ I(p)' = I(p) /\ pc[p] # "dead" /\ pc'[p] # "dead"
      /\ pc[p] \in Repairing /\ pc'[p] \notin Inside \cup Repairing
      /\ pc'[p] \notin {"e_dead", "d_dead", "r_cas"}
      /\ pc[p] \notin Signing
      /\ \A i \in Slots : Signed(i) /\ GivenUp(i)
      /\ Recovering \notin Procs
  BY SlotLabels, Ranges, ConstantAssumption
  DEF Lined, Records, I, Repairing, RepairPcs, Inside, Writing, Reading
<1>1. slot'[I(p)].pid = Recovering BY <1>0 DEF Records, MendOK
<1>2. ASSUME NEW i \in Slots, i # I(p) PROVE Signed(i)' /\ GivenUp(i)'
  <2>0. Same(i) BY <1>2 DEF Elsewhere
  <2>1. Signed(i)' BY <1>0, <1>2, <2>0, SignedStays DEF Same
  <2>2. GivenUp(i)' BY <1>0, <1>2, <2>0, GivenStays
  <2> QED BY <2>1, <2>2
<1>3. \A q \in Procs \ {p} : pc[q] \in Repairing => I(q) # I(p)
  BY <1>0 DEF Records, OneMender
<1>i. ASSUME NEW i, i = I(p) PROVE Signed(i)' /\ GivenUp(i)'
  <2>0. slot'[i].pid = Recovering BY <1>1, <1>i
  <2>1. Signed(i)' BY <1>0, <2>0 DEF Signed
  <2>2. ~Dead(i)' BY <1>0, <2>0 DEF Dead
  <2>3. ~Repaired(i)' BY <1>0, <1>3, <1>i, OthersAt DEF Repaired
  <2> QED BY <2>1, <2>2, <2>3 DEF GivenUp
<1>5. \A q \in Procs \ {p} : pc[q] \in Repairing => Same(I(q))
  BY <1>0, <1>3 DEF Elsewhere
<1>6. \A i \in Slots : Signed(i)' /\ GivenUp(i)' BY <1>2, <1>i
<1> QED BY <1>0, <1>5, <1>6, RecordsStay DEF MendOK, VictimOK

LEMMA KindRecords ==
  ASSUME TypeOK, Lined, Records, NEW p \in Procs, Others(p), Kind(p)
  PROVE  Records'
  BY AsideRecords, EnterRecords, WithinRecords, LeaveRecords, ClearRecords,
     ElectRecords, MendRecords, FixRecords DEF Kind, Away

\* A crash inside a slot whose record is settled gives up the slot's entry.
LEMMA CrashRecords ==
  ASSUME TypeOK, Lined, Records, NEW p \in Procs, Crash(p), Settled(p),
         pc[p] \in Inside
  PROVE  Records'
<1>0. /\ \A q \in Procs : I(q) \in Slots
      /\ pc'[p] = "dead" /\ Others(p) /\ slot' = slot /\ log' = log
      /\ pc[p] # "dead" /\ pc'[p] \notin Inside \cup LateClear \cup Repairing
      /\ pc'[p] \notin {"e_dead", "d_dead", "r_cas"}
      /\ \A i \in Slots : Signed(i) /\ GivenUp(i) /\ Same(i)
      /\ pc'[p] \notin Signing
  BY SlotLabels, Ranges
  DEF Lined, Records, Crash, Others, TypeOK, WordsOK, Same, ghost
<1>1. ASSUME NEW i \in Slots PROVE Signed(i)'
  BY <1>0, OthersAt DEF Signed
<1>2. ASSUME NEW i \in Slots, i # I(p) PROVE GivenUp(i)'
  <2>1. slot[i].pid # p BY <1>0, <1>2 DEF Signed
  <2> QED BY <1>0, <2>1, GivenStays DEF Orphan
<1>3. ASSUME NEW i, i = I(p) PROVE GivenUp(i)'
  <2>0. PICK n \in DOMAIN log : n = loc[p].ent BY InsideBusy DEF Lined
  <2>1. /\ n \in DOMAIN log /\ Busy(n) /\ Ticket(n) = loc[p].pos
        /\ I(p) = Lap(loc[p].pos)
    BY <2>0, InsideBusy, InsideOwns, Ranges DEF Lined
  <2>2. log[n].fate \in {"claimed", "taken"}
    BY <2>0 DEF Lined, Calls, CallOK, Owns, Inside
  <2>3. slot[i].ticket = loc[p].pos BY <1>3 DEF Settled
  <2>4. \A q \in Procs : q # p /\ pc[q] \in Inside => loc[q].ent # n
    BY <2>0 DEF Lined, Alone
  <2>5. \A q \in Procs : pc'[q] \in Inside => loc'[q].ent # n
    BY <1>0, <2>4, OthersAt
  <2>6. Orphan(i, n)'
    BY <1>0, <1>3, <2>1, <2>2, <2>3, <2>5
    DEF Orphan, Busy, Past, SeqOf, Ticket, Lap
  <2>7. \A q \in Procs : I(q)' = i => pc'[q] \notin LateClear
    BY <1>0, <1>3, OthersAt DEF Settled
  <2>8. n \in DOMAIN log' BY <1>0, <2>1
  <2> QED BY <2>6, <2>7, <2>8 DEF GivenUp
<1>4. \A i \in Slots : Signed(i)' /\ GivenUp(i)' BY <1>1, <1>2, <1>3
<1> QED BY <1>0, <1>4, RecordsStay DEF MendOK, VictimOK

\* The same for the order of the ring.
LEMMA CrashLined ==
  ASSUME TypeOK, Lined, NEW p \in Procs, Crash(p)
  PROVE  Lined'
<1>1. pc'[p] \in Plain /\ Others(p) /\ SameSeqs
      /\ UNCHANGED <<enq, deq, log, base>>
  BY PlainLabels
  DEF Crash, Others, TypeOK, WordsOK, SameSeqs, positions, ghost
<1> QED BY <1>1, MoveOn DEF Held

-----------------------------------------------------------------------------
(* Every step of a call and of the repair is of one of the kinds.          *)

StepKind(p) == Others(p) /\ Starts' /\ Kind(p)

\* From `at` to `l` inside a slot; from outside the slots to outside.
Deeper(at, l) == /\ at \in Inside /\ l \in Inside
                 /\ at \in Signing => l \in Signing
Roams(l) == l \in Outer \ {"e_dead", "d_dead", "r_cas"}
Moves(at, l) == \/ Deeper(at, l)
                \/ at \in Outer /\ Roams(l)

LEMMA GotoAt ==
  ASSUME TypeOK, NEW p \in Procs, NEW l, Goto(p, l), loc' = loc
  PROVE  pc'[p] = l /\ loc'[p] = loc[p] /\ Others(p)
  BY GotoPc DEF Others, TypeOK

LEMMA LocalAt ==
  ASSUME TypeOK, NEW p \in Procs, NEW l, NEW new, Goto(p, l),
         loc' = [loc EXCEPT ![p] = new]
  PROVE  pc'[p] = l /\ loc'[p] = new /\ Others(p)
  BY GotoPc DEF Others, TypeOK, WordsOK

LEMMA ReturnAt ==
  ASSUME TypeOK, NEW p \in Procs, Return(p)
  PROVE  pc'[p] = "idle" /\ Others(p)
  BY GotoPc, ReturnPc DEF Return, Others, TypeOK

LEMMA StillAt ==
  ASSUME Starts, slot' = slot
  PROVE  Starts' /\ \A i \in Slots : Same(i)
  BY DEF Starts, Same

LEMMA WriteAt ==
  ASSUME TypeOK, Starts, NEW p \in Procs, NEW new, new.start = FirstStart,
         slot' = [slot EXCEPT ![I(p)] = new]
  PROVE  Starts' /\ Elsewhere(p) /\ slot'[I(p)] = new
<1>1. Starts' BY StartsKept
<1>2. I(p) \in Slots BY IndexOK DEF TypeOK
<1> QED BY <1>1, <1>2 DEF Elsewhere, Same, TypeOK, WordsOK

LEMMA StillKind ==
  ASSUME TypeOK, NEW p \in Procs, Others(p), Starts', log' = log,
         Moves(pc[p], pc'[p]), \A i \in Slots : Same(i),
         loc'[p].pos = loc[p].pos, loc'[p].ent = loc[p].ent
  PROVE  StepKind(p)
<1>1. I(p) \in Slots BY IndexOK DEF TypeOK
<1>2. CASE Deeper(pc[p], pc'[p])
  BY <1>1, <1>2 DEF Deeper, StepKind, Kind, Within, Elsewhere, Same
<1>3. CASE pc[p] \in Outer /\ Roams(pc'[p])
  BY <1>3 DEF Roams, StepKind, Kind, Away, VictimOK
<1> QED BY <1>2, <1>3 DEF Moves

LEMMA RoamKind ==
  ASSUME TypeOK, NEW p \in Procs, Others(p), Starts, log' = log, slot' = slot,
         pc[p] \in Outer, Roams(pc'[p])
  PROVE  StepKind(p)
  BY StillAt DEF Roams, StepKind, Kind, Away, VictimOK

\* A store into the slot p is inside that does not change whom it names.
LEMMA DeepKind ==
  ASSUME TypeOK, Starts, NEW p \in Procs, NEW l, NEW new, Goto(p, l),
         loc' = loc, slot' = [slot EXCEPT ![I(p)] = new],
         new.start = FirstStart, new.pid = slot[I(p)].pid,
         new.seq = slot[I(p)].seq, log' = log, Deeper(pc[p], l)
  PROVE  StepKind(p)
  BY GotoAt, WriteAt DEF Deeper, StepKind, Kind, Within

\* The store that ends p's hold of its slot.
LEMMA LeaveKind ==
  ASSUME TypeOK, Starts, NEW p \in Procs, NEW l \in LateClear, NEW new, NEW e,
         Lined, pc[p] \in Inside, pc[p] \in Signing => l \in Signing,
         Goto(p, l), loc' = loc, slot' = [slot EXCEPT ![I(p)] = new],
         new.start = FirstStart, new.pid = slot[I(p)].pid,
         new.seq \in {loc[p].pos + 1, loc[p].pos + Capacity},
         log' = [log EXCEPT ![loc[p].ent] = e],
         e.fate \notin {"claimed", "taken"}
  PROVE  StepKind(p)
<1>1. pc'[p] = l /\ loc'[p] = loc[p] /\ Others(p) BY GotoAt
<1>2. Starts' /\ Elsewhere(p) /\ slot'[I(p)] = new BY WriteAt
<1>3. loc[p].ent \in DOMAIN log BY InsideOwns DEF Lined
<1>4. /\ DOMAIN log' = DOMAIN log /\ log'[loc[p].ent] = e
      /\ \A n \in DOMAIN log \ {loc[p].ent} : log'[n] = log[n]
  BY <1>3
<1> QED BY <1>1, <1>2, <1>4 DEF StepKind, Kind, Leave

LEMMA SharedKind ==
  ASSUME TypeOK, Starts, SameStart, NEW p \in Procs, NEW at, NEW a, NEW b
  PROVE  /\ Moves(at, a) /\ Moves(at, b) /\ LoadOverflow(p, at, a, b)
               => StepKind(p)
         /\ Moves(at, a) /\ Moves(at, b) /\ ClaimOverflow(p, at, a, b)
               => StepKind(p)
         /\ Moves(at, a) /\ FreePage(p, at, a) => StepKind(p)
         /\ at \in Inside /\ b \in Inside \cap Signing
               /\ StoreOwnerPid(p, at, p, b) => StepKind(p)
         /\ Deeper(at, b) /\ StoreOwnerTicket(p, at, a, b) => StepKind(p)
         /\ Deeper(at, a) /\ StoreOwnerStart(p, at, a) => StepKind(p)
         /\ at \in LateClear /\ b \in LateClear
               /\ StoreOwnerPid(p, at, None, b) => StepKind(p)
         /\ at \in LateClear \ Signing /\ (b \in LateClear \/ Roams(b))
               /\ StoreOwnerTicket(p, at, a, b) => StepKind(p)
         /\ at \in LateClear \ Signing /\ ClearTicketReturn(p, at)
               => StepKind(p)
         /\ at \in Outer /\ a \in {"e_dead", "d_dead"}
               /\ LoadOwnerPid(p, at, a) => StepKind(p)
<1> USE DEF ghost
<1>0. /\ loc[p] \in Locals /\ slot[I(p)] \in SlotWords
      /\ slot[I(p)].start = FirstStart /\ StartTime[p] = FirstStart
      /\ p # None /\ I(p) \in Slots
  BY IndexOK, ConstantAssumption DEF TypeOK, Starts, SameStart
<1>v. \A v : /\ [slot[I(p)] EXCEPT !.pid = v].start = FirstStart
             /\ [slot[I(p)] EXCEPT !.pid = v].pid = v
             /\ [slot[I(p)] EXCEPT !.ticket = v].start = FirstStart
             /\ [slot[I(p)] EXCEPT !.pid = v].seq = slot[I(p)].seq
             /\ [slot[I(p)] EXCEPT !.ticket = v].pid = slot[I(p)].pid
             /\ [slot[I(p)] EXCEPT !.ticket = v].seq = slot[I(p)].seq
             /\ [slot[I(p)] EXCEPT !.start = FirstStart].start = FirstStart
             /\ [slot[I(p)] EXCEPT !.start = FirstStart].pid = slot[I(p)].pid
             /\ [slot[I(p)] EXCEPT !.start = FirstStart].seq = slot[I(p)].seq
  BY <1>0 DEF SlotWords
<1>1. ASSUME Moves(at, a), Moves(at, b), LoadOverflow(p, at, a, b)
      PROVE  StepKind(p)
  <2> DEFINE new == [loc[p] EXCEPT !.pg = slot[I(p)].ovf]
  <2>1. new.pos = loc[p].pos /\ new.ent = loc[p].ent BY <1>0 DEF Locals
  <2>2. loc' = [loc EXCEPT ![p] = new] BY <1>1 DEF LoadOverflow
  <2>3. PICK l \in {a, b} : Goto(p, l) BY <1>1 DEF LoadOverflow
  <2> HIDE DEF new
  <2>4. pc'[p] = l /\ Others(p) /\ loc'[p] = new BY <2>2, <2>3, LocalAt
  <2>5. pc[p] = at /\ slot' = slot /\ log' = log BY <1>1 DEF LoadOverflow
  <2>6. Starts' /\ \A i \in Slots : Same(i) BY <2>5, StillAt
  <2>7. Moves(pc[p], pc'[p]) BY <1>1, <2>3, <2>4, <2>5
  <2> QED BY <2>1, <2>4, <2>5, <2>6, <2>7, StillKind
<1>2. ASSUME Moves(at, a), Moves(at, b), ClaimOverflow(p, at, a, b)
      PROVE  StepKind(p)
  <2>1. PICK l \in {a, b} : Goto(p, l) BY <1>2 DEF ClaimOverflow
  <2>2. pc[p] = at /\ loc' = loc /\ log' = log BY <1>2 DEF ClaimOverflow
  <2>3. pc'[p] = l /\ Others(p) /\ loc'[p] = loc[p] BY <2>1, <2>2, GotoAt
  <2>4. Starts' /\ \A i \in Slots : Same(i)
    <3>1. CASE slot' = slot BY <3>1, StillAt
    <3>2. CASE slot' = [slot EXCEPT ![I(p)].ovf = None]
      <4> DEFINE new == [slot[I(p)] EXCEPT !.ovf = None]
      <4>1. new.start = FirstStart /\ new.seq = slot[I(p)].seq
            /\ new.pid = slot[I(p)].pid /\ new.ticket = slot[I(p)].ticket
        BY <1>0 DEF SlotWords
      <4>2. slot' = [slot EXCEPT ![I(p)] = new] BY <3>2
      <4> HIDE DEF new
      <4>3. Starts' /\ Elsewhere(p) /\ slot'[I(p)] = new
        BY <4>1, <4>2, WriteAt
      <4> QED BY <4>1, <4>3 DEF Elsewhere, Same
    <3> QED BY <1>2, <3>1, <3>2 DEF ClaimOverflow
  <2>5. Moves(pc[p], pc'[p]) BY <1>2, <2>1, <2>2, <2>3
  <2> QED BY <2>2, <2>3, <2>4, <2>5, StillKind
<1>3. ASSUME Moves(at, a), FreePage(p, at, a) PROVE StepKind(p)
  <2>1. Goto(p, a) /\ loc' = loc /\ pc[p] = at /\ slot' = slot /\ log' = log
    BY <1>3 DEF FreePage
  <2> QED BY <1>3, <2>1, GotoAt, StillAt, StillKind
<1>s. ASSUME NEW new, NEW l, Store(p, at, new, l), new.start = FirstStart
      PROVE  /\ pc[p] = at /\ pc'[p] = l /\ loc'[p] = loc[p] /\ Others(p)
             /\ Starts' /\ Elsewhere(p) /\ slot'[I(p)] = new
  BY <1>s, GotoAt, WriteAt DEF Store
<1>4. ASSUME at \in Inside, b \in Inside \cap Signing,
             StoreOwnerPid(p, at, p, b)
      PROVE  StepKind(p)
  <2> DEFINE new == [slot[I(p)] EXCEPT !.pid = p]
  <2>1. new.start = FirstStart /\ new.pid = p /\ new.seq = slot[I(p)].seq
    BY <1>v
  <2>2. Store(p, at, new, b) /\ log' = log BY <1>4 DEF StoreOwnerPid
  <2> HIDE DEF new
  <2>3. /\ pc[p] = at /\ pc'[p] = b /\ loc'[p] = loc[p] /\ Others(p)
        /\ Starts' /\ Elsewhere(p) /\ slot'[I(p)] = new
    BY <2>1, <2>2, <1>s
  <2>4. Within(p) BY <1>4, <2>1, <2>2, <2>3 DEF Within
  <2> QED BY <2>3, <2>4 DEF StepKind, Kind
<1>5. ASSUME NEW l, NEW new, Deeper(at, l), Store(p, at, new, l),
             new.start = FirstStart, new.pid = slot[I(p)].pid,
             new.seq = slot[I(p)].seq, log' = log
      PROVE  StepKind(p)
  BY <1>5, <1>s DEF StepKind, Kind, Within, Deeper
<1>6. ASSUME at \in LateClear, b \in LateClear, StoreOwnerPid(p, at, None, b)
      PROVE  StepKind(p)
  <2> DEFINE new == [slot[I(p)] EXCEPT !.pid = None]
  <2>1. new.start = FirstStart /\ new.pid = None /\ new.seq = slot[I(p)].seq
    BY <1>v
  <2>2. Store(p, at, new, b) /\ log' = log BY <1>6 DEF StoreOwnerPid
  <2> HIDE DEF new
  <2>3. /\ pc[p] = at /\ pc'[p] = b /\ loc'[p] = loc[p] /\ Others(p)
        /\ Starts' /\ Elsewhere(p) /\ slot'[I(p)] = new
    BY <2>1, <2>2, <1>s
  <2>4. Clear(p) BY <1>0, <1>6, <2>1, <2>2, <2>3 DEF Clear
  <2> QED BY <2>3, <2>4 DEF StepKind, Kind
<1>7. ASSUME at \in LateClear \ Signing, b \in LateClear \/ Roams(b),
             StoreOwnerTicket(p, at, a, b)
      PROVE  StepKind(p)
  <2> DEFINE new == [slot[I(p)] EXCEPT !.ticket = a]
  <2>1. /\ new.start = FirstStart /\ new.pid = slot[I(p)].pid
        /\ new.seq = slot[I(p)].seq
    BY <1>v
  <2>2. Store(p, at, new, b) /\ log' = log BY <1>7 DEF StoreOwnerTicket
  <2> HIDE DEF new
  <2>3. /\ pc[p] = at /\ pc'[p] = b /\ loc'[p] = loc[p] /\ Others(p)
        /\ Starts' /\ Elsewhere(p) /\ slot'[I(p)] = new
    BY <2>1, <2>2, <1>s
  <2>4. Clear(p) BY <1>7, <2>1, <2>2, <2>3 DEF Clear, Roams, VictimOK
  <2> QED BY <2>3, <2>4 DEF StepKind, Kind
<1>8. ASSUME at \in LateClear \ Signing, ClearTicketReturn(p, at)
      PROVE  StepKind(p)
  <2>1. /\ pc[p] = at /\ Return(p) /\ log' = log
        /\ slot' = [slot EXCEPT ![I(p)] = [slot[I(p)] EXCEPT !.ticket = 0]]
    BY <1>8 DEF ClearTicketReturn
  <2>2. /\ Starts' /\ Elsewhere(p) /\ slot'[I(p)].pid = slot[I(p)].pid
        /\ slot'[I(p)].seq = slot[I(p)].seq
    <3> DEFINE new == [slot[I(p)] EXCEPT !.ticket = 0]
    <3>1. /\ new.start = FirstStart /\ new.pid = slot[I(p)].pid
          /\ new.seq = slot[I(p)].seq
      BY <1>v
    <3>2. slot' = [slot EXCEPT ![I(p)] = new] BY <2>1
    <3> HIDE DEF new
    <3> QED BY <3>1, <3>2, WriteAt
  <2>3. pc'[p] = "idle" /\ Others(p) BY <2>1, ReturnAt
  <2> QED
    BY <1>8, <2>1, <2>2, <2>3, OuterLabels
    DEF StepKind, Kind, Clear, VictimOK
<1>9. ASSUME at \in Outer, a \in {"e_dead", "d_dead"}, LoadOwnerPid(p, at, a)
      PROVE  StepKind(p)
  <2>0. pc[p] = at /\ slot' = slot /\ log' = log BY <1>9 DEF LoadOwnerPid
  <2>1. CASE Return(p)
    BY <1>9, <2>0, <2>1, ReturnAt, RoamKind, OuterLabels DEF Roams
  <2>2. CASE /\ slot[I(p)].pid \notin {None, Recovering}
             /\ loc' = [loc EXCEPT ![p].vic = slot[I(p)].pid]
             /\ Goto(p, a)
    <3> DEFINE new == [loc[p] EXCEPT !.vic = slot[I(p)].pid]
    <3>1. new.vic \in Procs BY <1>0, <2>2 DEF SlotWords, Locals
    <3>2. loc' = [loc EXCEPT ![p] = new] BY <2>2
    <3> HIDE DEF new
    <3>3. pc'[p] = a /\ loc'[p] = new /\ Others(p) BY <2>2, <3>2, LocalAt
    <3>4. VictimOK(p)' BY <1>9, <3>1, <3>3 DEF VictimOK
    <3> QED BY <1>9, <2>0, <3>3, <3>4, OuterLabels, StillAt
        DEF StepKind, Kind, Away
  <2> QED BY <1>9, <2>1, <2>2 DEF LoadOwnerPid
<1> QED
  BY <1>0, <1>1, <1>2, <1>3, <1>4, <1>5, <1>6, <1>7, <1>8, <1>9, <1>v
  DEF StoreOwnerTicket, StoreOwnerStart

\* A record that names a live process is never taken for that of a dead one.
LEMMA DeadKind ==
  ASSUME TypeOK, Starts, SameStart, NEW p \in Procs, VictimOK(p),
         NEW at \in {"e_dead", "d_dead"}, CheckDead(p, at)
  PROVE  StepKind(p)
<1>a. pc[p] = at /\ slot' = slot /\ log' = log BY DEF CheckDead, ghost
<1>b. loc[p].vic \in Procs BY <1>a DEF VictimOK
<1>0. /\ pc[p] = at /\ slot' = slot /\ log' = log /\ loc[p].vic \in Procs
      /\ slot[I(p)].start = StartTime[loc[p].vic]
  BY <1>a, <1>b, IndexOK DEF Starts, SameStart, TypeOK
<1>1. CASE Return(p)
  BY <1>0, <1>1, ReturnAt, RoamKind, OuterLabels DEF Roams
<1>2. CASE Goto(p, "r_cas") /\ loc' = loc
           /\ PidDead(loc[p].vic, slot[I(p)].start)
  <2>1. pc'[p] = "r_cas" /\ loc'[p] = loc[p] /\ Others(p) BY <1>2, GotoAt
  <2>2. pc[loc[p].vic] = "dead" /\ loc[p].vic # p
    BY <1>0, <1>2 DEF PidDead
  <2>3. VictimOK(p)' BY <1>0, <2>1, <2>2 DEF VictimOK, Others
  <2> QED BY <1>0, <2>1, <2>3, OuterLabels, StillAt DEF StepKind, Kind, Away
<1> QED BY <1>1, <1>2 DEF CheckDead

LEMMA EnqueueKind ==
  ASSUME TypeOK, Lined, Starts, SameStart, Fresh, NEW p \in Procs,
         VictimOK(p), Enqueue(p)
  PROVE  StepKind(p)
<1> USE DEF ghost
<1>0. /\ loc[p] \in Locals /\ slot[I(p)] \in SlotWords
      /\ slot[I(p)].start = FirstStart /\ I(p) \in Slots
      /\ pc[p] \in Sampled => gen = loc[p].gen
  BY IndexOK DEF TypeOK, Fresh, Starts
<1>o. {"idle", "e_pos", "e_seq", "e_owner", "e_cas", "c_gen"}
         \subseteq Outer \ {"e_dead", "d_dead", "r_cas"}
  BY OuterLabels
<1>r. \A l : l \in {"idle", "e_pos", "e_seq", "e_owner", "e_cas", "c_gen"}
              => Roams(l)
  BY <1>o DEF Roams
<1>d. /\ Deeper("e_ticket", "e_start") /\ Deeper("e_start", "e_alloc")
      /\ Deeper("e_alloc", "e_body") /\ Deeper("e_alloc", "x_gen")
      /\ Deeper("x_gen", "x_seq") /\ Deeper("e_body", "e_ovf")
      /\ Deeper("e_ovf", "e_gen") /\ Deeper("e_gen", "e_pub")
  BY DEF Deeper, Signing, Inside, Writing
<1>l. /\ {"x_seq", "e_pub"} \subseteq Inside
      /\ {"x_pid", "c_pid", "x_ticket", "c_ticket"} \subseteq LateClear
      /\ {"x_pid", "c_pid"} \subseteq Signing
      /\ {"x_ticket", "c_ticket"} \cap Signing = {}
      /\ {"x_gen", "e_gen", "c_gen"} \subseteq Sampled
      /\ "e_ticket" \in Inside \cap Signing
      /\ "e_pid" \in Inside \ Signing
  BY SampledLabels
  DEF Signing, Inside, Writing, Reading, LateClear, EnqPcs
<1>e. pc[p] \in Inside => log[loc[p].ent] \in Tickets
  BY InsideOwns DEF Lined, TypeOK, HistoryOK
<1>1. ASSUME NEW m \in Msgs, EnqStart(p, m) PROVE StepKind(p)
  <2> DEFINE new == [Blank EXCEPT !.msg = m, !.gen = gen, !.ret = "e_pos"]
  <2>1. /\ Goto(p, "e_pos") /\ loc' = [loc EXCEPT ![p] = new]
        /\ pc[p] = "idle" /\ slot' = slot /\ log' = log
    BY <1>1 DEF EnqStart
  <2> HIDE DEF new
  <2> QED BY <1>o, <1>r, <2>1, LocalAt, RoamKind
<1>2. CASE EnqLoadPos(p)
  <2> DEFINE new == [loc[p] EXCEPT !.pos = enq, !.vic = None, !.pg = None,
                                   !.obs = 0, !.tgt = 0]
  <2>1. /\ Goto(p, "e_seq") /\ loc' = [loc EXCEPT ![p] = new]
        /\ pc[p] = "e_pos" /\ slot' = slot /\ log' = log
    BY <1>2 DEF EnqLoadPos
  <2> HIDE DEF new
  <2> QED BY <1>o, <1>r, <2>1, LocalAt, RoamKind
<1>3. CASE EnqLoadSeq(p)
  <2>0. pc[p] = "e_seq" /\ slot' = slot /\ log' = log
    BY <1>3 DEF EnqLoadSeq
  <2>1. CASE (Goto(p, "e_cas") \/ Goto(p, "e_owner")) /\ loc' = loc
    BY <1>o, <1>r, <2>0, <2>1, GotoAt, RoamKind
  <2>2. CASE /\ loc' = [loc EXCEPT ![p].spins = @ + 1]
             /\ Goto(p, "e_pos")
    <3> DEFINE new == [loc[p] EXCEPT !.spins = @ + 1]
    <3>1. loc' = [loc EXCEPT ![p] = new] BY <2>2
    <3> HIDE DEF new
    <3> QED BY <1>o, <1>r, <2>0, <2>2, <3>1, LocalAt, RoamKind
  <2>3. CASE Return(p) BY <1>o, <1>r, <2>0, <2>3, ReturnAt, RoamKind
  <2> QED BY <1>3, <2>1, <2>2, <2>3 DEF EnqLoadSeq
<1>4. CASE EnqLoadOwnerPid(p)
  BY <1>4, <1>o, SharedKind DEF EnqLoadOwnerPid
<1>5. CASE EnqCheckDead(p) BY <1>5, DeadKind DEF EnqCheckDead
<1>6. CASE EnqClaim(p)
  <2>0. pc[p] = "e_cas" /\ slot' = slot BY <1>6 DEF EnqClaim
  <2>1. CASE enq # loc[p].pos
    <3>1. Goto(p, "e_pos") /\ loc' = loc /\ log' = log
      BY <1>6, <2>1 DEF EnqClaim
    <3> QED BY <1>o, <1>r, <2>0, <3>1, GotoAt, RoamKind
  <2>2. CASE enq = loc[p].pos
    <3> DEFINE new == [loc[p] EXCEPT !.ent = Entry(enq)]
               e == [msg |-> loc[p].msg, fate |-> "claimed", got |-> None]
    <3>1. /\ log' = Append(log, e) /\ loc' = [loc EXCEPT ![p] = new]
          /\ Goto(p, "e_pid")
      BY <1>6, <2>2 DEF EnqClaim
    <3>2. new.ent = Entry(enq) BY <1>0 DEF Locals
    <3> HIDE DEF new, e
    <3>3. pc'[p] = "e_pid" /\ loc'[p] = new /\ Others(p) BY <3>1, LocalAt
    <3>4. /\ DOMAIN log = 1 .. Len(log) /\ Len(log) \in Nat
          /\ DOMAIN log' = 1 .. Len(log) + 1
          /\ \A n \in DOMAIN log : n \in DOMAIN log' /\ log'[n] = log[n]
      <4>1. log \in Seq(Tickets) BY DEF TypeOK, HistoryOK
      <4> QED BY <3>1, <4>1
    <3>5. loc'[p].ent = Len(log) + 1
      <4>1. /\ Len(log) = enq - FirstTicket /\ base.enq = FirstTicket
            /\ enq \in Nat /\ FirstTicket \in Nat
        BY Ranges DEF Lined, Ends
      <4> QED BY <3>2, <3>3, <3>4, <4>1 DEF Entry
    <3>e. /\ \A n \in DOMAIN log' \ {loc'[p].ent} :
                n \in DOMAIN log /\ log'[n] = log[n]
          /\ \A n \in DOMAIN log : n \in DOMAIN log' /\ loc'[p].ent # n
      BY <3>4, <3>5
    <3>6. Starts' /\ \A i \in Slots : Same(i) BY <2>0, StillAt
    <3> QED BY <1>o, <1>l, <2>0, <3>3, <3>6, <3>e DEF StepKind, Kind, Enter
  <2> QED BY <2>1, <2>2
<1>7. CASE EnqOwnerPid(p) BY <1>7, <1>l, SharedKind DEF EnqOwnerPid
<1>8. CASE EnqOwnerTicket(p) \/ EnqOwnerStart(p)
  BY <1>8, <1>d, SharedKind DEF EnqOwnerTicket, EnqOwnerStart
<1>9. CASE EnqAlloc(p)
  <2>0. pc[p] = "e_alloc" /\ slot' = slot /\ log' = log
    BY <1>9 DEF EnqAlloc
  <2>1. Starts' /\ \A i \in Slots : Same(i) BY <2>0, StillAt
  <2>2. CASE (Goto(p, "e_body") \/ Goto(p, "x_gen")) /\ loc' = loc
    BY <1>d, <2>0, <2>1, <2>2, GotoAt, StillKind DEF Moves
  <2>3. ASSUME NEW g, Goto(p, "e_body"), loc' = [loc EXCEPT ![p].pg = g]
        PROVE  StepKind(p)
    <3> DEFINE new == [loc[p] EXCEPT !.pg = g]
    <3>1. new.pos = loc[p].pos /\ new.ent = loc[p].ent BY <1>0 DEF Locals
    <3>2. loc' = [loc EXCEPT ![p] = new] BY <2>3
    <3> HIDE DEF new
    <3>3. pc'[p] = "e_body" /\ loc'[p] = new /\ Others(p)
      BY <2>3, <3>2, LocalAt
    <3> QED BY <1>d, <2>0, <2>1, <3>1, <3>3, StillKind DEF Moves
  <2> QED BY <1>9, <2>2, <2>3 DEF EnqAlloc
<1>10. CASE EnqExhausted(p)
  <2>1. /\ pc[p] = "x_gen" /\ Goto(p, "x_seq") /\ slot' = slot /\ log' = log
        /\ loc' = loc
    BY <1>0, <1>10, <1>l DEF EnqExhausted
  <2> QED BY <1>0, <1>d, <2>1, GotoAt, StillAt, StillKind DEF Moves, Starts
<1>11. CASE EnqTombstone(p)
  <2> DEFINE new == [slot[I(p)] EXCEPT !.seq = loc[p].pos + Capacity]
  <2>0. /\ pc[p] = "x_seq" /\ Goto(p, "x_pid") /\ loc' = loc
        /\ Fate(loc[p].ent, "void")
        /\ slot' = slot \/ slot' = [slot EXCEPT ![I(p)] = new]
    BY <1>11 DEF EnqTombstone, CasSeq
  <2>1. new.start = FirstStart /\ new.pid = slot[I(p)].pid
        /\ new.seq = loc[p].pos + Capacity
    BY <1>0 DEF SlotWords
  <2> HIDE DEF new
  <2>2. pc'[p] = "x_pid" /\ loc'[p] = loc[p] /\ Others(p) BY <2>0, GotoAt
  <2>3. /\ Starts' /\ Elsewhere(p) /\ slot'[I(p)].pid = slot[I(p)].pid
        /\ slot'[I(p)].seq \in {slot[I(p)].seq, loc[p].pos + Capacity}
    BY <1>0, <2>0, <2>1, WriteAt, StillAt DEF Elsewhere, Same, Starts
  <2>4. /\ DOMAIN log' = DOMAIN log
        /\ \A n \in DOMAIN log \ {loc[p].ent} : log'[n] = log[n]
        /\ log'[loc[p].ent].fate = "void"
    <3>1. loc[p].ent \in DOMAIN log BY <1>l, <2>0, InsideOwns DEF Lined
    <3>2. log[loc[p].ent] \in Tickets
      BY <3>1 DEF TypeOK, HistoryOK
    <3> QED BY <2>0, <3>1, <3>2 DEF Fate, Tickets
  <2> QED BY <1>l, <2>0, <2>2, <2>3, <2>4 DEF StepKind, Kind, Leave
<1>12. CASE EnqTombstonePid(p) \/ EnqClearPid(p)
  BY <1>12, <1>l, SharedKind DEF EnqTombstonePid, EnqClearPid
<1>13. CASE EnqTombstoneTicket(p) \/ EnqClearTicket(p)
  BY <1>13, <1>l, <1>r, SharedKind DEF EnqTombstoneTicket, EnqClearTicket
<1>14. CASE EnqPayload(p)
  <2> DEFINE new == [slot[I(p)] EXCEPT !.body = loc[p].msg]
  <2>1. /\ new.start = FirstStart /\ new.pid = slot[I(p)].pid
        /\ new.seq = slot[I(p)].seq
    BY <1>0 DEF SlotWords
  <2>2. /\ slot' = [slot EXCEPT ![I(p)] = new] /\ Goto(p, "e_ovf")
        /\ pc[p] = "e_body" /\ loc' = loc /\ log' = log
    BY <1>14 DEF EnqPayload
  <2> HIDE DEF new
  <2> QED BY <1>0, <1>d, <2>1, <2>2, DeepKind
<1>15. CASE EnqOverflow(p)
  <2> DEFINE new == [slot[I(p)] EXCEPT !.ovf = loc[p].pg]
  <2>1. /\ new.start = FirstStart /\ new.pid = slot[I(p)].pid
        /\ new.seq = slot[I(p)].seq
    BY <1>0 DEF SlotWords
  <2>2. /\ slot' = [slot EXCEPT ![I(p)] = new] /\ Goto(p, "e_gen")
        /\ pc[p] = "e_ovf" /\ loc' = loc /\ log' = log
    BY <1>15 DEF EnqOverflow, Store
  <2> HIDE DEF new
  <2> QED BY <1>0, <1>d, <2>1, <2>2, DeepKind
<1>16. CASE EnqFence(p)
  <2>1. /\ pc[p] = "e_gen" /\ Goto(p, "e_pub") /\ slot' = slot /\ log' = log
        /\ loc' = loc
    BY <1>0, <1>16, <1>l DEF EnqFence
  <2> QED BY <1>0, <1>d, <2>1, GotoAt, StillAt, StillKind DEF Moves, Starts
<1>17. CASE EnqPublish(p)
  <2> DEFINE e == [log[loc[p].ent] EXCEPT !.fate = "ready"]
             new == [slot[I(p)] EXCEPT !.seq = loc[p].pos + 1]
  <2>1. /\ pc[p] = "e_pub" /\ Goto(p, "c_pid") /\ loc' = loc
        /\ slot' = [slot EXCEPT ![I(p)] = new]
        /\ log' = [log EXCEPT ![loc[p].ent] = e]
    BY <1>17 DEF EnqPublish, Store, Fate
  <2>2. /\ new.start = FirstStart /\ new.pid = slot[I(p)].pid
        /\ new.seq = loc[p].pos + 1
    BY <1>0 DEF SlotWords
  <2>3. e.fate = "ready" BY <1>e, <1>l, <2>1 DEF Tickets
  <2> HIDE DEF e, new
  <2> QED BY <1>0, <1>l, <2>1, <2>2, <2>3, LeaveKind
<1>18. CASE EnqLastFence(p)
  <2>1. pc[p] = "c_gen" /\ slot' = slot /\ log' = log /\ Return(p)
    BY <1>0, <1>18, <1>l DEF EnqLastFence
  <2> QED BY <1>o, <1>r, <2>1, ReturnAt, RoamKind
<1> QED
  BY <1>1, <1>2, <1>3, <1>4, <1>5, <1>6, <1>7, <1>8, <1>9, <1>10, <1>11,
     <1>12, <1>13, <1>14, <1>15, <1>16, <1>17, <1>18
  DEF Enqueue

LEMMA DequeueKind ==
  ASSUME TypeOK, Lined, Starts, SameStart, Fresh, NEW p \in Procs,
         VictimOK(p), Dequeue(p)
  PROVE  StepKind(p)
<1> USE DEF ghost
<1>0. /\ loc[p] \in Locals /\ slot[I(p)] \in SlotWords
      /\ slot[I(p)].start = FirstStart /\ I(p) \in Slots
      /\ pc[p] \in Sampled => gen = loc[p].gen
  BY IndexOK DEF TypeOK, Fresh, Starts
<1>o. {"idle", "d_pos", "d_gen", "d_seq", "d_owner", "d_skip", "d_cas",
       "t_ovf", "t_claim", "t_free"}
         \subseteq Outer \ {"e_dead", "d_dead", "r_cas"}
  BY OuterLabels
<1>r. \A l : l \in {"idle", "d_pos", "d_gen", "d_seq", "d_owner", "d_skip",
                     "d_cas", "t_ovf", "t_claim", "t_free"} => Roams(l)
  BY <1>o DEF Roams
<1>d. /\ Deeper("d_fence", "d_exp") /\ Deeper("d_exp", "d_pid")
      /\ Deeper("d_exp", "t_seq") /\ Deeper("d_ticket", "d_start")
      /\ Deeper("d_start", "d_ovf") /\ Deeper("d_ovf", "d_copy")
      /\ Deeper("d_copy", "d_claim") /\ Deeper("d_copy", "d_rec")
      /\ Deeper("d_claim", "d_free") /\ Deeper("d_claim", "d_rec")
      /\ Deeper("d_free", "d_rec")
  BY DEF Deeper, Signing, Inside, Reading, Writing
<1>m. /\ \A l, m : Deeper(l, m) => Moves(l, m)
      /\ Moves("t_ovf", "t_claim") /\ Moves("t_ovf", "d_pos")
      /\ Moves("t_claim", "t_free") /\ Moves("t_claim", "d_pos")
      /\ Moves("t_free", "d_pos")
  BY <1>o, <1>r DEF Moves
<1>l. /\ {"t_seq", "d_rec", "d_pid"} \subseteq Inside
      /\ {"t_pid", "y_pid", "t_ticket", "y_ticket"} \subseteq LateClear
      /\ "y_pid" \in Signing /\ "t_seq" \notin Signing
      /\ {"t_ticket", "y_ticket"} \cap Signing = {}
      /\ "d_fence" \in Sampled /\ "d_ticket" \in Inside \cap Signing
      /\ "d_fence" \in Inside \ Signing
  BY SampledLabels
  DEF Signing, Inside, Writing, Reading, LateClear, DeqPcs
<1>e. pc[p] \in Inside => log[loc[p].ent] \in Tickets
  BY InsideOwns DEF Lined, TypeOK, HistoryOK
<1>1. CASE DeqLoadPos(p)
  <2> DEFINE new == [Blank EXCEPT !.pos = deq, !.ret = "d_pos"]
  <2>1. /\ Goto(p, "d_gen") /\ loc' = [loc EXCEPT ![p] = new]
        /\ pc[p] \in {"idle", "d_pos"} /\ slot' = slot /\ log' = log
    BY <1>1 DEF DeqLoadPos
  <2> HIDE DEF new
  <2> QED BY <1>o, <1>r, <2>1, LocalAt, RoamKind
<1>2. CASE DeqLoadGen(p)
  <2> DEFINE new == [loc[p] EXCEPT !.gen = gen]
  <2>1. /\ Goto(p, "d_seq") /\ loc' = [loc EXCEPT ![p] = new]
        /\ pc[p] = "d_gen" /\ slot' = slot /\ log' = log
    BY <1>2 DEF DeqLoadGen
  <2> HIDE DEF new
  <2> QED BY <1>o, <1>r, <2>1, LocalAt, RoamKind
<1>3. CASE DeqLoadSeq(p)
  <2>1. /\ pc[p] = "d_seq" /\ slot' = slot /\ log' = log /\ loc' = loc
        /\ Goto(p, "d_owner") \/ Goto(p, "d_skip") \/ Goto(p, "d_cas")
    BY <1>3 DEF DeqLoadSeq
  <2> QED BY <1>o, <1>r, <2>1, GotoAt, RoamKind
<1>4. CASE DeqLoadOwnerPid(p)
  BY <1>4, <1>o, SharedKind DEF DeqLoadOwnerPid
<1>5. CASE DeqCheckDead(p) BY <1>5, DeadKind DEF DeqCheckDead
<1>6. CASE DeqSkip(p)
  <2>1. /\ pc[p] = "d_skip" /\ slot' = slot /\ log' = log /\ loc' = loc
        /\ Goto(p, "d_pos")
    BY <1>6 DEF DeqSkip
  <2> QED BY <1>o, <1>r, <2>1, GotoAt, RoamKind
<1>7. CASE DeqClaim(p)
  <2>0. pc[p] = "d_cas" /\ slot' = slot BY <1>7 DEF DeqClaim
  <2>1. CASE deq # loc[p].pos
    <3>1. Goto(p, "d_pos") /\ loc' = loc /\ log' = log
      BY <1>7, <2>1 DEF DeqClaim
    <3> QED BY <1>o, <1>r, <2>0, <3>1, GotoAt, RoamKind
  <2>2. CASE deq = loc[p].pos
    <3> DEFINE new == [loc[p] EXCEPT !.ent = Taken(deq)]
    <3>1. /\ Fate(Taken(deq), "taken") /\ loc' = [loc EXCEPT ![p] = new]
          /\ Goto(p, "d_fence")
      BY <1>7, <2>2 DEF DeqClaim
    <3>2. new.ent = Taken(deq) BY <1>0 DEF Locals
    <3> HIDE DEF new
    <3>3. pc'[p] = "d_fence" /\ loc'[p] = new /\ Others(p) BY <3>1, LocalAt
    <3>4. log[Taken(deq)].fate = "ready" BY <2>0, <2>2, HeadReady
    <3>5. DOMAIN log' = DOMAIN log
          /\ \A n \in DOMAIN log : n # Taken(deq) => log'[n] = log[n]
      BY <3>1 DEF Fate
    <3>6. Starts' /\ \A i \in Slots : Same(i) BY <2>0, StillAt
    <3>7. /\ \A n \in DOMAIN log' \ {loc'[p].ent} :
                n \in DOMAIN log /\ log'[n] = log[n]
          /\ \A n \in DOMAIN log : /\ n \in DOMAIN log'
                                   /\ log[n].fate # "ready" => loc'[p].ent # n
      BY <3>2, <3>3, <3>4, <3>5
    <3> QED BY <1>o, <1>l, <2>0, <3>3, <3>6, <3>7 DEF StepKind, Kind, Enter
  <2> QED BY <2>1, <2>2
<1>8. CASE DeqFence(p)
  <2>1. /\ pc[p] = "d_fence" /\ Goto(p, "d_exp") /\ slot' = slot
        /\ log' = log /\ loc' = loc
    BY <1>0, <1>8, <1>l DEF DeqFence
  <2> QED BY <1>0, <1>d, <1>m, <2>1, GotoAt, StillAt, StillKind DEF Starts
<1>9. CASE DeqExpiry(p)
  <2>1. /\ pc[p] = "d_exp" /\ (Goto(p, "d_pid") \/ Goto(p, "t_seq"))
        /\ slot' = slot /\ log' = log /\ loc' = loc
    BY <1>9 DEF DeqExpiry
  <2> QED BY <1>0, <1>d, <1>m, <2>1, GotoAt, StillAt, StillKind DEF Starts
<1>10. \A v : [slot[I(p)] EXCEPT !.seq = v].start = FirstStart
             /\ [slot[I(p)] EXCEPT !.seq = v].pid = slot[I(p)].pid
             /\ [slot[I(p)] EXCEPT !.seq = v].seq = v
  BY <1>0 DEF SlotWords
<1>11. CASE DeqExpire(p)
  <2> DEFINE e == [log[loc[p].ent] EXCEPT !.fate = "expired"]
             new == [slot[I(p)] EXCEPT !.seq = loc[p].pos + Capacity]
  <2>1. /\ pc[p] = "t_seq" /\ Goto(p, "t_pid") /\ loc' = loc
        /\ slot' = [slot EXCEPT ![I(p)] = new]
        /\ log' = [log EXCEPT ![loc[p].ent] = e]
    BY <1>11 DEF DeqExpire, Fate, Store
  <2>2. /\ new.start = FirstStart /\ new.pid = slot[I(p)].pid
        /\ new.seq = loc[p].pos + Capacity
    BY <1>10
  <2>3. e.fate = "expired" BY <1>e, <1>l, <2>1 DEF Tickets
  <2> HIDE DEF e, new
  <2> QED BY <1>0, <1>l, <2>1, <2>2, <2>3, LeaveKind
<1>12. CASE DeqRecycle(p)
  <2> DEFINE e == [log[loc[p].ent] EXCEPT !.fate = "delivered",
                                        !.got = loc[p].msg]
             new == [slot[I(p)] EXCEPT !.seq = loc[p].pos + Capacity]
  <2>1. /\ pc[p] = "d_rec" /\ Goto(p, "y_pid") /\ loc' = loc
        /\ slot' = [slot EXCEPT ![I(p)] = new]
        /\ log' = [log EXCEPT ![loc[p].ent] = e]
    BY <1>12 DEF DeqRecycle, Store
  <2>2. /\ new.start = FirstStart /\ new.pid = slot[I(p)].pid
        /\ new.seq = loc[p].pos + Capacity
    BY <1>10
  <2>3. e.fate = "delivered" BY <1>e, <1>l, <2>1 DEF Tickets
  <2> HIDE DEF e, new
  <2> QED BY <1>0, <1>l, <2>1, <2>2, <2>3, LeaveKind
<1>13. CASE DeqExpirePid(p) \/ DeqClearPid(p)
  BY <1>13, <1>l, SharedKind DEF DeqExpirePid, DeqClearPid
<1>14. CASE DeqExpireTicket(p) \/ DeqClearTicket(p)
  BY <1>14, <1>l, <1>r, SharedKind DEF DeqExpireTicket, DeqClearTicket
<1>15. CASE DeqExpireLoad(p) \/ DeqExpireClaim(p) \/ DeqExpireFree(p)
  BY <1>15, <1>m, SharedKind
  DEF DeqExpireLoad, DeqExpireClaim, DeqExpireFree
<1>16. CASE DeqOwnerPid(p) BY <1>16, <1>l, SharedKind DEF DeqOwnerPid
<1>17. CASE DeqOwnerTicket(p) \/ DeqOwnerStart(p)
  BY <1>17, <1>d, SharedKind DEF DeqOwnerTicket, DeqOwnerStart
<1>18. CASE DeqLoadOverflow(p) \/ DeqClaimOverflow(p) \/ DeqFree(p)
  BY <1>18, <1>d, <1>m, SharedKind
  DEF DeqLoadOverflow, DeqClaimOverflow, DeqFree
<1>19. CASE DeqCopy(p)
  <2>0. PICK m : loc' = [loc EXCEPT ![p].msg = m] BY <1>19 DEF DeqCopy
  <2> DEFINE new == [loc[p] EXCEPT !.msg = m]
  <2>1. new.pos = loc[p].pos /\ new.ent = loc[p].ent BY <1>0 DEF Locals
  <2>2. loc' = [loc EXCEPT ![p] = new] BY <2>0
  <2>3. /\ pc[p] = "d_copy" /\ (Goto(p, "d_claim") \/ Goto(p, "d_rec"))
        /\ slot' = slot /\ log' = log
    BY <1>19 DEF DeqCopy
  <2> HIDE DEF new
  <2>4. /\ pc'[p] \in {"d_claim", "d_rec"} /\ loc'[p] = new /\ Others(p)
    BY <2>2, <2>3, LocalAt
  <2> QED BY <1>0, <1>d, <1>m, <2>1, <2>3, <2>4, StillAt, StillKind DEF Starts
<1> QED
  BY <1>1, <1>2, <1>3, <1>4, <1>5, <1>6, <1>7, <1>8, <1>9, <1>11, <1>12,
     <1>13, <1>14, <1>15, <1>16, <1>17, <1>18, <1>19
  DEF Dequeue

LEMMA RepairKind ==
  ASSUME TypeOK, Starts, SameStart, NEW p \in Procs, VictimOK(p), MendOK(p),
         loc[p].ret # "k_done", Repair(p)
  PROVE  StepKind(p)
<1> USE DEF ghost
<1>0. /\ loc[p] \in Locals /\ slot[I(p)] \in SlotWords
      /\ slot[I(p)].start = FirstStart /\ I(p) \in Slots
  BY IndexOK DEF TypeOK, Starts
<1>r. /\ Roams(loc[p].ret) /\ "r_cas" \in Outer
      /\ {"r_clear", "r_zero"} \subseteq LateClear \ Signing
      /\ {"r_ticket", "r_seq", "r_ovf", "r_claim", "r_free", "r_fix"}
            \subseteq Repairing
  BY <1>0, OuterLabels
  DEF Roams, Locals, LateClear, Signing, Writing, Reading, Repairing,
      RepairPcs
\* Inside the repair the slot's words stay what MendOK says of them.
<1>m. ASSUME NEW l \in Repairing, pc[p] \in Repairing, pc'[p] = l, Others(p),
             loc'[p].pos = loc[p].pos, Starts', \A i \in Slots : Same(i),
             log' = log,
             l # "r_ticket" => loc'[p].tgt = slot[I(p)].ticket + Capacity,
             l \notin {"r_ticket", "r_seq"} => loc'[p].obs = slot[I(p)].seq
      PROVE  StepKind(p)
  <2>1. I(p)' = I(p) BY <1>m DEF I
  <2>2. MendOK(p)' BY <1>0, <1>m, <2>1 DEF MendOK, Same
  <2> QED BY <1>m, <2>2 DEF StepKind, Kind, Mend
<1>1. CASE RecoverClaim(p)
  <2>0. pc[p] = "r_cas" /\ loc' = loc /\ log' = log
    BY <1>1 DEF RecoverClaim
  <2>1. CASE slot[I(p)].pid # loc[p].vic
    <3>1. Goto(p, loc[p].ret) /\ slot' = slot
      BY <1>1, <2>1 DEF RecoverClaim
    <3> QED BY <1>r, <2>0, <3>1, GotoAt, RoamKind
  <2>2. CASE slot[I(p)].pid = loc[p].vic
    <3> DEFINE new == [slot[I(p)] EXCEPT !.pid = Recovering]
    <3>1. Goto(p, "r_ticket") /\ slot' = [slot EXCEPT ![I(p)] = new]
      BY <1>1, <2>2 DEF RecoverClaim
    <3>2. /\ new.start = FirstStart /\ new.pid = Recovering
          /\ new.seq = slot[I(p)].seq /\ new.ticket = slot[I(p)].ticket
      BY <1>0 DEF SlotWords
    <3> HIDE DEF new
    <3>3. Starts' /\ Elsewhere(p) /\ slot'[I(p)] = new
      BY <3>1, <3>2, WriteAt
    <3>4. pc'[p] = "r_ticket" /\ loc'[p] = loc[p] /\ Others(p)
      BY <2>0, <3>1, GotoAt
    <3> QED BY <2>0, <2>2, <3>2, <3>3, <3>4 DEF StepKind, Kind, Elect
  <2> QED BY <2>1, <2>2
<1>2. CASE RecoverTicket(p)
  <2> DEFINE new == [loc[p] EXCEPT !.tgt = slot[I(p)].ticket + Capacity]
  <2>1. /\ pc[p] = "r_ticket" /\ Goto(p, "r_seq") /\ slot' = slot
        /\ log' = log /\ loc' = [loc EXCEPT ![p] = new]
    BY <1>2 DEF RecoverTicket
  <2>2. new.pos = loc[p].pos /\ new.tgt = slot[I(p)].ticket + Capacity
    BY <1>0 DEF Locals
  <2> HIDE DEF new
  <2>3. pc'[p] = "r_seq" /\ loc'[p] = new /\ Others(p) BY <2>1, LocalAt
  <2> QED BY <1>m, <1>r, <2>1, <2>2, <2>3, StillAt
<1>3. CASE RecoverSeq(p)
  <2> DEFINE new == [loc[p] EXCEPT !.obs = slot[I(p)].seq]
  <2>1. /\ pc[p] = "r_seq" /\ Goto(p, "r_ovf") /\ slot' = slot
        /\ log' = log /\ loc' = [loc EXCEPT ![p] = new]
    BY <1>3 DEF RecoverSeq
  <2>2. new.pos = loc[p].pos /\ new.obs = slot[I(p)].seq
        /\ new.tgt = loc[p].tgt
    BY <1>0 DEF Locals
  <2> HIDE DEF new
  <2>3. pc'[p] = "r_ovf" /\ loc'[p] = new /\ Others(p) BY <2>1, LocalAt
  <2>4. loc[p].tgt = slot[I(p)].ticket + Capacity BY <1>r, <2>1 DEF MendOK
  <2> QED BY <1>m, <1>r, <2>1, <2>2, <2>3, <2>4, StillAt
<1>4. CASE RepairLoadOverflow(p)
  <2> DEFINE new == [loc[p] EXCEPT !.pg = slot[I(p)].ovf]
  <2>1. /\ pc[p] = "r_ovf" /\ (Goto(p, "r_claim") \/ Goto(p, "r_fix"))
        /\ slot' = slot /\ log' = log /\ loc' = [loc EXCEPT ![p] = new]
    BY <1>4 DEF RepairLoadOverflow, LoadOverflow
  <2>2. new.pos = loc[p].pos /\ new.obs = loc[p].obs /\ new.tgt = loc[p].tgt
    BY <1>0 DEF Locals
  <2> HIDE DEF new
  <2>3. pc'[p] \in {"r_claim", "r_fix"} /\ loc'[p] = new /\ Others(p)
    BY <2>1, LocalAt
  <2>4. /\ loc[p].tgt = slot[I(p)].ticket + Capacity
        /\ loc[p].obs = slot[I(p)].seq
    BY <1>r, <2>1 DEF MendOK
  <2> QED BY <1>m, <1>r, <2>1, <2>2, <2>3, <2>4, StillAt
<1>5. CASE RepairClaimOverflow(p) \/ RepairFree(p)
  <2>1. /\ pc[p] \in {"r_claim", "r_free"} /\ loc' = loc /\ log' = log
        /\ Goto(p, "r_free") \/ Goto(p, "r_fix")
    BY <1>5 DEF RepairClaimOverflow, ClaimOverflow, RepairFree, FreePage
  <2>2. pc'[p] \in {"r_free", "r_fix"} /\ loc'[p] = loc[p] /\ Others(p)
    BY <2>1, GotoAt
  <2>3. /\ loc[p].tgt = slot[I(p)].ticket + Capacity
        /\ loc[p].obs = slot[I(p)].seq
    BY <1>r, <2>1 DEF MendOK
  <2>4. Starts' /\ \A i \in Slots : Same(i)
    <3>1. CASE slot' = slot BY <3>1, StillAt
    <3>2. CASE slot' = [slot EXCEPT ![I(p)].ovf = None]
      <4> DEFINE new == [slot[I(p)] EXCEPT !.ovf = None]
      <4>1. new.start = FirstStart /\ new.seq = slot[I(p)].seq
            /\ new.pid = slot[I(p)].pid /\ new.ticket = slot[I(p)].ticket
        BY <1>0 DEF SlotWords
      <4>2. slot' = [slot EXCEPT ![I(p)] = new] BY <3>2
      <4> HIDE DEF new
      <4>3. Starts' /\ Elsewhere(p) /\ slot'[I(p)] = new
        BY <4>1, <4>2, WriteAt
      <4> QED BY <4>1, <4>3 DEF Elsewhere, Same
    <3> QED BY <1>5, <3>1, <3>2
        DEF RepairClaimOverflow, ClaimOverflow, RepairFree, FreePage
  <2> QED BY <1>m, <1>r, <2>1, <2>2, <2>3, <2>4
<1>6. CASE RepairSeq(p)
  <2> DEFINE new == [slot[I(p)] EXCEPT !.seq = loc[p].tgt]
  <2>1. /\ pc[p] = "r_fix" /\ loc' = loc /\ log' = log /\ Goto(p, "r_clear")
        /\ slot' = IF slot[I(p)].seq = loc[p].obs
                   THEN [slot EXCEPT ![I(p)] = new] ELSE slot
    BY <1>6 DEF RepairSeq, CasSeq
  <2>2. /\ new.start = FirstStart /\ new.pid = slot[I(p)].pid
        /\ new.seq = loc[p].tgt
    BY <1>0 DEF SlotWords
  <2> HIDE DEF new
  <2>3. pc'[p] = "r_clear" /\ loc'[p] = loc[p] /\ Others(p) BY <2>1, GotoAt
  <2>4. CASE slot[I(p)].seq = loc[p].obs
    BY <2>1, <2>2, <2>3, <2>4, WriteAt DEF StepKind, Kind, Fix
  <2>5. CASE slot[I(p)].seq # loc[p].obs
    BY <2>1, <2>3, <2>5, StillAt DEF StepKind, Kind, Fix, Elsewhere
  <2> QED BY <2>4, <2>5
<1>7. CASE RepairClearOwner(p)
  <2> DEFINE new == [slot[I(p)] EXCEPT !.pid = None]
  <2>1. /\ pc[p] = "r_clear" /\ loc' = loc /\ log' = log /\ Goto(p, "r_zero")
        /\ slot' = slot \/ slot' = [slot EXCEPT ![I(p)] = new]
    BY <1>7 DEF RepairClearOwner
  <2>2. new.start = FirstStart /\ new.pid = None /\ new.seq = slot[I(p)].seq
    BY <1>0 DEF SlotWords
  <2> HIDE DEF new
  <2>3. pc'[p] = "r_zero" /\ loc'[p] = loc[p] /\ Others(p) BY <2>1, GotoAt
  <2>4. /\ Starts' /\ Elsewhere(p)
        /\ slot'[I(p)].pid \in {slot[I(p)].pid, None}
        /\ slot'[I(p)].seq = slot[I(p)].seq
    BY <2>1, <2>2, WriteAt, StillAt DEF Elsewhere
  <2> QED BY <1>r, <2>1, <2>3, <2>4 DEF StepKind, Kind, Clear
<1>8. CASE RepairClearTicket(p)
  BY <1>8, <1>r, SharedKind DEF RepairClearTicket
<1> QED BY <1>1, <1>2, <1>3, <1>4, <1>5, <1>6, <1>7, <1>8 DEF Repair

-----------------------------------------------------------------------------
(* The repair keeps the order of the ring.                                 *)

LEMMA RepairLined ==
  ASSUME TypeOK, Lined, Records, NEW p \in Procs, Repair(p), StepKind(p)
  PROVE  Lined'
<1> USE DEF ghost, positions
<1>0. /\ loc[p] \in Locals /\ slot[I(p)] \in SlotWords /\ I(p) \in Slots
      /\ MendOK(p) /\ GivenUp(I(p))
  BY IndexOK DEF TypeOK, Records
<1>s. slot' = slot => SameSeqs BY DEF SameSeqs
<1>f. \A at, l : l \in RepairPcs => Fits(at, l) BY PlainLabels DEF Fits
<1>r. loc[p].ret \in Plain BY <1>0, PlainLabels DEF Locals, CompactPcs
<1> USE DEF RepairPcs
<1>1. CASE RecoverClaim(p)
  <2> DEFINE new == [slot[I(p)] EXCEPT !.pid = Recovering]
  <2>1. new.seq = slot[I(p)].seq BY <1>0 DEF SlotWords
  <2>2. /\ slot' = slot \/ slot' = [slot EXCEPT ![I(p)] = new]
        /\ Goto(p, "r_ticket") \/ Goto(p, loc[p].ret)
        /\ loc' = loc /\ UNCHANGED <<enq, deq, log, base>>
    BY <1>1 DEF RecoverClaim
  <2> HIDE DEF new
  <2>3. SameSeqs BY <1>s, <2>1, <2>2, SlotMove
  <2>4. Fits(pc[p], "r_ticket") /\ Fits(pc[p], loc[p].ret)
    BY <1>f, <1>r DEF Fits
  <2> QED BY <2>2, <2>3, <2>4, GotoMove DEF Held
<1>2. CASE RecoverTicket(p)
  BY <1>2, <1>s, PlainLabels, LocalMove DEF RecoverTicket, Held
<1>3. CASE RecoverSeq(p)
  BY <1>3, <1>s, PlainLabels, LocalMove DEF RecoverSeq, Held
<1>4. CASE RepairLoadOverflow(p)
  BY <1>4, <1>f, SharedMove DEF RepairLoadOverflow, Held
<1>5. CASE RepairClaimOverflow(p)
  BY <1>5, <1>f, SharedMove DEF RepairClaimOverflow, Held
<1>6. CASE RepairFree(p) BY <1>6, <1>f, SharedMove DEF RepairFree, Held
<1>7. CASE RepairSeq(p)
  <2>0. pc[p] = "r_fix" /\ "r_fix" \in Repairing
    BY <1>7 DEF RepairSeq, Repairing
  <2>2. Fix(p) /\ Others(p)
    <3>1. pc'[p] = "r_clear" BY <1>7, GotoPc DEF RepairSeq, TypeOK
    <3>2. /\ pc[p] \notin Outer \cup Inside \cup LateClear \cup {"r_cas"}
          /\ pc'[p] \notin Repairing
      BY <2>0, <3>1, SlotLabels, OuterLabels
    <3> QED BY <3>2
        DEF StepKind, Kind, Away, Enter, Within, Leave, Clear, Elect, Mend
  <2>3. PICK n \in DOMAIN log : Orphan(I(p), n)
    BY <1>0, <2>0 DEF GivenUp, Repaired
  <2>4. slot'[I(p)].seq = Ticket(n) + Capacity
    BY <1>0, <2>0, <2>2, <2>3 DEF Fix, MendOK, Orphan
  <2> DEFINE s == Ticket(n) + Capacity
             f == log[n].fate
  <2>5. \A i \in Slots : slot'[i].seq =
                           IF i = Lap(Ticket(n)) THEN s ELSE slot[i].seq
    BY <2>2, <2>3, <2>4 DEF Fix, Elsewhere, Same, Orphan
  <2>6. Closing(n, f, s) /\ ~Past(n)
    BY <2>3 DEF Closing, Orphan
  <2>7. \A q \in Procs \ {p} : pc[q] \in Inside => loc[q].ent # n
    BY <2>3 DEF Orphan
  <2>8. SetFate(n, f) BY <1>7 DEF RepairSeq, SetFate, TypeOK, HistoryOK
  <2>9. pc'[p] \in Plain /\ UNCHANGED <<enq, deq, base>>
    BY <1>7, <2>2, PlainLabels DEF Fix, RepairSeq
  <2> HIDE DEF s, f
  <2> QED BY <2>2, <2>5, <2>6, <2>7, <2>8, <2>9, Close
<1>8. CASE RepairClearOwner(p)
  <2> DEFINE new == [slot[I(p)] EXCEPT !.pid = None]
  <2>1. new.seq = slot[I(p)].seq BY <1>0 DEF SlotWords
  <2>2. /\ slot' = slot \/ slot' = [slot EXCEPT ![I(p)] = new]
        /\ Goto(p, "r_zero") /\ loc' = loc /\ UNCHANGED <<enq, deq, log, base>>
    BY <1>8 DEF RepairClearOwner
  <2> HIDE DEF new
  <2>3. SameSeqs BY <1>s, <2>1, <2>2, SlotMove
  <2> QED BY <1>f, <2>2, <2>3, GotoMove DEF Held
<1>9. CASE RepairClearTicket(p)
  BY <1>9, <1>r, SharedMove DEF RepairClearTicket, Fits, Held
<1> QED BY <1>1, <1>2, <1>3, <1>4, <1>5, <1>6, <1>7, <1>8, <1>9 DEF Repair

-----------------------------------------------------------------------------
(* The invariant beside crashes.                                           *)

\* A step of a call or of the repair keeps it.
LEMMA HotPathMindful ==
  ASSUME TypeOK, SameStart, Mindful, NEW p \in Procs, HotPath(p)
  PROVE  Mindful' /\ StepKind(p)
<1>0. Lined /\ Starts /\ Fresh /\ Records /\ VictimOK(p) /\ MendOK(p)
  BY DEF Mindful, Records
<1>h. Repair(p) => loc[p].ret # "k_done"
  <2> SUFFICES ASSUME Repair(p) PROVE pc[p] \notin CompactPcs
    BY DEF Mindful, Homed
  <2>1. pc[p] \in RepairPcs
    BY DEF Repair, RecoverClaim, RecoverTicket, RecoverSeq,
           RepairLoadOverflow, LoadOverflow, RepairClaimOverflow,
           ClaimOverflow, RepairFree, FreePage, RepairSeq, RepairClearOwner,
           RepairClearTicket, ClearTicketReturn, StoreOwnerTicket, Store,
           RepairPcs
  <2> QED BY <2>1 DEF RepairPcs, CompactPcs
<1>1. StepKind(p)
  BY <1>0, <1>h, EnqueueKind, DequeueKind, RepairKind DEF HotPath
<1>2. Steady(p)
  BY EnqueueSteady, DequeueSteady, RepairSteady DEF HotPath, TypeOK
<1>3. Lined'
  BY <1>0, <1>1, EnqueueOrdered, DequeueOrdered, RepairLined
  DEF HotPath, Held
<1>4. Records' BY <1>0, <1>1, KindRecords DEF StepKind
<1>5. Fresh' BY <1>0, <1>2 DEF Fresh, Steady, Sampled
<1>6. Homed'
  <2>1. pc[p] \notin CompactPcs
    BY <1>1, OuterLabels
    DEF StepKind, Kind, Away, Enter, Within, Leave, Clear, Elect, Mend, Fix,
        CompactPcs, Inside, Writing, Reading, LateClear, Repairing, RepairPcs
  <2> QED BY <1>2, <2>1 DEF Mindful, Homed, Steady
<1> QED BY <1>0, <1>1, <1>3, <1>4, <1>5, <1>6 DEF Mindful, StepKind

LEMMA CrashMindful ==
  ASSUME TypeOK, Mindful, NEW p \in Procs, Crash(p), Settled(p),
         pc[p] \in Inside
  PROVE  Mindful'
<1>1. Lined' /\ Records'
  BY CrashLined, CrashRecords DEF Mindful
<1>2. Starts' BY DEF Mindful, Starts, Crash
<1>3. Fresh'
  BY DEF Mindful, Fresh, Crash, Sampled, TypeOK, WordsOK
<1>4. Homed'
  BY DEF Mindful, Homed, Crash, TypeOK, WordsOK, Blank, CompactPcs
<1> QED BY <1>1, <1>2, <1>3, <1>4 DEF Mindful

LEMMA InitMindful == Init => Mindful
<1> SUFFICES ASSUME Init PROVE Mindful OBVIOUS
<1>1. Lined BY InitOrdered DEF Ordered
<1>2. \A p \in Procs : pc[p] = "idle" BY DEF Init
<1>3. "idle" \notin Repairing \cup Sampled \cup {"e_dead", "d_dead", "r_cas",
                                                 "dead"}
  BY DEF Repairing, RepairPcs, Sampled
<1>4. Starts /\ Fresh BY <1>2, <1>3 DEF Starts, Fresh, Init
<1>5. \A i \in Slots : slot[i].pid = None BY DEF Init
<1>6. Records
  BY <1>2, <1>3, <1>5, ConstantAssumption
  DEF Records, Signed, GivenUp, Dead, Repaired, VictimOK, MendOK, OneMender
<1>7. Homed BY DEF Homed, Init, Blank
<1> QED BY <1>1, <1>4, <1>6, <1>7 DEF Mindful

LEMMA MindfulSafe ==
  ASSUME TypeOK, Lined
  PROVE  SlotExclusive /\ AcceptedNotSkipped
<1>1. SlotExclusive BY LinedExclusive
<1>2. AcceptedNotSkipped
  <2> SUFFICES ASSUME NEW n \in DOMAIN log, n <= deq - base.deq
               PROVE  log[n].fate # "ready"
    BY DEF AcceptedNotSkipped
  <2>0. Ends /\ Entries BY DEF Lined
  <2>1. Ticket(n) < deq BY <2>0, Ranges DEF Ends, Ticket
  <2> QED BY <2>0, <2>1 DEF Entries, EntryOK
<1> QED BY <1>1, <1>2

-----------------------------------------------------------------------------
(* The invariant where nothing compacts.                                   *)

\* A crash strikes inside the slot whose record is settled.
CrashesRecorded == SameStart /\ Recorded /\ CrashPcs \subseteq Inside

LEMMA StillMindful ==
  ASSUME Mindful, UNCHANGED rvars
  PROVE  Mindful'
<1>0. /\ enq' = enq /\ deq' = deq /\ gen' = gen /\ slot' = slot
      /\ pc' = pc /\ loc' = loc /\ log' = log /\ base' = base
  BY DEF rvars, vars
<1>1. Lined'
  BY <1>0
  DEF Mindful, Lined, Ends, Rounds, Round, Entries, EntryOK, Calls, CallOK,
      Owns, Alone, Past, Ticket, Taken, SeqOf
<1>2. Starts' /\ Fresh' /\ Homed'
  BY <1>0 DEF Mindful, Starts, Fresh, Homed
<1>3. Records'
  BY <1>0
  DEF Mindful, Records, Signed, GivenUp, Dead, Repaired, Orphan, Past,
      SeqOf, Ticket, VictimOK, MendOK, OneMender, I
<1> QED BY <1>1, <1>2, <1>3 DEF Mindful

LEMMA MindfulInvariance ==
  ASSUME CrashesRecorded, Keepers = {}
  PROVE  RSpec => []Mindful
<1>1. RInit => Mindful BY InitMindful DEF RInit
<1>2. RInv /\ Mindful /\ [RNext]_rvars => Mindful'
  <2> SUFFICES ASSUME RInv, Mindful, [RNext]_rvars PROVE Mindful' OBVIOUS
  <2>0. TypeOK BY DEF RInv, IInv, Tokens, TypeOK
  <2>1. ASSUME NEW p \in Procs, HotPath(p) PROVE Mindful'
    BY <2>0, <2>1, HotPathMindful DEF CrashesRecorded
  <2>2. ASSUME NEW p \in Procs, Crash(p) PROVE Mindful'
    BY <2>0, <2>2, CrashMindful DEF CrashesRecorded, Crash
  <2>3. CASE UNCHANGED rvars BY <2>3, StillMindful
  <2> QED BY <2>1, <2>2, <2>3 DEF RNext
<1> QED BY <1>1, <1>2, RInvariance, PTL DEF RSpec

-----------------------------------------------------------------------------
(***************************************************************************)
(* Beside compact.  Compact takes a slot for stuck when its word is a      *)
(* round behind the frontier.  Such a slot is that of a claimed ticket     *)
(* that nobody is at work on (Tended): while no call is caught inside      *)
(* (Quiet), its recorded owner has crashed.  With one crash at most,       *)
(* compact meets such a slot once, so it marks it and never repairs it:    *)
(* a call that meets the slot has done so (Watch).                         *)
(***************************************************************************)
Open(n) == log[n].fate \in {"claimed", "taken"} /\ ~Past(n)
Tended(n) ==
    \/ \E q \in Procs : pc[q] \in Inside /\ loc[q].ent = n
    \/ Dead(Lap(Ticket(n)))
    \/ Repaired(Lap(Ticket(n)))
AllTended == \A n \in DOMAIN log : Open(n) => Tended(n)
Low == \A i \in Slots : FirstTicket <= slot[i].seq

AtDesk ==
    \A p \in Procs : pc[p] \in CompactPcs =>
        pc[p] \notin {"k_ticket", "k_done"} /\ flock = p
OneDead ==
    /\ crashes = 0 => \A p \in Procs : pc[p] # "dead"
    /\ \A i, j \in Slots : Dead(i) /\ Dead(j) => i = j
Marked ==
    \A i \in Slots : mark[i] = 1 => crashes = 1 /\ \A j \in Slots : ~Dead(j)
Scanned ==
    /\ scan.front <= enq
    /\ \A p \in Procs : pc[p] = "k_pid" /\ Behind(loc[p].obs) =>
          /\ crashes = 1
          /\ \A i \in Slots : mark[i] = 0 /\ (Dead(i) => i = scan.i)
Watch == AtDesk /\ OneDead /\ Marked /\ Scanned
Tidy == Mindful /\ AllTended /\ Low /\ Watch

-----------------------------------------------------------------------------
(* What the kinds of step have in common.                                  *)

LEMMA KindLabels ==
  ASSUME NEW p \in Procs, Kind(p)
  PROVE  /\ pc[p] # "dead" /\ pc'[p] # "dead"
         /\ pc[p] \notin CompactPcs /\ pc'[p] \notin CompactPcs
  BY OuterLabels
  DEF Kind, Away, Enter, Within, Leave, Clear, Elect, Mend, Fix, CompactPcs,
      Inside, Writing, Reading, LateClear, Repairing, RepairPcs

\* No step of a call or of the repair makes a recorded owner dead.
LEMMA KindDead ==
  ASSUME TypeOK, NEW p \in Procs, Others(p), Kind(p), NEW i \in Slots, Dead(i)'
  PROVE  Dead(i)
<1>1. PICK v \in Procs : slot'[i].pid = v /\ pc'[v] = "dead" BY DEF Dead
<1>2. v # p /\ pc[v] = "dead" BY <1>1, KindLabels DEF Others
<1>3. v # None /\ v # Recovering BY ConstantAssumption
<1>4. slot'[i].pid \in {slot[i].pid, p, None}
  <2>1. CASE \A j \in Slots : Same(j) BY <2>1 DEF Same
  <2>2. CASE Elsewhere(p) /\ i # I(p) BY <2>2 DEF Elsewhere, Same
  <2>3. CASE Fix(p) \/ Clear(p) \/ Leave(p) \/ Within(p)
    BY <2>2, <2>3 DEF Fix, Clear, Leave, Within
  <2>4. CASE Elect(p) /\ i = I(p) BY <1>1, <1>3, <2>4 DEF Elect
  <2> QED BY <2>1, <2>2, <2>3, <2>4 DEF Kind, Away, Enter, Elect, Mend
<1> QED BY <1>1, <1>2, <1>3, <1>4 DEF Dead

\* The log only grows.
LEMMA KindGrows ==
  ASSUME NEW p \in Procs, Kind(p)
  PROVE  DOMAIN log \subseteq DOMAIN log'
  BY DEF Kind, Away, Enter, Within, Leave, Clear, Elect, Mend, Fix

\* An entry at whose slot p does nothing stays tended.
LEMMA TendedStays ==
  ASSUME TypeOK, NEW p \in Procs, Others(p), pc[p] # "dead",
         NEW n \in DOMAIN log, Lap(Ticket(n)) \in Slots, Tended(n),
         \/ ~Dead(Lap(Ticket(n)))
         \/ slot'[Lap(Ticket(n))].pid = slot[Lap(Ticket(n))].pid,
         pc[p] \in Inside /\ loc[p].ent = n =>
            pc'[p] \in Inside /\ loc'[p].ent = n,
         pc[p] \in Repairing /\ I(p) = Lap(Ticket(n)) =>
            pc'[p] \in Repairing /\ I(p)' = I(p)
  PROVE  Tended(n)'
<1> DEFINE i == Lap(Ticket(n))
<1>0. Lap(Ticket(n))' = i BY DEF Lap, Ticket
<1>1. CASE \E q \in Procs : pc[q] \in Inside /\ loc[q].ent = n
  <2>1. PICK q \in Procs : pc[q] \in Inside /\ loc[q].ent = n BY <1>1
  <2>2. pc'[q] \in Inside /\ loc'[q].ent = n BY <2>1, OthersAt
  <2> QED BY <2>2 DEF Tended
<1>2. CASE Dead(i)
  <2>1. PICK v \in Procs : slot[i].pid = v /\ pc[v] = "dead"
    BY <1>2 DEF Dead
  <2>2. pc'[v] = "dead" BY <2>1 DEF Others
  <2> QED BY <1>0, <1>2, <2>1, <2>2 DEF Tended, Dead
<1>3. CASE Repaired(i)
  <2>1. PICK q \in Procs : pc[q] \in Repairing /\ I(q) = i
    BY <1>3 DEF Repaired
  <2>2. pc'[q] \in Repairing /\ I(q)' = i BY <2>1, OthersAt
  <2> QED BY <1>0, <2>2 DEF Tended, Repaired
<1> QED BY <1>1, <1>2, <1>3 DEF Tended

\* A slot's word only moves on.
LEMMA KindRises ==
  ASSUME TypeOK, Lined, Records, NEW p \in Procs, Kind(p), NEW i \in Slots
  PROVE  slot'[i].seq \in Nat /\ slot[i].seq <= slot'[i].seq
<1>0. /\ slot[i].seq \in Nat /\ slot[I(p)].seq \in Nat /\ loc[p].pos \in Nat
      /\ Capacity \in Nat /\ Capacity >= 2 /\ I(p) \in Slots
      /\ I(p) = Lap(loc[p].pos)
  BY Ranges DEF Lined
<1>1. CASE \A j \in Slots : Same(j) BY <1>0, <1>1 DEF Same
<1>2. CASE i # I(p) /\ Elsewhere(p) BY <1>0, <1>2 DEF Elsewhere, Same
<1>3. CASE i = I(p) /\ slot'[I(p)].seq = slot[I(p)].seq BY <1>0, <1>3
<1>4. CASE i = I(p) /\ Leave(p)
  <2>1. slot[i].seq \in {loc[p].pos, loc[p].pos + 1}
    BY <1>0, <1>4 DEF Leave, Inside, Lined, Calls, CallOK, SeqOf
  <2> QED BY <1>0, <1>4, <2>1 DEF Leave
<1>5. CASE i = I(p) /\ Fix(p)
  <2>0. pc[p] \in Repairing /\ pc[p] \notin {"r_ticket", "r_seq"}
    BY <1>5 DEF Fix, Repairing, RepairPcs
  <2>1. PICK n \in DOMAIN log : Orphan(i, n)
    BY <1>0, <1>5, <2>0 DEF Records, GivenUp, Repaired
  <2>2. loc[p].tgt = Ticket(n) + Capacity
    BY <1>5, <2>0, <2>1 DEF Records, MendOK, Orphan
  <2>3. slot[i].seq \in {Ticket(n), Ticket(n) + 1}
    BY <2>1 DEF Orphan, Lined, Entries, EntryOK, SeqOf
  <2>4. Ticket(n) \in Nat BY Ranges DEF Lined
  <2> QED BY <1>0, <1>5, <2>2, <2>3, <2>4 DEF Fix
<1> QED
  BY <1>1, <1>2, <1>3, <1>4, <1>5
  DEF Kind, Away, Enter, Within, Leave, Clear, Elect, Mend, Fix

\* Every kind of step leaves the open entries tended.
LEMMA KindTended ==
  ASSUME TypeOK, Lined, Records, AllTended, NEW p \in Procs, Others(p),
         Kind(p), NEW n \in DOMAIN log', Open(n)'
  PROVE  Tended(n)'
<1>0. /\ I(p) \in Slots /\ pc[p] # "dead" /\ I(p) = Lap(loc[p].pos)
      /\ \A k \in DOMAIN log : Ticket(k) \in Nat /\ Lap(Ticket(k)) \in Slots
      /\ \A j \in Slots : /\ slot[j].seq \in Nat /\ slot'[j].seq \in Nat
                          /\ slot[j].seq <= slot'[j].seq
      /\ Capacity \in Nat
  BY Ranges, LapSlot, KindLabels, KindRises DEF Lined
\* An entry whose record p leaves alone was open before.
<1>o. ASSUME n \in DOMAIN log, log'[n] = log[n] PROVE Open(n) /\ Tended(n)
  <2> DEFINE i == Lap(Ticket(n))
  <2>a. i \in Slots /\ Ticket(n) \in Nat BY <1>0, <1>o
  <2>b. /\ slot[i].seq \in Nat /\ slot'[i].seq \in Nat
        /\ slot[i].seq <= slot'[i].seq
    BY <1>0, <2>a
  <2>c. Past(n)' <=> slot'[i].seq >= Ticket(n) + Capacity
    BY DEF Past, SeqOf, Lap, Ticket
  <2>d. Past(n) <=> slot[i].seq >= Ticket(n) + Capacity BY DEF Past, SeqOf
  <2> HIDE DEF i
  <2>f. ~Past(n) BY <1>0, <2>a, <2>b, <2>c, <2>d DEF Open
  <2>1. Open(n) BY <1>o, <2>f DEF Open
  <2> QED BY <1>o, <2>1 DEF AllTended
<1>s. \A i \in Slots : Same(i) => slot'[i].pid = slot[i].pid BY DEF Same
<1>1. CASE Away(p) \/ Mend(p)
  <2>1. n \in DOMAIN log /\ log'[n] = log[n] /\ \A i \in Slots : Same(i)
    BY <1>1 DEF Away, Mend
  <2>2. pc[p] \notin Inside /\ (pc[p] \in Repairing =>
                                 pc'[p] \in Repairing /\ I(p)' = I(p))
    BY <1>1, OuterLabels, SlotLabels DEF Away, Mend, I, Repairing, Inside,
       RepairPcs, Writing, Reading
  <2> QED BY <1>0, <1>o, <1>s, <2>1, <2>2, TendedStays
<1>2. CASE Enter(p)
  <2>1. CASE n = loc'[p].ent BY <1>2, <2>1 DEF Enter, Tended
  <2>2. CASE n # loc'[p].ent
    <3>1. n \in DOMAIN log /\ log'[n] = log[n] /\ \A i \in Slots : Same(i)
      BY <1>2, <2>2 DEF Enter
    <3>2. pc[p] \notin Inside /\ pc[p] \notin Repairing
      BY <1>2, OuterLabels DEF Enter
    <3> QED BY <1>0, <1>o, <1>s, <3>1, <3>2, TendedStays
  <2> QED BY <2>1, <2>2
<1>3. CASE Within(p)
  <2>1. n \in DOMAIN log /\ log'[n] = log[n] BY <1>3 DEF Within
  <2>2. pc[p] \in Inside /\ pc[p] \notin Repairing
        /\ pc'[p] \in Inside /\ loc'[p].ent = loc[p].ent
    BY <1>3, SlotLabels DEF Within
  <2>3. ~Dead(I(p)) BY <1>0, <2>2, InsideHeld DEF Records
  <2>4. \A i \in Slots \ {I(p)} : slot'[i].pid = slot[i].pid
    BY <1>3, <1>s DEF Within, Elsewhere
  <2> QED BY <1>0, <1>o, <2>1, <2>2, <2>3, <2>4, TendedStays
<1>4. CASE Leave(p)
  <2>1. pc[p] \in Inside /\ pc[p] \notin Repairing
    BY <1>4, SlotLabels DEF Leave
  <2>2. loc[p].ent \in DOMAIN log /\ Busy(loc[p].ent)
        /\ Ticket(loc[p].ent) = loc[p].pos
    BY <2>1, InsideBusy, InsideOwns DEF Lined
  <2>3. n # loc[p].ent BY <1>4 DEF Leave, Open
  <2>4. n \in DOMAIN log /\ log'[n] = log[n] BY <1>4, <2>3 DEF Leave
  <2>5. \A i \in Slots : slot'[i].pid = slot[i].pid
    BY <1>4, <1>s DEF Leave, Elsewhere
  <2> QED BY <1>0, <1>o, <2>1, <2>3, <2>4, <2>5, TendedStays
<1>5. CASE Clear(p)
  <2>1. n \in DOMAIN log /\ log'[n] = log[n] BY <1>5 DEF Clear
  <2>2. pc[p] \in LateClear /\ pc[p] \notin Inside \cup Repairing
    BY <1>5, SlotLabels DEF Clear
  <2>3. ~Dead(I(p)) BY <1>0, <2>2 DEF Records, GivenUp
  <2>4. \A i \in Slots \ {I(p)} : slot'[i].pid = slot[i].pid
    BY <1>5, <1>s DEF Clear, Elsewhere
  <2> QED BY <1>0, <1>o, <2>1, <2>2, <2>3, <2>4, TendedStays
<1>6. CASE Elect(p)
  <2>1. n \in DOMAIN log /\ log'[n] = log[n] BY <1>6 DEF Elect
  <2>2. pc[p] \notin Inside \cup Repairing /\ "r_ticket" \in Repairing
    BY <1>6, SlotLabels DEF Elect, Repairing, RepairPcs
  <2>3. \A i \in Slots \ {I(p)} : slot'[i].pid = slot[i].pid
    BY <1>6, <1>s DEF Elect, Elsewhere
  <2>4. CASE Lap(Ticket(n)) = I(p)
    <3>1. pc'[p] \in Repairing /\ I(p)' = I(p) BY <1>6, <2>2 DEF Elect, I
    <3>2. Lap(Ticket(n))' = Lap(Ticket(n)) BY DEF Lap, Ticket
    <3> QED BY <2>4, <3>1, <3>2 DEF Tended, Repaired
  <2>5. CASE Lap(Ticket(n)) # I(p)
    BY <1>0, <1>o, <2>1, <2>2, <2>3, <2>5, TendedStays
  <2> QED BY <2>4, <2>5
<1>7. CASE Fix(p)
  <2>0. pc[p] \in Repairing /\ pc[p] \notin {"r_ticket", "r_seq"}
        /\ pc[p] \notin Inside
    BY <1>7, SlotLabels DEF Fix, Repairing, RepairPcs
  <2>1. n \in DOMAIN log /\ log'[n] = log[n] /\ Open(n) /\ Tended(n)
    BY <1>7, <1>o DEF Fix
  <2>2. \A i \in Slots : slot'[i].pid = slot[i].pid
    BY <1>7, <1>s DEF Fix, Elsewhere
  <2>3. Lap(Ticket(n)) # I(p)
    <3> SUFFICES ASSUME Lap(Ticket(n)) = I(p) PROVE FALSE OBVIOUS
    <3>1. PICK m \in DOMAIN log : Orphan(I(p), m)
      BY <1>0, <2>0 DEF Records, GivenUp, Repaired
    <3>2. Busy(n) /\ Busy(m)
      BY <2>1, <3>1 DEF Open, Busy, Orphan, Unfinished
    <3>3. n = m BY <2>1, <3>1, <3>2, OneBusy DEF Orphan, Lined
    <3>4. slot'[I(p)].seq = Ticket(m) + Capacity
      BY <1>7, <2>0, <3>1 DEF Fix, Records, MendOK, Orphan
    <3>5. Past(n)' BY <1>0, <2>1, <3>3, <3>4 DEF Past, SeqOf, Lap, Ticket
    <3> QED BY <3>5 DEF Open
  <2> QED BY <1>0, <2>0, <2>1, <2>2, <2>3, TendedStays
<1> QED BY <1>1, <1>2, <1>3, <1>4, <1>5, <1>6, <1>7 DEF Kind

-----------------------------------------------------------------------------
(* A slot a round behind the frontier, with no call caught inside, is that *)
(* of a dead owner.                                                        *)

LEMMA BehindOpen ==
  ASSUME TypeOK, Lined, Low, NEW i \in Slots,
         slot[i].seq <= enq - Capacity
  PROVE  \E n \in DOMAIN log : /\ log[n].fate = "claimed" /\ ~Past(n)
                               /\ Lap(Ticket(n)) = i
<1>0. /\ enq \in Nat /\ Capacity \in Nat /\ Capacity >= 2
      /\ FirstTicket \in Nat /\ slot[i].seq \in Nat
      /\ FirstTicket <= slot[i].seq
      /\ DOMAIN log = 1 .. (enq - FirstTicket)
  BY Ranges DEF Lined, Low
<1>1. PICK t \in Nat : /\ Lap(t) = i
                       /\ \/ slot[i].seq = t /\ t < enq + Capacity
                          \/ slot[i].seq = t + 1 /\ t < enq
  BY DEF Lined, Rounds, Round
<1>e. ASSUME NEW u \in Nat, FirstTicket <= u, u < enq, Lap(u) = i
      PROVE  \E n \in DOMAIN log : /\ Ticket(n) = u /\ EntryOK(n)
                                   /\ SeqOf(Ticket(n)) = slot[i].seq
                                   /\ log[n].fate \in Fates
  <2>1. PICK n \in DOMAIN log : n = u - FirstTicket + 1 BY <1>0, <1>e
  <2>2. Ticket(n) = u BY <1>0, <1>e, <2>1 DEF Ticket
  <2>t. log[n] \in Tickets BY <2>1 DEF TypeOK, HistoryOK
  <2>3. log[n].fate \in Fates BY <2>t DEF Tickets
  <2> QED BY <1>e, <2>1, <2>2, <2>3 DEF Lined, Entries, SeqOf
<1>2. CASE slot[i].seq = t
  <2>1. PICK n \in DOMAIN log : /\ Ticket(n) = t /\ EntryOK(n)
                                /\ SeqOf(Ticket(n)) = slot[i].seq
                                /\ log[n].fate \in Fates
    BY <1>0, <1>1, <1>2, <1>e
  <2>2. ~Past(n) BY <1>0, <1>2, <2>1 DEF Past
  <2>3. log[n].fate = "claimed"
    BY <1>0, <1>2, <2>1, <2>2 DEF EntryOK, Fates, Over
  <2> QED BY <1>1, <2>1, <2>2, <2>3
<1>3. CASE slot[i].seq = t + 1 /\ t < enq
  <2>1. t + Capacity \in Nat /\ FirstTicket <= t + Capacity
        /\ t + Capacity < enq /\ Lap(t + Capacity) = i
    BY <1>0, <1>1, <1>3, LapRound
  <2>2. PICK n \in DOMAIN log : /\ Ticket(n) = t + Capacity /\ EntryOK(n)
                                /\ SeqOf(Ticket(n)) = slot[i].seq
                                /\ log[n].fate \in Fates
    BY <2>1, <1>e
  <2>3. ~Past(n) BY <1>0, <1>3, <2>2 DEF Past
  <2> QED BY <1>0, <1>3, <2>2, <2>3 DEF EntryOK, Fates, Over
<1> QED BY <1>1, <1>2, <1>3

LEMMA BehindDead ==
  ASSUME TypeOK, Lined, Low, AllTended, NEW p \in Procs, NEW i \in Slots,
         pc[p] = "k_seq", ~Caught(i, p), slot[i].seq <= enq - Capacity
  PROVE  Dead(i)
<1>1. PICK n \in DOMAIN log : /\ log[n].fate = "claimed" /\ ~Past(n)
                              /\ Lap(Ticket(n)) = i
  BY BehindOpen
<1>2. Tended(n) BY <1>1 DEF AllTended, Open
<1>3. pc[p] \notin Inside \cup Repairing
  BY DEF Inside, Writing, Reading, Repairing, RepairPcs
<1>4. ASSUME NEW q \in Procs, pc[q] \in Inside, loc[q].ent = n PROVE FALSE
  <2>1. pc[q] \in Writing /\ Ticket(n) = loc[q].pos
    BY <1>1, <1>4 DEF Lined, Calls, CallOK, Owns, Inside
  <2>2. I(q) = i BY <1>1, <2>1, Ranges DEF Lined
  <2> QED BY <1>3, <1>4, <2>1, <2>2 DEF Caught
<1>5. ~Repaired(i)
  BY <1>3 DEF Repaired, Caught, Repairing
<1> QED BY <1>1, <1>2, <1>4, <1>5 DEF Tended

-----------------------------------------------------------------------------
(* Each step keeps the invariant beside compact.                           *)

LEMMA SameOffset ==
  ASSUME NEW x \in Nat, NEW y \in Nat, NEW a \in Nat, NEW b \in Nat,
         NEW f \in Nat, a = x - f, b = y - f, a <= b
  PROVE  x <= y
  OBVIOUS

\* enqueue_pos grows with the log.
LEMMA GrowsEnq ==
  ASSUME TypeOK, TypeOK', Ends, Ends', DOMAIN log \subseteq DOMAIN log'
  PROVE  enq <= enq'
<1>1. /\ enq \in Nat /\ enq' \in Nat /\ FirstTicket \in Nat
      /\ log \in Seq(Tickets) /\ log' \in Seq(Tickets)
  BY ConstantAssumption DEF TypeOK, WordsOK, HistoryOK
<1>2. Len(log) \in Nat /\ Len(log') \in Nat
      /\ DOMAIN log = 1 .. Len(log) /\ DOMAIN log' = 1 .. Len(log')
  BY <1>1
<1>3. Len(log) <= Len(log') BY <1>2
<1>4. Len(log) = enq - FirstTicket BY DEF Ends
<1>5. Len(log') = enq' - FirstTicket BY Zenon DEF Ends
<1> QED BY <1>1, <1>2, <1>3, <1>4, <1>5, SameOffset, Zenon

LEMMA HotPathTidy ==
  ASSUME TypeOK, TypeOK', Desk, SameStart, Tidy, NEW p \in Procs, HotPath(p),
         UNCHANGED maintenance
  PROVE  Tidy'
<1>0. /\ Mindful' /\ StepKind(p) /\ Lined /\ Records /\ AllTended /\ Low
      /\ Lined' /\ Others(p) /\ Kind(p)
  BY HotPathMindful DEF Tidy, Mindful, StepKind
<1>m. flock' = flock /\ scan' = scan /\ mark' = mark /\ crashes' = crashes
  BY DEF maintenance
<1>k. /\ pc[p] # "dead" /\ pc'[p] # "dead"
      /\ pc[p] \notin CompactPcs /\ pc'[p] \notin CompactPcs
  BY <1>0, KindLabels
<1>d. \A i \in Slots : Dead(i)' => Dead(i) BY <1>0, KindDead
<1>1. AllTended' BY <1>0, KindTended DEF AllTended
<1>2. Low'
  <2>1. \A i \in Slots : slot[i].seq \in Nat BY Ranges, <1>0 DEF Lined
  <2>2. FirstTicket \in Nat BY ConstantAssumption
  <2> QED BY <1>0, <2>1, <2>2, KindRises DEF Low
<1>3. AtDesk' BY <1>0, <1>k, <1>m DEF Tidy, Watch, AtDesk, Others
<1>4. OneDead'
  <2>1. \A q \in Procs : pc'[q] = "dead" => pc[q] = "dead"
    BY <1>0, <1>k DEF Others
  <2> QED BY <1>d, <1>m, <2>1 DEF Tidy, Watch, OneDead
<1>5. Marked' BY <1>d, <1>m DEF Tidy, Watch, Marked
<1>6. Scanned'
  <2>1. enq <= enq' BY <1>0, KindGrows, GrowsEnq DEF Lined
  <2>2. enq \in Nat /\ enq' \in Nat /\ scan.front \in Nat
    BY DEF TypeOK, WordsOK, Desk
  <2>3. scan'.front <= enq' BY <1>m, <2>1, <2>2 DEF Tidy, Watch, Scanned
  <2>4. ASSUME NEW q \in Procs, pc'[q] = "k_pid", Behind(loc[q].obs)'
        PROVE  /\ crashes' = 1
               /\ \A i \in Slots : mark'[i] = 0 /\ (Dead(i)' => i = scan'.i)
    <3>1. q # p BY <1>k, <2>4 DEF CompactPcs
    <3>2. pc[q] = "k_pid" /\ loc'[q] = loc[q] BY <1>0, <2>4, <3>1 DEF Others
    <3>3. Behind(loc[q].obs) BY <1>m, <2>4, <3>2 DEF Behind
    <3> QED BY <1>d, <1>m, <3>2, <3>3 DEF Tidy, Watch, Scanned
  <2> QED BY <2>3, <2>4 DEF Scanned
<1> QED BY <1>0, <1>1, <1>2, <1>3, <1>4, <1>5, <1>6 DEF Tidy, Watch

LEMMA CrashTidy ==
  ASSUME TypeOK, Desk, MaxCrashes <= 1, Tidy, NEW p \in Procs, Crash(p),
         Settled(p), pc[p] \in Inside
  PROVE  Tidy'
<1>0. Mindful' /\ Lined /\ Records BY CrashMindful DEF Tidy, Mindful
<1>1. /\ pc'[p] = "dead" /\ Others(p) /\ slot' = slot /\ log' = log
      /\ enq' = enq /\ mark' = mark /\ crashes = 0 /\ crashes' = 1
      /\ pc[p] # "dead" /\ pc[p] \notin Repairing
      /\ flock # p => flock' = flock /\ scan' = scan
      /\ scan'.front \in {scan.front, 0}
  <2>1. crashes = 0 /\ crashes' = 1
    BY RecoveryAssumption DEF Crash, Desk
  <2>2. pc[p] # "dead" /\ pc[p] \notin Repairing BY SlotLabels
  <2> QED
    BY <2>1, <2>2 DEF Crash, Others, TypeOK, WordsOK, positions, ghost
<1>2. AllTended'
  <2> SUFFICES ASSUME NEW n \in DOMAIN log, Open(n)' PROVE Tended(n)'
    BY <1>1 DEF AllTended
  <2>1. Tended(n)
    BY <1>1 DEF Tidy, AllTended, Open, Past, SeqOf, Lap, Ticket
  <2>2. CASE loc[p].ent = n
    <3>1. I(p) = Lap(Ticket(n)) /\ Lap(Ticket(n))' = Lap(Ticket(n))
      BY <1>0, <2>2, InsideOwns, Ranges DEF Lined, Lap, Ticket
    <3>2. slot'[I(p)].pid = p BY <1>1 DEF Settled
    <3> QED BY <1>1, <3>1, <3>2 DEF Tended, Dead
  <2>3. CASE loc[p].ent # n
    <3>1. Lap(Ticket(n)) \in Slots BY <1>0, Ranges, LapSlot DEF Lined
    <3> QED BY <1>1, <2>1, <2>3, <3>1, TendedStays
  <2> QED BY <2>2, <2>3
<1>3. Low' BY <1>1 DEF Tidy, Low
<1>4. AtDesk'
  BY <1>1 DEF Tidy, Watch, AtDesk, Others, CompactPcs
<1>5. OneDead'
  <2>1. ASSUME NEW i \in Slots, Dead(i)' PROVE i = I(p)
    <3>1. PICK v \in Procs : slot[i].pid = v /\ pc'[v] = "dead"
      BY <1>1, <2>1 DEF Dead
    <3>2. v = p BY <1>1, <3>1 DEF Tidy, Watch, OneDead, Others
    <3> QED BY <1>0, <1>1, <3>1, <3>2 DEF Records, Signed
  <2> QED BY <1>1, <2>1 DEF OneDead
<1>6. Marked' BY <1>1 DEF Tidy, Watch, Marked
<1>7. Scanned'
  <2>1. enq \in Nat /\ scan.front \in Nat BY DEF TypeOK, WordsOK, Desk
  <2>2. scan'.front <= enq'
    BY <1>1, <2>1 DEF Tidy, Watch, Scanned
  <2>3. ASSUME NEW q \in Procs, pc'[q] = "k_pid", Behind(loc[q].obs)'
        PROVE  FALSE
    <3>1. q # p /\ pc[q] = "k_pid" /\ loc'[q] = loc[q]
      BY <1>1, <2>3 DEF Others
    <3>2. flock # p BY <3>1 DEF Tidy, Watch, AtDesk, CompactPcs
    <3>3. Behind(loc[q].obs) BY <1>1, <2>3, <3>1, <3>2 DEF Behind
    <3> QED BY <1>1, <3>1, <3>3 DEF Tidy, Watch, Scanned
  <2> QED BY <2>2, <2>3 DEF Scanned
<1> QED BY <1>0, <1>2, <1>3, <1>4, <1>5, <1>6, <1>7 DEF Tidy, Watch

\* A step of compact that stores in no slot.
LEMMA AsideMindful ==
  ASSUME TypeOK, Mindful, AllTended, Low, NEW p \in Procs, Others(p),
         pc[p] \in CompactPcs \cup {"idle"},
         pc'[p] \in CompactPcs \cup {"idle"},
         loc'[p].gen = 0, pc'[p] = "idle" => loc'[p].ret = "idle",
         slot' = slot, UNCHANGED <<enq, deq, gen, log, base>>
  PROVE  Mindful' /\ AllTended' /\ Low'
<1>0. /\ Lined /\ Records /\ {"idle"} \subseteq Outer
      /\ \A i \in Slots : Same(i)
  BY OuterLabels DEF Mindful, Same
<1>l. /\ pc[p] \notin Inside \cup Repairing \cup {"dead"}
      /\ pc'[p] \notin Inside \cup {"e_dead", "d_dead", "r_cas"}
  BY DEF CompactPcs, Inside, Writing, Reading, Repairing, RepairPcs
<1>1. Lined'
  <2>1. pc'[p] \in Plain BY PlainLabels
  <2>2. SameSeqs BY DEF SameSeqs
  <2> QED BY <1>0, <2>1, <2>2, MoveOn DEF Held
<1>2. Records'
  <2>1. VictimOK(p)' BY <1>l DEF VictimOK
  <2> QED BY <1>0, <2>1, AsideRecords
<1>3. Starts' BY DEF Mindful, Starts
<1>4. Fresh'
  BY DEF Mindful, Fresh, Others
<1>5. Homed' BY DEF Mindful, Homed, Others
<1>6. AllTended'
  <2> SUFFICES ASSUME NEW n \in DOMAIN log, Open(n)' PROVE Tended(n)'
    BY DEF AllTended
  <2>1. Tended(n) BY DEF AllTended, Open, Past, SeqOf, Lap, Ticket
  <2>2. Lap(Ticket(n)) \in Slots BY <1>0, Ranges, LapSlot DEF Lined
  <2> QED BY <1>l, <2>1, <2>2, TendedStays
<1>7. Low' BY DEF Low
<1> QED BY <1>1, <1>2, <1>3, <1>4, <1>5, <1>6, <1>7 DEF Mindful

\* The watch after such a step of compact.
LEMMA AsideWatch ==
  ASSUME TypeOK, Watch, NEW p \in Procs, Others(p),
         pc[p] \in CompactPcs \cup {"idle"},
         pc[p] = "idle" => flock = None,
         \/ pc'[p] \in CompactPcs \ {"k_ticket", "k_done"} /\ flock' = p
         \/ pc'[p] = "idle" /\ flock' = None,
         pc'[p] = "k_pid" /\ Behind(loc[p].obs)' =>
            /\ crashes = 1
            /\ \A i \in Slots : mark'[i] = 0 /\ (Dead(i) => i = scan'.i),
         \A i \in Slots : mark'[i] = 1 => 
            crashes = 1 /\ \A j \in Slots : ~Dead(j),
         scan'.front <= enq,
         slot' = slot, enq' = enq, crashes' = crashes
  PROVE  Watch'
<1>0. pc[p] # "dead" /\ pc'[p] # "dead" BY DEF CompactPcs
<1>d. \A i \in Slots : Dead(i)' <=> Dead(i)
  BY <1>0 DEF Dead, Others
\* Nobody else is at the desk.
<1>1. \A q \in Procs \ {p} : pc'[q] \notin CompactPcs
  BY ConstantAssumption DEF Watch, AtDesk, Others
<1>2. AtDesk'
  BY <1>1, ConstantAssumption DEF AtDesk, CompactPcs
<1>3. OneDead' BY <1>0, <1>d DEF Watch, OneDead, Others
<1>4. Marked' BY <1>d DEF Marked
<1>5. Scanned'
  BY <1>1, <1>d DEF Scanned, CompactPcs
<1> QED BY <1>2, <1>3, <1>4, <1>5 DEF Watch

LEMMA AdvanceTidy ==
  ASSUME TypeOK, Desk, NEW p \in Procs, Advance(p), loc' = loc
  PROVE  /\ pc'[p] \in {"k_seq", "k_end"} /\ Others(p) /\ loc'[p] = loc[p]
         /\ scan'.front \in {scan.front, 0}
<1>1. CASE scan.i + 1 < Capacity
  BY <1>1, GotoAt DEF Advance, Desk
<1>2. CASE ~(scan.i + 1 < Capacity)
  BY <1>2, GotoAt DEF Advance, Desk
<1> QED BY <1>1, <1>2

LEMMA CompactTidy ==
  ASSUME TypeOK, Desk, Quiet, MaxCrashes <= 1, Tidy, NEW p \in Procs,
         Compact(p)
  PROVE  Tidy'
<1> USE DEF ghost, positions
<1>0. /\ loc[p] \in Locals /\ Blank \in Locals /\ enq \in Nat /\ deq \in Nat
      /\ scan.i \in Slots /\ scan.front \in Nat /\ scan.front <= enq
      /\ deq <= enq /\ Mindful /\ AllTended /\ Low /\ Watch /\ Lined
      /\ Capacity \in Nat
  BY BlankOK, Ranges
  DEF TypeOK, WordsOK, Desk, Tidy, Watch, Scanned, Mindful, Lined, Ends
<1>g. pc[p] \in CompactPcs => loc[p].gen = 0 /\ flock = p
  <2>1. CompactPcs \subseteq Sampled BY DEF CompactPcs, Sampled, Labels
  <2> QED BY <1>0, <2>1 DEF Mindful, Fresh, Watch, AtDesk
<1>m. \A i \in Slots : mark[i] = 1 =>
         crashes = 1 /\ \A j \in Slots : ~Dead(j)
  BY <1>0 DEF Watch, Marked
<1>k. pc[p] \notin {"k_ticket", "k_done"}
  BY <1>0 DEF Watch, AtDesk, CompactPcs
<1>1. CASE CompactStart(p)
  <2> DEFINE new == [Blank EXCEPT !.ret = "k_done"]
  <2>1. new.gen = 0 BY DEF Blank
  <2>2. /\ loc' = [loc EXCEPT ![p] = new] /\ Goto(p, "k_enq")
        /\ pc[p] = "idle" /\ flock = None /\ flock' = p /\ slot' = slot
        /\ UNCHANGED <<enq, deq, gen, log, base>>
        /\ UNCHANGED <<scan, mark, crashes>>
    BY <1>1 DEF CompactStart
  <2> HIDE DEF new
  <2>3. pc'[p] = "k_enq" /\ loc'[p] = new /\ Others(p) BY <2>2, LocalAt
  <2>4. Mindful' /\ AllTended' /\ Low'
    BY <1>0, <2>1, <2>2, <2>3, AsideMindful DEF CompactPcs
  <2>5. Watch'
    BY <1>0, <1>m, <2>2, <2>3, AsideWatch DEF CompactPcs
  <2> QED BY <2>4, <2>5 DEF Tidy
<1>2. CASE CompactEnq(p)
  <2>1. /\ pc[p] = "k_enq" /\ loc' = loc /\ Goto(p, "k_deq")
        /\ flock' = flock /\ slot' = slot
        /\ UNCHANGED <<enq, deq, gen, log, base>>
        /\ UNCHANGED <<mark, crashes>> /\ scan'.front = enq
    BY <1>2 DEF CompactEnq
  <2>2. pc'[p] = "k_deq" /\ loc'[p] = loc[p] /\ Others(p)
    BY <2>1, GotoAt
  <2>3. loc'[p].gen = 0 /\ flock = p BY <1>g, <2>1, <2>2 DEF CompactPcs
  <2>4. Mindful' /\ AllTended' /\ Low'
    BY <1>0, <2>1, <2>2, <2>3, AsideMindful DEF CompactPcs
  <2>5. Watch'
    BY <1>0, <1>m, <2>1, <2>2, <2>3, AsideWatch DEF CompactPcs
  <2> QED BY <2>4, <2>5 DEF Tidy
<1>3. CASE CompactDeq(p)
  <2>1. /\ pc[p] = "k_deq" /\ loc' = loc /\ Goto(p, "k_seq")
        /\ flock' = flock /\ slot' = slot
        /\ UNCHANGED <<enq, deq, gen, log, base>>
        /\ UNCHANGED <<mark, crashes>> /\ scan'.front \in {deq, scan.front}
    BY <1>3 DEF CompactDeq, Desk
  <2>2. pc'[p] = "k_seq" /\ loc'[p] = loc[p] /\ Others(p)
    BY <2>1, GotoAt
  <2>3. loc'[p].gen = 0 /\ flock = p BY <1>g, <2>1, <2>2 DEF CompactPcs
  <2>4. Mindful' /\ AllTended' /\ Low'
    BY <1>0, <2>1, <2>2, <2>3, AsideMindful DEF CompactPcs
  <2>5. scan'.front <= enq BY <1>0, <2>1
  <2>6. Watch'
    BY <1>0, <1>m, <2>1, <2>2, <2>3, <2>5, AsideWatch DEF CompactPcs
  <2> QED BY <2>4, <2>6 DEF Tidy
\* A slot found behind is that of a dead owner: no slot is marked then.
<1>4. CASE CompactSeq(p)
  <2> DEFINE new == [loc[p] EXCEPT !.pos = scan.i, !.obs = slot[scan.i].seq]
  <2>1. new.gen = loc[p].gen /\ new.obs = slot[scan.i].seq
    BY <1>0 DEF Locals
  <2>2. /\ loc' = [loc EXCEPT ![p] = new] /\ Goto(p, "k_pid")
        /\ pc[p] = "k_seq" /\ flock' = flock /\ slot' = slot
        /\ UNCHANGED <<enq, deq, gen, log, base>>
        /\ UNCHANGED <<scan, mark, crashes>> /\ ~Caught(scan.i, p)
    BY <1>4 DEF CompactSeq
  <2> HIDE DEF new
  <2>3. pc'[p] = "k_pid" /\ loc'[p] = new /\ Others(p) BY <2>2, LocalAt
  <2>4. loc'[p].gen = 0 /\ flock = p
    BY <1>g, <2>1, <2>2, <2>3 DEF CompactPcs
  <2>5. Mindful' /\ AllTended' /\ Low'
    BY <1>0, <2>2, <2>3, <2>4, AsideMindful DEF CompactPcs
  <2>6. ASSUME Behind(loc[p].obs)'
        PROVE  /\ crashes = 1
               /\ \A i \in Slots : mark'[i] = 0 /\ (Dead(i) => i = scan'.i)
    <3>1. slot[scan.i].seq <= scan.front - Capacity
      BY <2>1, <2>2, <2>3, <2>6 DEF Behind
    <3>2. slot[scan.i].seq \in Nat BY <1>0, Ranges DEF Lined
    <3>3. slot[scan.i].seq <= enq - Capacity BY <1>0, <3>1, <3>2
    <3>4. Dead(scan.i) BY <1>0, <2>2, <3>3, BehindDead
    <3>5. crashes # 0
      BY <1>0, <3>4 DEF Watch, OneDead, Dead
    <3>6. crashes = 1 BY <3>5, RecoveryAssumption DEF Desk
    <3>7. \A i \in Slots : mark[i] \in {0, 1} BY DEF Desk
    <3> QED BY <1>0, <1>m, <2>2, <3>4, <3>6, <3>7 DEF Watch, OneDead
  <2>7. Watch'
    BY <1>0, <1>m, <2>2, <2>3, <2>4, <2>6, AsideWatch DEF CompactPcs
  <2> QED BY <2>5, <2>7 DEF Tidy
\* A slot still found stuck has been repaired since: it is marked.
<1>5. CASE CompactPid(p)
  <2>0. /\ pc[p] = "k_pid" /\ flock' = flock /\ slot' = slot
        /\ UNCHANGED <<enq, deq, gen, log, base>> /\ crashes' = crashes
        /\ flock = p
    BY <1>5, <1>g DEF CompactPid, CompactPcs
  <2> DEFINE stuck == Behind(loc[p].obs)
                         /\ slot[scan.i].pid \in {None, Recovering}
  <2>s. stuck => /\ crashes = 1 /\ \A i \in Slots : mark[i] = 0 /\ ~Dead(i)
    <3>1. \A i \in Slots : Dead(i) => slot[i].pid \notin {None, Recovering}
      BY ConstantAssumption DEF Dead
    <3> QED BY <1>0, <2>0, <3>1 DEF Watch, Scanned
  <2>1. /\ Advance(p) /\ loc' = loc
        /\ \/ stuck /\ mark' = [mark EXCEPT ![scan.i] = 1]
           \/ mark' = [mark EXCEPT ![scan.i] = 0]
    <3>1. stuck => mark[scan.i] = 0 BY <1>0, <2>s
    <3> QED BY <1>5, <3>1 DEF CompactPid
  <2> HIDE DEF stuck
  <2>2. /\ pc'[p] \in {"k_seq", "k_end"} /\ Others(p) /\ loc'[p] = loc[p]
        /\ scan'.front \in {scan.front, 0}
    BY <2>1, AdvanceTidy
  <2>3. loc'[p].gen = 0 BY <1>g, <2>0, <2>2 DEF CompactPcs
  <2>4. Mindful' /\ AllTended' /\ Low'
    BY <1>0, <2>0, <2>1, <2>2, <2>3, AsideMindful DEF CompactPcs
  <2>5. \A i \in Slots : mark'[i] = 1 =>
           crashes = 1 /\ \A j \in Slots : ~Dead(j)
    BY <1>m, <2>s, <2>1 DEF Desk
  <2>6. scan'.front <= enq BY <1>0, <2>2
  <2>7. pc'[p] \in CompactPcs \ {"k_ticket", "k_done"} /\ pc'[p] # "k_pid"
    BY <2>2 DEF CompactPcs
  <2>8. Watch'
    BY <1>0, <2>0, <2>2, <2>5, <2>6, <2>7, AsideWatch DEF CompactPcs
  <2> QED BY <2>4, <2>8 DEF Tidy
<1>6. CASE CompactTicket(p) BY <1>6, <1>k DEF CompactTicket
<1>7. CASE CompactUnmark(p) BY <1>7, <1>k DEF CompactUnmark
<1>8. CASE CompactEnd(p)
  <2>1. /\ pc[p] = "k_end" /\ loc' = [loc EXCEPT ![p] = Blank]
        /\ Goto(p, "idle") /\ flock' = None /\ slot' = slot
        /\ UNCHANGED <<enq, deq, gen, log, base>>
        /\ UNCHANGED <<mark, crashes>> /\ scan'.front = 0
    BY <1>8 DEF CompactEnd, Return
  <2>2. pc'[p] = "idle" /\ loc'[p] = Blank /\ Others(p) BY <2>1, LocalAt
  <2>3. loc'[p].gen = 0 /\ loc'[p].ret = "idle" BY <2>2 DEF Blank
  <2>4. Mindful' /\ AllTended' /\ Low'
    BY <1>0, <2>1, <2>2, <2>3, AsideMindful DEF CompactPcs
  <2>5. Watch'
    BY <1>0, <1>m, <2>1, <2>2, <2>3, AsideWatch DEF CompactPcs
  <2> QED BY <2>4, <2>5 DEF Tidy
<1> QED BY <1>1, <1>2, <1>3, <1>4, <1>5, <1>6, <1>7, <1>8 DEF Compact

LEMMA InitTidy == RInit => Tidy
<1> SUFFICES ASSUME RInit PROVE Tidy OBVIOUS
<1>0. Init /\ Mindful BY InitMindful DEF RInit
<1>1. AllTended
  <2>1. log = <<>> BY <1>0 DEF Init
  <2> QED BY <2>1 DEF AllTended
<1>2. Low
  <2> SUFFICES ASSUME NEW i \in Slots PROVE FirstTicket <= slot[i].seq
    BY DEF Low
  <2>1. slot[i].seq = FirstTicket + i BY <1>0 DEF Init
  <2>2. i \in Nat /\ FirstTicket \in Nat
    BY ConstantAssumption, CapacityAssumption DEF Slots
  <2> QED BY <2>1, <2>2
<1>3. Watch
  <2>1. \A p \in Procs : pc[p] = "idle" BY <1>0 DEF Init
  <2>2. \A i \in Slots : mark[i] = 0 BY DEF RInit
  <2>3. scan.front = 0 /\ enq \in Nat
    BY <1>0, ConstantAssumption DEF RInit, Init
  <2> QED
    BY <2>1, <2>2, <2>3
    DEF Watch, AtDesk, OneDead, Marked, Scanned, Dead, CompactPcs
<1> QED BY <1>0, <1>1, <1>2, <1>3 DEF Tidy

LEMMA StillTidy ==
  ASSUME Tidy, UNCHANGED rvars
  PROVE  Tidy'
<1>0. /\ enq' = enq /\ slot' = slot /\ pc' = pc /\ loc' = loc /\ log' = log
      /\ flock' = flock /\ scan' = scan /\ mark' = mark /\ crashes' = crashes
  BY DEF rvars, vars, maintenance
<1>1. Mindful' BY StillMindful DEF Tidy
<1>2. AllTended' /\ Low'
  BY <1>0
  DEF Tidy, AllTended, Low, Open, Past, SeqOf, Lap, Ticket, Tended, Dead,
      Repaired, I
<1>3. Watch'
  BY <1>0
  DEF Tidy, Watch, AtDesk, OneDead, Marked, Scanned, Behind, Dead
<1> QED BY <1>1, <1>2, <1>3 DEF Tidy

LEMMA TidyInvariance ==
  ASSUME CrashesRecorded, Quiet, MaxCrashes <= 1
  PROVE  RSpec => []Tidy
<1>1. RInit => Tidy BY InitTidy
<1>2. RInv /\ RInv' /\ Tidy /\ [RNext]_rvars => Tidy'
  <2> SUFFICES ASSUME RInv, RInv', Tidy, [RNext]_rvars PROVE Tidy' OBVIOUS
  <2>0. TypeOK /\ TypeOK' /\ Desk BY DEF RInv, IInv, Tokens, TypeOK
  <2>1. ASSUME NEW p \in Procs, HotPath(p), UNCHANGED maintenance
        PROVE  Tidy'
    BY <2>0, <2>1, HotPathTidy DEF CrashesRecorded
  <2>2. ASSUME NEW p \in Keepers, Compact(p) PROVE Tidy'
    BY <2>0, <2>2, CompactTidy, RecoveryAssumption
  <2>3. ASSUME NEW p \in Procs, Crash(p) PROVE Tidy'
    BY <2>0, <2>3, CrashTidy DEF CrashesRecorded, Crash
  <2>4. CASE UNCHANGED rvars BY <2>4, StillTidy
  <2> QED BY <2>1, <2>2, <2>3, <2>4 DEF RNext
<1> QED BY <1>1, <1>2, RInvariance, PTL DEF RSpec

-----------------------------------------------------------------------------
(* The theorems about the order of the ring.                               *)

\* Nothing but recover_slot repairs; or compact meets no call inside a slot
\* and there is one crash at most.
RepairsFound == Keepers = {} \/ (Quiet /\ MaxCrashes <= 1)

LEMMA RecordsInvariance ==
  ASSUME CrashesRecorded, RepairsFound
  PROVE  RSpec => [](RInv /\ TypeOK /\ Mindful)
<1>1. RInv => TypeOK BY DEF RInv, IInv, Tokens, TypeOK
<1>2. CASE Keepers = {}
  <2>1. RSpec => []Mindful BY <1>2, MindfulInvariance
  <2> QED BY <1>1, <2>1, RInvariance, PTL
<1>3. CASE Quiet /\ MaxCrashes <= 1
  <2>1. RSpec => []Tidy BY <1>3, TidyInvariance
  <2>2. Tidy => Mindful BY DEF Tidy
  <2> QED BY <1>1, <2>1, <2>2, RInvariance, PTL
<1> QED BY <1>2, <1>3 DEF RepairsFound

\* No two calls are ever inside the same slot, also where processes crash
\* inside their slots and recover_slot hands those slots on (try_enqueue,
\* try_dequeue, recover_slot, Ring::compact): a repair never moves a slot on
\* under a live call.
THEOREM RecoveryExclusive ==
  ASSUME CrashesRecorded, RepairsFound
  PROVE  RSpec => []SlotExclusive
<1>1. TypeOK /\ Mindful => SlotExclusive BY MindfulSafe DEF Mindful
<1> QED BY <1>1, RecordsInvariance, PTL

\* No message reported as sent is passed over: whatever crashes, the consumer
\* position leaves behind only tickets that were consumed, given back, or
\* never published (try_dequeue's skip branch, recover_slot, Ring::compact).
THEOREM RecoveryAccepted ==
  ASSUME CrashesRecorded, RepairsFound
  PROVE  RSpec => []AcceptedNotSkipped
<1>1. TypeOK /\ Mindful => AcceptedNotSkipped BY MindfulSafe DEF Mindful
<1> QED BY <1>1, RecordsInvariance, PTL

-----------------------------------------------------------------------------
(***************************************************************************)
(* DeliveredIntact beside crashes.  A crash and a repair write no message: *)
(* the repair takes the page out of a slot that holds none (Given), as its *)
(* entry is that of the crashed call.  Back in its loop, a send that has   *)
(* repaired a slot still has its message (Asks).                           *)
(***************************************************************************)
Asks(p) == loc[p].ret = "e_pos" => loc[p].msg \in Msgs
Asked == \A p \in Procs : Asks(p)

\* A call goes on with what it asked for, or does not ask.
LEMMA AskedStays ==
  ASSUME Asked, NEW p \in Procs, Others(p),
         loc'[p].ret = "e_pos" =>
            \/ loc'[p].msg \in Msgs
            \/ loc'[p].msg = loc[p].msg /\ loc[p].ret = "e_pos"
  PROVE  Asked'
  BY DEF Asked, Asks, Others

\* The repair goes on, or ends where the call was.
LEMMA MendOrBack ==
  ASSUME NEW p \in Procs, loc[p] \in Locals, Asks(p),
         loc'[p].msg = loc[p].msg, pc'[p] \in RepairPcs \cup {loc[p].ret}
  PROVE  ContentOK(p)'
<1>1. loc[p].ret \in {"idle", "e_pos", "d_pos", "k_done"} BY DEF Locals
<1>2. CASE pc'[p] = "e_pos" /\ loc[p].ret = "e_pos"
  BY <1>2, AskOK DEF Asks, Asking
<1>3. CASE pc'[p] \in RepairPcs \cup {"idle", "d_pos", "k_done"}
  BY <1>3, Parts, BareOK DEF CompactPcs
<1>4. "e_pos" \notin RepairPcs BY DEF RepairPcs
<1> QED BY <1>1, <1>2, <1>3, <1>4

\* A slot that is being repaired holds no message, and nobody is inside.
LEMMA MendGiven ==
  ASSUME TypeOK, Lined, NEW p \in Procs, pc[p] \in Repairing, GivenUp(I(p))
  PROVE  Given(p, I(p))
<1>0. Ends /\ Entries /\ Calls BY DEF Lined
<1>1. PICK n \in DOMAIN log : Orphan(I(p), n) BY DEF GivenUp, Repaired
<1>2. Busy(n) /\ Lap(Ticket(n)) = I(p)
  BY <1>1 DEF Orphan, Busy, Unfinished
<1>3. ASSUME NEW q \in Procs, pc[q] \in Inside, I(q) = I(p) PROVE FALSE
  <2>1. /\ loc[q].ent \in DOMAIN log /\ Busy(loc[q].ent)
        /\ Lap(Ticket(loc[q].ent)) = I(p)
    BY <1>0, <1>3, InsideBusy, InsideOwns, Ranges
  <2>2. n = loc[q].ent BY <1>0, <1>2, <2>1, OneBusy
  <2> QED BY <1>1, <1>3, <2>2 DEF Orphan
<1>4. ASSUME NEW k \in DOMAIN log, log[k].fate = "ready",
             Lap(Ticket(k)) = I(p)
      PROVE  FALSE
  <2>1. n = k BY <1>0, <1>2, <1>4, ReadyBusy, OneBusy
  <2> QED BY <1>1, <1>4, <2>1 DEF Orphan
<1> QED BY <1>3, <1>4 DEF Given

LEMMA RepairContents ==
  ASSUME IInv, TypeOK, Mindful, Contents, Asked, NEW p \in Procs, Repair(p)
  PROVE  Contents'
<1> USE DEF ghost, slab
<1>0. /\ loc[p] \in Locals /\ slot[I(p)] \in SlotWords /\ WordsOK
      /\ I(p) \in Slots /\ Asks(p) /\ Lined /\ GivenUp(I(p))
  BY IndexOK DEF TypeOK, Asked, Mindful, Records
<1>s. slot' = slot /\ page' = page => Untouched BY DEF Untouched
\* A step that writes neither message nor page.
<1>a. ASSUME NEW l \in RepairPcs \cup {loc[p].ret}, Goto(p, l), loc' = loc,
             Untouched, log' = log
      PROVE  Contents'
  <2>1. pc'[p] = l /\ loc'[p] = loc[p] /\ Others(p) BY <1>a, GotoAt
  <2>2. ContentOK(p)' BY <1>0, <1>a, <2>1, MendOrBack
  <2> QED BY <1>0, <1>a, <2>1, <2>2, StillStep
<1>l. ASSUME NEW l \in RepairPcs, Goto(p, l), NEW new, new.msg = loc[p].msg,
             loc' = [loc EXCEPT ![p] = new], Untouched, log' = log
      PROVE  Contents'
  <2>1. pc'[p] = l /\ loc'[p] = new /\ Others(p) BY <1>l, LocalAt
  <2>2. ContentOK(p)' BY <1>0, <1>l, <2>1, MendOrBack
  <2> QED BY <1>0, <1>l, <2>1, <2>2, StillStep
<1>v. \A v : LET s == slot[I(p)] IN
             /\ [s EXCEPT !.pid = v].body = s.body
             /\ [s EXCEPT !.pid = v].ovf = s.ovf
             /\ [s EXCEPT !.ticket = v].body = s.body
             /\ [s EXCEPT !.ticket = v].ovf = s.ovf
             /\ [s EXCEPT !.seq = v].body = s.body
             /\ [s EXCEPT !.seq = v].ovf = s.ovf
  BY <1>0 DEF SlotWords
<1>u. ASSUME NEW new, new.body = slot[I(p)].body, new.ovf = slot[I(p)].ovf,
             slot' = [slot EXCEPT ![I(p)] = new], page' = page
      PROVE  Untouched
  BY <1>u, <1>0 DEF Untouched, WordsOK
<1>p. {"r_cas", "r_ticket", "r_seq", "r_ovf", "r_claim", "r_free", "r_fix",
       "r_clear", "r_zero"} = RepairPcs
  BY DEF RepairPcs
<1>1. CASE RecoverClaim(p)
  <2>1. /\ Goto(p, "r_ticket") \/ Goto(p, loc[p].ret)
        /\ loc' = loc /\ page' = page /\ log' = log
        /\ slot' = slot \/ slot' = [slot EXCEPT ![I(p)] =
                                      [slot[I(p)] EXCEPT !.pid = Recovering]]
    BY <1>1 DEF RecoverClaim
  <2>2. Untouched BY <1>s, <1>u, <1>v, <2>1
  <2> QED BY <1>a, <1>p, <2>1, <2>2
<1>2. CASE RecoverTicket(p)
  <2> DEFINE new == [loc[p] EXCEPT !.tgt = slot[I(p)].ticket + Capacity]
  <2>1. new.msg = loc[p].msg BY <1>0 DEF Locals
  <2>2. /\ Goto(p, "r_seq") /\ loc' = [loc EXCEPT ![p] = new]
        /\ Untouched /\ log' = log
    BY <1>2, <1>s DEF RecoverTicket
  <2> HIDE DEF new
  <2> QED BY <1>l, <1>p, <2>1, <2>2
<1>3. CASE RecoverSeq(p)
  <2> DEFINE new == [loc[p] EXCEPT !.obs = slot[I(p)].seq]
  <2>1. new.msg = loc[p].msg BY <1>0 DEF Locals
  <2>2. /\ Goto(p, "r_ovf") /\ loc' = [loc EXCEPT ![p] = new]
        /\ Untouched /\ log' = log
    BY <1>3, <1>s DEF RecoverSeq
  <2> HIDE DEF new
  <2> QED BY <1>l, <1>p, <2>1, <2>2
<1>4. CASE RepairLoadOverflow(p)
  <2> DEFINE new == [loc[p] EXCEPT !.pg = slot[I(p)].ovf]
  <2>1. new.msg = loc[p].msg BY <1>0 DEF Locals
  <2>2. /\ Goto(p, "r_claim") \/ Goto(p, "r_fix")
        /\ loc' = [loc EXCEPT ![p] = new] /\ Untouched /\ log' = log
    BY <1>4, <1>s DEF RepairLoadOverflow, LoadOverflow
  <2> HIDE DEF new
  <2> QED BY <1>l, <1>p, <2>1, <2>2
\* The page is taken out of a slot that holds no message.
<1>5. CASE RepairClaimOverflow(p)
  <2>1. /\ pc[p] = "r_claim"
        /\ Goto(p, "r_free") \/ Goto(p, "r_fix")
        /\ loc' = loc /\ log' = log /\ page' = page
        /\ slot' = slot \/ slot' = [slot EXCEPT ![I(p)] =
                                      [slot[I(p)] EXCEPT !.ovf = None]]
    BY <1>5 DEF RepairClaimOverflow, ClaimOverflow
  <2>2. pc'[p] \in {"r_free", "r_fix"} /\ loc'[p] = loc[p] /\ Others(p)
    BY <2>1, <1>5, GotoAt DEF RepairClaimOverflow, ClaimOverflow
  <2>3. ContentOK(p)' BY <1>0, <1>p, <2>2, MendOrBack
  <2>4. Given(p, I(p))
    BY <1>0, <2>1, <1>5, MendGiven
    DEF Repairing, RepairPcs, RepairClaimOverflow, ClaimOverflow
  <2>5. \A i \in Slots : i # I(p) => slot'[i] = slot[i]
    BY <1>0, <2>1 DEF WordsOK
  <2>6. SlotFrame(p) BY <2>4, <2>5 DEF SlotFrame
  <2>7. PageFrame(p) BY <2>1 DEF PageFrame
  <2>8. pc[p] \notin Inside
    BY <1>5, SlotLabels
    DEF RepairClaimOverflow, ClaimOverflow, Repairing, RepairPcs
  <2>9. EntryFrame(p) /\ OwnEntry(p)
    BY <2>1, <2>8 DEF EntryFrame, OwnEntry
  <2>10. Inline'
    BY <1>0, <2>1 DEF Inline, Contents, WordsOK, SlotWords
  <2> QED BY <1>0, <2>2, <2>3, <2>6, <2>7, <2>9, <2>10, FrameStep
<1>6. CASE RepairFree(p)
  BY <1>6, <1>a, <1>p, <1>s DEF RepairFree, FreePage
<1>7. CASE RepairSeq(p)
  <2>1. /\ Goto(p, "r_clear") /\ loc' = loc /\ page' = page /\ log' = log
        /\ slot' = slot \/ slot' = [slot EXCEPT ![I(p)] =
                                      [slot[I(p)] EXCEPT !.seq = loc[p].tgt]]
    BY <1>7 DEF RepairSeq, CasSeq
  <2>2. Untouched BY <1>s, <1>u, <1>v, <2>1
  <2> QED BY <1>a, <1>p, <2>1, <2>2
<1>8. CASE RepairClearOwner(p)
  <2>1. /\ Goto(p, "r_zero") /\ loc' = loc /\ page' = page /\ log' = log
        /\ slot' = slot \/ slot' = [slot EXCEPT ![I(p)] =
                                      [slot[I(p)] EXCEPT !.pid = None]]
    BY <1>8 DEF RepairClearOwner
  <2>2. Untouched BY <1>s, <1>u, <1>v, <2>1
  <2> QED BY <1>a, <1>p, <2>1, <2>2
<1>9. CASE RepairClearTicket(p)
  <2>1. /\ Goto(p, loc[p].ret) /\ loc' = loc /\ page' = page /\ log' = log
        /\ slot' = [slot EXCEPT ![I(p)] = [slot[I(p)] EXCEPT !.ticket = 0]]
    BY <1>9 DEF RepairClearTicket, StoreOwnerTicket, Store
  <2>2. Untouched BY <1>u, <1>v, <2>1
  <2> QED BY <1>a, <2>1, <2>2
<1> QED BY <1>1, <1>2, <1>3, <1>4, <1>5, <1>6, <1>7, <1>8, <1>9 DEF Repair

\* At d_copy a call copies.
LEMMA CopyOnly ==
  ASSUME NEW p \in Procs, HotPath(p), pc[p] = "d_copy"
  PROVE  DeqCopy(p)
<1>1. ~Enqueue(p)
  BY DEF Enqueue, EnqStart, EnqLoadPos, EnqLoadSeq, EnqLoadOwnerPid,
         EnqCheckDead, EnqClaim, EnqOwnerPid, EnqOwnerTicket, EnqOwnerStart,
         EnqAlloc, EnqExhausted, EnqTombstone, EnqTombstonePid,
         EnqTombstoneTicket, EnqPayload, EnqOverflow, EnqFence, EnqPublish,
         EnqClearPid, EnqClearTicket, EnqLastFence, LoadOwnerPid, CheckDead,
         StoreOwnerPid, StoreOwnerTicket, StoreOwnerStart, ClearTicketReturn,
         Store
<1>2. ~Repair(p)
  BY DEF Repair, RecoverClaim, RecoverTicket, RecoverSeq, RepairLoadOverflow,
         LoadOverflow, RepairClaimOverflow, ClaimOverflow, RepairFree,
         FreePage, RepairSeq, RepairClearOwner, RepairClearTicket,
         StoreOwnerTicket, Store
<1>3. Dequeue(p) BY <1>1, <1>2 DEF HotPath
<1> QED
  BY <1>3
  DEF Dequeue, DeqLoadPos, DeqLoadGen, DeqLoadSeq, DeqLoadOwnerPid,
      DeqCheckDead, DeqSkip, DeqClaim, DeqFence, DeqExpiry, DeqExpire,
      DeqExpirePid, DeqExpireTicket, DeqExpireLoad, DeqExpireClaim,
      DeqExpireFree, DeqOwnerPid, DeqOwnerTicket, DeqOwnerStart,
      DeqLoadOverflow, DeqClaimOverflow, DeqFree, DeqRecycle, DeqClearPid,
      DeqClearTicket, LoadOwnerPid, CheckDead, StoreOwnerPid,
      StoreOwnerTicket, StoreOwnerStart, ClearTicketReturn, LoadOverflow,
      ClaimOverflow, FreePage, Store

LEMMA HotPathIntact ==
  ASSUME IInv, TypeOK, SameStart, Due, Mindful, Contents, Asked,
         NEW p \in Procs, HotPath(p)
  PROVE  Contents' /\ Asked'
<1>0. Lined /\ Fresh /\ loc[p] \in Locals
  BY DEF Mindful, TypeOK, WordsOK
<1>1. Contents'
  BY <1>0, EnqueueContents, DequeueContents, RepairContents DEF HotPath
<1>2. Mindful' /\ Others(p) BY HotPathMindful DEF StepKind
<1>3. Steady(p)
  BY EnqueueSteady, DequeueSteady, RepairSteady DEF HotPath, TypeOK
<1>4. CASE pc[p] # "d_copy"
  BY <1>1, <1>2, <1>3, <1>4, AskedStays DEF Steady
\* The copy of the message is one that was sent.
<1>5. CASE pc[p] = "d_copy"
  <2>1. pc'[p] \in {"d_claim", "d_rec"}
    <3>1. DeqCopy(p) BY <1>5, CopyOnly
    <3> QED BY <3>1, GotoPc DEF DeqCopy, TypeOK
  <2>2. loc'[p].ent \in DOMAIN log'
    BY <1>2, <2>1 DEF Mindful, Lined, Calls, CallOK, Owns, Reading
  <2>3. loc'[p].msg \in Msgs
    BY <1>1, <2>1, <2>2 DEF Contents, ContentOK, Read, Sent
  <2> QED BY <1>1, <1>2, <2>3, AskedStays
<1> QED BY <1>1, <1>4, <1>5

LEMMA CrashIntact ==
  ASSUME IInv, TypeOK, Mindful, Contents, Asked, NEW p \in Procs, Crash(p)
  PROVE  Contents' /\ Asked'
<1> USE DEF ghost, slab
<1>1. /\ pc'[p] = "dead" /\ loc'[p] = Blank /\ Others(p)
      /\ Untouched /\ log' = log
  BY DEF Crash, Others, Untouched, TypeOK, WordsOK
<1>2. ContentOK(p)' BY <1>1, Parts, BareOK
<1>3. Contents' BY <1>1, <1>2, StillStep DEF Mindful
<1>4. Asked' BY <1>1, AskedStays DEF Blank
<1> QED BY <1>3, <1>4

\* Compact writes no slot itself, and asks for nothing.
LEMMA CompactIntact ==
  ASSUME IInv, TypeOK, Desk, Mindful, Contents, Asked, NEW p \in Procs,
         Compact(p)
  PROVE  Contents' /\ Asked'
<1> USE DEF ghost, slab
<1>0. loc[p] \in Locals /\ scan.i \in Slots
  BY DEF TypeOK, WordsOK, Desk
<1>b. CompactPcs \cup {"r_ovf", "idle"} \subseteq Bare
  BY Parts DEF RepairPcs
<1>s. Untouched /\ log' = log
  BY DEF Compact, CompactStart, CompactEnq, CompactDeq, CompactSeq,
         CompactPid, CompactTicket, CompactUnmark, CompactEnd, Untouched
<1>a. ASSUME NEW l \in Bare, Goto(p, l), loc' = loc
      PROVE  Contents' /\ Asked'
  <2>1. pc'[p] = l /\ loc'[p] = loc[p] /\ Others(p) BY <1>a, GotoAt
  <2>2. ContentOK(p)' BY <1>a, <2>1, BareOK
  <2>3. Asked' BY <2>1, AskedStays
  <2> QED BY <1>s, <2>1, <2>2, <2>3, StillStep DEF Mindful
<1>l. ASSUME NEW l \in Bare, Goto(p, l), NEW new,
             loc' = [loc EXCEPT ![p] = new],
             \/ new.ret # "e_pos"
             \/ new.ret = loc[p].ret /\ new.msg = loc[p].msg
      PROVE  Contents' /\ Asked'
  <2>1. pc'[p] = l /\ loc'[p] = new /\ Others(p) BY <1>l, LocalAt
  <2>2. ContentOK(p)' BY <1>l, <2>1, BareOK
  <2>3. Asked' BY <1>l, <2>1, AskedStays
  <2> QED BY <1>s, <2>1, <2>2, <2>3, StillStep DEF Mindful
<1>v. \A n, k : /\ [loc[p] EXCEPT !.tgt = n].ret = loc[p].ret
                /\ [loc[p] EXCEPT !.tgt = n].msg = loc[p].msg
                /\ [loc[p] EXCEPT !.pos = n, !.obs = k].ret = loc[p].ret
                /\ [loc[p] EXCEPT !.pos = n, !.obs = k].msg = loc[p].msg
  BY <1>0 DEF Locals
<1>c. ASSUME Advance(p), loc' = loc PROVE Contents' /\ Asked'
  BY <1>a, <1>b, <1>c DEF Advance, CompactPcs
<1>1. CASE CompactStart(p)
  <2>1. [Blank EXCEPT !.ret = "k_done"].ret = "k_done" BY DEF Blank
  <2> QED BY <1>1, <1>b, <1>l, <2>1 DEF CompactStart, CompactPcs
<1>2. CASE CompactEnq(p) BY <1>2, <1>a, <1>b DEF CompactEnq, CompactPcs
<1>3. CASE CompactDeq(p) BY <1>3, <1>a, <1>b DEF CompactDeq, CompactPcs
<1>4. CASE CompactSeq(p)
  BY <1>4, <1>b, <1>l, <1>v DEF CompactSeq, CompactPcs
<1>5. CASE CompactPid(p)
  <2>1. CASE Goto(p, "k_ticket") /\ loc' = loc
    BY <1>a, <1>b, <2>1 DEF CompactPcs
  <2>2. CASE /\ loc' = [loc EXCEPT ![p].tgt = NextTicket(scan.front, scan.i)]
             /\ Goto(p, "r_ovf")
    BY <1>b, <1>l, <1>v, <2>2
  <2>3. CASE Advance(p) /\ loc' = loc BY <1>c, <2>3
  <2> QED BY <1>5, <2>1, <2>2, <2>3 DEF CompactPid
<1>6. CASE CompactTicket(p) BY <1>6, <1>b, <1>l, <1>v DEF CompactTicket
<1>7. CASE CompactUnmark(p) BY <1>7, <1>c DEF CompactUnmark
<1>8. CASE CompactEnd(p)
  <2>1. Blank.ret # "e_pos" BY DEF Blank
  <2> QED BY <1>8, <1>b, <1>l, <2>1 DEF CompactEnd, Return
<1> QED BY <1>1, <1>2, <1>3, <1>4, <1>5, <1>6, <1>7, <1>8 DEF Compact

\* Whoever gets a message gets the one that was sent, also where processes
\* crash inside their slots and others take these slots and their overflow
\* pages over (try_dequeue, recover_slot, repair_slot_to), when no message
\* with an overflow page can expire in the ring.
THEOREM RecoveryIntact ==
  ASSUME CrashesRecorded, RepairsFound, Due
  PROVE  RSpec => []DeliveredIntact
<1> DEFINE Whole == Contents /\ Asked
<1>1. RInit => Whole
  <2> SUFFICES ASSUME RInit PROVE Contents /\ Asked OBVIOUS
  <2>1. Contents BY InitSettled DEF RInit, AtRest
  <2>2. Asked BY DEF Asked, Asks, RInit, Init, Blank
  <2> QED BY <2>1, <2>2
<1>2. RInv /\ TypeOK /\ Mindful /\ Whole /\ [RNext]_rvars => Whole'
  <2> SUFFICES ASSUME RInv, TypeOK, Mindful, Contents, Asked, [RNext]_rvars
               PROVE  Contents' /\ Asked'
    OBVIOUS
  <2>0. IInv /\ Desk BY DEF RInv
  <2>1. ASSUME NEW p \in Procs, HotPath(p) PROVE Contents' /\ Asked'
    BY <2>0, <2>1, HotPathIntact DEF CrashesRecorded
  <2>2. ASSUME NEW p \in Keepers, Compact(p) PROVE Contents' /\ Asked'
    BY <2>0, <2>2, CompactIntact, RecoveryAssumption
  <2>3. ASSUME NEW p \in Procs, Crash(p) PROVE Contents' /\ Asked'
    BY <2>0, <2>3, CrashIntact
  <2>4. CASE UNCHANGED rvars
    BY <2>4
    DEF Contents, ContentOK, Packed, Holds, ReadyOK, Inline, Sent,
        DeliveredIntact, Ticket, Lap, I, Asked, Asks, rvars, vars
  <2> QED BY <2>1, <2>2, <2>3, <2>4 DEF RNext
<1>3. Whole => DeliveredIntact BY DEF Contents
<1> HIDE DEF Whole
<1> QED BY <1>1, <1>2, <1>3, RecordsInvariance, PTL DEF RSpec
=============================================================================
