----------------------------- MODULE RingProofs -----------------------------
(***************************************************************************)
(* The ring's hot path, for every value of the constants, in three parts.  *)
(*                                                                         *)
(* Type correctness and NoDoubleFree.  A page is a token: it is free, in   *)
(* one slot, or in the hands of one call; NoDoubleFree says the token is   *)
(* never copied.  To be inductive it needs to know what a call's local     *)
(* `pg` means at each label (KnownPages): a call about to claim or to free *)
(* a page has one, and a call that has not reached the allocation has none.*)
(*                                                                         *)
(* Then the order (SlotExclusive, NoneSkipped), and the messages and the   *)
(* ring as a queue (DeliveredIntact, NoPageLeak, ImplementsQueue).         *)
(***************************************************************************)
EXTENDS Ring, TLAPS, SequenceTheorems

Holding == {"t_claim", "d_claim", "r_claim", "t_free", "d_free", "r_free"}
Pageless == {"e_seq", "e_owner", "e_dead", "e_cas", "e_pid", "e_ticket",
             "e_start", "e_alloc"}
Loose == Labels \ (Holding \cup Pageless \cup Carrying)

Known(p) == /\ pc[p] \in Holding => loc[p].pg # None
            /\ pc[p] \in Pageless => loc[p].pg = None
KnownPages == \A p \in Procs : Known(p)

Tokens == WordsOK /\ KnownPages

\* The inductive invariant.
IInv == Tokens /\ HistoryOK /\ NoDoubleFree

\* What every step of a call does.  The two halves are apart because a flush
\* keeps the first and not the second.
Kept == Tokens' /\ (NoDoubleFree => NoDoubleFree')

\* A step of p that takes no page and gives none away.
Calm(p) ==
    /\ WordsOK'
    /\ free' = free /\ \A i \in Slots : slot'[i].ovf = slot[i].ovf
    /\ \A q \in Procs \ {p} : pc'[q] = pc[q] /\ loc'[q] = loc[q]

-----------------------------------------------------------------------------
(* Labels.                                                                 *)

LEMMA LooseLabels ==
  /\ {"idle", "dead", "e_pos", "d_pos", "k_done"} \subseteq Loose
  /\ RepairPcs \ {"r_claim", "r_free"} \subseteq Loose
  /\ CompactPcs \subseteq Loose
  /\ {"x_gen", "x_seq", "x_pid", "x_ticket", "e_gen", "e_drop", "e_pub",
      "c_pid", "c_ticket", "c_gen", "c_retract"} \subseteq Loose
  /\ {"d_gen", "d_seq", "d_owner", "d_dead", "d_skip", "d_cas", "d_fence",
      "f_seq", "f_pid", "f_ticket", "d_exp", "t_seq", "t_pid", "t_ticket",
      "t_ovf", "d_pid", "d_ticket", "d_start", "d_ovf", "d_copy", "d_rec",
      "y_pid", "y_ticket"} \subseteq Loose
  BY DEF Loose, Labels, EnqPcs, DeqPcs, RepairPcs, CompactPcs, Writing,
         Reading, Holding, Pageless, Carrying

LEMMA BoundLabels ==
  /\ Holding \subseteq Labels /\ Pageless \subseteq Labels
  /\ Carrying \subseteq Labels
  /\ Holding \cap Pageless = {} /\ Pageless \cap Carrying = {}
  /\ Loose \subseteq Labels
  BY DEF Loose, Labels, EnqPcs, DeqPcs, RepairPcs, Writing, Reading, Holding,
         Pageless, Carrying

-----------------------------------------------------------------------------
(* Types.                                                                  *)

LEMMA SlotIndex == \A n \in Nat : n % Capacity \in Slots
  BY CapacityAssumption DEF Slots

LEMMA IndexOK ==
  ASSUME WordsOK, NEW p \in Procs
  PROVE  /\ loc[p] \in Locals /\ loc[p].pos \in Nat
         /\ I(p) \in Slots /\ slot[I(p)] \in SlotWords
<1>1. loc[p] \in Locals BY DEF WordsOK
<1>2. loc[p].pos \in Nat BY <1>1 DEF Locals
<1> QED BY <1>1, <1>2, SlotIndex DEF WordsOK, I

LEMMA GotoOK ==
  ASSUME WordsOK, NEW p \in Procs, NEW l \in Labels, Goto(p, l)
  PROVE  pc' \in [Procs -> Labels]
  BY DEF WordsOK, Goto

LEMMA BlankOK == Blank \in Locals
  BY DEF Blank, Locals

LEMMA ReturnOK ==
  ASSUME WordsOK, NEW p \in Procs, Return(p)
  PROVE  pc' \in [Procs -> Labels] /\ loc' \in [Procs -> Locals]
<1>1. "idle" \in Labels BY DEF Labels
<1> QED BY <1>1, BlankOK, GotoOK DEF Return, WordsOK

-----------------------------------------------------------------------------
(* The tokens under one step.                                              *)

LEMMA CalmStep ==
  ASSUME Tokens, NEW p \in Procs, Calm(p), pc'[p] \notin Carrying, Known(p)'
  PROVE  Kept
<1>1. KnownPages' BY DEF Tokens, KnownPages, Calm, Known
<1>2. \A q \in Procs, g \in Pages : Carries(q, g)' => Carries(q, g)
  BY DEF Calm, Carries
<1>3. NoDoubleFree => NoDoubleFree' BY <1>2 DEF Calm, NoDoubleFree
<1> QED BY <1>1, <1>3 DEF Kept, Tokens, Calm

LEMMA LooseStep ==
  ASSUME Tokens, NEW p \in Procs, Calm(p), pc'[p] \in Loose
  PROVE  Kept
  BY CalmStep DEF Loose, Known

\* One of p's labels changes, its locals do not.
LEMMA KeepStep ==
  ASSUME Tokens, NEW p \in Procs, Calm(p), loc'[p] = loc[p],
         \/ pc'[p] \in Loose
         \/ pc[p] \in Pageless /\ pc'[p] \in Pageless
  PROVE  Kept
<1>1. CASE pc'[p] \in Loose BY <1>1, LooseStep
<1>2. CASE pc[p] \in Pageless /\ pc'[p] \in Pageless
  BY <1>2, CalmStep, BoundLabels DEF Tokens, KnownPages, Known
<1> QED BY <1>1, <1>2

LEMMA GotoPc ==
  ASSUME WordsOK, NEW p \in Procs, NEW l, Goto(p, l)
  PROVE  pc'[p] = l /\ \A q \in Procs \ {p} : pc'[q] = pc[q]
  BY DEF WordsOK, Goto

\* A return: the label is "idle", the locals are Blank.
LEMMA ReturnPc ==
  ASSUME WordsOK, NEW p \in Procs, Return(p)
  PROVE  /\ pc'[p] \in Loose
         /\ \A q \in Procs \ {p} : pc'[q] = pc[q] /\ loc'[q] = loc[q]
  BY GotoPc, LooseLabels DEF Return, WordsOK

\* A slot is written at I(p), and keeps its overflow offset.
LEMMA SlotKept ==
  ASSUME WordsOK, NEW p \in Procs, NEW new \in SlotWords,
         new.ovf = slot[I(p)].ovf, slot' = [slot EXCEPT ![I(p)] = new]
  PROVE  /\ slot' \in [Slots -> SlotWords]
         /\ \A i \in Slots : slot'[i].ovf = slot[i].ovf
  BY IndexOK DEF WordsOK

-----------------------------------------------------------------------------
(* The steps the calls share.                                              *)

LEMMA StoreStep ==
  ASSUME Tokens, NEW p \in Procs, NEW at, NEW new \in SlotWords,
         NEW next \in Labels, new.ovf = slot[I(p)].ovf,
         next \in Loose \/ (at \in Pageless /\ next \in Pageless),
         Store(p, at, new, next)
  PROVE  Kept
<1> USE DEF Tokens
<1>1. /\ slot' \in [Slots -> SlotWords]
      /\ \A i \in Slots : slot'[i].ovf = slot[i].ovf
  BY SlotKept DEF Store
<1>2. pc' \in [Procs -> Labels] /\ pc'[p] = next
      /\ \A q \in Procs \ {p} : pc'[q] = pc[q]
  BY GotoOK, GotoPc DEF Store
<1>3. Calm(p) BY <1>1, <1>2 DEF Calm, Store, WordsOK, positions, slab
<1> QED BY <1>2, <1>3, KeepStep DEF Store

LEMMA StoreOwnerPidStep ==
  ASSUME Tokens, NEW p \in Procs, NEW at, NEW v \in Procs \cup {None},
         NEW next \in Labels,
         next \in Loose \/ (at \in Pageless /\ next \in Pageless),
         StoreOwnerPid(p, at, v, next)
  PROVE  Kept
<1>1. [slot[I(p)] EXCEPT !.pid = v] \in SlotWords
      /\ [slot[I(p)] EXCEPT !.pid = v].ovf = slot[I(p)].ovf
  BY IndexOK DEF SlotWords, Tokens
<1> QED BY <1>1, StoreStep DEF StoreOwnerPid

LEMMA StoreOwnerTicketStep ==
  ASSUME Tokens, NEW p \in Procs, NEW at, NEW t \in Nat, NEW next \in Labels,
         next \in Loose \/ (at \in Pageless /\ next \in Pageless),
         StoreOwnerTicket(p, at, t, next)
  PROVE  Kept
<1>1. [slot[I(p)] EXCEPT !.ticket = t] \in SlotWords
      /\ [slot[I(p)] EXCEPT !.ticket = t].ovf = slot[I(p)].ovf
  BY IndexOK DEF SlotWords, Tokens
<1> QED BY <1>1, StoreStep DEF StoreOwnerTicket

LEMMA StoreOwnerStartStep ==
  ASSUME Tokens, NEW p \in Procs, NEW at, NEW next \in Labels,
         next \in Loose \/ (at \in Pageless /\ next \in Pageless),
         StoreOwnerStart(p, at, next)
  PROVE  Kept
<1>1. [slot[I(p)] EXCEPT !.start = StartTime[p]] \in SlotWords
      /\ [slot[I(p)] EXCEPT !.start = StartTime[p]].ovf = slot[I(p)].ovf
  BY IndexOK, ConstantAssumption DEF SlotWords, Tokens
<1> QED BY <1>1, StoreStep DEF StoreOwnerStart

\* A slot keeps its overflow offset and the call goes on at a loose label.
LEMMA SlotStep ==
  ASSUME Tokens, NEW p \in Procs, NEW l \in Loose, Goto(p, l), loc' = loc,
         slot' \in [Slots -> SlotWords],
         \A i \in Slots : slot'[i].ovf = slot[i].ovf,
         UNCHANGED <<positions, gen, slab, sends>>
  PROVE  Kept
<1>1. pc' \in [Procs -> Labels] /\ pc'[p] = l
      /\ \A q \in Procs \ {p} : pc'[q] = pc[q]
  BY GotoOK, GotoPc, BoundLabels DEF Tokens
<1>2. Calm(p) BY <1>1 DEF Tokens, Calm, WordsOK, positions, slab
<1> QED BY <1>1, <1>2, LooseStep

\* The same for the step that returns.
LEMMA SlotReturn ==
  ASSUME Tokens, NEW p \in Procs, Return(p), slot' \in [Slots -> SlotWords],
         \A i \in Slots : slot'[i].ovf = slot[i].ovf,
         UNCHANGED <<positions, gen, slab, sends>>
  PROVE  Kept
<1>1. Calm(p)
  BY ReturnOK, ReturnPc DEF Tokens, Calm, WordsOK, positions, slab
<1> QED BY <1>1, ReturnPc, LooseStep DEF Tokens

LEMMA ClearTicketReturnStep ==
  ASSUME Tokens, NEW p \in Procs, NEW at, ClearTicketReturn(p, at)
  PROVE  Kept
<1>1. [slot[I(p)] EXCEPT !.ticket = 0] \in SlotWords
      /\ [slot[I(p)] EXCEPT !.ticket = 0].ovf = slot[I(p)].ovf
  BY IndexOK DEF SlotWords, Tokens
<1>2. slot' \in [Slots -> SlotWords]
      /\ \A i \in Slots : slot'[i].ovf = slot[i].ovf
  BY <1>1, SlotKept DEF ClearTicketReturn, Tokens
<1> QED BY <1>2, SlotReturn DEF ClearTicketReturn

LEMMA CasSeqKept ==
  ASSUME Tokens, NEW p \in Procs, NEW e, NEW n \in Nat, CasSeq(p, e, n)
  PROVE  slot' \in [Slots -> SlotWords]
         /\ \A i \in Slots : slot'[i].ovf = slot[i].ovf
<1>1. [slot[I(p)] EXCEPT !.seq = n] \in SlotWords
      /\ [slot[I(p)] EXCEPT !.seq = n].ovf = slot[I(p)].ovf
  BY IndexOK DEF SlotWords, Tokens
<1> QED BY <1>1, SlotKept DEF CasSeq, Tokens, WordsOK

\* One local record changes and the call goes on at label l.
LEMMA LocalStep ==
  ASSUME Tokens, NEW p \in Procs, NEW l \in Labels, NEW new \in Locals,
         Goto(p, l), loc' = [loc EXCEPT ![p] = new], l \notin Carrying,
         l \in Holding => new.pg # None, l \in Pageless => new.pg = None,
         UNCHANGED <<gen, slot, slab>>, enq' \in Nat, deq' \in Nat,
         sends' \in Nat
  PROVE  Kept
<1>1. pc' \in [Procs -> Labels] /\ pc'[p] = l
      /\ \A q \in Procs \ {p} : pc'[q] = pc[q]
  BY GotoOK, GotoPc DEF Tokens
<1>2. loc' \in [Procs -> Locals] /\ loc'[p] = new
      /\ \A q \in Procs \ {p} : loc'[q] = loc[q]
  BY DEF Tokens, WordsOK
<1>3. Calm(p) BY <1>1, <1>2 DEF Tokens, Calm, WordsOK, slab
<1> QED BY <1>1, <1>2, <1>3, CalmStep DEF Known

LEMMA LooseLocal ==
  ASSUME Tokens, NEW p \in Procs, NEW l \in Loose, NEW new \in Locals,
         Goto(p, l), loc' = [loc EXCEPT ![p] = new],
         UNCHANGED <<positions, gen, slot, slab, sends>>
  PROVE  Kept
<1>1. l \in Labels /\ l \notin Carrying \cup Holding \cup Pageless
  BY DEF Loose
<1>2. enq' \in Nat /\ deq' \in Nat /\ sends' \in Nat
  BY DEF Tokens, WordsOK, positions
<1> QED BY <1>1, <1>2, LocalStep

LEMMA LoadOverflowStep ==
  ASSUME Tokens, NEW p \in Procs, NEW at, NEW some \in Labels,
         some \notin Pageless \cup Carrying, NEW none \in Loose,
         LoadOverflow(p, at, some, none)
  PROVE  Kept
<1> DEFINE new == [loc[p] EXCEPT !.pg = slot[I(p)].ovf]
<1>1. new \in Locals /\ new.pg = slot[I(p)].ovf
  BY IndexOK DEF Locals, SlotWords, Tokens
<1>2. loc' = [loc EXCEPT ![p] = new] BY DEF LoadOverflow
<1>3. enq' \in Nat /\ deq' \in Nat /\ sends' \in Nat
  BY DEF LoadOverflow, positions, Tokens, WordsOK
<1>4. UNCHANGED <<gen, slot, slab>> BY DEF LoadOverflow
<1> HIDE DEF new
<1>5. CASE slot[I(p)].ovf # None
  <2>1. Goto(p, some) BY <1>5 DEF LoadOverflow
  <2> QED BY <2>1, <1>1, <1>2, <1>3, <1>4, <1>5, LocalStep
<1>6. CASE slot[I(p)].ovf = None
  <2>1. Goto(p, none) BY <1>6 DEF LoadOverflow
  <2>2. none \in Labels /\ none \notin Carrying \cup Holding \cup Pageless
    BY DEF Loose
  <2> QED BY <2>1, <2>2, <1>1, <1>2, <1>3, <1>4, LocalStep
<1> QED BY <1>5, <1>6

LEMMA LoadOwnerPidStep ==
  ASSUME Tokens, NEW p \in Procs, NEW at, NEW next \in Labels,
         next \in Loose \/ (at \in Pageless /\ next \in Pageless),
         LoadOwnerPid(p, at, next)
  PROVE  Kept
<1>1. CASE Return(p)
  BY <1>1, SlotReturn DEF LoadOwnerPid, Tokens, WordsOK
<1>2. CASE /\ slot[I(p)].pid \notin {None, Recovering}
           /\ loc' = [loc EXCEPT ![p].vic = slot[I(p)].pid]
           /\ Goto(p, next)
  <2> DEFINE new == [loc[p] EXCEPT !.vic = slot[I(p)].pid]
  <2>1. new \in Locals /\ new.pg = loc[p].pg
    BY <1>2, IndexOK DEF Locals, SlotWords, Tokens
  <2>2. loc' = [loc EXCEPT ![p] = new] BY <1>2
  <2>3. enq' \in Nat /\ deq' \in Nat /\ sends' \in Nat
        /\ UNCHANGED <<gen, slot, slab>>
    BY DEF LoadOwnerPid, positions, Tokens, WordsOK
  <2> HIDE DEF new
  <2>4. next \notin Carrying /\ next \notin Holding
        /\ (next \in Pageless => new.pg = None)
    BY <2>1, BoundLabels
    DEF Loose, LoadOwnerPid, Tokens, KnownPages, Known
  <2> QED BY <1>2, <2>1, <2>2, <2>3, <2>4, LocalStep
<1> QED BY <1>1, <1>2 DEF LoadOwnerPid

LEMMA CheckDeadStep ==
  ASSUME Tokens, NEW p \in Procs, NEW at, CheckDead(p, at)
  PROVE  Kept
<1>1. "r_cas" \in Loose BY LooseLabels DEF RepairPcs
<1>2. CASE Goto(p, "r_cas") /\ UNCHANGED loc
  BY <1>1, <1>2, SlotStep DEF CheckDead, Tokens, WordsOK
<1>3. CASE Return(p)
  BY <1>3, SlotReturn DEF CheckDead, Tokens, WordsOK
<1> QED BY <1>2, <1>3 DEF CheckDead

\* The page goes from the slot to the call.
LEMMA ClaimOverflowStep ==
  ASSUME Tokens, NEW p \in Procs, NEW at \in Holding \ Carrying,
         NEW won \in Holding \cap Carrying, NEW lost \in Loose,
         ClaimOverflow(p, at, won, lost)
  PROVE  Kept
<1>0. pc[p] = at /\ loc[p].pg \in Pages
  BY IndexOK DEF ClaimOverflow, Tokens, KnownPages, Known, Locals
<1>1. CASE /\ slot[I(p)].ovf = loc[p].pg
           /\ slot' = [slot EXCEPT ![I(p)].ovf = None]
           /\ Goto(p, won)
  <2>1. pc' \in [Procs -> Labels] /\ pc'[p] = won
        /\ \A q \in Procs \ {p} : pc'[q] = pc[q]
    BY <1>1, GotoOK, GotoPc, BoundLabels DEF Tokens
  <2>2. [slot[I(p)] EXCEPT !.ovf = None] \in SlotWords
        /\ [slot[I(p)] EXCEPT !.ovf = None].ovf = None
    BY IndexOK DEF SlotWords, Tokens
  <2>3. slot' \in [Slots -> SlotWords] /\ slot'[I(p)].ovf = None
        /\ \A i \in Slots \ {I(p)} : slot'[i] = slot[i]
    BY <1>1, <2>2, IndexOK DEF Tokens, WordsOK
  <2>4. WordsOK'
    BY <2>1, <2>3 DEF ClaimOverflow, Tokens, WordsOK, positions, slab
  <2>5. KnownPages'
    BY <2>1, <1>0, ConstantAssumption, BoundLabels
    DEF ClaimOverflow, Tokens, KnownPages, Known
  <2>6. \A q \in Procs, g \in Pages :
           Carries(q, g)' <=> Carries(q, g) \/ (q = p /\ g = loc[p].pg)
    BY <2>1, <1>0 DEF Carries, ClaimOverflow
  <2>7. NoDoubleFree => NoDoubleFree'
    BY <2>3, <2>6, <1>0, <1>1, IndexOK, ConstantAssumption
    DEF NoDoubleFree, Tokens, ClaimOverflow, slab
  <2> QED BY <2>4, <2>5, <2>7 DEF Kept, Tokens
<1>2. CASE Goto(p, lost) /\ UNCHANGED slot
  BY <1>2, SlotStep DEF ClaimOverflow, Tokens, WordsOK
<1> QED BY <1>1, <1>2 DEF ClaimOverflow

\* The page goes from the call to the slab.
LEMMA FreePageStep ==
  ASSUME Tokens, NEW p \in Procs, NEW at \in Holding \cap Carrying,
         NEW next \in Loose, FreePage(p, at, next)
  PROVE  Kept
<1>0. pc[p] = at /\ loc[p].pg \in Pages
  BY IndexOK DEF FreePage, Tokens, KnownPages, Known, Locals
<1>1. pc' \in [Procs -> Labels] /\ pc'[p] = next
      /\ \A q \in Procs \ {p} : pc'[q] = pc[q]
  BY GotoOK, GotoPc, BoundLabels DEF Tokens, FreePage
<1>2. WordsOK' BY <1>0, <1>1 DEF FreePage, Tokens, WordsOK, positions
<1>3. KnownPages' BY <1>1 DEF FreePage, Tokens, KnownPages, Known, Loose
<1>4. \A q \in Procs, g \in Pages :
         Carries(q, g)' <=> Carries(q, g) /\ q # p
  BY <1>1 DEF Carries, FreePage, Loose
<1>5. Carries(p, loc[p].pg) BY <1>0 DEF Carries
<1>6. NoDoubleFree => NoDoubleFree'
  BY <1>0, <1>4, <1>5 DEF FreePage, Tokens, NoDoubleFree
<1> QED BY <1>2, <1>3, <1>6 DEF Kept, Tokens

-----------------------------------------------------------------------------
(* The producer's page.                                                    *)

\* The page goes from the slab to the call, or there is none.
LEMMA EnqAllocStep ==
  ASSUME Tokens, NEW p \in Procs, EnqAlloc(p)
  PROVE  Kept
<1>0. pc[p] = "e_alloc" /\ loc[p] \in Locals /\ loc[p].pg = None
  BY IndexOK DEF EnqAlloc, Tokens, KnownPages, Known, Pageless
<1>l. "e_body" \in Carrying /\ "e_body" \in Labels
      /\ "e_body" \notin Holding \cup Pageless
  BY BoundLabels DEF Carrying, Holding, Pageless
<1>1. CASE Goto(p, "e_body") /\ UNCHANGED <<free, loc>>
  <2>1. pc' \in [Procs -> Labels] /\ pc'[p] = "e_body"
        /\ \A q \in Procs \ {p} : pc'[q] = pc[q]
    BY <1>1, <1>l, GotoOK, GotoPc DEF Tokens
  <2>2. WordsOK' BY <1>1, <2>1 DEF EnqAlloc, Tokens, WordsOK, positions
  <2>3. KnownPages' BY <1>1, <1>l, <2>1 DEF Tokens, KnownPages, Known
  <2>4. \A q \in Procs, g \in Pages : Carries(q, g)' => Carries(q, g)
    BY <1>0, <1>1, <2>1, ConstantAssumption DEF Carries
  <2>5. NoDoubleFree => NoDoubleFree'
    BY <1>1, <2>4 DEF EnqAlloc, Tokens, NoDoubleFree
  <2> QED BY <2>2, <2>3, <2>5 DEF Kept, Tokens
<1>2. ASSUME NEW g \in free, free' = free \ {g},
             loc' = [loc EXCEPT ![p].pg = g], Goto(p, "e_body")
      PROVE  Kept
  <2>1. pc' \in [Procs -> Labels] /\ pc'[p] = "e_body"
        /\ \A q \in Procs \ {p} : pc'[q] = pc[q]
    BY <1>2, <1>l, GotoOK, GotoPc DEF Tokens
  <2>2. g \in Pages BY DEF Tokens, WordsOK
  <2>3. [loc[p] EXCEPT !.pg = g] \in Locals
        /\ [loc[p] EXCEPT !.pg = g].pg = g
    BY <1>0, <2>2 DEF Locals
  <2>4. loc' \in [Procs -> Locals] /\ loc'[p].pg = g
        /\ \A q \in Procs \ {p} : loc'[q] = loc[q]
    BY <1>2, <2>3 DEF Tokens, WordsOK
  <2>5. WordsOK' BY <1>2, <2>1, <2>4 DEF EnqAlloc, Tokens, WordsOK, positions
  <2>6. KnownPages' BY <1>l, <2>1, <2>4 DEF Tokens, KnownPages, Known
  <2>7. \A q \in Procs, h \in Pages :
           Carries(q, h)' => Carries(q, h) \/ (q = p /\ h = g)
    BY <2>1, <2>4 DEF Carries
  <2>8. NoDoubleFree => NoDoubleFree'
    BY <1>2, <2>2, <2>7 DEF EnqAlloc, Tokens, NoDoubleFree
  <2> QED BY <2>5, <2>6, <2>8 DEF Kept, Tokens
<1>3. CASE Goto(p, "x_gen") /\ UNCHANGED <<free, loc>>
  BY <1>3, LooseLabels, SlotStep DEF EnqAlloc, Tokens, WordsOK, slab
<1> QED BY <1>1, <1>2, <1>3 DEF EnqAlloc

LEMMA EnqPayloadStep ==
  ASSUME Tokens, NEW p \in Procs, EnqPayload(p)
  PROVE  Kept
<1>0. pc[p] = "e_body" /\ loc[p] \in Locals /\ slot[I(p)] \in SlotWords
  BY IndexOK DEF EnqPayload, Tokens
<1>l. {"e_body", "e_ovf"} \subseteq Carrying /\ "e_ovf" \in Labels
      /\ "e_ovf" \notin Holding \cup Pageless
  BY BoundLabels DEF Carrying, Holding, Pageless
<1>1. pc' \in [Procs -> Labels] /\ pc'[p] = "e_ovf"
      /\ \A q \in Procs \ {p} : pc'[q] = pc[q]
  BY <1>l, GotoOK, GotoPc DEF Tokens, EnqPayload
<1>2. [slot[I(p)] EXCEPT !.body = loc[p].msg] \in SlotWords
      /\ [slot[I(p)] EXCEPT !.body = loc[p].msg].ovf = slot[I(p)].ovf
  BY <1>0 DEF SlotWords, Locals
<1>3. slot' \in [Slots -> SlotWords]
      /\ \A i \in Slots : slot'[i].ovf = slot[i].ovf
  BY <1>2, SlotKept DEF EnqPayload, Tokens
<1>4. page' \in [Pages -> Msgs \cup {None}]
  BY <1>0 DEF EnqPayload, Tokens, WordsOK, Locals
<1>5. WordsOK' BY <1>1, <1>3, <1>4 DEF EnqPayload, Tokens, WordsOK, positions
<1>6. KnownPages' BY <1>l, <1>1 DEF EnqPayload, Tokens, KnownPages, Known
<1>7. \A q \in Procs, g \in Pages : Carries(q, g)' => Carries(q, g)
  BY <1>0, <1>1, <1>l DEF Carries, EnqPayload
<1>8. NoDoubleFree => NoDoubleFree'
  BY <1>3, <1>7 DEF EnqPayload, Tokens, NoDoubleFree
<1> QED BY <1>5, <1>6, <1>8 DEF Kept, Tokens

\* The page goes from the call to the slot.
LEMMA EnqOverflowStep ==
  ASSUME Tokens, NEW p \in Procs, EnqOverflow(p)
  PROVE  Kept
<1>0. pc[p] = "e_ovf" /\ loc[p] \in Locals /\ I(p) \in Slots
      /\ slot[I(p)] \in SlotWords
  BY IndexOK DEF EnqOverflow, Store, Tokens
<1>l. "e_ovf" \in Carrying /\ "e_gen" \in Loose /\ "e_gen" \in Labels
  BY LooseLabels, BoundLabels DEF Carrying
<1>1. pc' \in [Procs -> Labels] /\ pc'[p] = "e_gen"
      /\ \A q \in Procs \ {p} : pc'[q] = pc[q]
  BY <1>l, GotoOK, GotoPc DEF Tokens, EnqOverflow, Store
<1>2. [slot[I(p)] EXCEPT !.ovf = loc[p].pg] \in SlotWords
      /\ [slot[I(p)] EXCEPT !.ovf = loc[p].pg].ovf = loc[p].pg
  BY <1>0 DEF SlotWords, Locals
<1>3. slot' \in [Slots -> SlotWords] /\ slot'[I(p)].ovf = loc[p].pg
      /\ \A i \in Slots \ {I(p)} : slot'[i] = slot[i]
  BY <1>0, <1>2 DEF EnqOverflow, Store, Tokens, WordsOK
<1>4. WordsOK'
  BY <1>1, <1>3 DEF EnqOverflow, Store, Tokens, WordsOK, positions, slab
<1>5. KnownPages'
  BY <1>l, <1>1 DEF EnqOverflow, Store, Tokens, KnownPages, Known, Loose
<1>6. \A q \in Procs, g \in Pages :
         Carries(q, g)' <=> Carries(q, g) /\ q # p
  BY <1>l, <1>1 DEF Carries, EnqOverflow, Store, Loose
<1>7. \A g \in Pages : loc[p].pg = g => Carries(p, g)
  BY <1>0, <1>l DEF Carries
<1>8. NoDoubleFree => NoDoubleFree'
  BY <1>0, <1>3, <1>6, <1>7
  DEF EnqOverflow, Store, Tokens, NoDoubleFree, slab
<1> QED BY <1>4, <1>5, <1>8 DEF Kept, Tokens

-----------------------------------------------------------------------------
(* The actions.                                                            *)

LEMMA RepairTokens ==
  ASSUME Tokens, NEW p \in Procs, Repair(p)
  PROVE  Kept
<1> USE LooseLabels, BoundLabels DEF RepairPcs
<1>0. loc[p] \in Locals /\ loc[p].ret \in Loose
      /\ loc[p].tgt \in Nat /\ slot[I(p)] \in SlotWords
  BY IndexOK DEF Tokens, Locals
<1>w. Tokens => WordsOK BY DEF Tokens
<1>1. CASE RecoverClaim(p)
  <2>1. [slot[I(p)] EXCEPT !.pid = Recovering] \in SlotWords
        /\ [slot[I(p)] EXCEPT !.pid = Recovering].ovf = slot[I(p)].ovf
    BY <1>0 DEF SlotWords
  <2>2. slot' \in [Slots -> SlotWords]
        /\ \A i \in Slots : slot'[i].ovf = slot[i].ovf
    BY <1>1, <2>1, <1>w, SlotKept DEF RecoverClaim, WordsOK
  <2> QED BY <1>0, <1>1, <2>2, SlotStep DEF RecoverClaim
<1>2. CASE RecoverTicket(p)
  <2> DEFINE new == [loc[p] EXCEPT !.tgt = slot[I(p)].ticket + Capacity]
  <2>1. new \in Locals
    BY <1>0, CapacityAssumption DEF Locals, SlotWords
  <2>2. loc' = [loc EXCEPT ![p] = new] BY <1>2 DEF RecoverTicket
  <2> HIDE DEF new
  <2> QED BY <1>2, <2>1, <2>2, LooseLocal DEF RecoverTicket
<1>3. CASE RecoverSeq(p)
  <2> DEFINE new == [loc[p] EXCEPT !.obs = slot[I(p)].seq]
  <2>1. new \in Locals BY <1>0 DEF Locals, SlotWords
  <2>2. loc' = [loc EXCEPT ![p] = new] BY <1>3 DEF RecoverSeq
  <2> HIDE DEF new
  <2> QED BY <1>3, <2>1, <2>2, LooseLocal DEF RecoverSeq
<1>4. CASE RepairLoadOverflow(p)
  <2>1. "r_claim" \notin Pageless \cup Carrying BY DEF Pageless, Carrying
  <2> QED BY <1>4, <2>1, LoadOverflowStep DEF RepairLoadOverflow, Holding
<1>5. CASE RepairClaimOverflow(p)
  BY <1>5, ClaimOverflowStep DEF RepairClaimOverflow, Holding, Carrying
<1>6. CASE RepairFree(p)
  BY <1>6, FreePageStep DEF RepairFree, Holding, Carrying
<1>7. CASE RepairSeq(p)
  BY <1>0, <1>7, CasSeqKept, SlotStep DEF RepairSeq
<1>8. CASE RepairClearOwner(p)
  <2>1. [slot[I(p)] EXCEPT !.pid = None] \in SlotWords
        /\ [slot[I(p)] EXCEPT !.pid = None].ovf = slot[I(p)].ovf
    BY <1>0 DEF SlotWords
  <2>2. slot' \in [Slots -> SlotWords]
        /\ \A i \in Slots : slot'[i].ovf = slot[i].ovf
    BY <1>8, <2>1, <1>w, SlotKept DEF RepairClearOwner, WordsOK
  <2> QED BY <1>8, <2>2, SlotStep DEF RepairClearOwner
<1>9. CASE RepairClearTicket(p)
  BY <1>0, <1>9, StoreOwnerTicketStep DEF RepairClearTicket
<1> QED BY <1>1, <1>2, <1>3, <1>4, <1>5, <1>6, <1>7, <1>8, <1>9 DEF Repair

LEMMA EnqueueTokens ==
  ASSUME TypeOK, Tokens, NEW p \in Procs, Enqueue(p)
  PROVE  Kept
<1> USE LooseLabels, BoundLabels
<1>0. /\ loc[p] \in Locals /\ slot[I(p)] \in SlotWords
      /\ loc[p].pos \in Nat /\ loc[p].pos + 1 \in Nat
      /\ loc[p].pos + Capacity \in Nat /\ I(p) \in Slots
  BY IndexOK, CapacityAssumption DEF Tokens
<1>w. WordsOK BY DEF Tokens
<1>1. ASSUME NEW m \in Msgs, EnqStart(p, m) PROVE Kept
  <2> DEFINE new == [Blank EXCEPT !.msg = m, !.gen = gen, !.ret = "e_pos"]
  <2>1. new \in Locals BY <1>w, BlankOK DEF Locals, WordsOK
  <2>2. loc' = [loc EXCEPT ![p] = new] BY <1>1 DEF EnqStart
  <2>3. enq' \in Nat /\ deq' \in Nat /\ sends' \in Nat
        /\ UNCHANGED <<gen, slot, slab>>
    BY <1>1, <1>w DEF EnqStart, WordsOK, positions
  <2>4. "e_pos" \in Labels /\ "e_pos" \notin Carrying \cup Holding \cup Pageless
    BY DEF Loose
  <2>5. Goto(p, "e_pos") BY <1>1 DEF EnqStart
  <2> HIDE DEF new
  <2> QED BY <2>1, <2>2, <2>3, <2>4, <2>5, LocalStep
<1>2. CASE EnqLoadPos(p)
  <2> DEFINE new == [loc[p] EXCEPT !.pos = enq, !.vic = None, !.pg = None,
                                   !.obs = 0, !.tgt = 0]
  <2>1. new \in Locals /\ new.pg = None
    BY <1>0, <1>w DEF Locals, WordsOK
  <2>2. loc' = [loc EXCEPT ![p] = new] BY <1>2 DEF EnqLoadPos
  <2>3. "e_seq" \in Labels /\ "e_seq" \notin Carrying \cup Holding
    BY DEF Pageless, Carrying, Holding
  <2>4. enq' \in Nat /\ deq' \in Nat /\ sends' \in Nat
        /\ UNCHANGED <<gen, slot, slab>> /\ Goto(p, "e_seq")
    BY <1>2, <1>w DEF EnqLoadPos, WordsOK, positions
  <2> HIDE DEF new
  <2> QED BY <2>1, <2>2, <2>3, <2>4, LocalStep
<1>3. CASE EnqLoadSeq(p)
  <2>1. CASE /\ UNCHANGED loc
             /\ Goto(p, "e_cas") \/ Goto(p, "e_owner")
    <3>1. pc[p] \in Pageless /\ {"e_cas", "e_owner"} \subseteq Pageless
      BY <1>3 DEF EnqLoadSeq, Pageless
    <3>2. pc' \in [Procs -> Labels] /\ pc'[p] \in {"e_cas", "e_owner"}
          /\ \A q \in Procs \ {p} : pc'[q] = pc[q]
      BY <2>1, <3>1, <1>w, GotoOK, GotoPc
    <3>3. Calm(p)
      BY <1>3, <2>1, <3>2 DEF EnqLoadSeq, Calm, Tokens, WordsOK, positions, slab
    <3> QED BY <2>1, <3>1, <3>2, <3>3, KeepStep
  <2>2. CASE loc' = [loc EXCEPT ![p].spins = @ + 1] /\ Goto(p, "e_pos")
    <3> DEFINE new == [loc[p] EXCEPT !.spins = @ + 1]
    <3>1. new \in Locals BY <1>0 DEF Locals
    <3>2. loc' = [loc EXCEPT ![p] = new] BY <2>2
    <3> HIDE DEF new
    <3> QED BY <1>3, <2>2, <3>1, <3>2, LooseLocal DEF EnqLoadSeq
  <2>3. CASE Return(p)
    BY <1>3, <2>3, <1>w, SlotReturn DEF EnqLoadSeq, WordsOK
  <2> QED BY <1>3, <2>1, <2>2, <2>3 DEF EnqLoadSeq
<1>4. CASE EnqLoadOwnerPid(p)
  BY <1>4, LoadOwnerPidStep DEF EnqLoadOwnerPid, Pageless
<1>5. CASE EnqCheckDead(p) BY <1>5, CheckDeadStep DEF EnqCheckDead
<1>6. CASE EnqClaim(p)
  <2>1. CASE /\ enq' = enq + 1
             /\ loc' = [loc EXCEPT ![p].ent = Entry(enq)] /\ Goto(p, "e_pid")
    <3> DEFINE new == [loc[p] EXCEPT !.ent = Entry(enq)]
    <3>0. Entry(enq) \in Int
      BY <1>w DEF Entry, WordsOK, TypeOK, HistoryOK
    <3>1. new \in Locals /\ new.pg = loc[p].pg
      BY <1>0, <3>0 DEF Locals
    <3>2. loc' = [loc EXCEPT ![p] = new] BY <2>1
    <3>3. pc[p] = "e_cas" /\ loc[p].pg = None
      BY <1>6 DEF EnqClaim, Tokens, KnownPages, Known, Pageless
    <3>4. "e_pid" \in Pageless /\ "e_pid" \notin Holding
      BY DEF Pageless, Holding
    <3>5. enq' \in Nat /\ deq' \in Nat /\ sends' \in Nat
          /\ UNCHANGED <<gen, slot, slab>>
      BY <1>6, <2>1, <1>w DEF EnqClaim, WordsOK
    <3>6. "e_pid" \in Labels /\ "e_pid" \notin Carrying
      BY <3>4
    <3> HIDE DEF new
    <3> QED BY <2>1, <3>1, <3>2, <3>3, <3>4, <3>5, <3>6, LocalStep
  <2>2. CASE Goto(p, "e_pos") /\ UNCHANGED <<enq, log, loc>>
    BY <1>6, <2>2, <1>w, SlotStep DEF EnqClaim, WordsOK, positions
  <2> QED BY <1>6, <2>1, <2>2 DEF EnqClaim
<1>7. CASE EnqOwnerPid(p)
  BY <1>7, StoreOwnerPidStep DEF EnqOwnerPid, Pageless
<1>8. CASE EnqOwnerTicket(p)
  BY <1>0, <1>8, StoreOwnerTicketStep DEF EnqOwnerTicket, Pageless
<1>9. CASE EnqOwnerStart(p)
  BY <1>9, StoreOwnerStartStep DEF EnqOwnerStart, Pageless
<1>10. CASE EnqAlloc(p) BY <1>10, EnqAllocStep
<1>11. CASE EnqExhausted(p)
  BY <1>11, <1>w, SlotStep DEF EnqExhausted, WordsOK
<1>12. CASE EnqTombstone(p)
  BY <1>0, <1>12, CasSeqKept, SlotStep DEF EnqTombstone
<1>13. CASE EnqTombstonePid(p)
  BY <1>13, StoreOwnerPidStep DEF EnqTombstonePid
<1>14. CASE EnqTombstoneTicket(p)
  BY <1>14, ClearTicketReturnStep DEF EnqTombstoneTicket
<1>15. CASE EnqPayload(p) BY <1>15, EnqPayloadStep
<1>16. CASE EnqOverflow(p) BY <1>16, EnqOverflowStep
<1>17. CASE EnqFence(p)
  BY <1>17, <1>w, SlotStep DEF EnqFence, WordsOK
<1>18. CASE EnqPublish(p)
  <2>1. [slot[I(p)] EXCEPT !.seq = loc[p].pos + 1] \in SlotWords
        /\ [slot[I(p)] EXCEPT !.seq = loc[p].pos + 1].ovf = slot[I(p)].ovf
    BY <1>0 DEF SlotWords
  <2> QED BY <1>18, <2>1, StoreStep DEF EnqPublish
<1>19. CASE EnqClearPid(p) BY <1>19, StoreOwnerPidStep DEF EnqClearPid
<1>20. CASE EnqClearTicket(p)
  BY <1>20, StoreOwnerTicketStep DEF EnqClearTicket
<1>21. CASE EnqLastFence(p)
  BY <1>21, <1>w, SlotStep, SlotReturn DEF EnqLastFence, WordsOK
<1> QED
  BY <1>1, <1>2, <1>3, <1>4, <1>5, <1>6, <1>7, <1>8, <1>9, <1>10, <1>11,
     <1>12, <1>13, <1>14, <1>15, <1>16, <1>17, <1>18, <1>19, <1>20, <1>21
  DEF Enqueue

LEMMA DequeueTokens ==
  ASSUME TypeOK, Tokens, NEW p \in Procs, Dequeue(p)
  PROVE  Kept
<1> USE LooseLabels, BoundLabels
<1>0. /\ loc[p] \in Locals /\ slot[I(p)] \in SlotWords
      /\ loc[p].pos \in Nat /\ loc[p].pos + Capacity \in Nat
  BY IndexOK, CapacityAssumption DEF Tokens
<1>w. WordsOK BY DEF Tokens
<1>1. CASE DeqLoadPos(p)
  <2> DEFINE new == [Blank EXCEPT !.pos = deq, !.ret = "d_pos"]
  <2>1. new \in Locals BY <1>w, BlankOK DEF Locals, WordsOK
  <2>2. loc' = [loc EXCEPT ![p] = new] BY <1>1 DEF DeqLoadPos
  <2> HIDE DEF new
  <2> QED BY <1>1, <2>1, <2>2, LooseLocal DEF DeqLoadPos
<1>2. CASE DeqLoadGen(p)
  <2> DEFINE new == [loc[p] EXCEPT !.gen = gen]
  <2>1. new \in Locals BY <1>0, <1>w DEF Locals, WordsOK
  <2>2. loc' = [loc EXCEPT ![p] = new] BY <1>2 DEF DeqLoadGen
  <2> HIDE DEF new
  <2> QED BY <1>2, <2>1, <2>2, LooseLocal DEF DeqLoadGen
<1>3. CASE DeqLoadSeq(p)
  BY <1>3, <1>w, SlotStep DEF DeqLoadSeq, WordsOK
<1>4. CASE DeqLoadOwnerPid(p)
  BY <1>4, LoadOwnerPidStep DEF DeqLoadOwnerPid
<1>5. CASE DeqCheckDead(p) BY <1>5, CheckDeadStep DEF DeqCheckDead
<1>6. CASE DeqSkip(p)
  <2>1. loc' = [loc EXCEPT ![p] = loc[p]]
    BY <1>6, <1>w DEF DeqSkip, WordsOK
  <2>2. enq' \in Nat /\ deq' \in Nat /\ sends' \in Nat
        /\ UNCHANGED <<gen, slot, slab>> /\ Goto(p, "d_pos")
    BY <1>6, <1>w DEF DeqSkip, WordsOK
  <2>3. "d_pos" \in Labels
        /\ "d_pos" \notin Carrying \cup Holding \cup Pageless
    BY DEF Loose
  <2> QED BY <1>0, <2>1, <2>2, <2>3, LocalStep
<1>7. CASE DeqClaim(p)
  <2>1. CASE /\ deq' = deq + 1
             /\ loc' = [loc EXCEPT ![p].ent = Taken(deq)]
             /\ Goto(p, "d_fence")
    <3> DEFINE new == [loc[p] EXCEPT !.ent = Taken(deq)]
    <3>0. Taken(deq) \in Int
      BY <1>w DEF Taken, WordsOK, TypeOK, HistoryOK
    <3>1. new \in Locals BY <1>0, <3>0 DEF Locals
    <3>2. loc' = [loc EXCEPT ![p] = new] BY <2>1
    <3>3. enq' \in Nat /\ deq' \in Nat /\ sends' \in Nat
          /\ UNCHANGED <<gen, slot, slab>>
      BY <1>7, <2>1, <1>w DEF DeqClaim, WordsOK
    <3>4. "d_fence" \in Labels
          /\ "d_fence" \notin Carrying \cup Holding \cup Pageless
      BY DEF Loose
    <3> HIDE DEF new
    <3> QED BY <2>1, <3>1, <3>2, <3>3, <3>4, LocalStep
  <2>2. CASE Goto(p, "d_pos") /\ UNCHANGED <<deq, log, loc>>
    BY <1>7, <2>2, <1>w, SlotStep DEF DeqClaim, WordsOK, positions
  <2> QED BY <1>7, <2>1, <2>2 DEF DeqClaim
<1>8. CASE DeqFence(p) BY <1>8, <1>w, SlotStep DEF DeqFence, WordsOK
<1>9. CASE DeqExpiry(p) BY <1>9, <1>w, SlotStep DEF DeqExpiry, WordsOK
<1>s. [slot[I(p)] EXCEPT !.seq = loc[p].pos + Capacity] \in SlotWords
      /\ [slot[I(p)] EXCEPT !.seq = loc[p].pos + Capacity].ovf
            = slot[I(p)].ovf
  BY <1>0 DEF SlotWords
<1>10. CASE DeqExpire(p) BY <1>10, <1>s, StoreStep DEF DeqExpire
<1>11. CASE DeqExpirePid(p) BY <1>11, StoreOwnerPidStep DEF DeqExpirePid
<1>12. CASE DeqExpireTicket(p)
  BY <1>12, StoreOwnerTicketStep DEF DeqExpireTicket
<1>13. CASE DeqExpireLoad(p)
  <2>1. "t_claim" \notin Pageless \cup Carrying BY DEF Pageless, Carrying
  <2> QED BY <1>13, <2>1, LoadOverflowStep DEF DeqExpireLoad, Holding
<1>14. CASE DeqExpireClaim(p)
  BY <1>14, ClaimOverflowStep DEF DeqExpireClaim, Holding, Carrying
<1>15. CASE DeqExpireFree(p)
  BY <1>15, FreePageStep DEF DeqExpireFree, Holding, Carrying
<1>16. CASE DeqOwnerPid(p) BY <1>16, StoreOwnerPidStep DEF DeqOwnerPid
<1>17. CASE DeqOwnerTicket(p)
  BY <1>0, <1>17, StoreOwnerTicketStep DEF DeqOwnerTicket
<1>18. CASE DeqOwnerStart(p)
  BY <1>18, StoreOwnerStartStep DEF DeqOwnerStart
<1>19. CASE DeqLoadOverflow(p)
  <2>1. "d_copy" \in Loose OBVIOUS
  <2>2. "d_copy" \notin Pageless \cup Carrying BY <2>1 DEF Loose
  <2> QED BY <1>19, <2>1, <2>2, LoadOverflowStep DEF DeqLoadOverflow
<1>20. CASE DeqCopy(p)
  <2> DEFINE got == IF loc[p].pg # None THEN page[loc[p].pg]
                    ELSE IF slot[I(p)].body \in Large THEN None
                    ELSE slot[I(p)].body
             new == [loc[p] EXCEPT !.msg = got]
  <2>1. got \in Msgs \cup {None}
    BY <1>0, <1>w DEF Locals, SlotWords, WordsOK
  <2> HIDE DEF got
  <2>2. new \in Locals /\ new.pg = loc[p].pg BY <1>0, <2>1 DEF Locals
  <2>3. loc' = [loc EXCEPT ![p] = new] BY <1>20 DEF DeqCopy, got
  <2> HIDE DEF new
  <2>4. "d_claim" \in Labels /\ "d_claim" \notin Carrying \cup Pageless
    BY DEF Holding, Carrying, Pageless
  <2>5. enq' \in Nat /\ deq' \in Nat /\ sends' \in Nat
        /\ UNCHANGED <<gen, slot, slab>>
    BY <1>20, <1>w DEF DeqCopy, positions, WordsOK
  <2>6. CASE loc[p].pg # None
    <3>1. Goto(p, "d_claim") BY <1>20, <2>6 DEF DeqCopy
    <3> QED BY <3>1, <2>2, <2>3, <2>4, <2>5, <2>6, LocalStep
  <2>7. CASE loc[p].pg = None
    <3>1. Goto(p, "d_rec") BY <1>20, <2>7 DEF DeqCopy
    <3>2. "d_rec" \in Labels
          /\ "d_rec" \notin Carrying \cup Pageless \cup Holding
      BY DEF Loose
    <3> QED BY <3>1, <3>2, <2>2, <2>3, <2>5, LocalStep
  <2> QED BY <2>6, <2>7
<1>21. CASE DeqClaimOverflow(p)
  BY <1>21, ClaimOverflowStep DEF DeqClaimOverflow, Holding, Carrying
<1>22. CASE DeqFree(p) BY <1>22, FreePageStep DEF DeqFree, Holding, Carrying
<1>23. CASE DeqRecycle(p) BY <1>23, <1>s, StoreStep DEF DeqRecycle
<1>24. CASE DeqClearPid(p) BY <1>24, StoreOwnerPidStep DEF DeqClearPid
<1>25. CASE DeqClearTicket(p)
  BY <1>25, ClearTicketReturnStep DEF DeqClearTicket
<1> QED
  BY <1>1, <1>2, <1>3, <1>4, <1>5, <1>6, <1>7, <1>8, <1>9, <1>10, <1>11,
     <1>12, <1>13, <1>14, <1>15, <1>16, <1>17, <1>18, <1>19, <1>20, <1>21,
     <1>22, <1>23, <1>24, <1>25 DEF Dequeue

\* The branches behind a failed fence change no page either.
LEMMA FencedTokens ==
  ASSUME Tokens, NEW p \in Procs, Fenced(p)
  PROVE  Kept
<1> USE LooseLabels, BoundLabels
<1>0. /\ loc[p] \in Locals /\ slot[I(p)] \in SlotWords
      /\ loc[p].pos + Capacity \in Nat
  BY IndexOK, CapacityAssumption DEF Tokens
<1>w. WordsOK BY DEF Tokens
<1>1. CASE EnqDrop(p)
  <2>1. [slot[I(p)] EXCEPT !.pid = None] \in SlotWords
        /\ [slot[I(p)] EXCEPT !.pid = None].ovf = slot[I(p)].ovf
    BY <1>0 DEF SlotWords
  <2>2. slot' \in [Slots -> SlotWords]
        /\ \A i \in Slots : slot'[i].ovf = slot[i].ovf
    BY <1>1, <2>1, <1>w, SlotKept DEF EnqDrop, WordsOK
  <2> QED BY <1>1, <2>2, SlotReturn DEF EnqDrop
<1>2. CASE EnqRetract(p)
  BY <1>0, <1>2, CasSeqKept, SlotReturn DEF EnqRetract
<1>3. CASE DeqFenced(p)
  BY <1>0, <1>3, CasSeqKept, SlotStep DEF DeqFenced
<1>4. CASE DeqFencedPid(p) BY <1>4, StoreOwnerPidStep DEF DeqFencedPid
<1>5. CASE DeqFencedTicket(p)
  BY <1>5, ClearTicketReturnStep DEF DeqFencedTicket
<1> QED BY <1>1, <1>2, <1>3, <1>4, <1>5 DEF Fenced

-----------------------------------------------------------------------------
(* The history.                                                            *)

LEMMA EntrySet ==
  ASSUME HistoryOK, NEW n, NEW e,
         n \in DOMAIN log => e \in Tickets, log' = [log EXCEPT ![n] = e]
  PROVE  log' \in Seq(Tickets)
<1>1. Len(log) \in Nat /\ DOMAIN log = 1 .. Len(log)
      /\ log \in [1 .. Len(log) -> Tickets]
  BY DEF HistoryOK
<1>2. log' \in [1 .. Len(log) -> Tickets] BY <1>1
<1> QED BY <1>1, <1>2

LEMMA FateStep ==
  ASSUME HistoryOK, NEW n, NEW f \in Fates, Fate(n, f), base' = base
  PROVE  HistoryOK'
<1>1. n \in DOMAIN log => log[n] \in Tickets BY DEF HistoryOK
<1>2. n \in DOMAIN log => [log[n] EXCEPT !.fate = f] \in Tickets
  BY <1>1 DEF Tickets
<1>3. log' = [log EXCEPT ![n] = [log[n] EXCEPT !.fate = f]]
  BY DEF Fate
<1>4. log' \in Seq(Tickets) BY <1>2, <1>3, EntrySet
<1> QED BY <1>4 DEF HistoryOK

LEMMA GhostStep ==
  ASSUME HistoryOK, UNCHANGED ghost
  PROVE  HistoryOK'
  BY DEF HistoryOK, ghost

LEMMA RepairHistory ==
  ASSUME HistoryOK, NEW p \in Procs, Repair(p)
  PROVE  HistoryOK'
  BY GhostStep
  DEF Repair, RecoverClaim, RecoverTicket, RecoverSeq, RepairLoadOverflow,
      RepairClaimOverflow, RepairFree, RepairSeq, RepairClearOwner,
      RepairClearTicket, LoadOverflow, ClaimOverflow, FreePage,
      StoreOwnerTicket

LEMMA FencedHistory ==
  ASSUME HistoryOK, NEW p \in Procs, Fenced(p)
  PROVE  HistoryOK'
  BY GhostStep
  DEF Fenced, EnqDrop, EnqRetract, DeqFenced, DeqFencedPid, DeqFencedTicket,
      StoreOwnerPid, ClearTicketReturn

LEMMA EnqueueHistory ==
  ASSUME TypeOK, NEW p \in Procs, Enqueue(p)
  PROVE  HistoryOK'
<1>0. HistoryOK /\ loc[p] \in Locals BY IndexOK DEF TypeOK
<1>1. CASE EnqClaim(p)
  <2>1. CASE log' = Append(log, [msg |-> loc[p].msg, fate |-> "claimed",
                                 got |-> None])
    <3>1. [msg |-> loc[p].msg, fate |-> "claimed", got |-> None] \in Tickets
      BY <1>0 DEF Locals, Tickets, Fates
    <3> QED BY <1>0, <1>1, <2>1, <3>1 DEF EnqClaim, HistoryOK
  <2>2. CASE log' = log BY <1>0, <1>1, <2>2 DEF EnqClaim, HistoryOK
  <2> QED BY <1>1, <2>1, <2>2 DEF EnqClaim
<1>2. CASE EnqTombstone(p)
  BY <1>0, <1>2, FateStep DEF EnqTombstone, Fates
<1>3. CASE EnqPublish(p) BY <1>0, <1>3, FateStep DEF EnqPublish, Fates
<1>4. ASSUME ~EnqClaim(p), ~EnqTombstone(p), ~EnqPublish(p)
      PROVE  UNCHANGED ghost
  BY <1>4
  DEF Enqueue, EnqStart, EnqLoadPos, EnqLoadSeq, EnqLoadOwnerPid,
      EnqCheckDead, EnqOwnerPid, EnqOwnerTicket, EnqOwnerStart, EnqAlloc,
      EnqExhausted, EnqTombstonePid, EnqTombstoneTicket, EnqPayload,
      EnqOverflow, EnqFence, EnqClearPid, EnqClearTicket,
      EnqLastFence, LoadOwnerPid, CheckDead, StoreOwnerPid,
      StoreOwnerTicket, StoreOwnerStart, ClearTicketReturn
<1> QED BY <1>0, <1>1, <1>2, <1>3, <1>4, GhostStep

LEMMA DequeueHistory ==
  ASSUME TypeOK, NEW p \in Procs, Dequeue(p)
  PROVE  HistoryOK'
<1>0. HistoryOK /\ loc[p] \in Locals BY IndexOK DEF TypeOK
<1>1. CASE DeqClaim(p)
  <2>1. CASE Fate(Taken(deq), "taken")
    BY <1>0, <1>1, <2>1, FateStep DEF DeqClaim, Fates
  <2>2. CASE log' = log BY <1>0, <1>1, <2>2 DEF DeqClaim, HistoryOK
  <2> QED BY <1>1, <2>1, <2>2 DEF DeqClaim
<1>2. CASE DeqExpire(p) BY <1>0, <1>2, FateStep DEF DeqExpire, Fates
<1>3. CASE DeqRecycle(p)
  <2> DEFINE n == loc[p].ent
             e == [log[n] EXCEPT !.fate = "delivered", !.got = loc[p].msg]
  <2>1. n \in DOMAIN log => log[n] \in Tickets BY <1>0 DEF HistoryOK
  <2>2. n \in DOMAIN log => e \in Tickets
    BY <1>0, <2>1 DEF Tickets, Fates, Locals
  <2>3. log' = [log EXCEPT ![n] = e] BY <1>3 DEF DeqRecycle
  <2> HIDE DEF n, e
  <2>4. log' \in Seq(Tickets) BY <1>0, <2>2, <2>3, EntrySet
  <2> QED BY <1>0, <1>3, <2>4 DEF HistoryOK, DeqRecycle
<1>4. ASSUME ~DeqClaim(p), ~DeqExpire(p), ~DeqRecycle(p)
      PROVE  UNCHANGED ghost
  BY <1>4
  DEF Dequeue, DeqLoadPos, DeqLoadGen, DeqLoadSeq, DeqLoadOwnerPid,
      DeqCheckDead, DeqSkip, DeqFence, DeqExpiry, DeqExpirePid, DeqExpireTicket,
      DeqExpireLoad, DeqExpireClaim, DeqExpireFree, DeqOwnerPid,
      DeqOwnerTicket, DeqOwnerStart, DeqLoadOverflow, DeqCopy,
      DeqClaimOverflow, DeqFree, DeqClearPid, DeqClearTicket, LoadOwnerPid,
      CheckDead, StoreOwnerPid, StoreOwnerTicket, StoreOwnerStart,
      ClearTicketReturn, LoadOverflow, ClaimOverflow, FreePage
<1> QED BY <1>0, <1>1, <1>2, <1>3, <1>4, GhostStep

-----------------------------------------------------------------------------
(* The sample of the generation, and where a call goes on after a repair:  *)
(* how its locals `gen` and `ret` change.                                  *)

Sampled == Labels \ {"idle", "dead", "d_gen"}

\* A step of p ends or restarts a call, or samples, or keeps the sample; p
\* goes on where it would have, or where calls do; a send keeps its message.
Steady(p) ==
    /\ gen' = gen
    /\ loc'[p].ret \in {loc[p].ret, "idle", "e_pos", "d_pos"}
    /\ loc'[p].ret = "e_pos" /\ pc[p] # "d_copy" =>
          \/ loc'[p].msg \in Msgs
          \/ loc'[p].msg = loc[p].msg /\ loc[p].ret = "e_pos"
    /\ \A q \in Procs \ {p} : pc'[q] = pc[q] /\ loc'[q] = loc[q]
    /\ \/ pc'[p] \in {"idle", "d_gen"}
       \/ pc[p] \in {"idle", "d_gen"} /\ loc'[p].gen = gen
       \/ pc[p] \in Sampled /\ loc'[p].gen = loc[p].gen

LEMMA SampledLabels ==
  /\ RepairPcs \subseteq Sampled /\ EnqPcs \subseteq Sampled
  /\ DeqPcs \ {"d_gen"} \subseteq Sampled
  BY DEF Sampled, Labels, RepairPcs, EnqPcs, DeqPcs, Writing, Reading

\* Three shapes: the label changes; the label and one local but for the
\* sample; a return.
LEMMA GotoSteady ==
  ASSUME WordsOK, NEW p \in Procs, NEW l, pc[p] \in Sampled, Goto(p, l),
         loc' = loc, gen' = gen
  PROVE  Steady(p)
  BY GotoPc DEF Steady

LEMMA LocalSteady ==
  ASSUME WordsOK, NEW p \in Procs, NEW l, NEW new, pc[p] \in Sampled,
         Goto(p, l), loc' = [loc EXCEPT ![p] = new], new.gen = loc[p].gen,
         new.ret = loc[p].ret, pc[p] = "d_copy" \/ new.msg = loc[p].msg,
         gen' = gen
  PROVE  Steady(p)
  BY GotoPc DEF Steady, WordsOK

LEMMA ReturnSteady ==
  ASSUME WordsOK, NEW p \in Procs, Return(p), gen' = gen
  PROVE  Steady(p)
<1>1. Goto(p, "idle") BY DEF Return
<1>2. loc'[p] = Blank BY DEF Return, WordsOK
<1>3. Blank.ret = "idle" BY DEF Blank
<1> QED BY <1>1, <1>2, <1>3, GotoPc, ReturnPc DEF Steady

\* The steps the calls share, at labels after the sample.
LEMMA SharedSteady ==
  ASSUME WordsOK, NEW p \in Procs, NEW at \in Sampled, NEW a, NEW b
  PROVE  /\ LoadOverflow(p, at, a, b) => Steady(p)
         /\ ClaimOverflow(p, at, a, b) => Steady(p)
         /\ FreePage(p, at, a) => Steady(p)
         /\ LoadOwnerPid(p, at, a) => Steady(p)
         /\ CheckDead(p, at) => Steady(p)
         /\ Store(p, at, a, b) => Steady(p)
         /\ StoreOwnerPid(p, at, a, b) => Steady(p)
         /\ StoreOwnerTicket(p, at, a, b) => Steady(p)
         /\ StoreOwnerStart(p, at, a) => Steady(p)
         /\ ClearTicketReturn(p, at) => Steady(p)
<1>0. loc[p] \in Locals BY DEF WordsOK
<1>1. ASSUME LoadOverflow(p, at, a, b) PROVE Steady(p)
  <2>1. /\ [loc[p] EXCEPT !.pg = slot[I(p)].ovf].gen = loc[p].gen
        /\ [loc[p] EXCEPT !.pg = slot[I(p)].ovf].ret = loc[p].ret
        /\ [loc[p] EXCEPT !.pg = slot[I(p)].ovf].msg = loc[p].msg
    BY <1>0 DEF Locals
  <2> QED BY <1>1, <2>1, LocalSteady DEF LoadOverflow
<1>2. ASSUME LoadOwnerPid(p, at, a) PROVE Steady(p)
  <2>1. /\ [loc[p] EXCEPT !.vic = slot[I(p)].pid].gen = loc[p].gen
        /\ [loc[p] EXCEPT !.vic = slot[I(p)].pid].ret = loc[p].ret
        /\ [loc[p] EXCEPT !.vic = slot[I(p)].pid].msg = loc[p].msg
    BY <1>0 DEF Locals
  <2> QED BY <1>2, <2>1, LocalSteady, ReturnSteady DEF LoadOwnerPid
<1>3. ASSUME ClaimOverflow(p, at, a, b) PROVE Steady(p)
  BY <1>3, GotoSteady DEF ClaimOverflow
<1>4. ASSUME FreePage(p, at, a) PROVE Steady(p)
  BY <1>4, GotoSteady DEF FreePage
<1>5. ASSUME CheckDead(p, at) PROVE Steady(p)
  BY <1>5, GotoSteady, ReturnSteady DEF CheckDead
<1>6. ASSUME NEW e, NEW l, Store(p, at, e, l) PROVE Steady(p)
  BY <1>6, GotoSteady DEF Store
<1>7. ASSUME ClearTicketReturn(p, at) PROVE Steady(p)
  BY <1>7, ReturnSteady DEF ClearTicketReturn
<1> QED
  BY <1>1, <1>2, <1>3, <1>4, <1>5, <1>6, <1>7
  DEF StoreOwnerPid, StoreOwnerTicket, StoreOwnerStart

LEMMA RepairSteady ==
  ASSUME WordsOK, NEW p \in Procs, Repair(p)
  PROVE  Steady(p)
<1> USE SampledLabels DEF RepairPcs
<1>0. loc[p] \in Locals BY DEF WordsOK
<1>1. CASE RecoverClaim(p) BY <1>1, GotoSteady DEF RecoverClaim
<1>2. CASE RecoverTicket(p)
  <2>1. \A t : /\ [loc[p] EXCEPT !.tgt = t].gen = loc[p].gen
              /\ [loc[p] EXCEPT !.tgt = t].ret = loc[p].ret
              /\ [loc[p] EXCEPT !.tgt = t].msg = loc[p].msg
    BY <1>0 DEF Locals
  <2> QED BY <1>2, <2>1, LocalSteady DEF RecoverTicket
<1>3. CASE RecoverSeq(p)
  <2>1. /\ [loc[p] EXCEPT !.obs = slot[I(p)].seq].gen = loc[p].gen
        /\ [loc[p] EXCEPT !.obs = slot[I(p)].seq].ret = loc[p].ret
        /\ [loc[p] EXCEPT !.obs = slot[I(p)].seq].msg = loc[p].msg
    BY <1>0 DEF Locals
  <2> QED BY <1>3, <2>1, LocalSteady DEF RecoverSeq
<1>4. CASE RepairLoadOverflow(p)
  BY <1>4, SharedSteady DEF RepairLoadOverflow
<1>5. CASE RepairClaimOverflow(p)
  BY <1>5, SharedSteady DEF RepairClaimOverflow
<1>6. CASE RepairFree(p) BY <1>6, SharedSteady DEF RepairFree
<1>7. CASE RepairSeq(p) BY <1>7, GotoSteady DEF RepairSeq
<1>8. CASE RepairClearOwner(p) BY <1>8, GotoSteady DEF RepairClearOwner
<1>9. CASE RepairClearTicket(p) BY <1>9, SharedSteady DEF RepairClearTicket
<1> QED BY <1>1, <1>2, <1>3, <1>4, <1>5, <1>6, <1>7, <1>8, <1>9 DEF Repair

LEMMA EnqueueSteady ==
  ASSUME WordsOK, NEW p \in Procs, Enqueue(p)
  PROVE  Steady(p)
<1> USE SampledLabels DEF EnqPcs, Writing
<1>0. loc[p] \in Locals /\ Blank \in Locals BY BlankOK DEF WordsOK
<1>1. ASSUME NEW m \in Msgs, EnqStart(p, m) PROVE Steady(p)
  <2> DEFINE new == [Blank EXCEPT !.msg = m, !.gen = gen, !.ret = "e_pos"]
  <2>1. new.gen = gen /\ new.ret = "e_pos" /\ new.msg = m
    BY <1>0 DEF Locals
  <2>2. Goto(p, "e_pos") /\ loc' = [loc EXCEPT ![p] = new] /\ pc[p] = "idle"
        /\ gen' = gen
    BY <1>1 DEF EnqStart
  <2> HIDE DEF new
  <2> QED BY <2>1, <2>2, GotoPc DEF Steady, WordsOK
<1>2. CASE EnqLoadPos(p)
  <2> DEFINE new == [loc[p] EXCEPT !.pos = enq, !.vic = None, !.pg = None,
                                   !.obs = 0, !.tgt = 0]
  <2>1. new.gen = loc[p].gen /\ new.ret = loc[p].ret /\ new.msg = loc[p].msg
    BY <1>0 DEF Locals
  <2>2. Goto(p, "e_seq") /\ loc' = [loc EXCEPT ![p] = new]
        /\ pc[p] = "e_pos" /\ gen' = gen
    BY <1>2 DEF EnqLoadPos
  <2> HIDE DEF new
  <2> QED BY <2>1, <2>2, LocalSteady
<1>3. CASE EnqLoadSeq(p)
  <2>1. /\ [loc[p] EXCEPT !.spins = @ + 1].gen = loc[p].gen
        /\ [loc[p] EXCEPT !.spins = @ + 1].ret = loc[p].ret
        /\ [loc[p] EXCEPT !.spins = @ + 1].msg = loc[p].msg
    BY <1>0 DEF Locals
  <2> QED BY <1>3, <2>1, LocalSteady, GotoSteady, ReturnSteady
      DEF EnqLoadSeq
<1>4. CASE EnqClaim(p)
  <2>1. /\ [loc[p] EXCEPT !.ent = Entry(enq)].gen = loc[p].gen
        /\ [loc[p] EXCEPT !.ent = Entry(enq)].ret = loc[p].ret
        /\ [loc[p] EXCEPT !.ent = Entry(enq)].msg = loc[p].msg
    BY <1>0 DEF Locals
  <2> QED BY <1>4, <2>1, LocalSteady, GotoSteady DEF EnqClaim
<1>5. CASE EnqAlloc(p)
  <2>1. \A g : /\ [loc[p] EXCEPT !.pg = g].gen = loc[p].gen
              /\ [loc[p] EXCEPT !.pg = g].ret = loc[p].ret
              /\ [loc[p] EXCEPT !.pg = g].msg = loc[p].msg
    BY <1>0 DEF Locals
  <2> QED BY <1>5, <2>1, LocalSteady, GotoSteady DEF EnqAlloc
<1>6. CASE EnqExhausted(p) \/ EnqTombstone(p) \/ EnqPayload(p) \/ EnqFence(p)
  BY <1>6, GotoSteady DEF EnqExhausted, EnqTombstone, EnqPayload, EnqFence
<1>7. CASE EnqLastFence(p)
  BY <1>7, GotoSteady, ReturnSteady DEF EnqLastFence
<1>8. CASE \/ EnqLoadOwnerPid(p) \/ EnqCheckDead(p) \/ EnqOwnerPid(p)
           \/ EnqOwnerTicket(p) \/ EnqOwnerStart(p) \/ EnqTombstonePid(p)
           \/ EnqTombstoneTicket(p) \/ EnqOverflow(p) \/ EnqPublish(p)
           \/ EnqClearPid(p) \/ EnqClearTicket(p)
  BY <1>8, SharedSteady
  DEF EnqLoadOwnerPid, EnqCheckDead, EnqOwnerPid, EnqOwnerTicket,
      EnqOwnerStart, EnqTombstonePid, EnqTombstoneTicket, EnqOverflow,
      EnqPublish, EnqClearPid, EnqClearTicket
<1> QED BY <1>1, <1>2, <1>3, <1>4, <1>5, <1>6, <1>7, <1>8 DEF Enqueue

LEMMA DequeueSteady ==
  ASSUME WordsOK, NEW p \in Procs, Dequeue(p)
  PROVE  Steady(p)
<1> USE SampledLabels DEF DeqPcs, Reading
<1>0. loc[p] \in Locals /\ Blank \in Locals BY BlankOK DEF WordsOK
<1>1. CASE DeqLoadPos(p)
  <2> DEFINE new == [Blank EXCEPT !.pos = deq, !.ret = "d_pos"]
  <2>1. new.ret = "d_pos" BY <1>0 DEF Locals
  <2>2. Goto(p, "d_gen") /\ loc' = [loc EXCEPT ![p] = new] /\ gen' = gen
    BY <1>1 DEF DeqLoadPos
  <2> HIDE DEF new
  <2> QED BY <2>1, <2>2, GotoPc DEF Steady, WordsOK
<1>2. CASE DeqLoadGen(p)
  <2> DEFINE new == [loc[p] EXCEPT !.gen = gen]
  <2>1. new.gen = gen /\ new.ret = loc[p].ret /\ new.msg = loc[p].msg
    BY <1>0 DEF Locals
  <2>2. Goto(p, "d_seq") /\ loc' = [loc EXCEPT ![p] = new]
        /\ pc[p] = "d_gen" /\ gen' = gen
    BY <1>2 DEF DeqLoadGen
  <2> HIDE DEF new
  <2> QED BY <2>1, <2>2, GotoPc DEF Steady, WordsOK
<1>3. CASE DeqClaim(p)
  <2>1. /\ [loc[p] EXCEPT !.ent = Taken(deq)].gen = loc[p].gen
        /\ [loc[p] EXCEPT !.ent = Taken(deq)].ret = loc[p].ret
        /\ [loc[p] EXCEPT !.ent = Taken(deq)].msg = loc[p].msg
    BY <1>0 DEF Locals
  <2> QED BY <1>3, <2>1, LocalSteady, GotoSteady DEF DeqClaim
<1>4. CASE DeqCopy(p)
  <2>1. \A m : /\ [loc[p] EXCEPT !.msg = m].gen = loc[p].gen
              /\ [loc[p] EXCEPT !.msg = m].ret = loc[p].ret
    BY <1>0 DEF Locals
  <2> QED BY <1>4, <2>1, LocalSteady DEF DeqCopy
<1>5. CASE DeqLoadSeq(p) \/ DeqSkip(p) \/ DeqFence(p) \/ DeqExpiry(p)
  BY <1>5, GotoSteady DEF DeqLoadSeq, DeqSkip, DeqFence, DeqExpiry
<1>6. CASE \/ DeqLoadOwnerPid(p) \/ DeqCheckDead(p) \/ DeqExpire(p)
           \/ DeqExpirePid(p) \/ DeqExpireTicket(p) \/ DeqExpireLoad(p)
           \/ DeqExpireClaim(p) \/ DeqExpireFree(p)
  BY <1>6, SharedSteady
  DEF DeqLoadOwnerPid, DeqCheckDead, DeqExpire, DeqExpirePid,
      DeqExpireTicket, DeqExpireLoad, DeqExpireClaim, DeqExpireFree
<1>7. CASE \/ DeqOwnerPid(p) \/ DeqOwnerTicket(p) \/ DeqOwnerStart(p)
           \/ DeqLoadOverflow(p) \/ DeqClaimOverflow(p) \/ DeqFree(p)
           \/ DeqRecycle(p) \/ DeqClearPid(p) \/ DeqClearTicket(p)
  BY <1>7, SharedSteady
  DEF DeqOwnerPid, DeqOwnerTicket, DeqOwnerStart, DeqLoadOverflow,
      DeqClaimOverflow, DeqFree, DeqRecycle, DeqClearPid, DeqClearTicket
<1> QED BY <1>1, <1>2, <1>3, <1>4, <1>5, <1>6, <1>7 DEF Dequeue

LEMMA FencedSteady ==
  ASSUME WordsOK, NEW p \in Procs, Fenced(p)
  PROVE  Steady(p)
<1> USE SampledLabels DEF EnqPcs, DeqPcs
<1>1. CASE EnqDrop(p) \/ EnqRetract(p)
  BY <1>1, ReturnSteady DEF EnqDrop, EnqRetract
<1>2. CASE DeqFenced(p) BY <1>2, GotoSteady DEF DeqFenced
<1>3. CASE DeqFencedPid(p) \/ DeqFencedTicket(p)
  BY <1>3, SharedSteady DEF DeqFencedPid, DeqFencedTicket
<1> QED BY <1>1, <1>2, <1>3 DEF Fenced

-----------------------------------------------------------------------------
(* The theorems.                                                           *)

LEMMA InitHolds == Init => IInv
<1> SUFFICES ASSUME Init PROVE IInv OBVIOUS
<1>1. WordsOK
  <2>1. slot \in [Slots -> SlotWords]
    BY ConstantAssumption, CapacityAssumption DEF Init, Slots, SlotWords
  <2>2. pc \in [Procs -> Labels] /\ loc \in [Procs -> Locals]
    BY LooseLabels, BoundLabels, BlankOK DEF Init
  <2> QED BY <2>1, <2>2, ConstantAssumption DEF Init, WordsOK
<1>2. HistoryOK
  BY ConstantAssumption, EmptySeq DEF Init, HistoryOK
<1>3. \A p \in Procs : pc[p] = "idle" BY DEF Init
<1>4. "idle" \notin Holding \cup Pageless \cup Carrying
  BY DEF Holding, Pageless, Carrying
<1>5. KnownPages BY <1>3, <1>4 DEF KnownPages, Known
<1>6. \A g \in Pages : g # None BY ConstantAssumption
<1>7. \A i \in Slots : slot[i].ovf = None BY DEF Init
<1>8. NoDoubleFree BY <1>3, <1>4, <1>6, <1>7 DEF NoDoubleFree, Carries
<1> QED BY <1>1, <1>2, <1>5, <1>8 DEF IInv, Tokens

LEMMA StepHolds == IInv /\ [Next]_vars => IInv'
<1> SUFFICES ASSUME IInv, [Next]_vars PROVE IInv' OBVIOUS
<1>0. Tokens /\ HistoryOK /\ TypeOK BY DEF IInv, Tokens, TypeOK
<1>1. ASSUME NEW p \in Senders, Enqueue(p) PROVE IInv'
  BY <1>0, <1>1, EnqueueTokens, EnqueueHistory DEF IInv, Kept, Procs
<1>2. ASSUME NEW p \in Receivers, Dequeue(p) PROVE IInv'
  BY <1>0, <1>2, DequeueTokens, DequeueHistory DEF IInv, Kept, Procs
<1>3. ASSUME NEW p \in Procs, Repair(p) PROVE IInv'
  BY <1>0, <1>3, RepairTokens, RepairHistory DEF IInv, Kept
<1>4. CASE UNCHANGED vars
  BY <1>0, <1>4
  DEF IInv, Tokens, WordsOK, HistoryOK, KnownPages, Known, NoDoubleFree,
      Carries, vars
<1> QED BY <1>1, <1>2, <1>3, <1>4 DEF Next

LEMMA Invariance == Spec => []IInv
<1>1. Init => IInv BY InitHolds
<1>2. IInv /\ [Next]_vars => IInv' BY StepHolds
<1> QED BY <1>1, <1>2, PTL DEF Spec

\* Whatever the number of processes, slots, pages and messages, every shared
\* word and local of try_enqueue, try_dequeue and recover_slot keeps its range.
THEOREM TypeCorrect == Spec => []TypeOK
<1>1. IInv => TypeOK BY DEF IInv, Tokens, TypeOK
<1> QED BY <1>1, Invariance, PTL

\* An overflow page is free, or in one slot, or in the hands of one call, for
\* every interleaving of try_enqueue, try_dequeue and recover_slot, and even
\* when recover_slot takes a live owner for dead (StartTime is arbitrary).
THEOREM PagesNotDoublyFreed == Spec => []NoDoubleFree
<1>1. IInv => NoDoubleFree BY DEF IInv
<1> QED BY <1>1, Invariance, PTL

-----------------------------------------------------------------------------
(***************************************************************************)
(* The order of the ring: SlotExclusive and NoneSkipped, for every value   *)
(* of the constants, as long as no live owner is taken for dead, which is  *)
(* what equal start times give (SameStart).                                *)
(*                                                                         *)
(* The argument is about one slot: of all tickets that share it, at most   *)
(* one is unfinished, and its seq says which (Entries).  A call inside a   *)
(* slot owns that ticket (Calls) and no other call owns it (Alone).        *)
(***************************************************************************)
SameStart == \A p \in Procs : StartTime[p] = FirstStart

Lap(t) == t % Capacity
SeqOf(t) == slot[Lap(t)].seq
Ticket(n) == FirstTicket + n - 1
Inside == Writing \cup Reading
Unfinished == {"claimed", "ready", "taken"}
Over == {"void", "delivered", "expired"}

\* Labels that occur when nothing is repaired and nothing flushed.
Live == {"idle"} \cup (EnqPcs \ {"e_drop", "c_retract"})
                 \cup (DeqPcs \ {"f_seq", "f_pid", "f_ticket"})

\* No repair and no fence is ever entered.
SoundCall(p) ==
    /\ pc[p] \in Live
    /\ pc[p] \in Sampled => loc[p].gen = 0
    /\ pc[p] \in {"e_dead", "d_dead"} => loc[p].vic \in Procs
Sound ==
    /\ gen = 0 /\ \A i \in Slots : slot[i].start = FirstStart
    /\ \A p \in Procs : SoundCall(p)

\* There was no flush, as far as a call can tell.
Fresh == gen = 0 /\ \A p \in Procs : pc[p] \in Sampled => loc[p].gen = 0

\* The positions and the history's length.
Ends ==
    /\ base = [enq |-> FirstTicket, deq |-> FirstTicket]
    /\ Len(log) = enq - FirstTicket
    /\ FirstTicket <= deq /\ deq <= enq

\* A seq is EMPTY for a ticket at most a round ahead, or READY for one taken.
Round(i) ==
    \E t \in Nat : /\ Lap(t) = i
                   /\ \/ slot[i].seq = t /\ t < enq + Capacity
                      \/ slot[i].seq = t + 1 /\ t < enq
Rounds == \A i \in Slots : Round(i)

\* The slot of the n-th ticket has moved on to the next round.
Past(n) == SeqOf(Ticket(n)) >= Ticket(n) + Capacity

\* A claimed or taken entry whose slot has moved on was abandoned: its call
\* crashed and its slot was repaired.
EntryOK(n) ==
    /\ log[n].fate = "claimed" => SeqOf(Ticket(n)) = Ticket(n) \/ Past(n)
    /\ log[n].fate = "ready" => SeqOf(Ticket(n)) = Ticket(n) + 1
    /\ log[n].fate = "taken" => SeqOf(Ticket(n)) = Ticket(n) + 1 \/ Past(n)
    /\ log[n].fate \in Over => Past(n)
    /\ Ticket(n) < deq => /\ log[n].fate # "ready"
                          /\ log[n].fate = "claimed" => Past(n)
    /\ Ticket(n) >= deq => log[n].fate \in {"claimed", "ready", "void"}
Entries == \A n \in DOMAIN log : EntryOK(n)

\* No entry is abandoned: what holds as long as nothing crashes.
Firm == \A n \in DOMAIN log : log[n].fate \in {"claimed", "taken"} => ~Past(n)

Owns(p, f) ==
    /\ loc[p].ent \in DOMAIN log /\ Ticket(loc[p].ent) = loc[p].pos
    /\ log[loc[p].ent].fate = f

\* What a call knows at each label.
CallOK(p) ==
    /\ pc[p] \in Writing => /\ Owns(p, "claimed")
                            /\ SeqOf(loc[p].pos) = loc[p].pos
    /\ pc[p] \in Reading => /\ Owns(p, "taken")
                            /\ SeqOf(loc[p].pos) = loc[p].pos + 1
    /\ pc[p] \in {"e_seq", "e_cas"} =>
          FirstTicket <= loc[p].pos /\ loc[p].pos <= enq
    /\ pc[p] \in {"d_gen", "d_seq", "d_cas", "d_skip"} =>
          FirstTicket <= loc[p].pos /\ loc[p].pos <= deq
    /\ pc[p] = "e_cas" /\ enq = loc[p].pos => SeqOf(loc[p].pos) = loc[p].pos
    /\ pc[p] = "d_cas" /\ deq = loc[p].pos =>
          SeqOf(loc[p].pos) = loc[p].pos + 1
    /\ pc[p] = "d_skip" =>
          /\ loc[p].pos < enq
          /\ log[Taken(loc[p].pos)].fate # "ready"
          /\ log[Taken(loc[p].pos)].fate = "claimed"
                => Past(Taken(loc[p].pos))
Calls == \A p \in Procs : CallOK(p)

Alone == \A p, q \in Procs : p # q /\ pc[p] \in Inside /\ pc[q] \in Inside
                                => loc[p].ent # loc[q].ent

Lined == Ends /\ Rounds /\ Entries /\ Calls /\ Alone
Ordered == Lined /\ Firm

\* What a step keeps: the order, and that no entry is abandoned.
Held == Lined' /\ (Firm => Firm')

-----------------------------------------------------------------------------
(* Tickets that share a slot.                                              *)

LEMMA Split ==
  ASSUME NEW a \in Nat
  PROVE  /\ a = Capacity * (a \div Capacity) + (a % Capacity)
         /\ a % Capacity \in 0 .. Capacity - 1 /\ a \div Capacity \in Nat
  BY CapacityAssumption

LEMMA LapSlot == ASSUME NEW a \in Nat PROVE Lap(a) \in Slots
  BY Split DEF Lap, Slots

LEMMA LapNext == ASSUME NEW a \in Nat PROVE Lap(a + 1) # Lap(a)
  BY Split, CapacityAssumption DEF Lap

LEMMA LapRound == ASSUME NEW a \in Nat PROVE Lap(a + Capacity) = Lap(a)
  BY Split, CapacityAssumption DEF Lap

LEMMA LapGap ==
  ASSUME NEW a \in Nat, NEW b \in Nat, a < b, Lap(a) = Lap(b)
  PROVE  a + Capacity <= b
  BY Split, CapacityAssumption DEF Lap

LEMMA LapOffset ==
  ASSUME NEW t \in Nat, Lap(t) = 0, NEW i \in Slots
  PROVE  Lap(t + i) = i
<1>1. /\ Capacity \in Nat /\ Capacity >= 2 /\ i \in Nat /\ i < Capacity
      /\ t + i \in Nat
  BY CapacityAssumption DEF Slots
<1>2. PICK a \in Nat : t = Capacity * a
  <2> DEFINE q == t \div Capacity
  <2>1. t = Capacity * q + Lap(t) /\ q \in Nat BY Split DEF Lap
  <2> HIDE DEF q
  <2>2. t = Capacity * q BY <1>1, <2>1
  <2> QED BY <2>1, <2>2
<1>3. PICK b \in Nat : t + i = Capacity * b + Lap(t + i)
  BY <1>1, Split DEF Lap
<1>4. Lap(t + i) \in Nat /\ Lap(t + i) < Capacity
  BY <1>1, Split DEF Lap
<1> DEFINE r == Lap(t + i)
<1> HIDE DEF r
<1>5. r \in Nat /\ r < Capacity /\ t + i = Capacity * b + r
  BY <1>3, <1>4 DEF r
<1>6. Capacity * (b - a) = i - r BY <1>1, <1>2, <1>5
<1>7. b - a >= 1 => Capacity * (b - a) >= Capacity BY <1>1
<1>8. b - a <= -1 => Capacity * (b - a) <= -Capacity BY <1>1
<1>9. b = a BY <1>1, <1>5, <1>6, <1>7, <1>8
<1>10. r = i BY <1>1, <1>2, <1>5, <1>9
<1> QED BY <1>10 DEF r

-----------------------------------------------------------------------------
(* What the invariant says of entries and of the calls that own them.      *)

LEMMA Ranges ==
  ASSUME TypeOK, Ends
  PROVE  /\ enq \in Nat /\ deq \in Nat /\ FirstTicket \in Nat
         /\ Capacity \in Nat /\ Capacity >= 2
         /\ DOMAIN log = 1 .. (enq - FirstTicket)
         /\ \A n \in DOMAIN log :
               /\ n \in Nat /\ Ticket(n) \in Nat
               /\ Ticket(n) < enq /\ FirstTicket <= Ticket(n)
         /\ \A i \in Slots : slot[i].seq \in Nat
         /\ \A p \in Procs : loc[p].pos \in Nat /\ loc[p].ent \in Int
         /\ \A p \in Procs : I(p) = Lap(loc[p].pos) /\ I(p) \in Slots
<1>1. DOMAIN log = 1 .. Len(log) BY DEF TypeOK, HistoryOK
<1>2. \A i \in Slots : slot[i].seq \in Nat
  BY DEF TypeOK, WordsOK, SlotWords
<1>3. \A p \in Procs : loc[p] \in Locals BY DEF TypeOK, WordsOK
<1>4. \A p \in Procs : loc[p].pos \in Nat /\ loc[p].ent \in Int
  BY <1>3 DEF Locals
<1>5. \A p \in Procs : I(p) = Lap(loc[p].pos) /\ I(p) \in Slots
  BY <1>4, LapSlot DEF I, Lap
<1> QED
  BY <1>1, <1>2, <1>4, <1>5, ConstantAssumption, CapacityAssumption
  DEF TypeOK, WordsOK, Ends, Ticket

\* The entry of a ticket.
LEMMA EntryOf ==
  ASSUME TypeOK, Ends, NEW t \in Nat, FirstTicket <= t, t < enq
  PROVE  /\ Entry(t) = Taken(t) /\ Taken(t) \in DOMAIN log
         /\ Ticket(Taken(t)) = t
  BY Ranges DEF Entry, Taken, Ticket, Ends

\* An unfinished entry whose slot has not moved on.
Busy(n) == log[n].fate \in Unfinished /\ ~Past(n)

\* Of the entries that share a slot at most one is busy.
LEMMA OneBusy ==
  ASSUME TypeOK, Ends, Entries, NEW n \in DOMAIN log, NEW k \in DOMAIN log,
         Busy(n), Busy(k), Lap(Ticket(n)) = Lap(Ticket(k))
  PROVE  n = k
<1>1. SeqOf(Ticket(n)) = SeqOf(Ticket(k)) BY DEF SeqOf
<1>2. SeqOf(Ticket(n)) \in {Ticket(n), Ticket(n) + 1}
      /\ SeqOf(Ticket(k)) \in {Ticket(k), Ticket(k) + 1}
  BY DEF Entries, EntryOK, Unfinished, Busy
<1>3. Ticket(n) \in Nat /\ Ticket(k) \in Nat /\ n \in Nat /\ k \in Nat
  BY Ranges
<1>4. Ticket(n) # Ticket(k) + 1 /\ Ticket(k) # Ticket(n) + 1
  BY <1>3, LapNext
<1>5. Ticket(n) = Ticket(k) BY <1>1, <1>2, <1>3, <1>4
<1> QED BY <1>3, <1>5, ConstantAssumption DEF Ticket

\* A message that is ready is in its slot.
LEMMA ReadyBusy ==
  ASSUME TypeOK, Ends, Entries, NEW n \in DOMAIN log, log[n].fate = "ready"
  PROVE  Busy(n)
  BY Ranges DEF Entries, EntryOK, Busy, Unfinished, Past

\* As long as nothing is abandoned every unfinished entry is busy.
LEMMA OneUnfinished ==
  ASSUME TypeOK, Ends, Entries, Firm,
         NEW n \in DOMAIN log, NEW k \in DOMAIN log,
         log[n].fate \in Unfinished, log[k].fate \in Unfinished,
         Lap(Ticket(n)) = Lap(Ticket(k))
  PROVE  n = k
<1>1. Busy(n) /\ Busy(k) BY ReadyBusy DEF Firm, Busy, Unfinished
<1> QED BY <1>1, OneBusy

LEMMA InsideOwns ==
  ASSUME Calls, NEW p \in Procs, pc[p] \in Inside
  PROVE  /\ loc[p].ent \in DOMAIN log /\ Ticket(loc[p].ent) = loc[p].pos
         /\ log[loc[p].ent].fate \in Unfinished
  BY DEF Calls, CallOK, Owns, Inside, Unfinished

LEMMA InsideBusy ==
  ASSUME TypeOK, Ends, Calls, NEW p \in Procs, pc[p] \in Inside
  PROVE  loc[p].ent \in DOMAIN log /\ Busy(loc[p].ent)
<1>1. SeqOf(loc[p].pos) \in {loc[p].pos, loc[p].pos + 1}
  BY DEF Calls, CallOK, Inside
<1> QED BY <1>1, InsideOwns, Ranges DEF Busy, Past

\* No two calls are inside one slot.
LEMMA LinedExclusive ==
  ASSUME TypeOK, Lined
  PROVE  SlotExclusive
<1> SUFFICES ASSUME NEW p \in Procs, NEW q \in Procs, p # q,
                    pc[p] \in Inside, pc[q] \in Inside, I(p) = I(q)
             PROVE  FALSE
  BY DEF SlotExclusive, Inside
<1>1. loc[p].ent # loc[q].ent BY DEF Lined, Alone
<1>2. Lap(Ticket(loc[p].ent)) = Lap(Ticket(loc[q].ent))
  BY InsideOwns, Ranges DEF Lined
<1> QED BY <1>1, <1>2, InsideBusy, OneBusy DEF Lined

LEMMA OrderedExclusive ==
  ASSUME TypeOK, Ordered
  PROVE  SlotExclusive
  BY LinedExclusive DEF Ordered

LEMMA OrderedNoneSkipped ==
  ASSUME TypeOK, Ordered
  PROVE  NoneSkipped
<1> SUFFICES ASSUME NEW n \in DOMAIN log, n <= deq - base.deq
             PROVE  log[n].fate \notin {"claimed", "ready"}
  BY DEF NoneSkipped
<1>0. Ends /\ Entries /\ Firm BY DEF Ordered, Lined
<1>1. Ticket(n) < deq BY <1>0, Ranges DEF Ends, Ticket
<1> QED BY <1>0, <1>1 DEF Entries, EntryOK, Firm

-----------------------------------------------------------------------------
(* The moves: what a step of p may do to positions, seqs and history.      *)

Others(p) == \A q \in Procs \ {p} : pc'[q] = pc[q] /\ loc'[q] = loc[q]
SameSeqs == \A i \in Slots : slot'[i].seq = slot[i].seq
SetSeq(p, s) ==
    \A i \in Slots : slot'[i].seq = IF i = I(p) THEN s ELSE slot[i].seq
SetFate(n, f) ==
    /\ log' \in Seq(Tickets) /\ DOMAIN log' = DOMAIN log
    /\ log'[n].fate = f /\ \A k \in DOMAIN log \ {n} : log'[k] = log[k]

\* Labels that oblige a call to nothing.
Plain == Labels \ (Inside \cup {"e_seq", "e_cas", "d_gen", "d_seq", "d_cas",
                                "d_skip"})

\* p looks at shared words, or writes none that matter here.
LEMMA Look ==
  ASSUME TypeOK, Lined, NEW p \in Procs, Others(p), SameSeqs,
         UNCHANGED <<enq, deq, log, base>>, CallOK(p)',
         pc'[p] \in Inside => pc[p] \in Inside /\ loc'[p].ent = loc[p].ent
  PROVE  Held
<1>0. Ends /\ Rounds /\ Entries /\ Calls /\ Alone BY DEF Lined
<1>s. \A t \in Nat : SeqOf(t)' = SeqOf(t)
  BY LapSlot DEF SameSeqs, SeqOf
<1>1. Ends' BY <1>0 DEF Ends
<1>2. Rounds' BY <1>0 DEF Rounds, Round, SameSeqs
<1>k. /\ DOMAIN log' = DOMAIN log
      /\ \A n \in DOMAIN log : /\ Ticket(n) \in Nat /\ Ticket(n)' = Ticket(n)
                               /\ SeqOf(Ticket(n))' = SeqOf(Ticket(n))
                               /\ Past(n)' <=> Past(n)
  <2>1. \A n \in DOMAIN log : Ticket(n) \in Nat /\ Ticket(n)' = Ticket(n)
    BY <1>0, Ranges DEF Ticket
  <2>2. \A n \in DOMAIN log : SeqOf(Ticket(n))' = SeqOf(Ticket(n))
    BY <1>s, <2>1 DEF SeqOf
  <2> QED BY <2>1, <2>2 DEF Past
<1>3. Entries' BY <1>0, <1>k DEF Entries, EntryOK
<1>4. Calls'
  <2> SUFFICES ASSUME NEW q \in Procs, q # p PROVE CallOK(q)'
    BY DEF Calls
  <2>1. CallOK(q) BY <1>0 DEF Calls
  <2>s. pc[q] = "d_skip" => /\ Taken(loc[q].pos)' = Taken(loc[q].pos)
                            /\ Taken(loc[q].pos) \in DOMAIN log
    BY <1>0, <2>1, Ranges, EntryOf DEF CallOK, Others, Taken
  <2>2. loc[q].pos \in Nat /\ pc'[q] = pc[q] /\ loc'[q] = loc[q]
    BY <1>0, Ranges DEF Others
  <2>3. SeqOf(loc[q].pos)' = SeqOf(loc[q].pos) BY <1>s, <2>2 DEF SeqOf
  <2>4. pc[q] = "d_skip" =>
           (Past(Taken(loc[q].pos))' <=> Past(Taken(loc[q].pos)))
    BY <1>k, <2>s
  <2> QED BY <2>1, <2>2, <2>3, <2>4, <2>s DEF CallOK, Owns, Ticket
<1>5. Alone' BY <1>0 DEF Alone, Others
<1>6. Firm => Firm' BY <1>k DEF Firm
<1> QED BY <1>1, <1>2, <1>3, <1>4, <1>5, <1>6 DEF Lined, Held

\* The same, and p's label obliges it to nothing, or to what it did before.
LEMMA MoveOn ==
  ASSUME TypeOK, Lined, NEW p \in Procs, Others(p), SameSeqs,
         UNCHANGED <<enq, deq, log, base>>,
         \/ pc'[p] \in Plain
         \/ /\ loc'[p].pos = loc[p].pos /\ loc'[p].ent = loc[p].ent
            /\ \/ pc[p] \in Writing /\ pc'[p] \in Writing
               \/ pc[p] \in Reading /\ pc'[p] \in Reading
  PROVE  Held
<1>0. CallOK(p) BY DEF Lined, Calls
<1>1. Writing \cap Reading = {}
      /\ Inside \cap {"e_seq", "e_cas", "d_gen", "d_seq", "d_cas", "d_skip"}
            = {}
  BY DEF Inside, Writing, Reading
<1>2. CASE pc'[p] \in Plain
  BY <1>2, Look DEF Plain, CallOK, Inside
<1>3. CASE ~(pc'[p] \in Plain)
  <2>0. pc[p] \in Inside => SeqOf(loc[p].pos)' = SeqOf(loc[p].pos)
    <3>1. loc[p].pos \in Nat BY Ranges DEF Lined
    <3> QED BY <1>3, <3>1, LapSlot DEF SameSeqs, SeqOf
  <2>1. CallOK(p)'
    BY <1>0, <1>1, <1>3, <2>0 DEF CallOK, Owns, Inside, Ticket
  <2>2. pc'[p] \in Inside => pc[p] \in Inside /\ loc'[p].ent = loc[p].ent
    BY <1>3 DEF Inside
  <2> QED BY <2>1, <2>2, Look
<1> QED BY <1>2, <1>3

\* An entry's slot moves on: its call publishes the message or is done with
\* the slot, or a repair gives up the slot of a call that crashed.
Closing(n, f, s) ==
    \/ log[n].fate = "claimed" /\ f = "ready" /\ s = Ticket(n) + 1
    \/ log[n].fate = "claimed" /\ f \in {"void", "claimed"}
                               /\ s = Ticket(n) + Capacity
    \/ log[n].fate = "taken" /\ f \in {"delivered", "expired", "taken"}
                             /\ s = Ticket(n) + Capacity

LEMMA Close ==
  ASSUME TypeOK, Lined, NEW p \in Procs, NEW n \in DOMAIN log, NEW f, NEW s,
         ~Past(n), Closing(n, f, s),
         \A q \in Procs \ {p} : pc[q] \in Inside => loc[q].ent # n,
         Others(p), pc'[p] \in Plain,
         \A i \in Slots : slot'[i].seq =
                             IF i = Lap(Ticket(n)) THEN s ELSE slot[i].seq,
         SetFate(n, f), UNCHANGED <<enq, deq, base>>
  PROVE  Lined' /\ (f # log[n].fate => (Firm => Firm'))
<1> DEFINE t == Ticket(n)
<1>0. Ends /\ Rounds /\ Entries /\ Calls /\ Alone BY DEF Lined
<1>1. /\ t \in Nat /\ t < enq /\ FirstTicket <= t /\ n \in Nat
      /\ enq \in Nat /\ deq \in Nat /\ Capacity \in Nat /\ Capacity >= 2
  BY <1>0, Ranges
<1>2. /\ log[n].fate = "claimed" => SeqOf(t) = t /\ t >= deq
      /\ log[n].fate = "taken" => SeqOf(t) = t + 1 /\ t < deq
      /\ log[n].fate \in {"claimed", "taken"} /\ Busy(n)
  <2>1. EntryOK(n) BY <1>0 DEF Entries
  <2>2. log[n].fate \in {"claimed", "taken"} BY DEF Closing
  <2> QED BY <1>1, <2>1, <2>2 DEF EntryOK, Busy, Unfinished
<1> HIDE DEF t
<1>t. t = Ticket(n) BY DEF t
<1>3. /\ \A u \in Nat : SeqOf(u)' = IF Lap(u) = Lap(t) THEN s ELSE SeqOf(u)
      /\ s \in Nat /\ s >= SeqOf(t) /\ SeqOf(t) \in Nat
      /\ s \in {t + 1, t + Capacity} /\ Lap(t) \in Slots
  <2>1. Lap(t) \in Slots /\ \A u \in Nat : Lap(u) \in Slots
    BY <1>1, LapSlot
  <2>2. s \in {t + 1, t + Capacity} BY <1>t DEF Closing
  <2>3. s >= SeqOf(t) /\ s \in Nat /\ SeqOf(t) \in Nat
    BY <1>1, <1>2, <2>2
  <2>4. \A u \in Nat : SeqOf(u)' = IF Lap(u) = Lap(t) THEN s ELSE SeqOf(u)
    BY <1>t, <2>1 DEF SeqOf
  <2> QED BY <2>1, <2>2, <2>3, <2>4
<1>4. /\ DOMAIN log' = DOMAIN log /\ log'[n].fate = f
      /\ \A k \in DOMAIN log \ {n} : log'[k] = log[k]
  BY DEF SetFate
\* The slots of other entries only move on.
<1>k. \A k \in DOMAIN log :
         /\ Ticket(k) \in Nat /\ Ticket(k)' = Ticket(k) /\ k \in Nat
         /\ SeqOf(Ticket(k)) \in Nat /\ SeqOf(Ticket(k))' \in Nat
         /\ SeqOf(Ticket(k))' = IF Lap(Ticket(k)) = Lap(t) THEN s
                                ELSE SeqOf(Ticket(k))
         /\ SeqOf(Ticket(k))' >= SeqOf(Ticket(k))
  <2> SUFFICES ASSUME NEW k \in DOMAIN log
               PROVE  /\ Ticket(k) \in Nat /\ Ticket(k)' = Ticket(k)
                      /\ k \in Nat
                      /\ SeqOf(Ticket(k)) \in Nat
                      /\ SeqOf(Ticket(k))' \in Nat
                      /\ SeqOf(Ticket(k))' = IF Lap(Ticket(k)) = Lap(t) THEN s
                                             ELSE SeqOf(Ticket(k))
                      /\ SeqOf(Ticket(k))' >= SeqOf(Ticket(k))
    OBVIOUS
  <2>1. Ticket(k) \in Nat /\ k \in Nat /\ Ticket(k)' = Ticket(k)
    BY <1>0, Ranges DEF Ticket
  <2>2. SeqOf(Ticket(k)) \in Nat BY <1>0, <2>1, LapSlot, Ranges DEF SeqOf
  <2>3. SeqOf(Ticket(k))' = IF Lap(Ticket(k)) = Lap(t) THEN s
                            ELSE SeqOf(Ticket(k))
    BY <1>3, <2>1
  <2>4. Lap(Ticket(k)) = Lap(t) => SeqOf(Ticket(k)) = SeqOf(t)
    BY DEF SeqOf
  <2> QED BY <1>3, <2>1, <2>2, <2>3, <2>4
<1>m. \A k \in DOMAIN log : Past(k) => Past(k)'
  BY <1>1, <1>k DEF Past
<1>5. Ends'
  <2>1. Len(log') = Len(log)
    BY <1>4 DEF SetFate, TypeOK, HistoryOK
  <2> QED BY <1>0, <2>1 DEF Ends
<1>6. Rounds'
  <2> SUFFICES ASSUME NEW i \in Slots PROVE Round(i)' BY DEF Rounds
  <2>1. CASE i # Lap(t) BY <1>0, <1>t, <2>1 DEF Rounds, Round
  <2>2. CASE i = Lap(t) /\ s = t + 1
    BY <1>1, <1>t, <2>2 DEF Round
  <2>3. CASE i = Lap(t) /\ s = t + Capacity
    <3>1. Lap(t + Capacity) = i /\ t + Capacity < enq + Capacity
          /\ t + Capacity \in Nat
      BY <1>1, <2>3, LapRound
    <3> QED BY <1>t, <2>3, <3>1 DEF Round
  <2> QED BY <1>3, <2>1, <2>2, <2>3
\* Another entry of the slot is over, or was abandoned, and stays so.
<1>o. \A k \in DOMAIN log : k # n /\ Lap(Ticket(k)) = Lap(t) =>
         Past(k) /\ log[k].fate # "ready"
  <2> SUFFICES ASSUME NEW k \in DOMAIN log, k # n, Lap(Ticket(k)) = Lap(t)
               PROVE  Past(k) /\ log[k].fate # "ready"
    OBVIOUS
  <2>1. ~Busy(k) BY <1>0, <1>2, <1>t, OneBusy
  <2>2. EntryOK(k) /\ log[k].fate \in Fates
    <3>1. log[k] \in Tickets BY DEF TypeOK, HistoryOK
    <3> QED BY <1>0, <3>1 DEF Entries, Tickets
  <2>3. log[k].fate # "ready" BY <1>0, <2>1, ReadyBusy
  <2> QED BY <2>1, <2>2, <2>3 DEF EntryOK, Busy, Unfinished, Over, Fates
<1>7. Entries'
  <2> SUFFICES ASSUME NEW k \in DOMAIN log PROVE EntryOK(k)'
    BY <1>4 DEF Entries
  <2>0. EntryOK(k) BY <1>0 DEF Entries
  <2>1. CASE k = n
    <3>1. SeqOf(Ticket(k))' = s /\ Ticket(k)' = t /\ Ticket(k) = t
      BY <1>k, <1>t, <2>1
    <3>2. f \in {"void", "claimed", "delivered", "expired", "taken"} =>
             Past(k)'
      <4>1. f \in {"void", "claimed", "delivered", "expired", "taken"} =>
               s = t + Capacity
        BY <1>t DEF Closing
      <4> QED BY <1>1, <3>1, <4>1 DEF Past
    <3>3. f = "ready" => s = t + 1 BY <1>t DEF Closing
    <3>4. /\ f \in {"ready", "void", "claimed", "delivered", "expired",
                    "taken"}
          /\ f \in {"ready", "void", "claimed"} => t >= deq
          /\ f \in {"delivered", "expired", "taken"} => t < deq
      BY <1>2 DEF Closing
    <3> QED BY <1>1, <1>4, <2>1, <3>1, <3>2, <3>3, <3>4 DEF EntryOK, Over
  <2>2. CASE k # n /\ Lap(Ticket(k)) # Lap(t)
    BY <1>4, <1>k, <1>m, <2>0, <2>2 DEF EntryOK
  <2>3. CASE k # n /\ Lap(Ticket(k)) = Lap(t)
    BY <1>4, <1>k, <1>m, <1>o, <2>0, <2>3 DEF EntryOK
  <2> QED BY <2>1, <2>2, <2>3
<1>8. Calls'
  <2> SUFFICES ASSUME NEW q \in Procs PROVE CallOK(q)' BY DEF Calls
  <2>1. CASE q = p BY <2>1 DEF CallOK, Plain, Inside
  <2>2. CASE q # p
    <3>0. /\ CallOK(q) /\ pc'[q] = pc[q] /\ loc'[q] = loc[q]
          /\ loc[q].pos \in Nat
      BY <1>0, <2>2, Ranges DEF Calls, Others
    <3>1. pc[q] \in Inside => /\ Owns(q, "claimed")' = Owns(q, "claimed")
                              /\ Owns(q, "taken")' = Owns(q, "taken")
                              /\ Lap(loc[q].pos) # Lap(t)
      <4>1. pc[q] \in Inside => loc[q].ent # n BY <2>2
      <4>2. pc[q] \in Inside => Lap(loc[q].pos) # Lap(t)
        BY <1>0, <1>2, <1>t, <4>1, InsideOwns, InsideBusy, OneBusy
      <4> QED BY <1>4, <3>0, <4>1, <4>2 DEF Owns, Ticket
    <3>2. pc[q] = "e_cas" /\ enq = loc[q].pos
             => Lap(loc[q].pos) # Lap(t)
      <4> SUFFICES ASSUME pc[q] = "e_cas", enq = loc[q].pos,
                          Lap(enq) = Lap(t)
                   PROVE  FALSE
        OBVIOUS
      <4>1. SeqOf(t) = enq BY <3>0 DEF CallOK, SeqOf
      <4>2. enq = t + 1 BY <1>1, <1>2, <4>1
      <4> QED BY <1>1, <4>2, LapNext
    <3>3. pc[q] = "d_cas" /\ deq = loc[q].pos
             => Lap(loc[q].pos) # Lap(t)
      <4> SUFFICES ASSUME pc[q] = "d_cas", deq = loc[q].pos,
                          Lap(deq) = Lap(t)
                   PROVE  FALSE
        OBVIOUS
      <4>1. SeqOf(t) = deq + 1 BY <3>0 DEF CallOK, SeqOf
      <4>2. t = deq + 1 BY <1>1, <1>2, <4>1
      <4> QED BY <1>1, <4>2, LapNext
    <3>4. pc[q] = "d_skip" =>
             /\ log'[Taken(loc[q].pos)'].fate # "ready"
             /\ log'[Taken(loc[q].pos)'].fate = "claimed"
                   => Past(Taken(loc[q].pos))'
      <4> SUFFICES ASSUME pc[q] = "d_skip", NEW k, k = Taken(loc[q].pos)
                   PROVE  /\ log'[k].fate # "ready"
                          /\ log'[k].fate = "claimed" => Past(k)'
        BY <3>0 DEF Taken, Past, SeqOf, Ticket
      <4>1. /\ k \in DOMAIN log /\ log[k].fate # "ready"
            /\ log[k].fate = "claimed" => Past(k)
        BY <1>0, <3>0, EntryOf DEF CallOK
      <4>2. CASE k # n BY <1>4, <1>m, <4>1, <4>2
      <4>3. CASE k = n
        <5>1. log[n].fate = "taken" BY <1>2, <4>1, <4>3
        <5>2. f \in {"delivered", "expired", "taken"}
          BY <5>1 DEF Closing
        <5> QED BY <1>4, <4>3, <5>2
      <4> QED BY <4>2, <4>3
    <3>5. SeqOf(loc[q].pos)' = IF Lap(loc[q].pos) = Lap(t) THEN s
                               ELSE SeqOf(loc[q].pos)
      <4>1. SeqOf(loc[q].pos)' = slot'[Lap(loc[q].pos)].seq
        BY <3>0 DEF SeqOf
      <4>2. Lap(loc[q].pos) \in Slots BY <3>0, LapSlot
      <4> QED BY <1>t, <4>1, <4>2 DEF SeqOf
    <3> QED BY <3>0, <3>1, <3>2, <3>3, <3>4, <3>5
        DEF CallOK, Inside
  <2> QED BY <2>1, <2>2
<1>9. Alone' BY <1>0 DEF Alone, Others, Plain
<1>10. f # log[n].fate => (Firm => Firm')
  <2> SUFFICES ASSUME f # log[n].fate, Firm, NEW k \in DOMAIN log,
                      log'[k].fate \in {"claimed", "taken"}
               PROVE  ~Past(k)'
    BY <1>4 DEF Firm
  <2>1. k # n BY <1>4 DEF Closing
  <2>2. log'[k] = log[k] /\ ~Past(k) BY <1>4, <2>1 DEF Firm
  <2>3. Lap(Ticket(k)) # Lap(t) BY <1>o, <2>1, <2>2
  <2> QED BY <1>k, <2>2, <2>3 DEF Past
<1> QED BY <1>5, <1>6, <1>7, <1>8, <1>9, <1>10 DEF Lined

\* p leaves its slot: its entry ends or becomes ready, its seq moves on.
Ending(p, f, s) ==
    \/ pc[p] \in Writing /\ f = "ready" /\ s = loc[p].pos + 1
    \/ pc[p] \in Writing /\ f = "void" /\ s = loc[p].pos + Capacity
    \/ pc[p] \in Reading /\ f \in {"delivered", "expired"}
                         /\ s = loc[p].pos + Capacity

LEMMA Settle ==
  ASSUME TypeOK, Lined, NEW p \in Procs, NEW f, NEW s, Ending(p, f, s),
         Others(p), SetSeq(p, s), SetFate(loc[p].ent, f),
         UNCHANGED <<enq, deq, base>>, pc'[p] \in Plain
  PROVE  Held
<1> DEFINE n == loc[p].ent
<1>0. Ends /\ Calls /\ Alone /\ CallOK(p) /\ pc[p] \in Inside
  BY DEF Lined, Calls, Ending, Inside
<1>1. /\ n \in DOMAIN log /\ Ticket(n) = loc[p].pos /\ Busy(n)
      /\ I(p) = Lap(loc[p].pos)
  BY <1>0, InsideOwns, InsideBusy, Ranges
<1>2. Closing(n, f, s) /\ f # log[n].fate
  BY <1>0, <1>1 DEF Closing, Ending, CallOK, Owns
<1>3. \A q \in Procs \ {p} : pc[q] \in Inside => loc[q].ent # n
  BY <1>0 DEF Alone
<1>4. \A i \in Slots : slot'[i].seq =
                          IF i = Lap(Ticket(n)) THEN s ELSE slot[i].seq
  BY <1>1 DEF SetSeq
<1>5. ~Past(n) BY <1>1 DEF Busy
<1> HIDE DEF n
<1>6. SetFate(n, f) BY DEF n
<1>7. n \in DOMAIN log BY <1>1
<1> QED BY <1>2, <1>3, <1>4, <1>5, <1>6, <1>7, Close DEF Held

\* A producer takes the next ticket: its slot was EMPTY for it when p looked,
\* and nobody has moved it since.
LEMMA ClaimMove ==
  ASSUME TypeOK, Lined, NEW p \in Procs, EnqClaim(p), enq = loc[p].pos
  PROVE  Held
<1> DEFINE n == Len(log) + 1
           e == [msg |-> loc[p].msg, fate |-> "claimed", got |-> None]
<1>0. Ends /\ Rounds /\ Entries /\ Calls /\ Alone /\ CallOK(p)
  BY DEF Lined, Calls
<1>1. /\ enq \in Nat /\ deq \in Nat /\ Len(log) = enq - FirstTicket
      /\ FirstTicket \in Nat /\ FirstTicket <= deq /\ deq <= enq
      /\ Len(log) \in Nat /\ DOMAIN log = 1 .. Len(log)
      /\ Capacity \in Nat
  BY <1>0, Ranges DEF Ends, TypeOK, HistoryOK
<1>2. /\ enq' = enq + 1 /\ deq' = deq /\ base' = base /\ slot' = slot
      /\ log' = Append(log, e)
      /\ loc' = [loc EXCEPT ![p].ent = Entry(enq)] /\ Goto(p, "e_pid")
      /\ pc[p] = "e_cas"
  BY DEF EnqClaim
<1>3. /\ Len(log') = n /\ DOMAIN log' = 1 .. n /\ log'[n] = e
      /\ \A k \in DOMAIN log : log'[k] = log[k]
  <2>1. log \in Seq(Tickets) BY DEF TypeOK, HistoryOK
  <2> HIDE DEF e
  <2> QED BY <1>1, <1>2, <2>1
<1>4. Entry(enq) = n /\ Ticket(n) = enq BY <1>0, <1>1 DEF Entry, Ends, Ticket
<1>5. /\ pc'[p] = "e_pid" /\ Others(p)
      /\ loc'[p] = [loc[p] EXCEPT !.ent = n]
  BY <1>2, <1>4, GotoPc DEF Others, TypeOK, WordsOK
<1>6. loc'[p].ent = n /\ loc'[p].pos = enq
  <2>1. loc[p] \in Locals BY DEF TypeOK, WordsOK
  <2> QED BY <1>5, <2>1 DEF Locals
<1>7. \A u \in Nat : SeqOf(u)' = SeqOf(u) BY <1>2 DEF SeqOf
<1>8. SeqOf(enq) = enq BY <1>0, <1>2 DEF CallOK
<1> HIDE DEF n, e
<1>9. n = Len(log) + 1 /\ e.fate = "claimed" BY DEF n, e
<1>10. Ends' BY <1>0, <1>1, <1>2, <1>3, <1>9 DEF Ends
<1>11. Rounds' BY <1>0, <1>1, <1>2 DEF Rounds, Round
<1>a. ASSUME NEW k \in DOMAIN log', k # n
      PROVE  /\ k \in DOMAIN log /\ log'[k] = log[k]
             /\ Ticket(k) \in Nat /\ Ticket(k)' = Ticket(k)
             /\ SeqOf(Ticket(k))' = SeqOf(Ticket(k)) /\ Past(k)' = Past(k)
  <2>1. k \in DOMAIN log BY <1>1, <1>3, <1>9, <1>a
  <2>2. Ticket(k) \in Nat /\ Ticket(k)' = Ticket(k)
    BY <1>0, <2>1, Ranges DEF Ticket
  <2>3. SeqOf(Ticket(k))' = SeqOf(Ticket(k)) BY <1>2 DEF SeqOf, Ticket
  <2> QED BY <1>3, <2>1, <2>2, <2>3 DEF Past
<1>b. ASSUME NEW k, k = n
      PROVE  /\ SeqOf(Ticket(k))' = enq /\ Ticket(k)' = enq
             /\ log'[k].fate = "claimed" /\ ~Past(k)'
  <2>1. SeqOf(Ticket(k))' = enq /\ Ticket(k)' = enq
    BY <1>2, <1>4, <1>8, <1>b DEF SeqOf, Ticket
  <2>2. log'[k].fate = "claimed" BY <1>3, <1>9, <1>b
  <2> QED BY <1>1, <2>1, <2>2, CapacityAssumption DEF Past
<1>12. Entries'
  <2> SUFFICES ASSUME NEW k \in DOMAIN log' PROVE EntryOK(k)' BY DEF Entries
  <2>1. CASE k = n
    <3>1. /\ SeqOf(Ticket(k))' = enq /\ Ticket(k)' = enq
          /\ log'[k].fate = "claimed"
      BY <1>b, <2>1
    <3> QED BY <1>1, <1>2, <3>1 DEF EntryOK, Over
  <2>2. CASE k # n
    <3>1. EntryOK(k) BY <1>0, <1>a, <2>2 DEF Entries
    <3> QED BY <1>2, <1>a, <2>2, <3>1 DEF EntryOK
  <2> QED BY <2>1, <2>2
<1>13. Calls'
  <2> SUFFICES ASSUME NEW q \in Procs PROVE CallOK(q)' BY DEF Calls
  <2>1. CASE q = p
    <3>0. n \in DOMAIN log' /\ log'[n].fate = "claimed"
      BY <1>1, <1>3, <1>9
    <3>a. FirstTicket + n - 1 = enq BY <1>4 DEF Ticket
    <3>1. Owns(p, "claimed")' /\ SeqOf(loc[p].pos)' = loc'[p].pos
      BY <1>2, <1>6, <1>8, <3>0, <3>a DEF Owns, Ticket, SeqOf
    <3>2. "e_pid" \notin Reading \cup {"e_seq", "e_cas", "d_gen", "d_seq",
                                       "d_cas", "d_skip"}
      BY DEF Reading
    <3> QED BY <1>5, <2>1, <3>1, <3>2 DEF CallOK
  <2>2. CASE q # p
    <3>0. CallOK(q) /\ pc'[q] = pc[q] /\ loc'[q] = loc[q]
          /\ loc[q].pos \in Nat
      BY <1>0, <1>5, <2>2, Ranges DEF Calls, Others
    <3>1. SeqOf(loc[q].pos)' = SeqOf(loc[q].pos) BY <1>7, <3>0 DEF SeqOf
    <3>2. /\ Owns(q, "claimed") => Owns(q, "claimed")'
          /\ Owns(q, "taken") => Owns(q, "taken")'
      <4>1. \A k \in DOMAIN log : k \in DOMAIN log' /\ log'[k] = log[k]
        BY <1>1, <1>3, <1>9
      <4> QED BY <3>0, <4>1 DEF Owns, Ticket
    <3>3. pc[q] = "d_skip" =>
             /\ log'[Taken(loc[q].pos)'].fate = log[Taken(loc[q].pos)].fate
             /\ Past(Taken(loc[q].pos))' = Past(Taken(loc[q].pos))
      <4>1. Taken(loc[q].pos)' = Taken(loc[q].pos)
        BY <1>2, <3>0 DEF Taken
      <4>2. pc[q] = "d_skip" => Taken(loc[q].pos) \in DOMAIN log
        BY <1>0, <3>0, EntryOf DEF CallOK
      <4>3. Past(Taken(loc[q].pos))' = Past(Taken(loc[q].pos))
        BY <1>2, <3>0 DEF Past, SeqOf, Ticket, Taken
      <4> QED BY <1>3, <4>1, <4>2, <4>3
    <3>4. \A k \in Nat : k <= enq => k <= enq' /\ k # enq' /\ k < enq'
      BY <1>1, <1>2
    <3>5. \A k \in Nat : k < enq => k < enq'
      BY <1>1, <1>2
    <3> QED BY <1>2, <3>0, <3>1, <3>2, <3>3, <3>4, <3>5 DEF CallOK
  <2> QED BY <2>1, <2>2
<1>14. Alone'
  <2>1. \A q \in Procs : q # p /\ pc[q] \in Inside => loc[q].ent # n
    BY <1>0, <1>1, <1>9, InsideOwns
  <2>2. \A q \in Procs \ {p} : pc'[q] = pc[q] /\ loc'[q].ent = loc[q].ent
    BY <1>5 DEF Others
  <2> QED BY <1>0, <1>6, <2>1, <2>2 DEF Alone
<1>15. Firm => Firm'
  <2> SUFFICES ASSUME Firm, NEW k \in DOMAIN log',
                      log'[k].fate \in {"claimed", "taken"}
               PROVE  ~Past(k)'
    BY DEF Firm
  <2>1. CASE k = n BY <1>b, <2>1
  <2>2. CASE k # n BY <1>a, <2>2 DEF Firm
  <2> QED BY <2>1, <2>2
<1> QED BY <1>10, <1>11, <1>12, <1>13, <1>14, <1>15 DEF Lined, Held

\* The message at the head is ready when a consumer is about to claim it.
LEMMA HeadReady ==
  ASSUME TypeOK, Lined, NEW p \in Procs, pc[p] = "d_cas",
         deq = loc[p].pos
  PROVE  /\ deq < enq /\ Taken(deq) \in DOMAIN log
         /\ Ticket(Taken(deq)) = deq /\ log[Taken(deq)].fate = "ready"
<1>0. Ends /\ Rounds /\ Entries /\ CallOK(p) BY DEF Lined, Calls
<1>1. /\ enq \in Nat /\ deq \in Nat /\ FirstTicket <= deq /\ deq <= enq
      /\ FirstTicket \in Nat /\ Capacity \in Nat /\ Capacity >= 2
  BY <1>0, Ranges DEF Ends
<1>2. SeqOf(deq) = deq + 1 BY <1>0 DEF CallOK
<1>3. deq < enq
  <2>1. PICK t \in Nat : /\ Lap(t) = Lap(deq)
                         /\ \/ SeqOf(deq) = t /\ t < enq + Capacity
                            \/ SeqOf(deq) = t + 1 /\ t < enq
    BY <1>0, <1>1, LapSlot DEF Rounds, Round, SeqOf
  <2>2. t # deq + 1 BY <1>1, <2>1, LapNext
  <2> QED BY <1>1, <1>2, <2>1, <2>2
<1>4. Taken(deq) \in DOMAIN log /\ Ticket(Taken(deq)) = deq
  BY <1>0, <1>1, <1>3, EntryOf
<1>5. log[Taken(deq)].fate = "ready"
  BY <1>0, <1>1, <1>2, <1>4 DEF Entries, EntryOK, Over, Past
<1> QED BY <1>3, <1>4, <1>5

\* A consumer takes the message at the head: nobody can have been inside its
\* slot.
LEMMA TakeMove ==
  ASSUME TypeOK, Lined, NEW p \in Procs, DeqClaim(p), deq = loc[p].pos
  PROVE  Held
<1> DEFINE n == Taken(deq)
<1>0. Ends /\ Rounds /\ Entries /\ Calls /\ Alone /\ CallOK(p)
  BY DEF Lined, Calls
<1>1. /\ enq \in Nat /\ deq \in Nat /\ FirstTicket <= deq /\ deq <= enq
      /\ FirstTicket \in Nat /\ Capacity \in Nat /\ Capacity >= 2
  BY <1>0, Ranges DEF Ends
<1>2. /\ deq' = deq + 1 /\ enq' = enq /\ base' = base /\ slot' = slot
      /\ Fate(n, "taken") /\ loc' = [loc EXCEPT ![p].ent = n]
      /\ Goto(p, "d_fence") /\ pc[p] = "d_cas"
  BY DEF DeqClaim
<1>3. SeqOf(deq) = deq + 1 BY <1>0, <1>2 DEF CallOK
<1>4. deq < enq /\ n \in DOMAIN log /\ Ticket(n) = deq /\ n \in Nat
      /\ log[n].fate = "ready" /\ EntryOK(n)
  BY <1>2, HeadReady, Ranges DEF Lined, Entries
<1>5. n \in DOMAIN log /\ Ticket(n) = deq /\ n \in Nat BY <1>4
<1> HIDE DEF n
<1>6. log[n].fate = "ready" BY <1>4 DEF n
<1>7. /\ DOMAIN log' = DOMAIN log /\ Len(log') = Len(log)
      /\ log'[n].fate = "taken" /\ \A k \in DOMAIN log \ {n} : log'[k] = log[k]
  <2>1. log[n] \in Tickets BY <1>5 DEF TypeOK, HistoryOK
  <2>2. log' = [log EXCEPT ![n] = [log[n] EXCEPT !.fate = "taken"]]
    BY <1>2 DEF Fate
  <2>3. [log[n] EXCEPT !.fate = "taken"].fate = "taken"
        /\ [log[n] EXCEPT !.fate = "taken"] \in Tickets
    BY <2>1 DEF Tickets, Fates
  <2>4. log' \in Seq(Tickets) BY <2>2, <2>3, EntrySet DEF TypeOK
  <2>5. DOMAIN log' = DOMAIN log BY <2>2
  <2>6. Len(log') = Len(log) BY <2>4, <2>5 DEF TypeOK, HistoryOK
  <2>7. log'[n].fate = "taken" BY <1>5, <2>2, <2>3
  <2> QED BY <2>2, <2>5, <2>6, <2>7
<1>8. /\ pc'[p] = "d_fence" /\ Others(p)
      /\ loc'[p] = [loc[p] EXCEPT !.ent = n]
  BY <1>2, GotoPc DEF Others, TypeOK, WordsOK
<1>9. loc'[p].ent = n /\ loc'[p].pos = deq
  <2>1. loc[p] \in Locals BY DEF TypeOK, WordsOK
  <2> QED BY <1>8, <2>1 DEF Locals
<1>10. \A u \in Nat : SeqOf(u)' = SeqOf(u) BY <1>2 DEF SeqOf
<1>11. Ends' BY <1>0, <1>1, <1>2, <1>4, <1>7 DEF Ends
<1>12. Rounds' BY <1>0, <1>2 DEF Rounds, Round
<1>k. \A k \in DOMAIN log : Past(k)' = Past(k)
  BY <1>2 DEF Past, SeqOf, Ticket
<1>13. Entries'
  <2> SUFFICES ASSUME NEW k \in DOMAIN log PROVE EntryOK(k)'
    BY <1>7 DEF Entries
  <2>0. EntryOK(k) /\ Ticket(k) \in Nat /\ Ticket(k)' = Ticket(k)
        /\ k \in Nat /\ SeqOf(Ticket(k))' = SeqOf(Ticket(k))
        /\ Past(k)' = Past(k)
    BY <1>0, <1>10, <1>k, Ranges DEF Entries, Ticket
  <2>1. CASE k = n
    BY <1>1, <1>2, <1>3, <1>5, <1>7, <2>0, <2>1 DEF EntryOK, Over
  <2>2. CASE k # n
    <3>1. Ticket(k) # deq BY <1>1, <1>5, <2>0, <2>2 DEF Ticket
    <3>2. /\ Ticket(k) < deq' <=> Ticket(k) < deq
          /\ Ticket(k) >= deq' => Ticket(k) >= deq
      BY <1>1, <1>2, <2>0, <3>1
    <3> QED BY <1>7, <2>0, <2>2, <3>2 DEF EntryOK
  <2> QED BY <2>1, <2>2
<1>14. \A q \in Procs : q # p /\ pc[q] \in Inside => loc[q].ent # n
  BY <1>0, <1>6 DEF Calls, CallOK, Owns, Inside
<1>15. Calls'
  <2> SUFFICES ASSUME NEW q \in Procs PROVE CallOK(q)' BY DEF Calls
  <2>1. CASE q = p
    <3>1. Owns(p, "taken")' /\ SeqOf(loc[p].pos)' = loc'[p].pos + 1
      BY <1>2, <1>3, <1>5, <1>7, <1>9 DEF Owns, Ticket, SeqOf
    <3>2. "d_fence" \notin Writing \cup {"e_seq", "e_cas", "d_gen", "d_seq",
                                         "d_cas", "d_skip"}
      BY DEF Writing
    <3> QED BY <1>8, <2>1, <3>1, <3>2 DEF CallOK
  <2>2. CASE q # p
    <3>0. CallOK(q) /\ pc'[q] = pc[q] /\ loc'[q] = loc[q]
          /\ loc[q].pos \in Nat
      BY <1>0, <1>8, <2>2, Ranges DEF Calls, Others
    <3>1. SeqOf(loc[q].pos)' = SeqOf(loc[q].pos) BY <1>10, <3>0 DEF SeqOf
    <3>2. pc[q] \in Inside => /\ Owns(q, "claimed") => Owns(q, "claimed")'
                              /\ Owns(q, "taken") => Owns(q, "taken")'
      BY <1>7, <1>14, <2>2, <3>0 DEF Owns, Ticket
    <3>3. pc[q] = "d_skip" =>
             /\ log'[Taken(loc[q].pos)'].fate # "ready"
             /\ log'[Taken(loc[q].pos)'].fate = "claimed"
                   => Past(Taken(loc[q].pos))'
      <4>1. Taken(loc[q].pos)' = Taken(loc[q].pos)
        BY <1>2, <3>0 DEF Taken
      <4>2. pc[q] = "d_skip" => Taken(loc[q].pos) \in DOMAIN log
        BY <1>0, <3>0, EntryOf DEF CallOK
      <4>3. Past(Taken(loc[q].pos))' = Past(Taken(loc[q].pos))
        BY <1>2, <3>0 DEF Past, SeqOf, Ticket, Taken
      <4> QED BY <1>7, <3>0, <4>1, <4>2, <4>3 DEF CallOK
    <3>4. pc[q] = "d_cas" => deq' # loc[q].pos
      BY <1>1, <1>2, <3>0 DEF CallOK
    <3> QED BY <1>1, <1>2, <3>0, <3>1, <3>2, <3>3, <3>4
        DEF CallOK, Inside
  <2> QED BY <2>1, <2>2
<1>16. Alone'
  <2>2. \A q \in Procs \ {p} : pc'[q] = pc[q] /\ loc'[q].ent = loc[q].ent
    BY <1>8 DEF Others
  <2> QED BY <1>0, <1>9, <1>14, <2>2 DEF Alone
<1>17. Firm => Firm'
  <2>1. ~Past(n) BY <1>1, <1>3, <1>5 DEF Past
  <2> QED BY <1>7, <1>k, <2>1 DEF Firm
<1> QED BY <1>11, <1>12, <1>13, <1>15, <1>16, <1>17 DEF Lined, Held

\* A consumer passes over a ticket that was given back.
LEMMA PassMove ==
  ASSUME TypeOK, Lined, NEW p \in Procs, DeqSkip(p), deq = loc[p].pos
  PROVE  Held
<1>0. Ends /\ Rounds /\ Entries /\ Calls /\ Alone /\ CallOK(p)
  BY DEF Lined, Calls
<1>1. /\ enq \in Nat /\ deq \in Nat /\ FirstTicket <= deq /\ deq <= enq
      /\ FirstTicket \in Nat
  BY <1>0, Ranges DEF Ends
<1>2. /\ deq' = deq + 1 /\ loc' = loc /\ Goto(p, "d_pos") /\ pc[p] = "d_skip"
      /\ UNCHANGED <<enq, base, slot, log>>
  BY DEF DeqSkip, ghost
<1>3. deq < enq BY <1>0, <1>2 DEF CallOK
<1>h. /\ log[Taken(deq)].fate # "ready"
      /\ log[Taken(deq)].fate = "claimed" => Past(Taken(deq))
  BY <1>0, <1>2 DEF CallOK
<1>4. pc'[p] = "d_pos" /\ Others(p) BY <1>2, GotoPc DEF Others, TypeOK
<1>5. \A u \in Nat : SeqOf(u)' = SeqOf(u) BY <1>2 DEF SeqOf
<1>6. Ends' BY <1>0, <1>1, <1>2, <1>3 DEF Ends
<1>7. Rounds' BY <1>0, <1>2 DEF Rounds, Round
<1>8. Entries'
  <2> SUFFICES ASSUME NEW k \in DOMAIN log PROVE EntryOK(k)'
    BY <1>2 DEF Entries
  <2>0. EntryOK(k) /\ Ticket(k) \in Nat /\ Ticket(k)' = Ticket(k)
        /\ k \in Nat /\ SeqOf(Ticket(k))' = SeqOf(Ticket(k))
        /\ Past(k)' = Past(k)
    BY <1>0, <1>2, <1>5, Ranges DEF Entries, Ticket, Past, SeqOf
  <2>1. CASE Ticket(k) = deq
    <3>1. k = Taken(deq) BY <1>0, <1>1, <2>0, <2>1 DEF Taken, Ticket, Ends
    <3>2. log[k].fate # "ready" /\ (log[k].fate = "claimed" => Past(k))
      BY <1>h, <3>1
    <3>3. EntryOK(k)' BY <1>1, <1>2, <2>0, <2>1, <3>2 DEF EntryOK
    <3> QED BY <3>3
  <2>2. CASE Ticket(k) # deq
    <3>1. /\ Ticket(k) < deq' <=> Ticket(k) < deq
          /\ Ticket(k) >= deq' => Ticket(k) >= deq
      BY <1>1, <1>2, <2>0, <2>2
    <3> QED BY <1>2, <2>0, <3>1 DEF EntryOK
  <2> QED BY <2>1, <2>2
<1>9. Calls'
  <2> SUFFICES ASSUME NEW q \in Procs PROVE CallOK(q)' BY DEF Calls
  <2>1. CASE q = p
    <3>1. "d_pos" \notin Inside \cup {"e_seq", "e_cas", "d_gen", "d_seq",
                                      "d_cas", "d_skip"}
      BY DEF Inside, Writing, Reading
    <3> QED BY <1>4, <2>1, <3>1 DEF CallOK, Inside
  <2>2. CASE q # p
    <3>0. CallOK(q) /\ pc'[q] = pc[q] /\ loc'[q] = loc[q]
          /\ loc[q].pos \in Nat
      BY <1>0, <1>4, <2>2, Ranges DEF Calls, Others
    <3>1. SeqOf(loc[q].pos)' = SeqOf(loc[q].pos) BY <1>5, <3>0 DEF SeqOf
    <3>2. pc[q] = "d_cas" => deq' # loc[q].pos
      BY <1>1, <1>2, <3>0 DEF CallOK
    <3>3. Past(Taken(loc[q].pos))' = Past(Taken(loc[q].pos))
      BY <1>2, <3>0 DEF Past, SeqOf, Ticket, Taken
    <3> QED BY <1>1, <1>2, <3>0, <3>1, <3>2, <3>3
        DEF CallOK, Owns, Ticket, Taken
  <2> QED BY <2>1, <2>2
<1>10. Alone'
  <2>1. "d_pos" \notin Inside BY DEF Inside, Writing, Reading
  <2> QED BY <1>0, <1>4, <2>1 DEF Alone, Others
<1>11. Firm => Firm' BY <1>2 DEF Firm, Past, SeqOf, Ticket
<1> QED BY <1>6, <1>7, <1>8, <1>9, <1>10, <1>11 DEF Lined, Held

-----------------------------------------------------------------------------
(* Every step of the calls is one of the moves.                            *)

\* From `at` to `l` no obligation is added.
Fits(at, l) == \/ l \in Plain
               \/ at \in Writing /\ l \in Writing
               \/ at \in Reading /\ l \in Reading

LEMMA PlainLabels ==
  {"idle", "dead", "e_pos", "e_owner", "e_dead", "x_pid", "x_ticket",
   "e_drop", "c_pid", "c_ticket", "c_gen", "c_retract", "d_pos", "d_owner",
   "d_dead", "f_seq", "t_pid", "t_ticket", "t_ovf", "t_claim", "t_free",
   "y_pid", "y_ticket"} \cup RepairPcs \cup CompactPcs \subseteq Plain
  BY DEF Plain, Labels, EnqPcs, DeqPcs, RepairPcs, CompactPcs, Inside,
         Writing, Reading

LEMMA GotoMove ==
  ASSUME TypeOK, Lined, NEW p \in Procs, NEW l, Fits(pc[p], l), Goto(p, l),
         loc' = loc, SameSeqs, UNCHANGED <<enq, deq, log, base>>
  PROVE  Held
  BY GotoPc, MoveOn DEF Fits, Others, TypeOK

LEMMA LocalMove ==
  ASSUME TypeOK, Lined, NEW p \in Procs, NEW l, NEW new, Goto(p, l),
         loc' = [loc EXCEPT ![p] = new],
         \/ l \in Plain
         \/ /\ Fits(pc[p], l)
            /\ new.pos = loc[p].pos /\ new.ent = loc[p].ent,
         SameSeqs, UNCHANGED <<enq, deq, log, base>>
  PROVE  Held
<1>1. pc'[p] = l /\ Others(p) /\ loc'[p] = new
  BY GotoPc DEF Others, TypeOK, WordsOK
<1> QED BY <1>1, MoveOn DEF Fits

LEMMA ReturnMove ==
  ASSUME TypeOK, Lined, NEW p \in Procs, Return(p), SameSeqs,
         UNCHANGED <<enq, deq, log, base>>
  PROVE  Held
<1>1. pc'[p] = "idle" /\ Others(p)
  BY GotoPc, ReturnPc DEF Return, Others, TypeOK
<1> QED BY <1>1, PlainLabels, MoveOn

LEMMA SlotMove ==
  ASSUME TypeOK, NEW p \in Procs, NEW new, new.seq = slot[I(p)].seq,
         slot' = [slot EXCEPT ![I(p)] = new]
  PROVE  SameSeqs
  BY DEF SameSeqs, TypeOK, WordsOK

\* The steps the calls share.
LEMMA SharedMove ==
  ASSUME TypeOK, Lined, NEW p \in Procs, NEW at, NEW a, NEW b
  PROVE  /\ Fits(at, a) /\ Fits(at, b) /\ LoadOverflow(p, at, a, b)
               => Held
         /\ Fits(at, a) /\ Fits(at, b) /\ ClaimOverflow(p, at, a, b)
               => Held
         /\ Fits(at, a) /\ FreePage(p, at, a) => Held
         /\ Fits(at, b) /\ StoreOwnerPid(p, at, a, b) => Held
         /\ Fits(at, b) /\ StoreOwnerTicket(p, at, a, b) => Held
         /\ Fits(at, a) /\ StoreOwnerStart(p, at, a) => Held
         /\ a \in Plain /\ LoadOwnerPid(p, at, a) => Held
         /\ ClearTicketReturn(p, at) => Held
<1> USE DEF ghost, positions, slab
<1>0. loc[p] \in Locals /\ slot[I(p)] \in SlotWords
  BY IndexOK DEF TypeOK
<1>s. slot' = slot => SameSeqs BY DEF SameSeqs
<1>1. ASSUME Fits(at, a), Fits(at, b), LoadOverflow(p, at, a, b)
      PROVE  Held
  <2> DEFINE new == [loc[p] EXCEPT !.pg = slot[I(p)].ovf]
  <2>1. new.pos = loc[p].pos /\ new.ent = loc[p].ent BY <1>0 DEF Locals
  <2>2. loc' = [loc EXCEPT ![p] = new] BY <1>1 DEF LoadOverflow
  <2> HIDE DEF new
  <2> QED BY <1>1, <1>s, <2>1, <2>2, LocalMove DEF LoadOverflow
<1>2. ASSUME Fits(at, a), Fits(at, b), ClaimOverflow(p, at, a, b)
      PROVE  Held
  <2>1. [slot[I(p)] EXCEPT !.ovf = None].seq = slot[I(p)].seq
    BY <1>0 DEF SlotWords
  <2>2. SameSeqs BY <1>2, <1>s, <2>1, SlotMove DEF ClaimOverflow
  <2> QED BY <1>2, <2>2, GotoMove DEF ClaimOverflow
<1>3. ASSUME Fits(at, a), FreePage(p, at, a) PROVE Held
  BY <1>3, <1>s, GotoMove DEF FreePage
<1>4. ASSUME NEW new, NEW l, Fits(at, l), new.seq = slot[I(p)].seq,
             Store(p, at, new, l), UNCHANGED ghost
      PROVE  Held
  BY <1>4, SlotMove, GotoMove DEF Store
<1>5. ASSUME a \in Plain, LoadOwnerPid(p, at, a) PROVE Held
  <2> DEFINE new == [loc[p] EXCEPT !.vic = slot[I(p)].pid]
  <2>1. CASE Goto(p, a) /\ loc' = [loc EXCEPT ![p] = new]
    BY <1>5, <1>s, <2>1, LocalMove DEF LoadOwnerPid
  <2>2. CASE Return(p)
    BY <1>5, <1>s, <2>2, ReturnMove DEF LoadOwnerPid
  <2> QED BY <1>5, <2>1, <2>2 DEF LoadOwnerPid
<1>6. ASSUME ClearTicketReturn(p, at) PROVE Held
  <2>1. [slot[I(p)] EXCEPT !.ticket = 0].seq = slot[I(p)].seq
    BY <1>0 DEF SlotWords
  <2> QED BY <1>6, <2>1, SlotMove, ReturnMove DEF ClearTicketReturn
<1>7. \A v : /\ [slot[I(p)] EXCEPT !.pid = v].seq = slot[I(p)].seq
             /\ [slot[I(p)] EXCEPT !.ticket = v].seq = slot[I(p)].seq
             /\ [slot[I(p)] EXCEPT !.start = v].seq = slot[I(p)].seq
  BY <1>0 DEF SlotWords
<1> QED
  BY <1>1, <1>2, <1>3, <1>4, <1>5, <1>6, <1>7
  DEF StoreOwnerPid, StoreOwnerTicket, StoreOwnerStart

\* Whether the owner is found dead or not, the call is outside its slot.
LEMMA DeadMove ==
  ASSUME TypeOK, Lined, NEW p \in Procs, NEW at, CheckDead(p, at)
  PROVE  Held
<1>1. SameSeqs /\ UNCHANGED <<enq, deq, log, base>>
  BY DEF CheckDead, SameSeqs, positions, ghost
<1>2. Fits(pc[p], "r_cas") BY PlainLabels DEF Fits, RepairPcs
<1>3. CASE Goto(p, "r_cas") /\ UNCHANGED loc
  BY <1>1, <1>2, <1>3, GotoMove
<1>4. CASE Return(p) BY <1>1, <1>4, ReturnMove
<1> QED BY <1>3, <1>4 DEF CheckDead

\* The step that ends p's hold of its slot.
LEMMA SettleSlot ==
  ASSUME TypeOK, Lined, NEW p \in Procs, NEW f \in Fates, NEW s, NEW l,
         Ending(p, f, s), NEW e, e \in Tickets, e.fate = f,
         slot' = [slot EXCEPT ![I(p)] = [slot[I(p)] EXCEPT !.seq = s]],
         log' = [log EXCEPT ![loc[p].ent] = e],
         Goto(p, l), l \in Plain, UNCHANGED <<positions, loc, base>>
  PROVE  Held
<1>1. pc'[p] = l /\ Others(p) BY GotoPc DEF Others, TypeOK
<1>2. SetSeq(p, s)
  <2>1. [slot[I(p)] EXCEPT !.seq = s].seq = s
    BY IndexOK DEF TypeOK, SlotWords
  <2> QED BY <2>1 DEF SetSeq, TypeOK, WordsOK
<1>3. loc[p].ent \in DOMAIN log
  BY InsideOwns DEF Ending, Inside, Lined
<1>4. SetFate(loc[p].ent, f)
  BY <1>3, EntrySet DEF SetFate, TypeOK
<1> QED BY <1>1, <1>2, <1>4, Settle DEF positions

LEMMA EnqueueOrdered ==
  ASSUME TypeOK, Lined, NEW p \in Procs, Enqueue(p)
  PROVE  Held
<1> USE DEF positions, ghost
<1>0. /\ loc[p] \in Locals /\ slot[I(p)] \in SlotWords /\ WordsOK
      /\ CallOK(p) /\ Calls /\ Ends
      /\ FirstTicket <= enq /\ enq \in Nat /\ I(p) = Lap(loc[p].pos)
      /\ FirstTicket \in Nat /\ deq \in Nat
  BY IndexOK, Ranges DEF TypeOK, Lined, Calls, Ends
<1>s. slot' = slot => SameSeqs BY DEF SameSeqs
<1>w. \A l, m : l \in Writing /\ m \in Writing => Fits(l, m) BY DEF Fits
<1>p. \A l, m : m \in Plain => Fits(l, m) BY DEF Fits
<1>1. ASSUME NEW m \in Msgs, EnqStart(p, m) PROVE Held
  BY <1>1, <1>s, PlainLabels, LocalMove DEF EnqStart
<1>2. CASE EnqLoadPos(p)
  <2> DEFINE new == [loc[p] EXCEPT !.pos = enq, !.vic = None, !.pg = None,
                                   !.obs = 0, !.tgt = 0]
  <2>1. new.pos = enq BY <1>0 DEF Locals
  <2>2. /\ Goto(p, "e_seq") /\ loc' = [loc EXCEPT ![p] = new]
        /\ UNCHANGED <<enq, deq, slot, log, base>>
    BY <1>2 DEF EnqLoadPos
  <2> HIDE DEF new
  <2>3. pc'[p] = "e_seq" /\ loc'[p].pos = enq /\ Others(p)
    BY <1>0, <2>1, <2>2, GotoPc DEF Others, WordsOK
  <2>4. "e_seq" \notin Inside
        /\ "e_seq" \notin {"e_cas", "d_gen", "d_seq", "d_cas", "d_skip"}
    BY DEF Inside, Writing, Reading
  <2>5. CallOK(p)' BY <1>0, <2>2, <2>3, <2>4 DEF CallOK, Inside
  <2> QED BY <1>s, <2>2, <2>3, <2>4, <2>5, Look
<1>3. CASE EnqLoadSeq(p)
  <2>1. CASE slot[I(p)].seq = loc[p].pos /\ Goto(p, "e_cas") /\ UNCHANGED loc
    <3>1. pc'[p] = "e_cas" /\ Others(p)
      BY <1>0, <2>1, GotoPc DEF Others
    <3>2. "e_cas" \notin Inside
          /\ "e_cas" \notin {"e_seq", "d_gen", "d_seq", "d_cas", "d_skip"}
      BY DEF Inside, Writing, Reading
    <3>3. SeqOf(loc[p].pos)' = loc[p].pos
          /\ FirstTicket <= loc[p].pos /\ loc[p].pos <= enq
      BY <1>0, <1>3, <2>1 DEF EnqLoadSeq, SeqOf, CallOK
    <3>4. CallOK(p)'
      BY <1>3, <2>1, <3>1, <3>2, <3>3 DEF EnqLoadSeq, CallOK, Inside, SeqOf
    <3> QED BY <1>3, <1>s, <3>1, <3>2, <3>4, Look DEF EnqLoadSeq
  <2>2. CASE Goto(p, "e_owner") /\ UNCHANGED loc
    BY <1>3, <1>p, <1>s, <2>2, PlainLabels, GotoMove DEF EnqLoadSeq
  <2>3. CASE Goto(p, "e_pos") /\ loc' = [loc EXCEPT ![p].spins = @ + 1]
    BY <1>3, <1>s, <2>3, PlainLabels, LocalMove DEF EnqLoadSeq
  <2>4. CASE Return(p) BY <1>3, <1>s, <2>4, ReturnMove DEF EnqLoadSeq
  <2> QED BY <1>3, <2>1, <2>2, <2>3, <2>4 DEF EnqLoadSeq
<1>4. CASE EnqLoadOwnerPid(p)
  BY <1>4, PlainLabels, SharedMove DEF EnqLoadOwnerPid
<1>5. CASE EnqCheckDead(p) BY <1>5, DeadMove DEF EnqCheckDead
<1>6. CASE EnqClaim(p)
  <2>1. CASE enq = loc[p].pos BY <1>6, <2>1, ClaimMove
  <2>2. CASE enq # loc[p].pos
    BY <1>6, <1>p, <1>s, <2>2, PlainLabels, GotoMove DEF EnqClaim
  <2> QED BY <2>1, <2>2
<1>7. CASE EnqOwnerPid(p) \/ EnqOwnerTicket(p) \/ EnqOwnerStart(p)
  <2>1. {"e_pid", "e_ticket", "e_start", "e_alloc"} \subseteq Writing
    BY DEF Writing
  <2> QED BY <1>7, <1>w, <2>1, SharedMove
      DEF EnqOwnerPid, EnqOwnerTicket, EnqOwnerStart
<1>8. CASE EnqAlloc(p)
  <2>1. {"e_alloc", "e_body", "x_gen"} \subseteq Writing BY DEF Writing
  <2>2. \A g : /\ [loc[p] EXCEPT !.pg = g].pos = loc[p].pos
               /\ [loc[p] EXCEPT !.pg = g].ent = loc[p].ent
    BY <1>0 DEF Locals
  <2>3. ASSUME NEW g, loc' = [loc EXCEPT ![p].pg = g], Goto(p, "e_body")
        PROVE  Held
    BY <1>8, <1>s, <1>w, <2>1, <2>2, <2>3, LocalMove DEF EnqAlloc
  <2>4. CASE loc' = loc
    BY <1>8, <1>s, <1>w, <2>1, <2>4, GotoMove DEF EnqAlloc
  <2> QED BY <1>8, <2>3, <2>4 DEF EnqAlloc
<1>9. CASE EnqExhausted(p) \/ EnqFence(p)
  <2>1. {"x_gen", "x_seq", "e_gen", "e_pub"} \subseteq Writing
        /\ "e_drop" \in Plain
    BY PlainLabels DEF Writing
  <2>2. PICK l \in {"e_drop", "x_seq", "e_pub"} : Goto(p, l)
    BY <1>9 DEF EnqExhausted, EnqFence
  <2>3. Fits(pc[p], l)
    BY <1>9, <2>1, <2>2 DEF Fits, EnqExhausted, EnqFence
  <2> QED BY <1>9, <1>s, <2>2, <2>3, GotoMove DEF EnqExhausted, EnqFence
<1>10. CASE EnqTombstone(p)
  <2>1. pc[p] = "x_seq" /\ "x_seq" \in Writing
    BY <1>10 DEF EnqTombstone, Writing
  <2>2. Owns(p, "claimed") BY <1>0, <2>1 DEF CallOK
  <2>3. slot[I(p)].seq = loc[p].pos
    BY <1>0, <2>1 DEF CallOK, SeqOf
  <2>4. log[loc[p].ent] \in Tickets
    BY <2>2 DEF Owns, TypeOK, HistoryOK
  <2>5. [log[loc[p].ent] EXCEPT !.fate = "void"] \in Tickets
        /\ [log[loc[p].ent] EXCEPT !.fate = "void"].fate = "void"
        /\ "void" \in Fates
    BY <2>4 DEF Tickets, Fates
  <2>6. Ending(p, "void", loc[p].pos + Capacity) BY <2>1 DEF Ending
  <2>7. slot' = [slot EXCEPT ![I(p)] =
                   [slot[I(p)] EXCEPT !.seq = loc[p].pos + Capacity]]
    BY <1>10, <2>3 DEF EnqTombstone, CasSeq
  <2> QED BY <1>10, <2>5, <2>6, <2>7, PlainLabels, SettleSlot
      DEF EnqTombstone, Fate
<1>11. CASE EnqTombstonePid(p) \/ EnqTombstoneTicket(p) \/ EnqClearPid(p)
            \/ EnqClearTicket(p)
  BY <1>11, <1>p, PlainLabels, SharedMove
  DEF EnqTombstonePid, EnqTombstoneTicket, EnqClearPid, EnqClearTicket
<1>12. CASE EnqPayload(p) \/ EnqOverflow(p)
  <2>1. {"e_body", "e_ovf", "e_gen"} \subseteq Writing BY DEF Writing
  <2>2. \A v : [slot[I(p)] EXCEPT !.body = v].seq = slot[I(p)].seq
               /\ [slot[I(p)] EXCEPT !.ovf = v].seq = slot[I(p)].seq
    BY <1>0 DEF SlotWords
  <2>3. SameSeqs
    BY <1>12, <2>2, SlotMove DEF EnqPayload, EnqOverflow, Store
  <2> QED BY <1>12, <1>w, <2>1, <2>3, GotoMove
      DEF EnqPayload, EnqOverflow, Store
<1>13. CASE EnqPublish(p)
  <2>1. pc[p] = "e_pub" /\ "e_pub" \in Writing
    BY <1>13 DEF EnqPublish, Store, Writing
  <2>2. Owns(p, "claimed") BY <1>0, <2>1 DEF CallOK
  <2>4. log[loc[p].ent] \in Tickets
    BY <2>2 DEF Owns, TypeOK, HistoryOK
  <2>5. [log[loc[p].ent] EXCEPT !.fate = "ready"] \in Tickets
        /\ [log[loc[p].ent] EXCEPT !.fate = "ready"].fate = "ready"
        /\ "ready" \in Fates
    BY <2>4 DEF Tickets, Fates
  <2>6. Ending(p, "ready", loc[p].pos + 1) BY <2>1 DEF Ending
  <2> QED BY <1>13, <2>5, <2>6, PlainLabels, SettleSlot
      DEF EnqPublish, Store, Fate
<1>14. CASE EnqLastFence(p)
  <2>1. CASE Return(p) BY <1>14, <1>s, <2>1, ReturnMove DEF EnqLastFence
  <2>2. CASE Goto(p, "c_retract") /\ UNCHANGED loc
    BY <1>14, <1>p, <1>s, <2>2, PlainLabels, GotoMove DEF EnqLastFence
  <2> QED BY <1>14, <2>1, <2>2 DEF EnqLastFence
<1> QED
  BY <1>1, <1>2, <1>3, <1>4, <1>5, <1>6, <1>7, <1>8, <1>9, <1>10, <1>11,
     <1>12, <1>13, <1>14
  DEF Enqueue

LEMMA DequeueOrdered ==
  ASSUME TypeOK, Lined, NEW p \in Procs, Dequeue(p)
  PROVE  Held
<1> USE DEF positions, ghost
<1>0. /\ loc[p] \in Locals /\ slot[I(p)] \in SlotWords /\ WordsOK
      /\ CallOK(p) /\ Calls /\ Ends /\ Rounds /\ Entries
      /\ FirstTicket <= deq /\ deq <= enq /\ enq \in Nat
      /\ I(p) = Lap(loc[p].pos) /\ I(p) \in Slots /\ loc[p].pos \in Nat
      /\ slot[I(p)].seq \in Nat /\ slot[I(p)].seq = SeqOf(loc[p].pos)
      /\ FirstTicket \in Nat /\ deq \in Nat
  BY IndexOK, Ranges DEF TypeOK, Lined, Calls, Ends, SeqOf
<1>s. slot' = slot => SameSeqs BY DEF SameSeqs
<1>r. \A l, m : l \in Reading /\ m \in Reading => Fits(l, m) BY DEF Fits
<1>p. \A l, m : m \in Plain => Fits(l, m) BY DEF Fits
<1>l. /\ {"d_gen", "d_seq", "d_cas", "d_skip"} \cap Inside = {}
      /\ {"d_fence", "d_exp", "t_seq", "d_pid", "d_ticket", "d_start",
          "d_ovf", "d_copy", "d_claim", "d_free", "d_rec"} \subseteq Reading
  BY DEF Inside, Writing, Reading
<1>1. CASE DeqLoadPos(p)
  <2> DEFINE new == [Blank EXCEPT !.pos = deq, !.ret = "d_pos"]
  <2>1. new.pos = deq BY BlankOK DEF Locals
  <2>2. /\ Goto(p, "d_gen") /\ loc' = [loc EXCEPT ![p] = new]
        /\ UNCHANGED <<enq, deq, slot, log, base>>
    BY <1>1 DEF DeqLoadPos
  <2> HIDE DEF new
  <2>3. pc'[p] = "d_gen" /\ loc'[p].pos = deq /\ Others(p)
    BY <1>0, <2>1, <2>2, GotoPc DEF Others, WordsOK
  <2>4. CallOK(p)' BY <1>0, <1>l, <2>2, <2>3 DEF CallOK, Inside
  <2> QED BY <1>l, <1>s, <2>2, <2>3, <2>4, Look
<1>2. CASE DeqLoadGen(p)
  <2> DEFINE new == [loc[p] EXCEPT !.gen = gen]
  <2>1. new.pos = loc[p].pos BY <1>0 DEF Locals
  <2>2. /\ Goto(p, "d_seq") /\ loc' = [loc EXCEPT ![p] = new]
        /\ pc[p] = "d_gen" /\ UNCHANGED <<enq, deq, slot, log, base>>
    BY <1>2 DEF DeqLoadGen
  <2> HIDE DEF new
  <2>3. pc'[p] = "d_seq" /\ loc'[p].pos = loc[p].pos /\ Others(p)
    BY <1>0, <2>1, <2>2, GotoPc DEF Others, WordsOK
  <2>4. CallOK(p)' BY <1>0, <1>l, <2>2, <2>3 DEF CallOK, Inside
  <2> QED BY <1>l, <1>s, <2>2, <2>3, <2>4, Look
<1>3. CASE DeqLoadSeq(p)
  <2>0. /\ pc[p] = "d_seq" /\ UNCHANGED <<enq, deq, slot, log, base, loc>>
        /\ FirstTicket <= loc[p].pos /\ loc[p].pos <= deq
    BY <1>0, <1>3 DEF DeqLoadSeq, CallOK
  <2>1. CASE Goto(p, "d_owner")
    BY <1>p, <1>s, <2>0, <2>1, PlainLabels, GotoMove
  <2>2. CASE slot[I(p)].seq = loc[p].pos + 1 /\ Goto(p, "d_cas")
    <3>1. pc'[p] = "d_cas" /\ Others(p)
      BY <1>0, <2>0, <2>2, GotoPc DEF Others
    <3>2. SeqOf(loc[p].pos)' = loc[p].pos + 1
      BY <1>0, <2>0, <2>2 DEF SeqOf
    <3>3. CallOK(p)'
      BY <1>l, <2>0, <3>1, <3>2 DEF CallOK, Inside, SeqOf
    <3> QED BY <1>l, <1>s, <2>0, <3>1, <3>3, Look
\* A seq that far ahead: the ticket is behind enq, and its entry is over or
\* its taker is inside.
  <2>3. CASE slot[I(p)].seq > loc[p].pos + 1 /\ Goto(p, "d_skip")
    <3>1. pc'[p] = "d_skip" /\ Others(p)
      BY <1>0, <2>0, <2>3, GotoPc DEF Others
    <3>2. PICK u \in Nat : /\ Lap(u) = Lap(loc[p].pos)
                           /\ \/ slot[I(p)].seq = u /\ u < enq + Capacity
                              \/ slot[I(p)].seq = u + 1 /\ u < enq
      BY <1>0 DEF Rounds, Round
    <3>3. loc[p].pos < u BY <1>0, <2>3, <3>2
    <3>4. loc[p].pos + Capacity <= u BY <1>0, <3>2, <3>3, LapGap
    <3>5. loc[p].pos < enq BY <1>0, <3>2, <3>4, CapacityAssumption
    <3>6. /\ Taken(loc[p].pos) \in DOMAIN log
          /\ Ticket(Taken(loc[p].pos)) = loc[p].pos
      BY <1>0, <2>0, <3>5, EntryOf
    <3>7. EntryOK(Taken(loc[p].pos)) BY <1>0, <3>6 DEF Entries
    <3>8. /\ log[Taken(loc[p].pos)].fate # "ready"
          /\ log[Taken(loc[p].pos)].fate = "claimed"
                => Past(Taken(loc[p].pos))
      BY <1>0, <2>3, <3>6, <3>7 DEF EntryOK
    <3>9. CallOK(p)'
      BY <1>l, <2>0, <3>1, <3>5, <3>8
      DEF CallOK, Inside, Taken, Past, SeqOf, Ticket
    <3> QED BY <1>l, <1>s, <2>0, <3>1, <3>9, Look
  <2> QED BY <1>3, <2>1, <2>2, <2>3 DEF DeqLoadSeq
<1>4. CASE DeqLoadOwnerPid(p)
  BY <1>4, PlainLabels, SharedMove DEF DeqLoadOwnerPid
<1>5. CASE DeqCheckDead(p) BY <1>5, DeadMove DEF DeqCheckDead
<1>6. CASE DeqSkip(p)
  <2>1. CASE deq = loc[p].pos BY <1>6, <2>1, PassMove
  <2>2. CASE deq # loc[p].pos
    BY <1>6, <1>p, <1>s, <2>2, PlainLabels, GotoMove DEF DeqSkip
  <2> QED BY <2>1, <2>2
<1>7. CASE DeqClaim(p)
  <2>1. CASE deq = loc[p].pos BY <1>7, <2>1, TakeMove
  <2>2. CASE deq # loc[p].pos
    BY <1>7, <1>p, <1>s, <2>2, PlainLabels, GotoMove DEF DeqClaim
  <2> QED BY <2>1, <2>2
<1>8. CASE DeqFence(p)
  <2>1. Fits("d_fence", "f_seq") /\ Fits("d_fence", "d_exp")
    BY <1>l, <1>p, <1>r, PlainLabels
  <2>2. PICK l \in {"f_seq", "d_exp"} : Goto(p, l) BY <1>8 DEF DeqFence
  <2> QED BY <1>8, <1>s, <2>1, <2>2, GotoMove DEF DeqFence
<1>9. CASE DeqExpiry(p)
  BY <1>9, <1>l, <1>r, <1>s, GotoMove DEF DeqExpiry
<1>10. CASE DeqExpire(p)
  <2>1. pc[p] \in Reading BY <1>10, <1>l DEF DeqExpire, Store
  <2>2. Owns(p, "taken") BY <1>0, <2>1 DEF CallOK
  <2>3. log[loc[p].ent] \in Tickets
    BY <2>2 DEF Owns, TypeOK, HistoryOK
  <2>4. [log[loc[p].ent] EXCEPT !.fate = "expired"] \in Tickets
        /\ [log[loc[p].ent] EXCEPT !.fate = "expired"].fate = "expired"
        /\ "expired" \in Fates
    BY <2>3 DEF Tickets, Fates
  <2>5. Ending(p, "expired", loc[p].pos + Capacity) BY <2>1 DEF Ending
  <2> QED BY <1>10, <2>4, <2>5, PlainLabels, SettleSlot
      DEF DeqExpire, Store, Fate
<1>11. CASE DeqRecycle(p)
  <2> DEFINE e == [log[loc[p].ent] EXCEPT !.fate = "delivered",
                                          !.got = loc[p].msg]
  <2>1. pc[p] \in Reading BY <1>11, <1>l DEF DeqRecycle, Store
  <2>2. Owns(p, "taken") BY <1>0, <2>1 DEF CallOK
  <2>3. log[loc[p].ent] \in Tickets /\ loc[p].msg \in Msgs \cup {None}
    BY <1>0, <2>2 DEF Owns, TypeOK, HistoryOK, Locals
  <2>4. e \in Tickets /\ e.fate = "delivered" /\ "delivered" \in Fates
    BY <2>3 DEF Tickets, Fates
  <2>5. Ending(p, "delivered", loc[p].pos + Capacity) BY <2>1 DEF Ending
  <2>6. /\ log' = [log EXCEPT ![loc[p].ent] = e] /\ base' = base
        /\ UNCHANGED <<enq, deq, loc>> /\ Goto(p, "y_pid")
        /\ slot' = [slot EXCEPT ![I(p)] =
                      [slot[I(p)] EXCEPT !.seq = loc[p].pos + Capacity]]
    BY <1>11 DEF DeqRecycle, Store
  <2> HIDE DEF e
  <2> QED BY <2>4, <2>5, <2>6, PlainLabels, SettleSlot
<1>12. CASE \/ DeqExpirePid(p) \/ DeqExpireTicket(p) \/ DeqExpireLoad(p)
            \/ DeqExpireClaim(p) \/ DeqExpireFree(p) \/ DeqClearPid(p)
            \/ DeqClearTicket(p)
  BY <1>12, <1>p, PlainLabels, SharedMove
  DEF DeqExpirePid, DeqExpireTicket, DeqExpireLoad, DeqExpireClaim,
      DeqExpireFree, DeqClearPid, DeqClearTicket
<1>13. CASE DeqOwnerPid(p) \/ DeqOwnerTicket(p) \/ DeqOwnerStart(p)
  <2>1. /\ Fits("d_pid", "d_ticket") /\ Fits("d_ticket", "d_start")
        /\ Fits("d_start", "d_ovf")
    BY <1>l, <1>r
  <2>2. CASE DeqOwnerPid(p) BY <2>1, <2>2, SharedMove DEF DeqOwnerPid
  <2>3. CASE DeqOwnerTicket(p) BY <2>1, <2>3, SharedMove DEF DeqOwnerTicket
  <2>4. CASE DeqOwnerStart(p) BY <2>1, <2>4, SharedMove DEF DeqOwnerStart
  <2> QED BY <1>13, <2>2, <2>3, <2>4
<1>14. CASE DeqLoadOverflow(p) \/ DeqClaimOverflow(p) \/ DeqFree(p)
  <2>1. /\ Fits("d_ovf", "d_copy") /\ Fits("d_claim", "d_free")
        /\ Fits("d_claim", "d_rec") /\ Fits("d_free", "d_rec")
    BY <1>l, <1>r
  <2> QED BY <1>14, <2>1, SharedMove
      DEF DeqLoadOverflow, DeqClaimOverflow, DeqFree
<1>15. CASE DeqCopy(p)
  <2>1. \A v : /\ [loc[p] EXCEPT !.msg = v].pos = loc[p].pos
               /\ [loc[p] EXCEPT !.msg = v].ent = loc[p].ent
    BY <1>0 DEF Locals
  <2> QED BY <1>15, <1>l, <1>r, <1>s, <2>1, LocalMove DEF DeqCopy
<1> QED
  BY <1>1, <1>2, <1>3, <1>4, <1>5, <1>6, <1>7, <1>8, <1>9, <1>10, <1>11,
     <1>12, <1>13, <1>14, <1>15
  DEF Dequeue

-----------------------------------------------------------------------------
(* With equal start times no repair and no fence is entered.               *)

Starts == \A i \in Slots : slot[i].start = FirstStart
Calling == Live \ {"e_dead", "d_dead"}
StaysLive(p) == /\ Starts'
            /\ \/ pc'[p] \in Calling
               \/ pc'[p] \in {"e_dead", "d_dead"} /\ loc'[p].vic \in Procs

LEMMA LiveLabels ==
  /\ "idle" \in Calling /\ "dead" \notin Live
  /\ EnqPcs \ {"e_dead", "e_drop", "c_retract"} \subseteq Calling
  /\ DeqPcs \ {"d_dead", "f_seq", "f_pid", "f_ticket"} \subseteq Calling
  /\ Live \cap RepairPcs = {}
  BY DEF Calling, Live, EnqPcs, DeqPcs, RepairPcs, Writing, Reading

LEMMA StartsKept ==
  ASSUME TypeOK, Starts, NEW p \in Procs, NEW new, new.start = FirstStart,
         slot' = [slot EXCEPT ![I(p)] = new]
  PROVE  Starts'
  BY DEF Starts, TypeOK, WordsOK

LEMMA GotoQuiet ==
  ASSUME TypeOK, Starts', NEW p \in Procs, NEW l \in Calling, Goto(p, l)
  PROVE  StaysLive(p)
  BY GotoPc DEF StaysLive, TypeOK

LEMMA ReturnQuiet ==
  ASSUME TypeOK, Starts', NEW p \in Procs, Return(p)
  PROVE  StaysLive(p)
  BY GotoQuiet, LiveLabels DEF Return

LEMMA SharedQuiet ==
  ASSUME TypeOK, Starts, SameStart, NEW p \in Procs, NEW at, NEW a, NEW b
  PROVE  /\ a \in Calling /\ b \in Calling /\ LoadOverflow(p, at, a, b)
               => StaysLive(p)
         /\ a \in Calling /\ b \in Calling /\ ClaimOverflow(p, at, a, b)
               => StaysLive(p)
         /\ a \in Calling /\ FreePage(p, at, a) => StaysLive(p)
         /\ b \in Calling /\ StoreOwnerPid(p, at, a, b) => StaysLive(p)
         /\ b \in Calling /\ StoreOwnerTicket(p, at, a, b) => StaysLive(p)
         /\ a \in Calling /\ StoreOwnerStart(p, at, a) => StaysLive(p)
         /\ a \in {"e_dead", "d_dead"} /\ LoadOwnerPid(p, at, a) => StaysLive(p)
         /\ ClearTicketReturn(p, at) => StaysLive(p)
<1>0. /\ loc[p] \in Locals /\ slot[I(p)] \in SlotWords
      /\ slot[I(p)].start = FirstStart /\ StartTime[p] = FirstStart
  BY IndexOK DEF TypeOK, Starts, SameStart
<1>s. slot' = slot => Starts' BY DEF Starts
<1>v. \A v : /\ [slot[I(p)] EXCEPT !.pid = v].start = FirstStart
             /\ [slot[I(p)] EXCEPT !.ticket = v].start = FirstStart
             /\ [slot[I(p)] EXCEPT !.ovf = v].start = FirstStart
             /\ [slot[I(p)] EXCEPT !.start = FirstStart].start = FirstStart
  BY <1>0 DEF SlotWords
<1>1. ASSUME a \in Calling, b \in Calling, LoadOverflow(p, at, a, b)
      PROVE  StaysLive(p)
  BY <1>1, <1>s, GotoQuiet DEF LoadOverflow
<1>2. ASSUME a \in Calling, b \in Calling, ClaimOverflow(p, at, a, b)
      PROVE  StaysLive(p)
  BY <1>2, <1>s, <1>v, StartsKept, GotoQuiet DEF ClaimOverflow
<1>3. ASSUME a \in Calling, FreePage(p, at, a) PROVE StaysLive(p)
  BY <1>3, <1>s, GotoQuiet DEF FreePage
<1>4. ASSUME NEW new, NEW l \in Calling, new.start = FirstStart,
             Store(p, at, new, l)
      PROVE  StaysLive(p)
  BY <1>4, StartsKept, GotoQuiet DEF Store
<1>5. ASSUME a \in {"e_dead", "d_dead"}, LoadOwnerPid(p, at, a)
      PROVE  StaysLive(p)
  <2>1. CASE Return(p) BY <1>5, <1>s, <2>1, ReturnQuiet DEF LoadOwnerPid
  <2>2. CASE /\ slot[I(p)].pid \notin {None, Recovering}
             /\ loc' = [loc EXCEPT ![p].vic = slot[I(p)].pid]
             /\ Goto(p, a)
    <3>1. slot[I(p)].pid \in Procs BY <1>0, <2>2 DEF SlotWords
    <3>2. [loc[p] EXCEPT !.vic = slot[I(p)].pid].vic = slot[I(p)].pid
      BY <1>0 DEF Locals
    <3>3. loc'[p].vic \in Procs
      BY <2>2, <3>1, <3>2 DEF TypeOK, WordsOK
    <3> QED BY <1>5, <1>s, <2>2, <3>3, GotoPc
        DEF LoadOwnerPid, StaysLive, TypeOK
  <2> QED BY <1>5, <2>1, <2>2 DEF LoadOwnerPid
<1>6. ASSUME ClearTicketReturn(p, at) PROVE StaysLive(p)
  BY <1>6, <1>v, StartsKept, ReturnQuiet DEF ClearTicketReturn
<1> QED
  BY <1>0, <1>1, <1>2, <1>3, <1>4, <1>5, <1>6, <1>v
  DEF StoreOwnerPid, StoreOwnerTicket, StoreOwnerStart

LEMMA DeadQuiet ==
  ASSUME TypeOK, Sound, SameStart, NEW p \in Procs,
         NEW at \in {"e_dead", "d_dead"}, CheckDead(p, at)
  PROVE  StaysLive(p)
<1>1. pc[p] = at /\ SoundCall(p) BY DEF CheckDead, Sound
<1>2. loc[p].vic \in Procs BY <1>1 DEF SoundCall
<1>3. pc[loc[p].vic] # "dead" BY <1>2, LiveLabels DEF Sound, SoundCall
<1>4. slot[I(p)].start = StartTime[loc[p].vic]
  BY <1>2, IndexOK DEF Sound, SameStart, TypeOK
<1>5. Return(p) BY <1>3, <1>4 DEF CheckDead, PidDead
<1>6. Starts' BY DEF Starts, Sound, CheckDead
<1> QED BY <1>5, <1>6, ReturnQuiet

LEMMA EnqueueQuiet ==
  ASSUME TypeOK, Sound, SameStart, NEW p \in Procs, Enqueue(p)
  PROVE  StaysLive(p)
<1>0. /\ loc[p] \in Locals /\ slot[I(p)] \in SlotWords /\ Starts
      /\ slot[I(p)].start = FirstStart
      /\ pc[p] \in Sampled => gen = loc[p].gen
  BY IndexOK DEF TypeOK, Sound, SoundCall, Starts
<1>s. slot' = slot => Starts' BY <1>0 DEF Starts
<1>l. {"idle", "e_pos", "e_seq", "e_owner", "e_cas"} \cup Writing
         \cup {"x_pid", "x_ticket", "c_pid", "c_ticket", "c_gen"}
         \subseteq Calling
  BY LiveLabels DEF EnqPcs, Writing
<1>m. {"x_gen", "e_gen", "c_gen"} \subseteq Sampled
  BY SampledLabels DEF EnqPcs, Writing
<1>v. \A v : /\ [slot[I(p)] EXCEPT !.seq = v].start = FirstStart
             /\ [slot[I(p)] EXCEPT !.ovf = v].start = FirstStart
             /\ [slot[I(p)] EXCEPT !.body = v].start = FirstStart
  BY <1>0 DEF SlotWords
<1> USE DEF Writing
<1>1. ASSUME NEW m \in Msgs, EnqStart(p, m) PROVE StaysLive(p)
  BY <1>1, <1>l, <1>s, GotoQuiet DEF EnqStart
<1>2. CASE EnqLoadPos(p) \/ EnqLoadSeq(p)
  BY <1>2, <1>l, <1>s, GotoQuiet, ReturnQuiet DEF EnqLoadPos, EnqLoadSeq
<1>3. CASE EnqClaim(p) BY <1>3, <1>l, <1>s, GotoQuiet DEF EnqClaim
<1>4. CASE EnqLoadOwnerPid(p)
  BY <1>0, <1>4, SharedQuiet DEF EnqLoadOwnerPid
<1>5. CASE EnqCheckDead(p) BY <1>5, DeadQuiet DEF EnqCheckDead
<1>6. CASE EnqAlloc(p) BY <1>6, <1>l, <1>s, GotoQuiet DEF EnqAlloc
<1>7. CASE EnqExhausted(p) \/ EnqFence(p)
  BY <1>0, <1>7, <1>l, <1>m, <1>s, GotoQuiet DEF EnqExhausted, EnqFence
<1>8. CASE EnqTombstone(p)
  <2>1. Starts'
    BY <1>0, <1>8, <1>s, <1>v, StartsKept DEF EnqTombstone, CasSeq
  <2> QED BY <1>8, <1>l, <2>1, GotoQuiet DEF EnqTombstone
<1>9. CASE EnqPayload(p)
  BY <1>0, <1>9, <1>l, <1>v, StartsKept, GotoQuiet DEF EnqPayload
<1>10. CASE EnqOverflow(p) \/ EnqPublish(p)
  <2>1. CASE EnqOverflow(p)
    BY <1>0, <1>l, <1>v, <2>1, StartsKept, GotoQuiet DEF EnqOverflow, Store
  <2>2. CASE EnqPublish(p)
    BY <1>0, <1>l, <1>v, <2>2, StartsKept, GotoQuiet DEF EnqPublish, Store
  <2> QED BY <1>10, <2>1, <2>2
<1>11. CASE EnqLastFence(p)
  BY <1>0, <1>11, <1>m, <1>s, ReturnQuiet DEF EnqLastFence
<1>12. CASE EnqOwnerPid(p) \/ EnqTombstonePid(p) \/ EnqClearPid(p)
  BY <1>0, <1>12, <1>l, SharedQuiet
  DEF EnqOwnerPid, EnqTombstonePid, EnqClearPid
<1>13. CASE EnqOwnerTicket(p) \/ EnqClearTicket(p)
  BY <1>0, <1>13, <1>l, SharedQuiet DEF EnqOwnerTicket, EnqClearTicket
<1>14. CASE EnqOwnerStart(p) \/ EnqTombstoneTicket(p)
  BY <1>0, <1>14, <1>l, SharedQuiet DEF EnqOwnerStart, EnqTombstoneTicket
<1> QED
  BY <1>1, <1>2, <1>3, <1>4, <1>5, <1>6, <1>7, <1>8, <1>9, <1>10, <1>11,
     <1>12, <1>13, <1>14
  DEF Enqueue

LEMMA DequeueQuiet ==
  ASSUME TypeOK, Sound, SameStart, NEW p \in Procs, Dequeue(p)
  PROVE  StaysLive(p)
<1>0. /\ slot[I(p)] \in SlotWords /\ Starts
      /\ slot[I(p)].start = FirstStart
      /\ pc[p] \in Sampled => gen = loc[p].gen
  BY IndexOK DEF TypeOK, Sound, SoundCall, Starts
<1>s. slot' = slot => Starts' BY <1>0 DEF Starts
<1>l. /\ {"d_pos", "d_gen", "d_seq", "d_owner", "d_skip", "d_cas", "t_pid",
          "t_ticket", "t_ovf", "t_claim", "t_free", "y_pid", "y_ticket"}
          \cup Reading \subseteq Calling
      /\ "d_fence" \in Sampled
  BY LiveLabels, SampledLabels DEF DeqPcs, Reading
<1>v. \A v : [slot[I(p)] EXCEPT !.seq = v].start = FirstStart
  BY <1>0 DEF SlotWords
<1> USE DEF Reading
<1>1. CASE DeqLoadPos(p) \/ DeqLoadGen(p) \/ DeqLoadSeq(p)
  BY <1>1, <1>l, <1>s, GotoQuiet DEF DeqLoadPos, DeqLoadGen, DeqLoadSeq
<1>2. CASE DeqLoadOwnerPid(p)
  BY <1>0, <1>2, SharedQuiet DEF DeqLoadOwnerPid
<1>3. CASE DeqCheckDead(p) BY <1>3, DeadQuiet DEF DeqCheckDead
<1>4. CASE DeqSkip(p) \/ DeqClaim(p)
  BY <1>4, <1>l, <1>s, GotoQuiet DEF DeqSkip, DeqClaim
<1>5. CASE DeqFence(p) BY <1>0, <1>5, <1>l, <1>s, GotoQuiet DEF DeqFence
<1>6. CASE DeqExpiry(p) \/ DeqCopy(p)
  BY <1>6, <1>l, <1>s, GotoQuiet DEF DeqExpiry, DeqCopy
<1>7. CASE DeqExpire(p) \/ DeqRecycle(p)
  <2>0. slot' = [slot EXCEPT ![I(p)] =
                   [slot[I(p)] EXCEPT !.seq = loc[p].pos + Capacity]]
    BY <1>7 DEF DeqExpire, DeqRecycle, Store
  <2>1. Starts' BY <1>0, <1>v, <2>0, StartsKept
  <2>2. Goto(p, "t_pid") \/ Goto(p, "y_pid")
    BY <1>7 DEF DeqExpire, DeqRecycle, Store
  <2> QED BY <1>l, <2>1, <2>2, GotoQuiet
<1>8. CASE DeqExpirePid(p) \/ DeqOwnerPid(p) \/ DeqClearPid(p)
  BY <1>0, <1>8, <1>l, SharedQuiet DEF DeqExpirePid, DeqOwnerPid, DeqClearPid
<1>9. CASE DeqExpireTicket(p) \/ DeqOwnerTicket(p)
  BY <1>0, <1>9, <1>l, SharedQuiet DEF DeqExpireTicket, DeqOwnerTicket
<1>10. CASE DeqOwnerStart(p) \/ DeqClearTicket(p)
  BY <1>0, <1>10, <1>l, SharedQuiet DEF DeqOwnerStart, DeqClearTicket
<1>11. CASE DeqExpireLoad(p) \/ DeqLoadOverflow(p)
  BY <1>0, <1>11, <1>l, SharedQuiet DEF DeqExpireLoad, DeqLoadOverflow
<1>12. CASE DeqExpireClaim(p) \/ DeqClaimOverflow(p)
  BY <1>0, <1>12, <1>l, SharedQuiet DEF DeqExpireClaim, DeqClaimOverflow
<1>13. CASE DeqExpireFree(p) \/ DeqFree(p)
  BY <1>0, <1>13, <1>l, SharedQuiet DEF DeqExpireFree, DeqFree
<1> QED
  BY <1>1, <1>2, <1>3, <1>4, <1>5, <1>6, <1>7, <1>8, <1>9, <1>10, <1>11,
     <1>12, <1>13
  DEF Dequeue

LEMMA StaysSound ==
  ASSUME TypeOK, Sound, SameStart, NEW p \in Procs,
         Enqueue(p) \/ Dequeue(p)
  PROVE  Sound'
<1>1. Steady(p) /\ StaysLive(p)
  BY EnqueueSteady, DequeueSteady, EnqueueQuiet, DequeueQuiet DEF TypeOK
<1>2. gen' = 0 /\ Starts' BY <1>1 DEF Sound, Steady, StaysLive
<1>3. ASSUME NEW q \in Procs, q # p PROVE SoundCall(q)'
  BY <1>1, <1>3 DEF Sound, SoundCall, Steady
<1>4. SoundCall(p)'
  <2>1. pc'[p] \in Live BY <1>1 DEF StaysLive, Calling, Live, EnqPcs, DeqPcs
  <2>2. pc'[p] \in Sampled => loc'[p].gen = 0
    BY <1>1 DEF Steady, Sampled, Sound, SoundCall
  <2>3. pc'[p] \in {"e_dead", "d_dead"} => loc'[p].vic \in Procs
    BY <1>1 DEF StaysLive, Calling
  <2> QED BY <2>1, <2>2, <2>3 DEF SoundCall
<1> QED BY <1>2, <1>3, <1>4 DEF Sound, Starts

LEMMA NoRepair ==
  ASSUME Sound, NEW p \in Procs, Repair(p)
  PROVE  FALSE
<1>1. pc[p] \in Live BY DEF Sound, SoundCall
<1>2. pc[p] \in RepairPcs
  BY DEF Repair, RecoverClaim, RecoverTicket, RecoverSeq, RepairLoadOverflow,
         RepairClaimOverflow, RepairFree, RepairSeq, RepairClearOwner,
         RepairClearTicket, LoadOverflow, ClaimOverflow, FreePage,
         StoreOwnerTicket, Store, RepairPcs
<1> QED BY <1>1, <1>2, LiveLabels

-----------------------------------------------------------------------------
(* The theorems.                                                           *)

LEMMA InitOrdered == Init => Sound /\ Ordered
<1> SUFFICES ASSUME Init PROVE Sound /\ Ordered OBVIOUS
<1>1. FirstTicket \in Nat /\ enq = FirstTicket /\ deq = FirstTicket
      /\ log = <<>> /\ DOMAIN log = {} /\ Capacity \in Nat
  BY ConstantAssumption, CapacityAssumption DEF Init
<1>2. \A p \in Procs : pc[p] = "idle" BY DEF Init
<1>3. "idle" \notin Inside \cup Sampled \cup {"e_dead", "d_dead", "e_seq",
                       "e_cas", "d_gen", "d_seq", "d_cas", "d_skip"}
  BY DEF Inside, Writing, Reading, Sampled
<1>4. Sound
  BY <1>2, <1>3 DEF Sound, SoundCall, Live, Init
<1>5. Ends BY <1>1 DEF Ends, Init
<1>6. Rounds
  <2> SUFFICES ASSUME NEW i \in Slots PROVE Round(i) BY DEF Rounds
  <2>1. i \in Nat /\ i < Capacity BY CapacityAssumption DEF Slots
  <2>2. Lap(FirstTicket + i) = i BY <1>1, LapOffset, ConstantAssumption DEF Lap
  <2>3. slot[i].seq = FirstTicket + i BY DEF Init
  <2>4. FirstTicket + i < enq + Capacity /\ FirstTicket + i \in Nat
    BY <1>1, <2>1
  <2> QED BY <2>2, <2>3, <2>4 DEF Round
<1>7. Entries BY <1>1 DEF Entries
<1>8. Calls BY <1>2, <1>3 DEF Calls, CallOK, Inside
<1>9. Alone BY <1>2, <1>3 DEF Alone
<1>10. Firm BY <1>1 DEF Firm
<1> QED BY <1>4, <1>5, <1>6, <1>7, <1>8, <1>9, <1>10 DEF Ordered, Lined

LEMMA StepOrdered ==
  SameStart /\ TypeOK /\ Sound /\ Ordered /\ [Next]_vars
    => Sound' /\ Ordered'
<1> SUFFICES ASSUME SameStart, TypeOK, Sound, Ordered, [Next]_vars
             PROVE  Sound' /\ Ordered'
  OBVIOUS
<1>1. ASSUME NEW p \in Senders, Enqueue(p) PROVE Sound' /\ Ordered'
  BY <1>1, StaysSound, EnqueueOrdered DEF Procs, Ordered, Held
<1>2. ASSUME NEW p \in Receivers, Dequeue(p) PROVE Sound' /\ Ordered'
  BY <1>2, StaysSound, DequeueOrdered DEF Procs, Ordered, Held
<1>3. ASSUME NEW p \in Procs, Repair(p) PROVE FALSE
  BY <1>3, NoRepair
<1>4. CASE UNCHANGED vars
  BY <1>4
  DEF Sound, SoundCall, Ordered, Lined, Ends, Rounds, Round, Entries, EntryOK,
      Calls, CallOK, Owns, Alone, Firm, Past, Ticket, Taken, SeqOf, vars
<1> QED BY <1>1, <1>2, <1>3, <1>4 DEF Next

LEMMA OrderInvariance ==
  ASSUME SameStart
  PROVE  Spec => [](TypeOK /\ Ordered)
<1>1. Init => Sound /\ Ordered BY InitOrdered
<1>2. TypeOK /\ Sound /\ Ordered /\ [Next]_vars => Sound' /\ Ordered'
  BY StepOrdered
<1> QED BY <1>1, <1>2, TypeCorrect, PTL DEF Spec

\* No two calls of try_enqueue and try_dequeue are ever inside one slot,
\* whatever the number of processes and slots, when no live owner is taken
\* for dead.
THEOREM SlotsExclusive == SameStart => (Spec => []SlotExclusive)
<1> SUFFICES ASSUME SameStart PROVE Spec => []SlotExclusive OBVIOUS
<1>1. TypeOK /\ Ordered => SlotExclusive BY OrderedExclusive
<1> QED BY <1>1, OrderInvariance, PTL

\* The consumer position never passes a message that nobody took: no message
\* is lost to try_dequeue's skip, under the same assumption.
THEOREM NothingSkipped == SameStart => (Spec => []NoneSkipped)
<1> SUFFICES ASSUME SameStart PROVE Spec => []NoneSkipped OBVIOUS
<1>1. TypeOK /\ Ordered => NoneSkipped BY OrderedNoneSkipped
<1> QED BY <1>1, OrderInvariance, PTL

-----------------------------------------------------------------------------
(***************************************************************************)
(* DeliveredIntact, NoPageLeak, and the ring as a queue (ImplementsQueue), *)
(* for every value of the constants, when no live owner is taken for dead  *)
(* (SameStart) and no overflow page can expire (Due: the expiry branch     *)
(* gives up a slot before it has taken the page out, see ring.rs:356).     *)
(*                                                                         *)
(* The argument follows one message: from the call into the slot and its   *)
(* page, where it stays until the entry is taken, and out again.  Nobody   *)
(* else writes the slot (SlotExclusive) or the page (NoDoubleFree).        *)
(***************************************************************************)
Due == Mortal = {} \/ Large = {}

\* Slot i holds message m, in its inline area or in its page.
Holds(i, m) ==
    /\ slot[i].body = m
    /\ m \in Large => slot[i].ovf # None /\ page[slot[i].ovf] = m
    /\ m \notin Large => slot[i].ovf = None

Asking == {"e_pos", "e_seq", "e_owner", "e_dead", "e_cas"}
Filled == {"e_ovf", "e_gen", "e_pub"}
Read   == {"d_claim", "d_free", "d_rec"}
Unread == Reading \ Read
Dropping == {"t_seq", "t_pid", "t_ticket", "t_ovf"}

\* The page p has for its message.
Packed(p) == loc[p].msg \in Large <=> loc[p].pg # None

ContentOK(p) ==
    /\ pc[p] \in Asking => loc[p].msg \in Msgs
    /\ pc[p] \in Writing => loc[p].msg = log[loc[p].ent].msg
    /\ pc[p] \in {"e_body"} \cup Filled => Packed(p)
    /\ pc[p] \in Filled =>
          /\ slot[I(p)].body = loc[p].msg
          /\ loc[p].pg # None => page[loc[p].pg] = loc[p].msg
    /\ pc[p] \in {"e_gen", "e_pub"} => slot[I(p)].ovf = loc[p].pg
    /\ pc[p] \in Unread => Holds(I(p), log[loc[p].ent].msg)
    /\ pc[p] = "d_copy" => loc[p].pg = slot[I(p)].ovf
    /\ pc[p] \in Read => loc[p].msg = log[loc[p].ent].msg
    /\ pc[p] \in Dropping => Large = {}
    /\ pc[p] \notin {"t_claim", "t_free"}

ReadyOK(n) == log[n].fate = "ready" => Holds(Lap(Ticket(n)), log[n].msg)

Inline == Large = {} => \A i \in Slots : slot[i].ovf = None

\* What is sent is a message.
Sent == \A n \in DOMAIN log : log[n].msg \in Msgs

Contents ==
    /\ \A p \in Procs : ContentOK(p)
    /\ \A n \in DOMAIN log : ReadyOK(n)
    /\ Inline /\ Sent /\ DeliveredIntact

-----------------------------------------------------------------------------
(* The frame of a step: what of the contents it may touch.                 *)

\* Slot i holds no message, and no call but p is inside.
Given(p, i) ==
    /\ \A q \in Procs \ {p} : pc[q] \in Inside => I(q) # i
    /\ \A n \in DOMAIN log : log[n].fate = "ready" => Lap(Ticket(n)) # i

\* Nothing is written but in a slot that is p's own or given to p, in a page p
\* carries, and in p's own entry.
SlotFrame(p) ==
    \A i \in Slots : \/ slot'[i].body = slot[i].body
                        /\ slot'[i].ovf = slot[i].ovf
                     \/ i = I(p) /\ (pc[p] \in Inside \/ Given(p, i))
PageFrame(p) ==
    \A g \in Pages : page'[g] = page[g] \/ Carries(p, g)
EntryFrame(p) ==
    /\ \A n \in DOMAIN log :
          /\ n \in DOMAIN log' /\ log'[n].msg = log[n].msg
          /\ log'[n] = log[n] \/ (n = loc[p].ent /\ pc[p] \in Inside)
                \/ log'[n].fate \notin {"ready", "delivered"}
    /\ \A n \in DOMAIN log' \ DOMAIN log :
          log'[n].fate \notin {"ready", "delivered"} /\ log'[n].msg \in Msgs
OwnEntry(p) ==
    \A n \in DOMAIN log : n = loc[p].ent /\ pc[p] \in Inside =>
       /\ ReadyOK(n)'
       /\ log'[n].fate = "delivered" => log'[n].got = log'[n].msg

LEMMA FrameStep ==
  ASSUME IInv, TypeOK, Lined, Contents, NEW p \in Procs, Others(p),
         SlotFrame(p), PageFrame(p), EntryFrame(p), OwnEntry(p), Inline',
         ContentOK(p)'
  PROVE  Contents'
<1>0. /\ Calls /\ Ends /\ Entries /\ SlotExclusive /\ NoDoubleFree
      /\ WordsOK
  BY LinedExclusive DEF Lined, IInv, Tokens
<1>i. pc[p] \in Inside => Given(p, I(p))
  <2> SUFFICES ASSUME pc[p] \in Inside PROVE Given(p, I(p)) OBVIOUS
  <2>1. \A q \in Procs \ {p} : pc[q] \in Inside => I(q) # I(p)
    BY <1>0 DEF SlotExclusive, Inside
  <2>2. ASSUME NEW n \in DOMAIN log, log[n].fate = "ready",
               Lap(Ticket(n)) = I(p)
        PROVE  FALSE
    <3>1. /\ loc[p].ent \in DOMAIN log /\ Busy(loc[p].ent)
          /\ Lap(Ticket(loc[p].ent)) = I(p)
          /\ log[loc[p].ent].fate \in {"claimed", "taken"}
      BY <1>0, InsideBusy, InsideOwns, Ranges DEF Calls, CallOK, Owns, Inside
    <3>2. n = loc[p].ent BY <1>0, <2>2, <3>1, ReadyBusy, OneBusy
    <3> QED BY <2>2, <3>1, <3>2
  <2> QED BY <2>1, <2>2 DEF Given
\* A slot p is not inside keeps its message.
<1>1. ASSUME NEW i \in Slots, NEW m, ~(i = I(p) /\ Given(p, i)),
             Holds(i, m)
      PROVE  Holds(i, m)'
  <2>1. slot'[i].body = slot[i].body /\ slot'[i].ovf = slot[i].ovf
    BY <1>1, <1>i DEF SlotFrame
  <2>2. ASSUME slot[i].ovf # None PROVE page'[slot[i].ovf] = page[slot[i].ovf]
    <3>1. slot[i].ovf \in Pages
      BY <1>0, <2>2 DEF WordsOK, SlotWords
    <3> QED BY <1>0, <3>1 DEF PageFrame, NoDoubleFree
  <2> QED BY <1>1, <2>1, <2>2 DEF Holds
<1>2. ASSUME NEW q \in Procs, q # p PROVE ContentOK(q)'
  <2>0. /\ ContentOK(q) /\ pc'[q] = pc[q] /\ loc'[q] = loc[q]
        /\ I(q)' = I(q) /\ I(q) \in Slots /\ loc[q] \in Locals
    BY <1>0, <1>2, IndexOK DEF Contents, Others, I
  <2>1. pc[q] \in Inside => /\ loc[q].ent \in DOMAIN log
                            /\ log'[loc[q].ent].msg = log[loc[q].ent].msg
    BY <1>0, InsideOwns DEF EntryFrame
  <2>2. pc[q] \in Inside => ~(I(q) = I(p) /\ Given(p, I(q)))
    BY <1>0, <1>2 DEF Given
  <2>3. pc[q] \in Inside => /\ slot'[I(q)].body = slot[I(q)].body
                            /\ slot'[I(q)].ovf = slot[I(q)].ovf
    BY <1>i, <2>0, <2>2 DEF SlotFrame
  <2>4. ASSUME pc[q] \in Filled, loc[q].pg # None
        PROVE  page'[loc[q].pg] = page[loc[q].pg]
    <3>1. loc[q].pg \in Pages BY <2>0, <2>4 DEF Locals
    <3>2. ~Carries(p, loc[q].pg)
      <4>1. CASE pc[q] = "e_ovf"
        BY <1>0, <1>2, <3>1, <4>1 DEF NoDoubleFree, Carries, Carrying
      <4>2. CASE pc[q] \in {"e_gen", "e_pub"}
        BY <1>0, <2>0, <3>1, <4>2 DEF NoDoubleFree, ContentOK
      <4> QED BY <2>4, <4>1, <4>2 DEF Filled
    <3> QED BY <3>1, <3>2 DEF PageFrame
  <2>5. /\ Writing \subseteq Inside /\ Filled \subseteq Writing
        /\ Unread \subseteq Reading /\ Read \subseteq Reading
        /\ Reading \subseteq Inside
        /\ {"e_gen", "e_pub"} \subseteq Inside /\ "d_copy" \in Inside
    BY DEF Inside, Writing, Reading, Filled, Unread, Read
  <2>6. pc[q] \in Unread => Holds(I(q), log[loc[q].ent].msg)'
    <3>1. pc[q] \in Unread => Holds(I(q), log[loc[q].ent].msg)
      BY <2>0 DEF ContentOK
    <3> DEFINE m == log[loc[q].ent].msg
    <3>2. \A k, j : k \in Slots /\ j = m /\ Holds(k, m) /\ k = I(q)
                    /\ pc[q] \in Inside => Holds(k, j)'
      BY <1>1, <2>2
    <3> QED BY <2>0, <2>1, <2>3, <2>5, <3>1, <3>2 DEF Holds
  <2>7. pc[q] \in Writing \cup Read =>
           loc[q].msg = log'[loc[q].ent].msg
    BY <2>0, <2>1, <2>5 DEF ContentOK
  <2>8. pc[q] \in {"e_gen", "e_pub"} => slot'[I(q)].ovf = loc[q].pg
    BY <2>0, <2>3, <2>5 DEF ContentOK
  <2>9. pc[q] \in Filled => /\ slot'[I(q)].body = loc[q].msg
                            /\ loc[q].pg # None =>
                                  page'[loc[q].pg] = loc[q].msg
    BY <2>0, <2>3, <2>4, <2>5 DEF ContentOK
  <2>10. pc[q] = "d_copy" => loc[q].pg = slot'[I(q)].ovf
    BY <2>0, <2>3, <2>5 DEF ContentOK
  <2>11. /\ pc[q] \in Asking => loc[q].msg \in Msgs
         /\ pc[q] \in {"e_body"} \cup Filled => Packed(q)'
         /\ pc[q] \in Dropping => Large = {}
         /\ pc[q] \notin {"t_claim", "t_free"}
    BY <2>0 DEF ContentOK, Packed
  <2> QED BY <2>0, <2>6, <2>7, <2>8, <2>9, <2>10, <2>11
      DEF ContentOK, Holds, Packed
<1>3. ASSUME NEW n \in DOMAIN log'
      PROVE  /\ ReadyOK(n)'
             /\ log'[n].fate = "delivered" => log'[n].got = log'[n].msg
  <2>1. CASE n = loc[p].ent /\ pc[p] \in Inside /\ n \in DOMAIN log
    BY <2>1 DEF OwnEntry
  <2>2. CASE log'[n].fate \notin {"ready", "delivered"}
    BY <2>2 DEF ReadyOK
  <2>3. CASE n \in DOMAIN log /\ log'[n] = log[n]
             /\ ~(n = loc[p].ent /\ pc[p] \in Inside)
    <3>1. ReadyOK(n) /\ Ticket(n) \in Nat /\ Lap(Ticket(n)) \in Slots
      BY <1>0, <2>3, Ranges, LapSlot DEF Contents
    <3>2. ReadyOK(n)'
      <4> SUFFICES ASSUME log[n].fate = "ready"
                   PROVE  Holds(Lap(Ticket(n)), log[n].msg)'
        BY <2>3 DEF ReadyOK
      <4>1. ~(Lap(Ticket(n)) = I(p) /\ Given(p, Lap(Ticket(n))))
        BY <2>3 DEF Given
      <4>2. Holds(Lap(Ticket(n)), log[n].msg) BY <3>1 DEF ReadyOK
      <4>3. \A m : m = log[n].msg => Holds(Lap(Ticket(n)), m)'
        BY <1>1, <3>1, <4>1, <4>2
      <4> QED BY <2>3, <4>3 DEF Holds
    <3> QED BY <2>3, <3>2 DEF Contents, DeliveredIntact
  <2> QED BY <2>1, <2>2, <2>3 DEF EntryFrame
<1>4. Sent' BY DEF Sent, Contents, EntryFrame
<1> QED BY <1>2, <1>3, <1>4 DEF Contents, DeliveredIntact

\* A step that touches no message.
Untouched == /\ \A i \in Slots : /\ slot'[i].body = slot[i].body
                                 /\ slot'[i].ovf = slot[i].ovf
             /\ page' = page

LEMMA StillStep ==
  ASSUME IInv, TypeOK, Lined, Contents, NEW p \in Procs, Others(p),
         Untouched, log' = log, ContentOK(p)'
  PROVE  Contents'
<1>1. SlotFrame(p) /\ PageFrame(p) /\ EntryFrame(p)
  BY DEF SlotFrame, PageFrame, EntryFrame, Untouched
<1>2. OwnEntry(p)
  <2>1. pc[p] \in Inside => log[loc[p].ent].fate \in {"claimed", "taken"}
    BY DEF Lined, Calls, CallOK, Owns, Inside
  <2> QED BY <2>1 DEF OwnEntry, ReadyOK
<1>3. Inline' BY DEF Inline, Contents, Untouched
<1> QED BY <1>1, <1>2, <1>3, FrameStep

-----------------------------------------------------------------------------
(* What a call must know at its next label.                                *)

Bare == Labels \ (Inside \cup Asking \cup Dropping \cup {"t_claim", "t_free"})
Early == Writing \ ({"e_body"} \cup Filled)

LEMMA Parts ==
  /\ Writing = Early \cup {"e_body"} \cup Filled
  /\ Early = {"e_pid", "e_ticket", "e_start", "e_alloc", "x_gen", "x_seq"}
  /\ Unread = {"d_fence", "d_exp", "t_seq", "d_pid", "d_ticket", "d_start",
               "d_ovf", "d_copy"}
  /\ Inside = Writing \cup Unread \cup Read
  /\ Writing \cap Reading = {} /\ Unread \cap Read = {}
  /\ Inside \cap Asking = {} /\ Dropping \cap Asking = {}
  /\ Dropping \cap Inside = {"t_seq"}
  /\ {"t_claim", "t_free"} \cap (Inside \cup Asking \cup Dropping) = {}
  /\ {"idle", "x_pid", "x_ticket", "c_pid", "c_ticket", "c_gen", "d_pos",
      "d_gen", "d_seq", "d_owner", "d_dead", "d_skip", "d_cas", "y_pid",
      "y_ticket", "dead"} \subseteq Bare
  /\ RepairPcs \subseteq Bare /\ CompactPcs \subseteq Bare
  BY DEF RepairPcs, CompactPcs, Writing, Reading, Inside, Early, Filled,
         Unread, Read, Asking, Dropping, Bare, Labels, EnqPcs, DeqPcs

\* Away from the slot, the page and the message nothing is asked of a call.
LEMMA FreeLabels ==
  ASSUME NEW l, l \in Bare \cup Asking
  PROVE  l \notin Writing \cup Filled \cup Unread \cup Read \cup Dropping
                  \cup {"e_body", "e_gen", "e_pub", "d_copy", "t_claim",
                        "t_free"}
<1>1. CASE l \in Bare
  <2>1. l \notin Inside \cup Dropping \cup {"t_claim", "t_free"}
    BY <1>1 DEF Bare
  <2> QED BY <2>1 DEF Inside, Writing, Reading, Filled, Unread, Read
<1>2. CASE l \in Asking
  BY <1>2 DEF Asking, Writing, Filled, Unread, Read, Reading, Dropping
<1> QED BY <1>1, <1>2

LEMMA BareOK ==
  ASSUME NEW p \in Procs, pc'[p] \in Bare
  PROVE  ContentOK(p)'
<1>1. pc'[p] \notin Asking BY DEF Bare
<1> QED BY <1>1, FreeLabels DEF ContentOK

LEMMA AskOK ==
  ASSUME NEW p \in Procs, pc'[p] \in Asking, loc'[p].msg \in Msgs
  PROVE  ContentOK(p)'
  BY FreeLabels DEF ContentOK

LEMMA EarlyOK ==
  ASSUME NEW p \in Procs, pc'[p] \in Early,
         loc'[p].msg = log'[loc'[p].ent].msg
  PROVE  ContentOK(p)'
  BY Parts DEF ContentOK, Filled, Asking

LEMMA UnreadOK ==
  ASSUME TypeOK, Contents, NEW p \in Procs, pc[p] \in Unread,
         pc'[p] \in Unread \ {"d_copy", "t_seq"}, loc'[p] = loc[p], Untouched,
         log' = log
  PROVE  ContentOK(p)'
<1>1. I(p)' = I(p) /\ I(p) \in Slots BY IndexOK DEF I, TypeOK
<1>2. Holds(I(p), log[loc[p].ent].msg) BY DEF Contents, ContentOK
<1>3. Holds(I(p), log[loc[p].ent].msg)'
  BY <1>1, <1>2 DEF Holds, Untouched
<1>4. pc'[p] \notin Writing \cup Read \cup Filled \cup Asking \cup Dropping
                    \cup {"e_body", "e_gen", "e_pub", "t_claim", "t_free"}
  BY Parts DEF Dropping, Filled
<1> QED BY <1>3, <1>4 DEF ContentOK

\* The steps the calls share that touch no message.
LEMMA SharedContents ==
  ASSUME IInv, TypeOK, Lined, Contents, NEW p \in Procs, NEW at, NEW a,
         NEW b, ContentOK(p)'
  PROVE  /\ LoadOverflow(p, at, a, b) => Contents'
         /\ StoreOwnerPid(p, at, a, b) => Contents'
         /\ StoreOwnerTicket(p, at, a, b) => Contents'
         /\ StoreOwnerStart(p, at, a) => Contents'
         /\ LoadOwnerPid(p, at, a) => Contents'
         /\ CheckDead(p, at) => Contents'
         /\ ClearTicketReturn(p, at) => Contents'
<1> USE DEF ghost, slab
<1>w. WordsOK /\ loc[p] \in Locals /\ slot[I(p)] \in SlotWords
  BY IndexOK DEF TypeOK
<1>s. slot' = slot /\ page' = page => Untouched BY DEF Untouched
<1>g. \A l : Goto(p, l) /\ (\E e : loc' = [loc EXCEPT ![p] = e]) => Others(p)
  BY <1>w, GotoPc DEF Others
<1>r. Return(p) => Others(p)
  BY <1>g DEF Return
<1>h. \A l : Goto(p, l) /\ loc' = loc => Others(p)
  BY <1>w, GotoPc DEF Others
<1>v. \A v : LET s == slot[I(p)] IN
             /\ [s EXCEPT !.pid = v].body = s.body
             /\ [s EXCEPT !.pid = v].ovf = s.ovf
             /\ [s EXCEPT !.ticket = v].body = s.body
             /\ [s EXCEPT !.ticket = v].ovf = s.ovf
             /\ [s EXCEPT !.start = v].body = s.body
             /\ [s EXCEPT !.start = v].ovf = s.ovf
  BY <1>w DEF SlotWords
<1>u. ASSUME NEW new, new.body = slot[I(p)].body, new.ovf = slot[I(p)].ovf,
             slot' = [slot EXCEPT ![I(p)] = new], page' = page
      PROVE  Untouched
  BY <1>u, <1>w DEF Untouched, WordsOK
<1>1. LoadOverflow(p, at, a, b) => Contents'
  BY <1>g, <1>s, StillStep DEF LoadOverflow
<1>2. ASSUME NEW new, NEW l, new.body = slot[I(p)].body,
             new.ovf = slot[I(p)].ovf, Store(p, at, new, l), UNCHANGED ghost
      PROVE  Contents'
  BY <1>2, <1>h, <1>u, StillStep DEF Store
<1>3. LoadOwnerPid(p, at, a) => Contents'
  BY <1>g, <1>r, <1>s, StillStep DEF LoadOwnerPid
<1>4. CheckDead(p, at) => Contents'
  BY <1>h, <1>r, <1>s, StillStep DEF CheckDead
<1>5. ClearTicketReturn(p, at) => Contents'
  BY <1>r, <1>u, <1>v, StillStep DEF ClearTicketReturn
<1> QED
  BY <1>1, <1>2, <1>3, <1>4, <1>5, <1>v
  DEF StoreOwnerPid, StoreOwnerTicket, StoreOwnerStart

LEMMA FateKeeps ==
  ASSUME HistoryOK, NEW n \in DOMAIN log, NEW f, Fate(n, f)
  PROVE  /\ DOMAIN log' = DOMAIN log /\ log'[n].fate = f
         /\ \A k \in DOMAIN log : log'[k].msg = log[k].msg
               /\ (k # n => log'[k] = log[k])
<1>1. log' = [log EXCEPT ![n] = [log[n] EXCEPT !.fate = f]] BY DEF Fate
<1>2. log[n] \in Tickets BY DEF HistoryOK
<1>3. [log[n] EXCEPT !.fate = f].fate = f
      /\ [log[n] EXCEPT !.fate = f].msg = log[n].msg
  BY <1>2 DEF Tickets
<1> QED BY <1>1, <1>3

-----------------------------------------------------------------------------
(* The way of a message into the slot.                                     *)

\* What p knows of its message while it is inside the slot as a producer.
LEMMA PublishContents ==
  ASSUME IInv, TypeOK, Lined, Contents, Fresh, NEW p \in Procs,
         EnqPayload(p) \/ EnqOverflow(p) \/ EnqFence(p) \/ EnqPublish(p)
  PROVE  Contents'
<1> USE DEF ghost, slab
<1> DEFINE i == I(p)
           m == loc[p].msg
           g == loc[p].pg
<1>0. /\ loc[p] \in Locals /\ slot[i] \in SlotWords /\ WordsOK
      /\ ContentOK(p) /\ i \in Slots /\ m \in Msgs \cup {None}
      /\ g \in Pages \cup {None} /\ HistoryOK
  BY IndexOK DEF TypeOK, Contents, Locals
<1>1. /\ pc[p] \in Writing /\ pc[p] \in {"e_body", "e_ovf", "e_gen", "e_pub"}
      /\ loc' = loc /\ free' = free
      /\ pc'[p] \in {"e_ovf", "e_gen", "e_pub", "e_drop", "c_pid"}
      /\ Others(p)
  BY <1>0, GotoPc
  DEF EnqPayload, EnqOverflow, EnqFence, EnqPublish, Store, Others, Writing
<1>2. /\ loc[p].ent \in DOMAIN log /\ log[loc[p].ent].fate = "claimed"
      /\ m = log[loc[p].ent].msg /\ Packed(p) /\ pc[p] \in Inside
      /\ Ticket(loc[p].ent) = loc[p].pos
  BY <1>0, <1>1
  DEF Lined, Calls, CallOK, Owns, ContentOK, Filled, Inside
<1>3. I(p)' = i BY <1>1 DEF I
<1>4. "e_pub" \notin Asking \cup Unread \cup Read \cup Dropping
      /\ {"e_ovf", "e_gen"} \cap (Asking \cup Unread \cup Read \cup Dropping)
           = {}
      /\ {"e_ovf", "e_gen", "e_pub"} \cap {"d_copy", "t_claim", "t_free"} = {}
  BY DEF Asking, Unread, Reading, Read, Dropping
<1>5. CASE EnqPayload(p)
  <2>1. /\ pc[p] = "e_body" /\ pc'[p] = "e_ovf" /\ log' = log
        /\ slot' = [slot EXCEPT ![i] = [slot[i] EXCEPT !.body = m]]
        /\ page' = IF g = None THEN page ELSE [page EXCEPT ![g] = m]
    BY <1>0, <1>5, GotoPc DEF EnqPayload
  <2>2. /\ slot'[i].body = m
        /\ \A j \in Slots : slot'[j].ovf = slot[j].ovf
        /\ \A j \in Slots \ {i} : slot'[j] = slot[j]
    BY <1>0, <2>1 DEF WordsOK, SlotWords
  <2>3. g # None => page'[g] = m BY <1>0, <2>1 DEF WordsOK
  <2>4. ContentOK(p)'
    BY <1>1, <1>2, <1>3, <1>4, <2>1, <2>2, <2>3
    DEF ContentOK, Packed, Filled
  <2>5. SlotFrame(p) BY <1>2, <2>2 DEF SlotFrame
  <2>6. PageFrame(p)
    BY <1>0, <2>1 DEF PageFrame, Carries, Carrying, WordsOK
  <2>7. EntryFrame(p) /\ OwnEntry(p)
    BY <1>2, <2>1 DEF EntryFrame, OwnEntry, ReadyOK
  <2>8. Inline' BY <2>2 DEF Inline, Contents
  <2> QED BY <1>1, <2>4, <2>5, <2>6, <2>7, <2>8, FrameStep
<1>6. CASE EnqOverflow(p)
  <2>1. /\ pc[p] = "e_ovf" /\ pc'[p] = "e_gen" /\ log' = log
        /\ slot' = [slot EXCEPT ![i] = [slot[i] EXCEPT !.ovf = g]]
        /\ page' = page
    BY <1>0, <1>6, GotoPc DEF EnqOverflow, Store
  <2>2. /\ slot'[i].body = slot[i].body /\ slot'[i].ovf = g
        /\ \A j \in Slots \ {i} : slot'[j] = slot[j]
    BY <1>0, <2>1 DEF WordsOK, SlotWords
  <2>3. slot[i].body = m /\ (g # None => page[g] = m)
    BY <1>0, <2>1 DEF ContentOK, Filled
  <2>4. ContentOK(p)'
    BY <1>1, <1>2, <1>3, <1>4, <2>1, <2>2, <2>3
    DEF ContentOK, Packed, Filled
  <2>5. SlotFrame(p) /\ PageFrame(p)
    BY <1>2, <2>1, <2>2 DEF SlotFrame, PageFrame
  <2>6. EntryFrame(p) /\ OwnEntry(p)
    BY <1>2, <2>1 DEF EntryFrame, OwnEntry, ReadyOK
  <2>7. Inline' BY <1>2, <2>2 DEF Inline, Contents, Packed
  <2> QED BY <1>1, <2>4, <2>5, <2>6, <2>7, FrameStep
<1>7. CASE EnqFence(p)
  <2>1. pc[p] = "e_gen" /\ gen = loc[p].gen
    BY <1>7, SampledLabels DEF EnqFence, EnqPcs, Writing, Fresh
  <2>2. /\ pc'[p] = "e_pub" /\ log' = log /\ slot' = slot /\ page' = page
    BY <1>0, <1>7, <2>1, GotoPc DEF EnqFence
  <2>3. ContentOK(p)'
    BY <1>0, <1>1, <1>2, <1>3, <1>4, <2>1, <2>2
    DEF ContentOK, Packed, Filled
  <2> QED BY <1>1, <2>2, <2>3, StillStep DEF Untouched
<1>8. CASE EnqPublish(p)
  <2>1. /\ pc[p] = "e_pub" /\ pc'[p] = "c_pid" /\ page' = page
        /\ log' = [log EXCEPT ![loc[p].ent].fate = "ready"]
        /\ slot' = [slot EXCEPT ![i] =
                      [slot[i] EXCEPT !.seq = loc[p].pos + 1]]
    BY <1>0, <1>8, GotoPc DEF EnqPublish, Store, Fate
  <2>2. Untouched
    BY <1>0, <2>1 DEF Untouched, WordsOK, SlotWords
  <2>3. /\ DOMAIN log' = DOMAIN log /\ log'[loc[p].ent].fate = "ready"
        /\ \A n \in DOMAIN log : log'[n].msg = log[n].msg
              /\ (n # loc[p].ent => log'[n] = log[n])
    BY <1>0, <1>2, <2>1, FateKeeps DEF Fate
  <2>4. Holds(i, m)
    BY <1>0, <1>2, <2>1 DEF ContentOK, Packed, Filled, Holds
  <2>5. SlotFrame(p) /\ PageFrame(p) /\ EntryFrame(p)
    BY <1>2, <2>2, <2>3
    DEF SlotFrame, PageFrame, EntryFrame, Untouched
  <2>6. OwnEntry(p)
    <3> SUFFICES ASSUME NEW n \in DOMAIN log, n = loc[p].ent
                 PROVE  ReadyOK(n)'
      BY <2>3 DEF OwnEntry
    <3>1. i = Lap(Ticket(n)) BY <1>2, Ranges DEF Lined
    <3>2. log'[n].msg = m BY <1>2, <2>3
    <3> QED BY <1>0, <2>2, <2>4, <3>1, <3>2
        DEF ReadyOK, Holds, Untouched
  <2>7. Inline' BY <2>2 DEF Inline, Contents, Untouched
  <2> QED BY <1>1, <2>1, <2>5, <2>6, <2>7, Parts, BareOK, FrameStep
<1> QED BY <1>5, <1>6, <1>7, <1>8

-----------------------------------------------------------------------------
(* Every step keeps the contents.                                          *)

LEMMA EnqueueContents ==
  ASSUME IInv, TypeOK, Lined, Contents, Fresh, NEW p \in Procs,
         Enqueue(p)
  PROVE  Contents'
<1> USE DEF ghost, slab
<1>0. /\ loc[p] \in Locals /\ slot[I(p)] \in SlotWords /\ WordsOK
      /\ ContentOK(p) /\ Known(p) /\ I(p) \in Slots
      /\ pc[p] \in Writing => loc[p].ent \in DOMAIN log
                              /\ log[loc[p].ent].fate = "claimed"
  BY IndexOK
  DEF TypeOK, Contents, IInv, Tokens, KnownPages, Lined, Calls,
      CallOK, Owns
<1>s. slot' = slot /\ page' = page => Untouched BY DEF Untouched
<1>g. ASSUME NEW l, Goto(p, l),
             loc' = loc \/ \E e : loc' = [loc EXCEPT ![p] = e]
      PROVE  pc'[p] = l /\ Others(p)
  <2>1. \A q \in Procs \ {p} : loc'[q] = loc[q]
    BY <1>0, <1>g DEF WordsOK
  <2> QED BY <1>0, <1>g, <2>1, GotoPc DEF Others
<1>r. Return(p) => pc'[p] = "idle" /\ Others(p)
  BY <1>g DEF Return
<1>a. Asking = {"e_pos", "e_seq", "e_owner", "e_dead", "e_cas"}
  BY DEF Asking
<1>1. ASSUME NEW m \in Msgs, EnqStart(p, m) PROVE Contents'
  <2> DEFINE new == [Blank EXCEPT !.msg = m, !.gen = gen, !.ret = "e_pos"]
  <2>1. loc' = [loc EXCEPT ![p] = new] /\ new.msg = m
    BY <1>1, BlankOK DEF EnqStart, Locals
  <2>2. loc'[p].msg = m BY <1>0, <2>1 DEF WordsOK
  <2> HIDE DEF new
  <2>3. pc'[p] = "e_pos" /\ Others(p) BY <1>1, <1>g, <2>1 DEF EnqStart
  <2> QED BY <1>1, <1>a, <1>s, <2>2, <2>3, AskOK, StillStep DEF EnqStart
<1>2. CASE EnqLoadPos(p)
  <2> DEFINE new == [loc[p] EXCEPT !.pos = enq, !.vic = None, !.pg = None,
                                   !.obs = 0, !.tgt = 0]
  <2>1. loc' = [loc EXCEPT ![p] = new] /\ new.msg = loc[p].msg
    BY <1>0, <1>2 DEF EnqLoadPos, Locals
  <2>2. loc'[p].msg = loc[p].msg BY <1>0, <2>1 DEF WordsOK
  <2> HIDE DEF new
  <2>3. pc'[p] = "e_seq" /\ Others(p) /\ loc[p].msg \in Msgs
    BY <1>0, <1>2, <1>a, <1>g, <2>1 DEF EnqLoadPos, ContentOK
  <2> QED BY <1>2, <1>a, <1>s, <2>2, <2>3, AskOK, StillStep DEF EnqLoadPos
<1>3. CASE EnqLoadSeq(p)
  <2>0. pc[p] = "e_seq" /\ loc[p].msg \in Msgs /\ Untouched /\ log' = log
    BY <1>0, <1>3, <1>a, <1>s DEF EnqLoadSeq, ContentOK
  <2>1. CASE Return(p) BY <1>r, <2>0, <2>1, Parts, BareOK, StillStep
  <2>2. CASE (Goto(p, "e_cas") \/ Goto(p, "e_owner")) /\ loc' = loc
    <3>1. pc'[p] \in {"e_cas", "e_owner"} /\ Others(p)
      BY <1>g, <2>2
    <3> QED BY <1>a, <2>0, <2>2, <3>1, AskOK, StillStep
  <2>3. CASE Goto(p, "e_pos") /\ loc' = [loc EXCEPT ![p].spins = @ + 1]
    <3>1. pc'[p] = "e_pos" /\ Others(p) BY <1>g, <2>3
    <3>2. loc'[p].msg = loc[p].msg BY <1>0, <2>3 DEF WordsOK, Locals
    <3> QED BY <1>a, <2>0, <3>1, <3>2, AskOK, StillStep
  <2> QED BY <1>3, <2>1, <2>2, <2>3 DEF EnqLoadSeq
<1>4. CASE EnqLoadOwnerPid(p)
  <2>1. CASE Return(p)
    BY <1>4, <1>r, <2>1, Parts, BareOK, SharedContents DEF EnqLoadOwnerPid
  <2>2. CASE /\ loc' = [loc EXCEPT ![p].vic = slot[I(p)].pid]
             /\ Goto(p, "e_dead")
    <3>1. loc'[p].msg = loc[p].msg BY <1>0, <2>2 DEF WordsOK, Locals
    <3>2. pc'[p] = "e_dead" /\ loc[p].msg \in Msgs
      BY <1>0, <1>4, <1>a, <1>g, <2>2
      DEF EnqLoadOwnerPid, LoadOwnerPid, ContentOK
    <3> QED BY <1>4, <1>a, <3>1, <3>2, AskOK, SharedContents
        DEF EnqLoadOwnerPid
  <2> QED BY <1>4, <2>1, <2>2 DEF EnqLoadOwnerPid, LoadOwnerPid
<1>5. CASE EnqCheckDead(p)
  <2>1. pc'[p] \in Bare
    <3>1. pc'[p] \in {"idle", "r_cas"}
      BY <1>0, <1>5, <1>r, GotoPc DEF EnqCheckDead, CheckDead
    <3> QED BY <3>1, Parts DEF RepairPcs
  <2> QED BY <1>5, <2>1, Parts, BareOK, SharedContents DEF EnqCheckDead
<1>6. CASE EnqClaim(p)
  <2>0. pc[p] = "e_cas" /\ loc[p].msg \in Msgs /\ Untouched
    BY <1>0, <1>6, <1>a, <1>s DEF EnqClaim, ContentOK
  <2>1. CASE enq = loc[p].pos
    <3> DEFINE e == [msg |-> loc[p].msg, fate |-> "claimed", got |-> None]
    <3>1. /\ log' = Append(log, e) /\ loc' = [loc EXCEPT ![p].ent = Entry(enq)]
          /\ Goto(p, "e_pid") /\ base' = base
      BY <1>6, <2>1 DEF EnqClaim
    <3>2. e.msg = loc[p].msg /\ e.fate = "claimed" OBVIOUS
    <3> HIDE DEF e
    <3>3. /\ DOMAIN log' = 1 .. Len(log) + 1 /\ DOMAIN log = 1 .. Len(log)
          /\ log'[Len(log) + 1] = e /\ Len(log) \in Nat
          /\ \A n \in DOMAIN log : log'[n] = log[n]
      BY <3>1 DEF TypeOK, HistoryOK
    <3>4. Entry(enq) = Len(log) + 1
      BY Ranges DEF Entry, Lined, Ends
    <3>5. loc'[p].ent = Len(log) + 1 /\ loc'[p].msg = loc[p].msg
      BY <1>0, <3>1, <3>4 DEF WordsOK, Locals
    <3>6. pc'[p] = "e_pid" /\ Others(p) BY <1>g, <3>1
    <3>7. ContentOK(p)' BY <3>2, <3>3, <3>5, <3>6, Parts, EarlyOK
    <3>8. pc[p] \notin Inside BY <1>a, <2>0, Parts
    <3>9. SlotFrame(p) /\ PageFrame(p) /\ OwnEntry(p)
      BY <2>0, <3>8 DEF SlotFrame, PageFrame, OwnEntry, Untouched
    <3>10. EntryFrame(p) BY <2>0, <3>2, <3>3 DEF EntryFrame
    <3>11. Inline' BY <2>0 DEF Inline, Contents, Untouched
    <3> QED BY <3>6, <3>7, <3>9, <3>10, <3>11, FrameStep
  <2>2. CASE enq # loc[p].pos
    <3>1. pc'[p] = "e_pos" /\ Others(p) /\ loc' = loc /\ log' = log
      BY <1>6, <1>g, <2>2 DEF EnqClaim
    <3> QED BY <1>a, <2>0, <3>1, AskOK, StillStep
  <2> QED BY <2>1, <2>2
<1>7. ASSUME NEW l \in Early, pc[p] \in Writing, Goto(p, l), loc' = loc,
             log' = log
      PROVE  ContentOK(p)'
  BY <1>0, <1>7, <1>g, EarlyOK DEF ContentOK
<1>8. CASE EnqOwnerPid(p)
  BY <1>7, <1>8, Parts, SharedContents
  DEF EnqOwnerPid, StoreOwnerPid, Store
<1>9. CASE EnqOwnerTicket(p)
  BY <1>7, <1>9, Parts, SharedContents
  DEF EnqOwnerTicket, StoreOwnerTicket, Store
<1>10. CASE EnqOwnerStart(p)
  BY <1>7, <1>10, Parts, SharedContents
  DEF EnqOwnerStart, StoreOwnerStart, Store
<1>11. CASE EnqAlloc(p)
  <2>0. /\ pc[p] = "e_alloc" /\ loc[p].pg = None /\ Untouched /\ log' = log
        /\ loc[p].msg = log[loc[p].ent].msg
    BY <1>0, <1>11, <1>s, Parts
    DEF EnqAlloc, Known, Pageless, ContentOK
  <2>b. ASSUME pc'[p] = "e_body", loc'[p].msg = loc[p].msg,
               loc'[p].ent = loc[p].ent, Packed(p)'
        PROVE  ContentOK(p)'
    <3>1. "e_body" \notin Asking \cup Filled \cup Unread \cup Read
             \cup Dropping \cup {"e_gen", "e_pub", "d_copy", "t_claim",
                                 "t_free"}
      BY DEF Asking, Filled, Unread, Reading, Read, Dropping
    <3> QED BY <2>0, <2>b, <3>1 DEF ContentOK
  <2>1. CASE loc[p].msg \notin Large /\ Goto(p, "e_body") /\ loc' = loc
    <3>1. pc'[p] = "e_body" /\ Others(p) BY <1>g, <2>1
    <3> QED BY <2>0, <2>1, <2>b, <3>1, StillStep DEF Packed
  <2>2. ASSUME loc[p].msg \in Large, NEW g \in free,
               loc' = [loc EXCEPT ![p].pg = g], Goto(p, "e_body")
        PROVE  Contents'
    <3>1. pc'[p] = "e_body" /\ Others(p) BY <1>g, <2>2
    <3>2. loc'[p].msg = loc[p].msg /\ loc'[p].ent = loc[p].ent
          /\ loc'[p].pg = g
      BY <1>0, <2>2 DEF WordsOK, Locals
    <3>3. g # None BY <1>0, ConstantAssumption DEF WordsOK
    <3> QED BY <2>0, <2>2, <2>b, <3>1, <3>2, <3>3, StillStep DEF Packed
  <2>3. CASE Goto(p, "x_gen") /\ loc' = loc
    <3>1. Others(p) BY <1>g, <2>3
    <3> QED BY <1>7, <2>0, <2>3, <3>1, Parts, StillStep
  <2> QED BY <1>11, <2>1, <2>2, <2>3 DEF EnqAlloc
<1>12. CASE EnqExhausted(p)
  <2>1. pc[p] = "x_gen" /\ gen = loc[p].gen
    BY <1>12, SampledLabels
    DEF EnqExhausted, EnqPcs, Writing, Fresh
  <2>2. Goto(p, "x_seq") /\ loc' = loc /\ log' = log /\ Untouched
    BY <1>12, <1>s, <2>1 DEF EnqExhausted
  <2> QED BY <1>7, <1>g, <2>1, <2>2, Parts, StillStep
<1>13. CASE EnqTombstone(p)
  <2>1. /\ pc[p] = "x_seq" /\ Goto(p, "x_pid") /\ loc' = loc
        /\ page' = page
        /\ log' = [log EXCEPT ![loc[p].ent].fate = "void"]
    BY <1>13 DEF EnqTombstone, Fate
  <2>2. \A v : /\ [slot[I(p)] EXCEPT !.seq = v].body = slot[I(p)].body
               /\ [slot[I(p)] EXCEPT !.seq = v].ovf = slot[I(p)].ovf
    BY <1>0 DEF SlotWords
  <2>3. Untouched
    BY <1>0, <1>13, <1>s, <2>2
    DEF EnqTombstone, CasSeq, Untouched, WordsOK
  <2>4. pc'[p] = "x_pid" /\ Others(p) BY <1>g, <2>1
  <2>5. pc[p] \in Writing /\ loc[p].ent \in DOMAIN log
    BY <1>0, <2>1, Parts
  <2>6. /\ DOMAIN log' = DOMAIN log /\ log'[loc[p].ent].fate = "void"
        /\ \A n \in DOMAIN log : log'[n].msg = log[n].msg
              /\ (n # loc[p].ent => log'[n] = log[n])
    BY <2>1, <2>5, FateKeeps DEF TypeOK, Fate
  <2>7. SlotFrame(p) /\ PageFrame(p) /\ EntryFrame(p)
    BY <2>3, <2>6 DEF SlotFrame, PageFrame, EntryFrame, Untouched
  <2>8. OwnEntry(p) /\ Inline'
    BY <2>3, <2>6 DEF OwnEntry, ReadyOK, Inline, Contents, Untouched
  <2> QED BY <2>4, <2>7, <2>8, Parts, BareOK, FrameStep
<1>14. CASE EnqTombstonePid(p) \/ EnqClearPid(p)
  <2>1. pc'[p] \in {"x_ticket", "c_ticket"}
    BY <1>0, <1>14, GotoPc
    DEF EnqTombstonePid, EnqClearPid, StoreOwnerPid, Store
  <2> QED BY <1>14, <2>1, Parts, BareOK, SharedContents
      DEF EnqTombstonePid, EnqClearPid
<1>15. CASE EnqTombstoneTicket(p)
  <2>1. pc'[p] = "idle"
    BY <1>15, <1>r DEF EnqTombstoneTicket, ClearTicketReturn
  <2> QED BY <1>15, <2>1, Parts, BareOK, SharedContents
      DEF EnqTombstoneTicket
<1>16. CASE EnqClearTicket(p)
  <2>1. pc'[p] = "c_gen"
    BY <1>0, <1>16, GotoPc DEF EnqClearTicket, StoreOwnerTicket, Store
  <2> QED BY <1>16, <2>1, Parts, BareOK, SharedContents DEF EnqClearTicket
<1>17. CASE EnqLastFence(p)
  <2>1. gen = loc[p].gen
    BY <1>17, SampledLabels DEF EnqLastFence, EnqPcs, Fresh
  <2>2. Return(p) /\ Untouched /\ log' = log
    BY <1>17, <1>s, <2>1 DEF EnqLastFence
  <2> QED BY <1>r, <2>2, Parts, BareOK, StillStep
<1>18. CASE EnqPayload(p) \/ EnqOverflow(p) \/ EnqFence(p) \/ EnqPublish(p)
  BY <1>18, PublishContents
<1> QED
  BY <1>1, <1>2, <1>3, <1>4, <1>5, <1>6, <1>8, <1>9, <1>10, <1>11, <1>12,
     <1>13, <1>14, <1>15, <1>16, <1>17, <1>18
  DEF Enqueue

\* The way of a message out of the slot.
LEMMA ConsumeContents ==
  ASSUME IInv, TypeOK, Lined, Contents, NEW p \in Procs,
         \/ DeqLoadOverflow(p) \/ DeqCopy(p) \/ DeqClaimOverflow(p)
         \/ DeqFree(p) \/ DeqRecycle(p)
  PROVE  Contents'
<1> USE DEF ghost, slab
<1> DEFINE i == I(p)
           n == loc[p].ent
           m == log[n].msg
<1>0. /\ loc[p] \in Locals /\ slot[i] \in SlotWords /\ WordsOK
      /\ ContentOK(p) /\ i \in Slots /\ HistoryOK
  BY IndexOK DEF TypeOK, Contents
<1>1. /\ pc[p] \in {"d_ovf", "d_copy", "d_claim", "d_free", "d_rec"}
      /\ pc'[p] \in {"d_copy", "d_claim", "d_free", "d_rec", "y_pid"}
      /\ \A q \in Procs \ {p} : pc'[q] = pc[q]
  BY <1>0, GotoPc
  DEF DeqLoadOverflow, DeqCopy, DeqClaimOverflow, DeqFree, DeqRecycle,
      LoadOverflow, ClaimOverflow, FreePage, Store
<1>2. pc[p] \in Reading /\ pc[p] \in Inside
  BY <1>1 DEF Reading, Inside
<1>3. n \in DOMAIN log /\ log[n].fate = "taken" /\ Ticket(n) = loc[p].pos
  BY <1>2 DEF Lined, Calls, CallOK, Owns
<1>4. \A l : l \in Read => l \notin Asking \cup Writing \cup Filled
           \cup Unread \cup Dropping
           \cup {"e_body", "e_gen", "e_pub", "d_copy", "t_claim", "t_free"}
  BY DEF Read, Asking, Writing, Filled, Unread, Dropping
<1>5. ASSUME pc'[p] \in Read, loc'[p].msg = m, loc'[p].ent = n, log' = log
      PROVE  ContentOK(p)'
  BY <1>4, <1>5 DEF ContentOK
<1>6. log' = log => EntryFrame(p) /\ OwnEntry(p)
  BY <1>3 DEF EntryFrame, OwnEntry, ReadyOK
<1>7. CASE DeqLoadOverflow(p)
  <2>1. /\ pc[p] = "d_ovf" /\ pc'[p] = "d_copy" /\ slot' = slot
        /\ loc' = [loc EXCEPT ![p].pg = slot[i].ovf] /\ log' = log
        /\ page' = page
    BY <1>0, <1>7, GotoPc DEF DeqLoadOverflow, LoadOverflow
  <2>2. loc'[p].pg = slot[i].ovf /\ loc'[p].ent = n /\ loc'[p].pos = loc[p].pos
        /\ \A q \in Procs \ {p} : loc'[q] = loc[q]
    BY <1>0, <2>1 DEF WordsOK, Locals
  <2>3. Holds(i, m) BY <1>0, <2>1, Parts DEF ContentOK
  <2>4. I(p)' = i /\ Holds(i, m)'
    BY <2>1, <2>2, <2>3 DEF Holds, I
  <2>5. "d_copy" \notin Asking \cup Writing \cup Filled \cup Read
           \cup Dropping \cup {"e_body", "e_gen", "e_pub", "t_claim", "t_free"}
    BY DEF Read, Asking, Writing, Filled, Dropping
  <2>6. ContentOK(p)'
    BY <2>1, <2>2, <2>4, <2>5 DEF ContentOK, Holds
  <2> QED BY <1>1, <2>1, <2>2, <2>6, StillStep DEF Others, Untouched
<1>8. CASE DeqCopy(p)
  <2> DEFINE v == IF loc[p].pg # None THEN page[loc[p].pg]
                  ELSE IF slot[i].body \in Large THEN None ELSE slot[i].body
  <2>1. /\ pc[p] = "d_copy" /\ pc'[p] \in {"d_claim", "d_rec"}
        /\ slot' = slot /\ loc' = [loc EXCEPT ![p].msg = v] /\ log' = log
        /\ page' = page
    BY <1>0, <1>8, GotoPc DEF DeqCopy
  <2>2. v = m
    <3>1. Holds(i, m) /\ loc[p].pg = slot[i].ovf
      BY <1>0, <2>1, Parts DEF ContentOK
    <3> QED BY <3>1 DEF Holds
  <2>3. loc'[p].msg = m /\ loc'[p].ent = n
        /\ \A q \in Procs \ {p} : loc'[q] = loc[q]
    BY <1>0, <2>1, <2>2 DEF WordsOK, Locals
  <2> QED BY <1>1, <1>5, <2>1, <2>3, StillStep DEF Others, Untouched, Read
<1>9. CASE DeqClaimOverflow(p)
  <2>1. /\ pc[p] = "d_claim" /\ pc'[p] \in {"d_free", "d_rec"} /\ loc' = loc
        /\ log' = log /\ page' = page
        /\ slot' = slot \/ slot' = [slot EXCEPT ![i] =
                                      [slot[i] EXCEPT !.ovf = None]]
    BY <1>0, <1>9, GotoPc DEF DeqClaimOverflow, ClaimOverflow
  <2>2. loc[p].msg = m BY <1>0, <2>1 DEF ContentOK, Read
  <2>3. SlotFrame(p) /\ PageFrame(p)
    BY <1>0, <1>2, <2>1 DEF SlotFrame, PageFrame, WordsOK
  <2>4. Inline'
    BY <1>0, <2>1 DEF Inline, Contents, WordsOK, SlotWords
  <2> QED BY <1>1, <1>5, <1>6, <2>1, <2>2, <2>3, <2>4, FrameStep
      DEF Others, Read
<1>10. CASE DeqFree(p)
  <2>1. /\ pc[p] = "d_free" /\ pc'[p] = "d_rec" /\ loc' = loc
        /\ log' = log /\ page' = page /\ slot' = slot
    BY <1>0, <1>10, GotoPc DEF DeqFree, FreePage
  <2>2. loc[p].msg = m BY <1>0, <2>1 DEF ContentOK, Read
  <2> QED BY <1>1, <1>5, <2>1, <2>2, StillStep DEF Others, Untouched, Read
<1>11. CASE DeqRecycle(p)
  <2>1. /\ pc[p] = "d_rec" /\ pc'[p] = "y_pid" /\ loc' = loc /\ page' = page
        /\ log' = [log EXCEPT ![n] = [log[n] EXCEPT !.fate = "delivered",
                                                    !.got = loc[p].msg]]
        /\ slot' = [slot EXCEPT ![i] =
                      [slot[i] EXCEPT !.seq = loc[p].pos + Capacity]]
    BY <1>0, <1>11, GotoPc DEF DeqRecycle, Store
  <2>2. loc[p].msg = m BY <1>0, <2>1 DEF ContentOK, Read
  <2>3. log[n] \in Tickets BY <1>3, <1>0 DEF HistoryOK
  <2>4. /\ DOMAIN log' = DOMAIN log /\ log'[n].fate = "delivered"
        /\ log'[n].got = m /\ log'[n].msg = m
        /\ \A k \in DOMAIN log : k # n => log'[k] = log[k]
    BY <1>3, <2>1, <2>2, <2>3 DEF Tickets
  <2>5. Untouched BY <1>0, <2>1 DEF Untouched, WordsOK, SlotWords
  <2>6. SlotFrame(p) /\ PageFrame(p) /\ EntryFrame(p)
    BY <1>2, <2>4, <2>5 DEF SlotFrame, PageFrame, EntryFrame, Untouched
  <2>7. OwnEntry(p) /\ Inline'
    BY <2>4, <2>5 DEF OwnEntry, ReadyOK, Inline, Contents, Untouched
  <2> QED BY <1>1, <2>1, <2>6, <2>7, Parts, BareOK, FrameStep DEF Others
<1> QED BY <1>7, <1>8, <1>9, <1>10, <1>11

\* The expiry branch: Due leaves it no page to release.
LEMMA ExpireContents ==
  ASSUME IInv, TypeOK, Lined, Contents, Due, NEW p \in Procs,
         \/ DeqExpiry(p) \/ DeqExpire(p) \/ DeqExpirePid(p)
         \/ DeqExpireTicket(p) \/ DeqExpireLoad(p)
         \/ DeqExpireClaim(p) \/ DeqExpireFree(p)
  PROVE  Contents'
<1> USE DEF ghost, slab
<1>0. /\ loc[p] \in Locals /\ slot[I(p)] \in SlotWords /\ WordsOK
      /\ ContentOK(p) /\ I(p) \in Slots
  BY IndexOK DEF TypeOK, Contents
<1>a. \A l : l \in {"t_pid", "t_ticket", "t_ovf"} =>
        l \in Dropping /\ l \notin Asking \cup Writing \cup Filled \cup Unread
           \cup Read
           \cup {"e_body", "e_gen", "e_pub", "d_copy", "t_claim", "t_free"}
  BY DEF Read, Asking, Writing, Filled, Unread, Reading, Dropping
<1>b. pc'[p] \in {"t_pid", "t_ticket", "t_ovf"} /\ Large = {}
        => ContentOK(p)'
  BY <1>a DEF ContentOK
<1>1. CASE DeqExpiry(p)
  <2>1. /\ pc[p] = "d_exp" /\ slot' = slot /\ page' = page /\ loc' = loc
        /\ log' = log
        /\ \/ pc'[p] = "d_pid"
           \/ pc'[p] = "t_seq" /\ slot[I(p)].body \in Mortal
        /\ \A q \in Procs \ {p} : pc'[q] = pc[q]
    BY <1>0, <1>1, GotoPc DEF DeqExpiry
  <2>2. Untouched /\ Others(p) BY <2>1 DEF Untouched, Others
  <2>3. CASE pc'[p] = "d_pid"
    <3>1. "d_pid" \in Unread \ {"d_copy", "t_seq"} /\ "d_exp" \in Unread
      BY Parts
    <3> QED BY <2>1, <2>2, <2>3, <3>1, UnreadOK, StillStep
  <2>4. CASE pc'[p] = "t_seq" /\ slot[I(p)].body \in Mortal
    <3>1. Large = {} BY <2>4 DEF Due
    <3>2. Holds(I(p), log[loc[p].ent].msg)
      BY <1>0, <2>1, Parts DEF ContentOK
    <3>3. I(p)' = I(p) /\ Holds(I(p), log[loc[p].ent].msg)'
      BY <2>1, <3>2 DEF Holds, I
    <3>4. "t_seq" \notin Asking \cup Writing \cup Filled \cup Read
            \cup {"e_body", "e_gen", "e_pub", "d_copy", "t_claim", "t_free"}
      BY DEF Read, Asking, Writing, Filled
    <3>5. ContentOK(p)' BY <2>4, <3>1, <3>3, <3>4 DEF ContentOK
    <3> QED BY <2>1, <2>2, <3>5, StillStep
  <2> QED BY <2>1, <2>3, <2>4
<1>2. CASE DeqExpire(p)
  <2>1. /\ pc[p] = "t_seq" /\ pc'[p] = "t_pid" /\ loc' = loc /\ page' = page
        /\ Fate(loc[p].ent, "expired")
        /\ slot' = [slot EXCEPT ![I(p)] =
                      [slot[I(p)] EXCEPT !.seq = loc[p].pos + Capacity]]
        /\ \A q \in Procs \ {p} : pc'[q] = pc[q]
    BY <1>0, <1>2, GotoPc DEF DeqExpire, Store
  <2>2. Large = {} BY <1>0, <2>1 DEF ContentOK, Dropping
  <2>3. pc[p] \in Inside /\ loc[p].ent \in DOMAIN log
    BY <2>1, Parts, InsideOwns DEF Lined
  <2>4. /\ DOMAIN log' = DOMAIN log /\ log'[loc[p].ent].fate = "expired"
        /\ \A n \in DOMAIN log : log'[n].msg = log[n].msg
              /\ (n # loc[p].ent => log'[n] = log[n])
    BY <2>1, <2>3, FateKeeps DEF TypeOK
  <2>5. Untouched BY <1>0, <2>1 DEF Untouched, WordsOK, SlotWords
  <2>6. SlotFrame(p) /\ PageFrame(p) /\ EntryFrame(p)
    BY <2>3, <2>4, <2>5 DEF SlotFrame, PageFrame, EntryFrame, Untouched
  <2>7. OwnEntry(p) /\ Inline'
    BY <2>4, <2>5 DEF OwnEntry, ReadyOK, Inline, Contents, Untouched
  <2>8. ContentOK(p)' BY <1>b, <2>1, <2>2
  <2> QED BY <2>1, <2>6, <2>7, <2>8, FrameStep DEF Others
<1>3. CASE DeqExpirePid(p) \/ DeqExpireTicket(p)
  <2>1. pc[p] \in {"t_pid", "t_ticket"} /\ pc'[p] \in {"t_ticket", "t_ovf"}
    BY <1>0, <1>3, GotoPc
    DEF DeqExpirePid, DeqExpireTicket, StoreOwnerPid, StoreOwnerTicket, Store
  <2>2. Large = {} BY <1>0, <2>1 DEF ContentOK, Dropping
  <2> QED BY <1>3, <1>b, <2>1, <2>2, SharedContents
      DEF DeqExpirePid, DeqExpireTicket
<1>4. CASE DeqExpireLoad(p)
  <2>1. pc[p] = "t_ovf" BY <1>4 DEF DeqExpireLoad, LoadOverflow
  <2>2. slot[I(p)].ovf = None
    BY <1>0, <2>1 DEF ContentOK, Dropping, Contents, Inline
  <2>3. pc'[p] = "d_pos"
    BY <1>0, <1>4, <2>2, GotoPc DEF DeqExpireLoad, LoadOverflow
  <2> QED BY <1>4, <2>3, Parts, BareOK, SharedContents DEF DeqExpireLoad
<1>5. CASE DeqExpireClaim(p) \/ DeqExpireFree(p)
  <2>1. pc[p] \in {"t_claim", "t_free"}
    BY <1>5 DEF DeqExpireClaim, DeqExpireFree, ClaimOverflow, FreePage
  <2> QED BY <1>0, <2>1 DEF ContentOK
<1> QED BY <1>1, <1>2, <1>3, <1>4, <1>5

LEMMA DequeueContents ==
  ASSUME IInv, TypeOK, Lined, Contents, Fresh, Due,
         NEW p \in Procs, Dequeue(p)
  PROVE  Contents'
<1> USE DEF ghost, slab
<1>0. /\ loc[p] \in Locals /\ slot[I(p)] \in SlotWords /\ WordsOK
      /\ ContentOK(p) /\ I(p) \in Slots
  BY IndexOK DEF TypeOK, Contents
<1>g. ASSUME NEW l, Goto(p, l),
             loc' = loc \/ \E e : loc' = [loc EXCEPT ![p] = e]
      PROVE  pc'[p] = l /\ Others(p)
  <2>1. \A q \in Procs \ {p} : loc'[q] = loc[q]
    BY <1>0, <1>g DEF WordsOK
  <2> QED BY <1>0, <1>g, <2>1, GotoPc DEF Others
<1>r. Return(p) => pc'[p] = "idle" BY <1>g DEF Return
\* A label outside the slot, nothing written.
<1>b. ASSUME NEW l \in Bare, Goto(p, l),
             loc' = loc \/ \E e : loc' = [loc EXCEPT ![p] = e],
             UNCHANGED <<slot, page, log>>
      PROVE  Contents'
  BY <1>b, <1>g, BareOK, StillStep DEF Untouched
<1>1. CASE DeqLoadPos(p) BY <1>1, <1>b, Parts DEF DeqLoadPos
<1>2. CASE DeqLoadGen(p) BY <1>2, <1>b, Parts DEF DeqLoadGen
<1>3. CASE DeqLoadSeq(p)
  <2>1. /\ Goto(p, "d_owner") \/ Goto(p, "d_skip") \/ Goto(p, "d_cas")
        /\ loc' = loc /\ UNCHANGED <<slot, page, log>>
    BY <1>3 DEF DeqLoadSeq
  <2> QED BY <1>b, <2>1, Parts
<1>4. CASE DeqLoadOwnerPid(p)
  <2>1. pc'[p] \in {"idle", "d_dead"}
    BY <1>0, <1>4, <1>r, GotoPc DEF DeqLoadOwnerPid, LoadOwnerPid
  <2> QED BY <1>4, <2>1, Parts, BareOK, SharedContents DEF DeqLoadOwnerPid
<1>5. CASE DeqCheckDead(p)
  <2>1. pc'[p] \in Bare
    <3>1. pc'[p] \in {"idle", "r_cas"}
      BY <1>0, <1>5, <1>r, GotoPc DEF DeqCheckDead, CheckDead
    <3> QED BY <3>1, Parts DEF RepairPcs
  <2> QED BY <1>5, <2>1, Parts, BareOK, SharedContents DEF DeqCheckDead
<1>6. CASE DeqSkip(p) BY <1>6, <1>b, Parts DEF DeqSkip
<1>7. CASE DeqClaim(p)
  <2>1. CASE deq = loc[p].pos
    <3> DEFINE n == Taken(deq)
    <3>1. /\ pc[p] = "d_cas" /\ pc'[p] = "d_fence" /\ Fate(n, "taken")
          /\ loc' = [loc EXCEPT ![p].ent = n] /\ Others(p)
          /\ UNCHANGED <<slot, page>>
      BY <1>7, <1>g, <2>1 DEF DeqClaim
    <3>2. n \in DOMAIN log /\ Ticket(n) = deq /\ log[n].fate = "ready"
      BY <2>1, <3>1, HeadReady
    <3> HIDE DEF n
    <3>3. loc'[p].ent = n /\ loc'[p].pos = loc[p].pos
      BY <1>0, <3>1 DEF WordsOK, Locals
    <3>4. /\ DOMAIN log' = DOMAIN log /\ log'[n].fate = "taken"
          /\ \A k \in DOMAIN log : log'[k].msg = log[k].msg
               /\ (k # n => log'[k] = log[k])
      BY <3>1, <3>2, FateKeeps DEF TypeOK
    <3>5. I(p) = Lap(Ticket(n)) BY <2>1, <3>2, Ranges DEF Lined
    <3>6. Holds(I(p), log[n].msg)
      BY <3>2, <3>5 DEF Contents, ReadyOK
    <3>7. I(p)' = I(p) /\ log'[loc'[p].ent].msg = log[n].msg
      BY <3>2, <3>3, <3>4 DEF I
    <3>8. Holds(I(p), log[loc[p].ent].msg)'
      BY <3>1, <3>6, <3>7 DEF Holds
    <3>9. "d_fence" \notin Asking \cup Writing \cup Filled \cup Read
            \cup Dropping
            \cup {"e_body", "e_gen", "e_pub", "d_copy", "t_claim", "t_free"}
      BY DEF Read, Asking, Writing, Filled, Dropping
    <3>10. ContentOK(p)' BY <3>1, <3>8, <3>9 DEF ContentOK
    <3>11. pc[p] \notin Inside BY <3>1, Parts DEF Bare
    <3>12. SlotFrame(p) /\ PageFrame(p) /\ EntryFrame(p) /\ OwnEntry(p)
      BY <3>1, <3>4, <3>11 DEF SlotFrame, PageFrame, EntryFrame, OwnEntry
    <3>13. Inline' BY <3>1 DEF Inline, Contents
    <3> QED BY <3>1, <3>10, <3>12, <3>13, FrameStep
  <2>2. CASE deq # loc[p].pos BY <1>7, <1>b, <2>2, Parts DEF DeqClaim
  <2> QED BY <2>1, <2>2
<1>8. CASE DeqFence(p)
  <2>1. pc[p] = "d_fence" /\ gen = loc[p].gen
    BY <1>8, SampledLabels
    DEF DeqFence, DeqPcs, Reading, Fresh
  <2>2. pc'[p] = "d_exp" /\ Others(p) /\ Untouched /\ log' = log /\ loc' = loc
    BY <1>8, <1>g, <2>1 DEF DeqFence, Untouched
  <2>3. {"d_fence", "d_exp"} \subseteq Unread BY Parts
  <2> QED BY <2>1, <2>2, <2>3, UnreadOK, StillStep
<1>9. CASE \/ DeqExpiry(p) \/ DeqExpire(p) \/ DeqExpirePid(p)
           \/ DeqExpireTicket(p) \/ DeqExpireLoad(p) \/ DeqExpireClaim(p)
           \/ DeqExpireFree(p)
  BY <1>9, ExpireContents
<1>10. ASSUME NEW new, NEW at, NEW l, Store(p, at, new, l), UNCHANGED ghost,
              new.body = slot[I(p)].body, new.ovf = slot[I(p)].ovf,
              at \in Unread, l \in Unread \ {"d_copy", "t_seq"}
       PROVE  Contents'
  <2>1. pc[p] = at /\ pc'[p] = l /\ Others(p) /\ loc' = loc /\ log' = log
    BY <1>10, <1>g DEF Store
  <2>2. Untouched BY <1>0, <1>10 DEF Store, Untouched, WordsOK
  <2> QED BY <1>10, <2>1, <2>2, UnreadOK, StillStep
<1>11. CASE DeqOwnerPid(p) \/ DeqOwnerTicket(p) \/ DeqOwnerStart(p)
  <2>1. \A v : LET s == slot[I(p)] IN
               /\ [s EXCEPT !.pid = v].body = s.body
               /\ [s EXCEPT !.pid = v].ovf = s.ovf
               /\ [s EXCEPT !.ticket = v].body = s.body
               /\ [s EXCEPT !.ticket = v].ovf = s.ovf
               /\ [s EXCEPT !.start = v].body = s.body
               /\ [s EXCEPT !.start = v].ovf = s.ovf
    BY <1>0 DEF SlotWords
  <2>2. {"d_pid", "d_ticket", "d_start"} \subseteq Unread
        /\ {"d_ticket", "d_start", "d_ovf"} \subseteq
              Unread \ {"d_copy", "t_seq"}
    BY Parts
  <2>3. CASE DeqOwnerPid(p)
    BY <1>10, <2>1, <2>2, <2>3 DEF DeqOwnerPid, StoreOwnerPid
  <2>4. CASE DeqOwnerTicket(p)
    BY <1>10, <2>1, <2>2, <2>4 DEF DeqOwnerTicket, StoreOwnerTicket
  <2>5. CASE DeqOwnerStart(p)
    BY <1>10, <2>1, <2>2, <2>5 DEF DeqOwnerStart, StoreOwnerStart
  <2> QED BY <1>11, <2>3, <2>4, <2>5
<1>12. CASE \/ DeqLoadOverflow(p) \/ DeqCopy(p) \/ DeqClaimOverflow(p)
            \/ DeqFree(p) \/ DeqRecycle(p)
  BY <1>12, ConsumeContents
<1>13. CASE DeqClearPid(p)
  <2>1. pc'[p] = "y_ticket"
    BY <1>0, <1>13, GotoPc DEF DeqClearPid, StoreOwnerPid, Store
  <2> QED BY <1>13, <2>1, Parts, BareOK, SharedContents DEF DeqClearPid
<1>14. CASE DeqClearTicket(p)
  <2>1. pc'[p] = "idle" BY <1>14, <1>r DEF DeqClearTicket, ClearTicketReturn
  <2> QED BY <1>14, <2>1, Parts, BareOK, SharedContents DEF DeqClearTicket
<1> QED
  BY <1>1, <1>2, <1>3, <1>4, <1>5, <1>6, <1>7, <1>8, <1>9, <1>11, <1>12,
     <1>13, <1>14
  DEF Dequeue

-----------------------------------------------------------------------------
(* Every step is a step of TicketQueue, or none.                           *)

Still == UNCHANGED <<log, base, deq>>
QueueStep == [Queue!Next]_(Queue!qvars)

LEMMA Stutters == Still => QueueStep
  BY DEF Still, QueueStep, Queue!qvars

LEMMA EnqueueStutters ==
  ASSUME NEW p \in Procs, Enqueue(p),
         ~EnqClaim(p), ~EnqTombstone(p), ~EnqPublish(p)
  PROVE  Still
<1> USE DEF Still, ghost, positions
<1>1. CASE \E m \in Msgs : EnqStart(p, m) BY <1>1 DEF EnqStart
<1>2. CASE \/ EnqLoadPos(p) \/ EnqLoadSeq(p) \/ EnqAlloc(p)
           \/ EnqExhausted(p) \/ EnqPayload(p) \/ EnqFence(p)
           \/ EnqLastFence(p)
  BY <1>2 DEF EnqLoadPos, EnqLoadSeq, EnqAlloc, EnqExhausted, EnqPayload,
              EnqFence, EnqLastFence
<1>3. CASE EnqLoadOwnerPid(p) \/ EnqCheckDead(p) \/ EnqTombstoneTicket(p)
  BY <1>3 DEF EnqLoadOwnerPid, EnqCheckDead, EnqTombstoneTicket,
              LoadOwnerPid, CheckDead, ClearTicketReturn
<1>4. CASE \/ EnqOwnerPid(p) \/ EnqOwnerTicket(p) \/ EnqOwnerStart(p)
           \/ EnqTombstonePid(p) \/ EnqOverflow(p) \/ EnqClearPid(p)
           \/ EnqClearTicket(p)
  BY <1>4 DEF EnqOwnerPid, EnqOwnerTicket, EnqOwnerStart, EnqTombstonePid,
              EnqOverflow, EnqClearPid, EnqClearTicket, StoreOwnerPid,
              StoreOwnerTicket, StoreOwnerStart, Store
<1> QED BY <1>1, <1>2, <1>3, <1>4 DEF Enqueue

LEMMA DequeueStutters ==
  ASSUME NEW p \in Procs, Dequeue(p),
         ~DeqClaim(p), ~DeqSkip(p), ~DeqExpire(p), ~DeqRecycle(p)
  PROVE  Still
<1> USE DEF Still, ghost, positions
<1>1. CASE \/ DeqLoadPos(p) \/ DeqLoadGen(p) \/ DeqLoadSeq(p) \/ DeqFence(p)
           \/ DeqExpiry(p) \/ DeqCopy(p)
  BY <1>1 DEF DeqLoadPos, DeqLoadGen, DeqLoadSeq, DeqFence, DeqExpiry, DeqCopy
<1>2. CASE DeqLoadOwnerPid(p) \/ DeqCheckDead(p) \/ DeqClearTicket(p)
  BY <1>2 DEF DeqLoadOwnerPid, DeqCheckDead, DeqClearTicket, LoadOwnerPid,
              CheckDead, ClearTicketReturn
<1>3. CASE \/ DeqExpireLoad(p) \/ DeqExpireClaim(p) \/ DeqExpireFree(p)
           \/ DeqLoadOverflow(p) \/ DeqClaimOverflow(p) \/ DeqFree(p)
  BY <1>3 DEF DeqExpireLoad, DeqExpireClaim, DeqExpireFree, DeqLoadOverflow,
              DeqClaimOverflow, DeqFree, LoadOverflow, ClaimOverflow, FreePage
<1>4. CASE \/ DeqExpirePid(p) \/ DeqExpireTicket(p) \/ DeqOwnerPid(p)
           \/ DeqOwnerTicket(p) \/ DeqOwnerStart(p) \/ DeqClearPid(p)
  BY <1>4 DEF DeqExpirePid, DeqExpireTicket, DeqOwnerPid, DeqOwnerTicket,
              DeqOwnerStart, DeqClearPid, StoreOwnerPid, StoreOwnerTicket,
              StoreOwnerStart, Store
<1> QED BY <1>1, <1>2, <1>3, <1>4 DEF Dequeue

\* One entry changes its fate.
LEMMA Becomes ==
  ASSUME NEW n \in DOMAIN log, NEW from, NEW to, log[n].fate = from,
         Fate(n, to), UNCHANGED <<deq, base>>,
         \/ from = "claimed" /\ to \in {"ready", "void"}
         \/ from = "taken" /\ to = "expired"
  PROVE  QueueStep
<1>1. Queue!Become(n, from, to) BY DEF Queue!Become, Fate
<1>2. Queue!Publish(n) \/ Queue!GiveBack(n) \/ Queue!Drop(n)
  BY <1>1 DEF Queue!Publish, Queue!GiveBack, Queue!Drop
<1>3. Queue!Next BY <1>2 DEF Queue!Next
<1> QED BY <1>3 DEF QueueStep

\* The ticket is a round ahead of one that is over: its slot says so.
LEMMA ClaimQueues ==
  ASSUME TypeOK, Ordered, Contents, NEW p \in Procs, EnqClaim(p)
  PROVE  QueueStep
<1>0. /\ Ends /\ Entries /\ Firm /\ Rounds /\ CallOK(p) /\ ContentOK(p)
      /\ enq \in Nat /\ deq \in Nat /\ FirstTicket \in Nat
      /\ Capacity \in Nat /\ Capacity >= 2 /\ FirstTicket <= enq
  BY Ranges DEF Ordered, Lined, Calls, Contents, Ends
<1>1. CASE enq # loc[p].pos
  BY <1>1, Stutters DEF EnqClaim, Still
<1>2. CASE enq = loc[p].pos
  <2>1. /\ pc[p] = "e_cas" /\ UNCHANGED <<deq, base>>
        /\ log' = Append(log, [msg |-> loc[p].msg, fate |-> "claimed",
                               got |-> None])
    BY <1>2 DEF EnqClaim
  <2>2. loc[p].msg \in Msgs BY <1>0, <2>1 DEF ContentOK, Asking
  <2>3. SeqOf(enq) = enq BY <1>0, <1>2, <2>1 DEF CallOK
  <2>4. Len(log) = enq - FirstTicket BY <1>0 DEF Ends
  <2>5. ASSUME Len(log) >= Capacity
        PROVE  log[Len(log) + 1 - Capacity].fate \in Queue!Ended
    <3> DEFINE k == Len(log) + 1 - Capacity
    <3>1. k \in DOMAIN log /\ k \in Nat /\ Ticket(k) = enq - Capacity
      BY <1>0, <2>4, <2>5, Ranges DEF Ticket
    <3>2. EntryOK(k) /\ log[k] \in Tickets
      BY <1>0, <3>1 DEF Entries, TypeOK, HistoryOK
    <3> HIDE DEF k
    <3>3. enq - Capacity \in Nat /\ enq = (enq - Capacity) + Capacity
      BY <1>0, <3>1, Ranges
    <3>4. Lap(enq) = Lap(Ticket(k))
      <4>1. Lap((enq - Capacity) + Capacity) = Lap(enq - Capacity)
        BY <3>3, LapRound
      <4> QED BY <3>1, <3>3, <4>1
    <3>5. SeqOf(Ticket(k)) = enq BY <2>3, <3>4 DEF SeqOf
    <3>6. enq # Ticket(k) /\ enq # Ticket(k) + 1
      BY <1>0, <3>1
    <3>7. log[k].fate \notin {"claimed", "ready", "taken"}
      BY <1>0, <3>1, <3>2, <3>5, <3>6 DEF EntryOK, Firm
    <3>8. log[k].fate \in Queue!Ended
      BY <3>2, <3>7 DEF Tickets, Fates, Queue!Ended
    <3> QED BY <3>8 DEF k
  <2>6. Queue!Take(loc[p].msg) BY <2>1, <2>5 DEF Queue!Take
  <2>7. Queue!Next BY <2>2, <2>6 DEF Queue!Next
  <2> QED BY <2>7 DEF QueueStep
<1> QED BY <1>1, <1>2

LEMMA EnqueueQueues ==
  ASSUME TypeOK, Ordered, Contents, NEW p \in Procs, Enqueue(p)
  PROVE  QueueStep
<1>1. CASE EnqClaim(p) BY <1>1, ClaimQueues
<1>2. CASE EnqTombstone(p) \/ EnqPublish(p)
  <2>1. pc[p] \in {"x_seq", "e_pub"}
    BY <1>2 DEF EnqTombstone, EnqPublish, Store
  <2>2. loc[p].ent \in DOMAIN log /\ log[loc[p].ent].fate = "claimed"
    BY <2>1 DEF Ordered, Lined, Calls, CallOK, Owns, Writing
  <2>3. /\ Fate(loc[p].ent, "void") \/ Fate(loc[p].ent, "ready")
        /\ UNCHANGED <<deq, base>>
    BY <1>2 DEF EnqTombstone, EnqPublish, Store, positions
  <2> QED BY <2>2, <2>3, Becomes
<1> QED BY <1>1, <1>2, EnqueueStutters, Stutters

LEMMA DequeueQueues ==
  ASSUME TypeOK, Ordered, Contents, NEW p \in Procs, Dequeue(p)
  PROVE  QueueStep
<1>0. /\ Ends /\ Entries /\ Firm /\ CallOK(p) /\ ContentOK(p)
      /\ enq \in Nat /\ deq \in Nat /\ FirstTicket \in Nat
      /\ base.deq = FirstTicket /\ FirstTicket <= deq
      /\ \A n \in DOMAIN log : n \in Nat
  BY Ranges DEF Ordered, Lined, Calls, Contents, Ends
<1>n. Queue!Next1 = Taken(deq) BY <1>0 DEF Queue!Next1, Taken
<1>h. deq' = deq + 1 /\ base' = base => (deq - base.deq)' = Queue!Next1
  BY <1>0 DEF Queue!Next1
<1>1. CASE DeqClaim(p)
  <2>1. CASE deq # loc[p].pos
    BY <1>1, <2>1, Stutters DEF DeqClaim, Still
  <2>2. CASE deq = loc[p].pos
    <3>1. /\ pc[p] = "d_cas" /\ deq' = deq + 1 /\ base' = base
          /\ Fate(Taken(deq), "taken")
      BY <1>1, <2>2 DEF DeqClaim
    <3>2. Taken(deq) \in DOMAIN log /\ log[Taken(deq)].fate = "ready"
      BY <2>2, <3>1, HeadReady DEF Ordered
    <3>3. Queue!Receive
      BY <1>h, <1>n, <3>1, <3>2 DEF Queue!Receive, Queue!Become, Fate
    <3> QED BY <3>3 DEF QueueStep, Queue!Next
  <2> QED BY <2>1, <2>2
<1>2. CASE DeqSkip(p)
  <2>1. CASE deq # loc[p].pos
    BY <1>2, <2>1, Stutters DEF DeqSkip, Still, ghost
  <2>2. CASE deq = loc[p].pos
    <3>1. /\ pc[p] = "d_skip" /\ deq' = deq + 1 /\ base' = base /\ log' = log
      BY <1>2, <2>2 DEF DeqSkip, ghost
    <3>2. deq < enq BY <1>0, <2>2, <3>1 DEF CallOK
    <3>3. Taken(deq) \in DOMAIN log /\ Ticket(Taken(deq)) = deq
      BY <1>0, <3>2, EntryOf
    <3>a. log[Taken(deq)].fate \notin {"claimed", "ready"}
      BY <1>0, <2>2, <3>1, <3>3 DEF CallOK, Firm
    <3>4. log[Taken(deq)].fate = "void"
      BY <1>0, <3>a, <3>3 DEF Entries, EntryOK
    <3>5. Queue!Skip BY <1>h, <1>n, <3>1, <3>3, <3>4 DEF Queue!Skip
    <3> QED BY <3>5 DEF QueueStep, Queue!Next
  <2> QED BY <2>1, <2>2
<1>3. CASE DeqExpire(p)
  <2>1. pc[p] = "t_seq" BY <1>3 DEF DeqExpire, Store
  <2>2. loc[p].ent \in DOMAIN log /\ log[loc[p].ent].fate = "taken"
    BY <2>1 DEF Ordered, Lined, Calls, CallOK, Owns, Reading
  <2>3. Fate(loc[p].ent, "expired") /\ UNCHANGED <<deq, base>>
    BY <1>3 DEF DeqExpire, Store, positions
  <2> QED BY <2>2, <2>3, Becomes
<1>4. CASE DeqRecycle(p)
  <2>1. pc[p] = "d_rec" BY <1>4 DEF DeqRecycle, Store
  <2>2. loc[p].ent \in DOMAIN log /\ log[loc[p].ent].fate = "taken"
    BY <2>1 DEF Ordered, Lined, Calls, CallOK, Owns, Reading
  <2>3. loc[p].msg = log[loc[p].ent].msg
    BY <1>0, <2>1 DEF ContentOK, Read
  <2>4. /\ log' = [log EXCEPT ![loc[p].ent] =
                     [@ EXCEPT !.fate = "delivered", !.got = loc[p].msg]]
        /\ UNCHANGED <<deq, base>>
    BY <1>4 DEF DeqRecycle, Store, positions
  <2>5. Queue!Deliver(loc[p].ent)
    BY <2>2, <2>3, <2>4 DEF Queue!Deliver
  <2>6. Queue!Next BY <2>2, <2>5 DEF Queue!Next
  <2> QED BY <2>6 DEF QueueStep
<1> QED BY <1>1, <1>2, <1>3, <1>4, DequeueStutters, Stutters

-----------------------------------------------------------------------------
(* The theorems.                                                           *)

AtRest == IInv /\ Sound /\ Ordered /\ Contents

LEMMA InitSettled == Init => AtRest /\ Queue!Init
<1> SUFFICES ASSUME Init PROVE AtRest /\ Queue!Init OBVIOUS
<1>1. IInv /\ Sound /\ Ordered BY InitHolds, InitOrdered
<1>2. \A p \in Procs : pc[p] = "idle" BY DEF Init
<1>3. DOMAIN log = {} BY DEF Init
<1>4. \A p \in Procs : ContentOK(p)
  <2>1. "idle" \in Bare BY Parts
  <2> QED BY <1>2, <2>1, FreeLabels DEF ContentOK, Bare
<1>5. Inline BY DEF Inline, Init
<1>6. Contents BY <1>3, <1>4, <1>5 DEF Contents, Sent, DeliveredIntact
<1>7. Queue!Init BY ConstantAssumption DEF Queue!Init, Init
<1> QED BY <1>1, <1>6, <1>7 DEF AtRest

LEMMA StepSettled ==
  SameStart /\ Due /\ AtRest /\ [Next]_vars => AtRest' /\ QueueStep
<1> SUFFICES ASSUME SameStart, Due, AtRest, [Next]_vars
             PROVE  AtRest' /\ QueueStep
  OBVIOUS
<1>0. IInv /\ TypeOK /\ Sound /\ Ordered /\ Lined /\ Fresh /\ Contents
  BY DEF AtRest, IInv, Tokens, TypeOK, Ordered, Sound, SoundCall, Fresh
<1>1. IInv' BY <1>0, StepHolds
<1>2. Sound' /\ Ordered' BY <1>0, StepOrdered
<1>3. ASSUME NEW p \in Senders, Enqueue(p) PROVE Contents' /\ QueueStep
  BY <1>0, <1>3, EnqueueContents, EnqueueQueues DEF Procs
<1>4. ASSUME NEW p \in Receivers, Dequeue(p) PROVE Contents' /\ QueueStep
  BY <1>0, <1>4, DequeueContents, DequeueQueues DEF Procs
<1>5. ASSUME NEW p \in Procs, Repair(p) PROVE FALSE
  BY <1>0, <1>5, NoRepair
<1>6. ASSUME UNCHANGED vars PROVE Contents' /\ QueueStep
  <2>1. Contents'
    BY <1>0, <1>6
    DEF Contents, ContentOK, Packed, Holds, ReadyOK, Inline, Sent,
        DeliveredIntact, Ticket, Lap, I, vars
  <2> QED BY <1>6, <2>1, Stutters DEF Still, vars
<1>7. Contents' /\ QueueStep BY <1>3, <1>4, <1>5, <1>6 DEF Next
<1> QED BY <1>1, <1>2, <1>7 DEF AtRest

\* Whoever gets a message gets the one that was sent: for any number of
\* processes, slots, pages and messages, when no live owner is taken for dead
\* and no message with an overflow page can expire in the ring.
THEOREM MessagesIntact == SameStart /\ Due => (Spec => []DeliveredIntact)
<1> SUFFICES ASSUME SameStart, Due PROVE Spec => []DeliveredIntact OBVIOUS
<1>1. Init => AtRest BY InitSettled
<1>2. AtRest /\ [Next]_vars => AtRest' BY StepSettled
<1>3. AtRest => DeliveredIntact BY DEF AtRest, Contents
<1> QED BY <1>1, <1>2, <1>3, PTL DEF Spec

\* The ring of try_enqueue and try_dequeue is a bounded queue: every behaviour
\* is one of TicketQueue, under the same assumptions.
THEOREM RingIsQueue == SameStart /\ Due => (Spec => ImplementsQueue)
<1> SUFFICES ASSUME SameStart, Due PROVE Spec => ImplementsQueue OBVIOUS
<1>1. Init => AtRest /\ Queue!Init BY InitSettled
<1>2. AtRest /\ [Next]_vars => AtRest' /\ [Queue!Next]_(Queue!qvars)
  BY StepSettled DEF QueueStep
<1> QED BY <1>1, <1>2, PTL DEF Spec, ImplementsQueue, Queue!Spec
-----------------------------------------------------------------------------
(* No page is lost.                                                        *)

\* Where the page of a slot is of use: between the producer's store of it and
\* the consumer's claim of it, and while the message waits in between.
InUse == Unread \cup {"e_gen", "e_pub", "d_claim"}
Used(i) ==
    \/ \E n \in DOMAIN log : Lap(Ticket(n)) = i /\ log[n].fate = "ready"
    \/ \E p \in Procs : I(p) = i /\ pc[p] \in InUse

\* No slot keeps a page nobody will take out of it: the next producer would
\* overwrite it.
NoStray == \A i \in Slots : slot[i].ovf # None => Used(i)
Wanted(p) == pc[p] = "d_claim" => slot[I(p)].ovf = loc[p].pg

Ledger == NoPageLeak /\ NoStray /\ \A p \in Procs : Wanted(p)

\* A step of p that moves no page between the slab, the slots and the calls.
PageCalm(p) ==
    /\ Others(p) /\ free' = free
    /\ \A i \in Slots : slot'[i].ovf = slot[i].ovf
    /\ \A n \in DOMAIN log : log[n].fate = "ready" =>
          \/ n \in DOMAIN log' /\ log'[n].fate = "ready"
          \/ Used(Lap(Ticket(n)))'
    /\ \A i \in Slots :
          i = I(p) /\ pc[p] \in InUse /\ slot[i].ovf # None => Used(i)'
    /\ \A g \in Pages : Carries(p, g) => Carries(p, g)'
    /\ Wanted(p)'

\* What the other calls use, they go on using.
LEMMA OthersUse ==
  ASSUME TypeOK, NEW p \in Procs, Others(p), NEW i \in Slots, Used(i),
         \A n \in DOMAIN log : log[n].fate = "ready" =>
            \/ n \in DOMAIN log' /\ log'[n].fate = "ready"
            \/ Used(Lap(Ticket(n)))',
         i = I(p) /\ pc[p] \in InUse => Used(i)'
  PROVE  Used(i)'
<1>1. CASE \E n \in DOMAIN log : Lap(Ticket(n)) = i /\ log[n].fate = "ready"
  <2>1. PICK n \in DOMAIN log : Lap(Ticket(n)) = i /\ log[n].fate = "ready"
    BY <1>1
  <2>2. CASE n \in DOMAIN log' /\ log'[n].fate = "ready"
    BY <2>1, <2>2 DEF Used
  <2>3. CASE Used(Lap(Ticket(n)))'
    <3>1. \A k : k = Lap(Ticket(n)) /\ k = i => Used(i)' BY <2>3
    <3> QED BY <2>1, <3>1
  <2> QED BY <2>1, <2>2, <2>3
<1>2. CASE \E q \in Procs : I(q) = i /\ pc[q] \in InUse
  <2>1. PICK q \in Procs : I(q) = i /\ pc[q] \in InUse BY <1>2
  <2>2. CASE q = p BY <2>1, <2>2
  <2>3. CASE q # p
    <3>1. I(q)' = i /\ pc'[q] \in InUse BY <2>1, <2>3 DEF Others, I
    <3> QED BY <3>1 DEF Used
  <2> QED BY <2>2, <2>3
<1> QED BY <1>1, <1>2 DEF Used

LEMMA OthersWant ==
  ASSUME WordsOK, NEW p \in Procs, NEW q \in Procs \ {p}, Others(p),
         Wanted(q), pc[q] = "d_claim" => slot'[I(q)].ovf = slot[I(q)].ovf
  PROVE  Wanted(q)'
<1>1. I(q)' = I(q) /\ loc'[q] = loc[q] /\ pc'[q] = pc[q] BY DEF Others, I
<1> QED BY <1>1 DEF Wanted

LEMMA CalmLedger ==
  ASSUME TypeOK, Ledger, NEW p \in Procs, PageCalm(p)
  PROVE  Ledger'
<1>1. NoStray'
  <2> SUFFICES ASSUME NEW i \in Slots, slot'[i].ovf # None PROVE Used(i)'
    BY DEF NoStray
  <2>1. Used(i) BY DEF PageCalm, Ledger, NoStray
  <2> QED BY <2>1, OthersUse DEF PageCalm
<1>2. ASSUME NEW q \in Procs PROVE Wanted(q)'
  <2>1. CASE q = p BY <2>1 DEF PageCalm
  <2>2. CASE q # p
    <3>1. I(q) \in Slots BY IndexOK DEF TypeOK
    <3> QED BY <2>2, <3>1, OthersWant DEF PageCalm, Ledger, TypeOK
  <2> QED BY <2>1, <2>2
<1>3. NoPageLeak'
  <2> SUFFICES ASSUME NEW g \in Pages
               PROVE  \/ g \in free'
                      \/ \E i \in Slots : slot'[i].ovf = g
                      \/ \E q \in Procs : Carries(q, g)'
    BY DEF NoPageLeak
  <2>1. \A q \in Procs : Carries(q, g) => Carries(q, g)'
    BY DEF PageCalm, Others, Carries
  <2> QED BY <2>1 DEF PageCalm, Ledger, NoPageLeak
<1> QED BY <1>1, <1>2, <1>3 DEF Ledger

\* A step outside the slot and the slab; a step from one place inside to the
\* next.
LEMMA AwayLedger ==
  ASSUME TypeOK, Ledger, NEW p \in Procs, Others(p), free' = free,
         \A i \in Slots : slot'[i].ovf = slot[i].ovf,
         \A n \in DOMAIN log : log[n].fate = "ready" =>
            n \in DOMAIN log' /\ log'[n].fate = "ready",
         pc[p] \notin InUse \cup Carrying, pc'[p] # "d_claim"
  PROVE  Ledger'
<1>1. PageCalm(p) BY DEF PageCalm, Carries, Wanted
<1> QED BY <1>1, CalmLedger

LEMMA AlongLedger ==
  ASSUME TypeOK, Ledger, NEW p \in Procs, Others(p), free' = free,
         \A i \in Slots : slot'[i].ovf = slot[i].ovf, log' = log,
         pc[p] \in InUse, pc'[p] \in InUse \ {"d_claim"},
         loc'[p].pos = loc[p].pos
  PROVE  Ledger'
<1>1. I(p)' = I(p) BY DEF I
<1>2. \A i \in Slots : i = I(p) => Used(i)' BY <1>1 DEF Used
<1>3. pc[p] \notin Carrying
  BY Parts DEF InUse, Carrying, Unread, Reading, Read
<1>4. PageCalm(p) BY <1>2, <1>3 DEF PageCalm, Carries, Wanted
<1> QED BY <1>4, CalmLedger

LEMMA UseLabels ==
  /\ InUse = {"d_fence", "d_exp", "t_seq", "d_pid", "d_ticket", "d_start",
              "d_ovf", "d_copy", "e_gen", "e_pub", "d_claim"}
  /\ Carrying = {"e_body", "e_ovf", "t_free", "d_free", "r_free"}
  /\ InUse \cap Carrying = {} /\ InUse \subseteq Inside
  BY Parts DEF InUse, Carrying, Inside, Writing, Reading

LEMMA OutsideLedger ==
  ASSUME TypeOK, Ledger, NEW p \in Procs, NEW l, l # "d_claim", Goto(p, l),
         loc' = loc \/ \E e : loc' = [loc EXCEPT ![p] = e],
         free' = free, log' = log, slot' = slot,
         pc[p] \notin InUse \cup Carrying
  PROVE  Ledger'
<1>1. pc'[p] = l /\ Others(p) BY GotoPc DEF TypeOK, WordsOK, Others
<1> QED BY <1>1, AwayLedger

LEMMA StoreLedger ==
  ASSUME TypeOK, Ledger, NEW p \in Procs, NEW at, NEW new, NEW l,
         Store(p, at, new, l), UNCHANGED ghost, l # "d_claim",
         new.ovf = slot[I(p)].ovf, at \notin InUse \cup Carrying
  PROVE  Ledger'
<1>1. pc[p] = at /\ pc'[p] = l /\ Others(p)
  BY GotoPc DEF Store, TypeOK, WordsOK, Others
<1>2. \A i \in Slots : slot'[i].ovf = slot[i].ovf
  BY IndexOK DEF Store, TypeOK, WordsOK
<1> QED BY <1>1, <1>2, AwayLedger DEF Store, ghost, slab

\* The producer: the page goes from the slab to the call and into a slot that
\* has none.
LEMMA EnqueueLedger ==
  ASSUME IInv, TypeOK, Ordered, Contents, Sound, Ledger, NEW p \in Procs,
         Enqueue(p)
  PROVE  Ledger'
<1> USE DEF ghost, slab
<1>0. /\ loc[p] \in Locals /\ slot[I(p)] \in SlotWords /\ WordsOK
      /\ ContentOK(p) /\ I(p) \in Slots /\ HistoryOK
  BY IndexOK DEF TypeOK, Contents
<1>g. ASSUME NEW l, Goto(p, l),
             loc' = loc \/ \E e : loc' = [loc EXCEPT ![p] = e]
      PROVE  pc'[p] = l /\ Others(p)
  <2>1. \A q \in Procs \ {p} : loc'[q] = loc[q]
    BY <1>0, <1>g DEF WordsOK
  <2> QED BY <1>0, <1>g, <2>1, GotoPc DEF Others
<1>r. Return(p) => pc'[p] = "idle" /\ Others(p) BY <1>g DEF Return
<1>s. \A v : LET s == slot[I(p)] IN
             /\ [s EXCEPT !.pid = v].ovf = s.ovf
             /\ [s EXCEPT !.ticket = v].ovf = s.ovf
             /\ [s EXCEPT !.start = v].ovf = s.ovf
             /\ [s EXCEPT !.seq = v].ovf = s.ovf
             /\ [s EXCEPT !.body = v].ovf = s.ovf
  BY <1>0 DEF SlotWords
<1>t. ASSUME NEW new, new.ovf = slot[I(p)].ovf,
             slot' = [slot EXCEPT ![I(p)] = new]
      PROVE  \A i \in Slots : slot'[i].ovf = slot[i].ovf
  BY <1>0, <1>t DEF WordsOK
\* A label outside the slot and the slab.
<1>a. ASSUME NEW l \in Labels \ {"d_claim"}, Goto(p, l),
             loc' = loc \/ \E e : loc' = [loc EXCEPT ![p] = e],
             free' = free, log' = log, slot' = slot,
             pc[p] \notin InUse \cup Carrying
      PROVE  Ledger'
  BY <1>a, OutsideLedger
<1>b. ASSUME NEW new, NEW at, NEW l \in Labels \ {"d_claim"},
             Store(p, at, new, l), UNCHANGED ghost,
             new.ovf = slot[I(p)].ovf, at \notin InUse \cup Carrying
      PROVE  Ledger'
  BY <1>b, StoreLedger
<1>l. /\ EnqPcs \cup {"idle"} \subseteq Labels \ {"d_claim"}
      /\ {"e_pos", "e_seq", "e_owner", "e_dead", "e_cas", "e_pid", "e_alloc",
          "e_ticket", "e_start", "x_gen", "x_seq", "x_pid", "x_ticket",
          "e_body", "e_ovf", "e_gen", "e_pub", "e_drop", "c_pid", "c_ticket",
          "c_gen", "c_retract"} \subseteq EnqPcs
      /\ {"idle", "e_pos", "e_seq", "e_owner", "e_dead", "e_cas", "e_pid",
          "e_ticket", "e_start", "e_alloc", "x_gen", "x_seq", "x_pid",
          "x_ticket", "c_pid", "c_ticket", "c_gen"}
             \cap (InUse \cup Carrying) = {}
  BY UseLabels DEF Labels, EnqPcs, Writing
<1>1. CASE \E m \in Msgs : EnqStart(p, m) BY <1>1, <1>a, <1>l DEF EnqStart
<1>2. CASE EnqLoadPos(p) BY <1>2, <1>a, <1>l DEF EnqLoadPos
<1>3. CASE EnqLoadSeq(p)
  <2>1. /\ Goto(p, "e_cas") \/ Goto(p, "e_owner") \/ Goto(p, "e_pos")
              \/ Goto(p, "idle")
        /\ loc' = loc \/ \E e : loc' = [loc EXCEPT ![p] = e]
        /\ free' = free /\ log' = log /\ slot' = slot /\ pc[p] = "e_seq"
    BY <1>3 DEF EnqLoadSeq, Return
  <2> QED BY <1>a, <1>l, <2>1
<1>4. CASE EnqLoadOwnerPid(p)
  BY <1>4, <1>a, <1>l DEF EnqLoadOwnerPid, LoadOwnerPid, Return
<1>5. CASE EnqCheckDead(p)
  <2>1. pc[p] = "e_dead" /\ "r_cas" \in Labels \ {"d_claim"}
    BY <1>5 DEF EnqCheckDead, CheckDead, Labels, RepairPcs
  <2> QED BY <1>5, <1>a, <1>l, <2>1 DEF EnqCheckDead, CheckDead, Return
<1>6. CASE EnqClaim(p)
  <2>1. /\ pc[p] = "e_cas" /\ free' = free /\ slot' = slot
        /\ Others(p) /\ pc'[p] \in {"e_pid", "e_pos"}
    BY <1>6, <1>g DEF EnqClaim
  <2>2. log' = log \/ \E e : log' = Append(log, e) BY <1>6 DEF EnqClaim
  <2>3. \A n \in DOMAIN log : n \in DOMAIN log' /\ log'[n] = log[n]
    BY <1>0, <2>2 DEF HistoryOK
  <2> QED BY <1>l, <2>1, <2>3, AwayLedger
<1>7. CASE EnqOwnerPid(p) \/ EnqOwnerTicket(p) \/ EnqOwnerStart(p)
           \/ EnqTombstonePid(p) \/ EnqClearPid(p) \/ EnqClearTicket(p)
  <2>1. ASSUME NEW at \in {"e_pid", "x_pid", "c_pid"}, NEW v,
               NEW l \in {"e_ticket", "x_ticket", "c_ticket"},
               StoreOwnerPid(p, at, v, l)
        PROVE  Ledger'
    <3>1. /\ at \notin InUse \cup Carrying /\ l \in Labels \ {"d_claim"}
          /\ [slot[I(p)] EXCEPT !.pid = v].ovf = slot[I(p)].ovf
      BY <1>l, <1>s
    <3>2. /\ Store(p, at, [slot[I(p)] EXCEPT !.pid = v], l)
          /\ UNCHANGED ghost
      BY <2>1 DEF StoreOwnerPid
    <3> QED BY <1>b, <3>1, <3>2
  <2>2. ASSUME NEW at \in {"e_ticket", "c_ticket"}, NEW v,
               NEW l \in {"e_start", "c_gen"}, StoreOwnerTicket(p, at, v, l)
        PROVE  Ledger'
    <3>1. /\ at \notin InUse \cup Carrying /\ l \in Labels \ {"d_claim"}
          /\ [slot[I(p)] EXCEPT !.ticket = v].ovf = slot[I(p)].ovf
      BY <1>l, <1>s
    <3>2. /\ Store(p, at, [slot[I(p)] EXCEPT !.ticket = v], l)
          /\ UNCHANGED ghost
      BY <2>2 DEF StoreOwnerTicket
    <3> QED BY <1>b, <3>1, <3>2
  <2>3. CASE EnqOwnerStart(p)
    <3>1. /\ "e_start" \notin InUse \cup Carrying
          /\ "e_alloc" \in Labels \ {"d_claim"}
          /\ [slot[I(p)] EXCEPT !.start = StartTime[p]].ovf = slot[I(p)].ovf
      BY <1>l, <1>s
    <3>2. /\ Store(p, "e_start", [slot[I(p)] EXCEPT !.start = StartTime[p]],
                   "e_alloc")
          /\ UNCHANGED ghost
      BY <2>3 DEF EnqOwnerStart, StoreOwnerStart
    <3> QED BY <1>b, <3>1, <3>2
  <2> QED
    BY <1>7, <2>1, <2>2, <2>3
    DEF EnqOwnerPid, EnqOwnerTicket, EnqTombstonePid, EnqClearPid,
        EnqClearTicket
<1>8. CASE EnqAlloc(p)
  <2>1. CASE loc' = loc /\ free' = free
    <3>1. /\ Goto(p, "e_body") \/ Goto(p, "x_gen")
          /\ log' = log /\ slot' = slot /\ pc[p] = "e_alloc"
      BY <1>8, <2>1 DEF EnqAlloc
    <3> QED BY <1>a, <1>l, <2>1, <3>1
  <2>2. CASE ~(loc' = loc /\ free' = free)
    <3>1. PICK g \in free : /\ free' = free \ {g}
                            /\ loc' = [loc EXCEPT ![p].pg = g]
      BY <1>8, <2>2 DEF EnqAlloc
    <3>2. /\ pc[p] = "e_alloc" /\ pc'[p] = "e_body" /\ slot' = slot
          /\ log' = log /\ Others(p)
      BY <1>8, <1>g, <2>2 DEF EnqAlloc
    <3>3. loc'[p].pg = g BY <1>0, <3>1 DEF WordsOK, Locals
    <3>4. NoPageLeak'
      <4> SUFFICES ASSUME NEW h \in Pages
                   PROVE  \/ h \in free'
                          \/ \E i \in Slots : slot'[i].ovf = h
                          \/ \E q \in Procs : Carries(q, h)'
        BY DEF NoPageLeak
      <4>1. \A q \in Procs : Carries(q, h) => Carries(q, h)'
        BY <1>l, <3>2 DEF Others, Carries
      <4>2. Carries(p, g)' BY <3>2, <3>3 DEF Carries, Carrying
      <4> QED BY <3>1, <3>2, <4>1, <4>2 DEF Ledger, NoPageLeak
    <3>5. NoStray'
      <4> SUFFICES ASSUME NEW i \in Slots, slot'[i].ovf # None
                   PROVE  Used(i)'
        BY DEF NoStray
      <4>1. Used(i) BY <3>2 DEF Ledger, NoStray
      <4> QED BY <1>l, <3>2, <4>1, OthersUse
    <3>6. ASSUME NEW q \in Procs PROVE Wanted(q)'
      BY <1>0, <3>2, OthersWant DEF Ledger, Wanted
    <3> QED BY <3>4, <3>5, <3>6 DEF Ledger
  <2> QED BY <2>1, <2>2
<1>9. CASE EnqExhausted(p)
  BY <1>9, <1>a, <1>l DEF EnqExhausted
<1>10. CASE EnqTombstone(p)
  <2>1. /\ pc[p] = "x_seq" /\ pc'[p] = "x_pid" /\ Others(p) /\ free' = free
        /\ Fate(loc[p].ent, "void")
        /\ slot' = slot \/ slot' = [slot EXCEPT ![I(p)] =
              [slot[I(p)] EXCEPT !.seq = loc[p].pos + Capacity]]
    BY <1>10, <1>g DEF EnqTombstone, CasSeq
  <2>2. loc[p].ent \in DOMAIN log /\ log[loc[p].ent].fate = "claimed"
    BY <2>1 DEF Ordered, Lined, Calls, CallOK, Owns, Writing
  <2>3. \A n \in DOMAIN log : log[n].fate = "ready" =>
           n \in DOMAIN log' /\ log'[n].fate = "ready"
    BY <1>0, <2>1, <2>2, FateKeeps
  <2>4. \A i \in Slots : slot'[i].ovf = slot[i].ovf BY <1>s, <1>t, <2>1
  <2> QED BY <1>l, <2>1, <2>3, <2>4, AwayLedger
<1>11. CASE EnqTombstoneTicket(p)
  <2>1. pc[p] = "x_ticket" /\ pc'[p] = "idle" /\ Others(p)
        /\ free' = free /\ log' = log
        /\ slot' = [slot EXCEPT ![I(p)] = [slot[I(p)] EXCEPT !.ticket = 0]]
    BY <1>11, <1>r DEF EnqTombstoneTicket, ClearTicketReturn
  <2>2. \A i \in Slots : slot'[i].ovf = slot[i].ovf BY <1>s, <1>t, <2>1
  <2> QED BY <1>l, <2>1, <2>2, AwayLedger
<1>12. CASE EnqPayload(p)
  <2>1. /\ pc[p] = "e_body" /\ pc'[p] = "e_ovf" /\ Others(p)
        /\ free' = free /\ log' = log /\ loc' = loc
        /\ slot' = [slot EXCEPT ![I(p)] =
                      [slot[I(p)] EXCEPT !.body = loc[p].msg]]
    BY <1>12, <1>g DEF EnqPayload
  <2>2. \A i \in Slots : slot'[i].ovf = slot[i].ovf BY <1>s, <1>t, <2>1
  <2>3. \A g : Carries(p, g) => Carries(p, g)'
    BY <2>1 DEF Carries, Carrying
  <2>4. PageCalm(p) BY <2>1, <2>2, <2>3, UseLabels DEF PageCalm, Wanted
  <2> QED BY <2>4, CalmLedger
<1>13. CASE EnqOverflow(p)
  <2>1. /\ pc[p] = "e_ovf" /\ pc'[p] = "e_gen" /\ Others(p)
        /\ free' = free /\ log' = log /\ loc' = loc /\ I(p)' = I(p)
        /\ slot' = [slot EXCEPT ![I(p)] =
                      [slot[I(p)] EXCEPT !.ovf = loc[p].pg]]
    BY <1>13, <1>g DEF EnqOverflow, Store, I
  <2>2. /\ slot'[I(p)].ovf = loc[p].pg
        /\ \A i \in Slots \ {I(p)} : slot'[i] = slot[i]
    BY <1>0, <2>1 DEF WordsOK, SlotWords
  <2>3. /\ loc[p].ent \in DOMAIN log /\ log[loc[p].ent].fate = "claimed"
        /\ Lap(Ticket(loc[p].ent)) = I(p) /\ pc[p] \in Inside
    BY <2>1 DEF Ordered, Lined, Calls, CallOK, Owns, Writing, Inside, Lap, I
  <2>4. slot[I(p)].ovf = None
    <3> SUFFICES ASSUME Used(I(p)) PROVE FALSE
      BY <1>0 DEF Ledger, NoStray
    <3>1. ASSUME NEW n \in DOMAIN log, Lap(Ticket(n)) = I(p),
                 log[n].fate = "ready"
          PROVE  FALSE
      <4>1. n = loc[p].ent
        BY <2>3, <3>1, OneUnfinished DEF Ordered, Lined, Unfinished
      <4> QED BY <2>3, <3>1, <4>1
    <3>2. ASSUME NEW q \in Procs, I(q) = I(p), pc[q] \in InUse PROVE FALSE
      BY <2>1, <2>3, <3>2, OrderedExclusive, UseLabels
      DEF SlotExclusive, Inside
    <3> QED BY <3>1, <3>2 DEF Used
  <2>5. NoPageLeak'
    <3> SUFFICES ASSUME NEW g \in Pages
                 PROVE  \/ g \in free'
                        \/ \E i \in Slots : slot'[i].ovf = g
                        \/ \E q \in Procs : Carries(q, g)'
      BY DEF NoPageLeak
    <3>1. \A q \in Procs \ {p} : Carries(q, g) => Carries(q, g)'
      BY <2>1 DEF Others, Carries
    <3>2. Carries(p, g) => slot'[I(p)].ovf = g BY <2>2 DEF Carries
    <3>3. g # None BY ConstantAssumption
    <3>4. \A i \in Slots : slot[i].ovf = g => slot'[i].ovf = g
      BY <2>2, <2>4, <3>3
    <3> QED BY <1>0, <2>1, <3>1, <3>2, <3>4 DEF Ledger, NoPageLeak
  <2>6. NoStray'
    <3> SUFFICES ASSUME NEW i \in Slots, slot'[i].ovf # None PROVE Used(i)'
      BY DEF NoStray
    <3>1. CASE i = I(p) BY <2>1, <3>1, UseLabels DEF Used
    <3>2. CASE i # I(p)
      <4>1. Used(i) BY <2>2, <3>2 DEF Ledger, NoStray
      <4> QED BY <2>1, <3>2, <4>1, OthersUse
    <3> QED BY <3>1, <3>2
  <2>7. ASSUME NEW q \in Procs PROVE Wanted(q)'
    <3>1. CASE q = p BY <2>1, <3>1 DEF Wanted
    <3>2. CASE q # p
      <4>1. pc[q] = "d_claim" => I(q) # I(p)
        BY <2>1, <2>3, <3>2, OrderedExclusive, UseLabels
        DEF SlotExclusive, Inside
      <4>2. I(q) \in Slots BY <1>0, IndexOK
      <4> QED BY <1>0, <2>1, <2>2, <3>2, <4>1, <4>2, OthersWant DEF Ledger
    <3> QED BY <3>1, <3>2
  <2> QED BY <2>5, <2>6, <2>7 DEF Ledger
<1>14. CASE EnqFence(p)
  <2>1. pc[p] = "e_gen" /\ gen = loc[p].gen
    BY <1>14, SampledLabels DEF EnqFence, EnqPcs, Writing, Sound, SoundCall
  <2>2. /\ pc'[p] = "e_pub" /\ Others(p) /\ log' = log /\ slot' = slot
        /\ free' = free /\ loc' = loc
    BY <1>14, <1>g, <2>1 DEF EnqFence
  <2> QED BY <2>1, <2>2, UseLabels, AlongLedger
<1>15. CASE EnqPublish(p)
  <2>1. /\ pc[p] = "e_pub" /\ pc'[p] = "c_pid" /\ Others(p)
        /\ free' = free /\ loc' = loc /\ Fate(loc[p].ent, "ready")
        /\ slot' = [slot EXCEPT ![I(p)] =
                      [slot[I(p)] EXCEPT !.seq = loc[p].pos + 1]]
    BY <1>15, <1>g DEF EnqPublish, Store
  <2>2. \A i \in Slots : slot'[i].ovf = slot[i].ovf BY <1>s, <1>t, <2>1
  <2>3. /\ loc[p].ent \in DOMAIN log
        /\ Lap(Ticket(loc[p].ent)) = I(p)
    BY <2>1 DEF Ordered, Lined, Calls, CallOK, Owns, Writing, Lap, I
  <2>4. /\ DOMAIN log' = DOMAIN log /\ log'[loc[p].ent].fate = "ready"
        /\ \A n \in DOMAIN log : n # loc[p].ent => log'[n] = log[n]
    BY <1>0, <2>1, <2>3, FateKeeps
  <2>5. \A i : i = I(p) => Used(i)' BY <2>3, <2>4 DEF Used
  <2>6. PageCalm(p)
    BY <2>1, <2>2, <2>4, <2>5, UseLabels DEF PageCalm, Carries, Wanted
  <2> QED BY <2>6, CalmLedger
<1>16. CASE EnqLastFence(p)
  BY <1>16, <1>a, <1>l DEF EnqLastFence, Return
<1> QED
  BY <1>1, <1>2, <1>3, <1>4, <1>5, <1>6, <1>7, <1>8, <1>9, <1>10, <1>11,
     <1>12, <1>13, <1>14, <1>15, <1>16
  DEF Enqueue

\* The consumer that gets a message: the page goes from the slot to the call
\* and back to the slab.
LEMMA ConsumeLedger ==
  ASSUME IInv, TypeOK, Ordered, Contents, Ledger, NEW p \in Procs,
         \/ DeqLoadOverflow(p) \/ DeqCopy(p) \/ DeqClaimOverflow(p)
         \/ DeqFree(p) \/ DeqRecycle(p)
  PROVE  Ledger'
<1> USE DEF ghost, slab
<1>0. /\ loc[p] \in Locals /\ slot[I(p)] \in SlotWords /\ WordsOK
      /\ ContentOK(p) /\ I(p) \in Slots /\ HistoryOK
  BY IndexOK DEF TypeOK, Contents
<1>g. ASSUME NEW l, Goto(p, l),
             loc' = loc \/ \E e : loc' = [loc EXCEPT ![p] = e]
      PROVE  pc'[p] = l /\ Others(p)
  <2>1. \A q \in Procs \ {p} : loc'[q] = loc[q]
    BY <1>0, <1>g DEF WordsOK
  <2> QED BY <1>0, <1>g, <2>1, GotoPc DEF Others
<1>1. CASE DeqLoadOverflow(p)
  <2>1. /\ pc[p] = "d_ovf" /\ pc'[p] = "d_copy" /\ Others(p)
        /\ free' = free /\ log' = log /\ slot' = slot
        /\ loc' = [loc EXCEPT ![p].pg = slot[I(p)].ovf]
    BY <1>1, <1>g DEF DeqLoadOverflow, LoadOverflow
  <2>2. loc'[p].pos = loc[p].pos BY <1>0, <2>1 DEF WordsOK, Locals
  <2> QED BY <2>1, <2>2, UseLabels, AlongLedger
<1>2. CASE DeqCopy(p)
  <2>1. /\ pc[p] = "d_copy" /\ Others(p)
        /\ free' = free /\ log' = log /\ slot' = slot
        /\ \E m : loc' = [loc EXCEPT ![p].msg = m]
        /\ pc'[p] = IF loc[p].pg # None THEN "d_claim" ELSE "d_rec"
    BY <1>2, <1>g DEF DeqCopy
  <2>2. /\ loc'[p].pos = loc[p].pos /\ loc'[p].pg = loc[p].pg
        /\ I(p)' = I(p)
    BY <1>0, <2>1 DEF WordsOK, Locals, I
  <2>3. slot[I(p)].ovf = loc[p].pg BY <1>0, <2>1 DEF ContentOK
  <2>4. Wanted(p)' BY <2>1, <2>2, <2>3 DEF Wanted
  <2>5. \A i \in Slots : i = I(p) /\ slot[i].ovf # None => Used(i)'
    BY <2>1, <2>2, <2>3, UseLabels DEF Used
  <2>6. PageCalm(p)
    BY <2>1, <2>4, <2>5, UseLabels DEF PageCalm, Carries
  <2> QED BY <2>6, CalmLedger
<1>3. CASE DeqClaimOverflow(p)
  <2>1. /\ pc[p] = "d_claim" /\ slot[I(p)].ovf = loc[p].pg
    BY <1>3 DEF DeqClaimOverflow, ClaimOverflow, Ledger, Wanted
  <2>2. /\ pc'[p] = "d_free" /\ Others(p) /\ loc' = loc
        /\ free' = free /\ log' = log
        /\ slot' = [slot EXCEPT ![I(p)] = [slot[I(p)] EXCEPT !.ovf = None]]
    BY <1>3, <1>g, <2>1 DEF DeqClaimOverflow, ClaimOverflow
  <2>3. /\ slot'[I(p)].ovf = None
        /\ \A i \in Slots \ {I(p)} : slot'[i] = slot[i]
    BY <1>0, <2>2 DEF WordsOK, SlotWords
  <2>4. NoPageLeak'
    <3> SUFFICES ASSUME NEW g \in Pages
                 PROVE  \/ g \in free'
                        \/ \E i \in Slots : slot'[i].ovf = g
                        \/ \E q \in Procs : Carries(q, g)'
      BY DEF NoPageLeak
    <3>1. \A q \in Procs : Carries(q, g) => Carries(q, g)'
      BY <2>1, <2>2, UseLabels DEF Others, Carries
    <3>2. slot[I(p)].ovf = g => Carries(p, g)'
      BY <2>1, <2>2 DEF Carries, Carrying
    <3> QED BY <2>2, <2>3, <3>1, <3>2 DEF Ledger, NoPageLeak
  <2>5. NoStray'
    <3> SUFFICES ASSUME NEW i \in Slots, slot'[i].ovf # None PROVE Used(i)'
      BY DEF NoStray
    <3>1. i # I(p) BY <2>3
    <3>2. Used(i) BY <2>3, <3>1 DEF Ledger, NoStray
    <3> QED BY <2>2, <3>1, <3>2, OthersUse
  <2>6. ASSUME NEW q \in Procs PROVE Wanted(q)'
    <3>1. CASE q = p BY <2>2, <3>1 DEF Wanted
    <3>2. CASE q # p
      <4>1. pc[q] = "d_claim" => I(q) # I(p)
        BY <2>1, <3>2, OrderedExclusive, UseLabels DEF SlotExclusive, Inside
      <4>2. I(q) \in Slots BY <1>0, IndexOK
      <4> QED BY <1>0, <2>2, <2>3, <3>2, <4>1, <4>2, OthersWant DEF Ledger
    <3> QED BY <3>1, <3>2
  <2> QED BY <2>4, <2>5, <2>6 DEF Ledger
<1>4. CASE DeqFree(p)
  <2>1. /\ pc[p] = "d_free" /\ pc'[p] = "d_rec" /\ Others(p) /\ loc' = loc
        /\ free' = free \cup {loc[p].pg} /\ log' = log /\ slot' = slot
    BY <1>4, <1>g DEF DeqFree, FreePage
  <2>2. NoPageLeak'
    <3> SUFFICES ASSUME NEW g \in Pages
                 PROVE  \/ g \in free'
                        \/ \E i \in Slots : slot'[i].ovf = g
                        \/ \E q \in Procs : Carries(q, g)'
      BY DEF NoPageLeak
    <3>1. \A q \in Procs \ {p} : Carries(q, g) => Carries(q, g)'
      BY <2>1 DEF Others, Carries
    <3>2. Carries(p, g) => g \in free' BY <2>1 DEF Carries
    <3> QED BY <2>1, <3>1, <3>2 DEF Ledger, NoPageLeak
  <2>3. NoStray'
    <3> SUFFICES ASSUME NEW i \in Slots, slot'[i].ovf # None PROVE Used(i)'
      BY DEF NoStray
    <3>1. Used(i) BY <2>1 DEF Ledger, NoStray
    <3> QED BY <2>1, <3>1, UseLabels, OthersUse
  <2>4. ASSUME NEW q \in Procs PROVE Wanted(q)'
    BY <1>0, <2>1, OthersWant DEF Ledger, Wanted
  <2> QED BY <2>2, <2>3, <2>4 DEF Ledger
<1>5. CASE DeqRecycle(p)
  <2>1. /\ pc[p] = "d_rec" /\ pc'[p] = "y_pid" /\ Others(p) /\ free' = free
        /\ log' = [log EXCEPT ![loc[p].ent] =
              [log[loc[p].ent] EXCEPT !.fate = "delivered",
                                      !.got = loc[p].msg]]
        /\ slot' = [slot EXCEPT ![I(p)] =
                      [slot[I(p)] EXCEPT !.seq = loc[p].pos + Capacity]]
    BY <1>5, <1>g DEF DeqRecycle, Store
  <2>2. loc[p].ent \in DOMAIN log /\ log[loc[p].ent].fate = "taken"
    BY <2>1 DEF Ordered, Lined, Calls, CallOK, Owns, Reading
  <2>3. \A n \in DOMAIN log : log[n].fate = "ready" =>
           n \in DOMAIN log' /\ log'[n].fate = "ready"
    BY <1>0, <2>1, <2>2 DEF HistoryOK
  <2>4. \A i \in Slots : slot'[i].ovf = slot[i].ovf
    BY <1>0, <2>1 DEF WordsOK, SlotWords
  <2> QED BY <2>1, <2>3, <2>4, UseLabels, AwayLedger
<1> QED BY <1>1, <1>2, <1>3, <1>4, <1>5

\* The consumer that finds the message expired: Due leaves it no page.
LEMMA ExpireLedger ==
  ASSUME IInv, TypeOK, Ordered, Contents, Ledger, NEW p \in Procs,
         \/ DeqExpiry(p) \/ DeqExpire(p) \/ DeqExpirePid(p)
         \/ DeqExpireTicket(p) \/ DeqExpireLoad(p)
         \/ DeqExpireClaim(p) \/ DeqExpireFree(p)
  PROVE  Ledger'
<1> USE DEF ghost, slab
<1>0. /\ loc[p] \in Locals /\ slot[I(p)] \in SlotWords /\ WordsOK
      /\ ContentOK(p) /\ I(p) \in Slots /\ HistoryOK
  BY IndexOK DEF TypeOK, Contents
<1>1. CASE DeqExpiry(p)
  <2>1. /\ pc[p] = "d_exp" /\ pc'[p] \in {"d_pid", "t_seq"} /\ Others(p)
        /\ free' = free /\ log' = log /\ slot' = slot /\ loc' = loc
    BY <1>0, <1>1, GotoPc DEF DeqExpiry, Others
  <2> QED BY <2>1, UseLabels, AlongLedger
<1>2. CASE DeqExpire(p)
  <2>1. /\ pc[p] = "t_seq" /\ pc'[p] = "t_pid" /\ Others(p) /\ loc' = loc
        /\ free' = free /\ Fate(loc[p].ent, "expired")
        /\ slot' = [slot EXCEPT ![I(p)] =
                      [slot[I(p)] EXCEPT !.seq = loc[p].pos + Capacity]]
    BY <1>0, <1>2, GotoPc DEF DeqExpire, Store, Others
  <2>2. loc[p].ent \in DOMAIN log /\ log[loc[p].ent].fate = "taken"
    BY <2>1 DEF Ordered, Lined, Calls, CallOK, Owns, Reading
  <2>3. \A n \in DOMAIN log : log[n].fate = "ready" =>
           n \in DOMAIN log' /\ log'[n].fate = "ready"
    BY <1>0, <2>1, <2>2, FateKeeps
  <2>4. \A i \in Slots : slot'[i].ovf = slot[i].ovf
    BY <1>0, <2>1 DEF WordsOK, SlotWords
  <2>5. slot[I(p)].ovf = None
    BY <1>0, <2>1 DEF ContentOK, Dropping, Contents, Inline
  <2>6. PageCalm(p)
    BY <2>1, <2>3, <2>4, <2>5, UseLabels DEF PageCalm, Carries, Wanted
  <2> QED BY <2>6, CalmLedger
<1>3. CASE DeqExpirePid(p)
  <2>1. [slot[I(p)] EXCEPT !.pid = None].ovf = slot[I(p)].ovf
    BY <1>0 DEF SlotWords
  <2>2. /\ Store(p, "t_pid", [slot[I(p)] EXCEPT !.pid = None], "t_ticket")
        /\ UNCHANGED ghost
    BY <1>3 DEF DeqExpirePid, StoreOwnerPid
  <2>3. "t_pid" \notin InUse \cup Carrying BY UseLabels
  <2> QED BY <2>1, <2>2, <2>3, StoreLedger
<1>4. CASE DeqExpireTicket(p)
  <2>1. [slot[I(p)] EXCEPT !.ticket = 0].ovf = slot[I(p)].ovf
    BY <1>0 DEF SlotWords
  <2>2. /\ Store(p, "t_ticket", [slot[I(p)] EXCEPT !.ticket = 0], "t_ovf")
        /\ UNCHANGED ghost
    BY <1>4 DEF DeqExpireTicket, StoreOwnerTicket
  <2>3. "t_ticket" \notin InUse \cup Carrying BY UseLabels
  <2> QED BY <2>1, <2>2, <2>3, StoreLedger
<1>5. CASE DeqExpireLoad(p)
  <2>1. /\ pc[p] = "t_ovf" /\ (Goto(p, "t_claim") \/ Goto(p, "d_pos"))
        /\ \E e : loc' = [loc EXCEPT ![p] = e]
        /\ free' = free /\ log' = log /\ slot' = slot
    BY <1>5 DEF DeqExpireLoad, LoadOverflow
  <2> QED BY <2>1, UseLabels, OutsideLedger
<1>6. CASE DeqExpireClaim(p) \/ DeqExpireFree(p)
  <2>1. pc[p] \in {"t_claim", "t_free"}
    BY <1>6 DEF DeqExpireClaim, DeqExpireFree, ClaimOverflow, FreePage
  <2> QED BY <1>0, <2>1 DEF ContentOK
<1> QED BY <1>1, <1>2, <1>3, <1>4, <1>5, <1>6

LEMMA DequeueLedger ==
  ASSUME IInv, TypeOK, Ordered, Contents, Sound, Ledger, NEW p \in Procs,
         Dequeue(p)
  PROVE  Ledger'
<1> USE DEF ghost, slab
<1>0. /\ loc[p] \in Locals /\ slot[I(p)] \in SlotWords /\ WordsOK
      /\ I(p) \in Slots /\ HistoryOK
  BY IndexOK DEF TypeOK
<1>g. ASSUME NEW l, Goto(p, l),
             loc' = loc \/ \E e : loc' = [loc EXCEPT ![p] = e]
      PROVE  pc'[p] = l /\ Others(p)
  <2>1. \A q \in Procs \ {p} : loc'[q] = loc[q]
    BY <1>0, <1>g DEF WordsOK
  <2> QED BY <1>0, <1>g, <2>1, GotoPc DEF Others
<1>r. Return(p) => pc'[p] = "idle" /\ Others(p) BY <1>g DEF Return
<1>1. CASE DeqLoadPos(p)
  BY <1>1, UseLabels, OutsideLedger DEF DeqLoadPos
<1>2. CASE DeqLoadGen(p)
  BY <1>2, UseLabels, OutsideLedger DEF DeqLoadGen
<1>3. CASE DeqLoadSeq(p)
  <2>1. /\ Goto(p, "d_owner") \/ Goto(p, "d_skip") \/ Goto(p, "d_cas")
        /\ loc' = loc /\ free' = free /\ log' = log /\ slot' = slot
        /\ pc[p] = "d_seq"
    BY <1>3 DEF DeqLoadSeq
  <2> QED BY <2>1, UseLabels, OutsideLedger
<1>4. CASE DeqLoadOwnerPid(p)
  <2>1. /\ Goto(p, "idle") \/ Goto(p, "d_dead")
        /\ \E e : loc' = [loc EXCEPT ![p] = e]
        /\ free' = free /\ log' = log /\ slot' = slot /\ pc[p] = "d_owner"
    BY <1>4 DEF DeqLoadOwnerPid, LoadOwnerPid, Return
  <2> QED BY <2>1, UseLabels, OutsideLedger
<1>5. CASE DeqCheckDead(p)
  <2>1. /\ Goto(p, "idle") \/ Goto(p, "r_cas")
        /\ loc' = loc \/ \E e : loc' = [loc EXCEPT ![p] = e]
        /\ free' = free /\ log' = log /\ slot' = slot /\ pc[p] = "d_dead"
    BY <1>5 DEF DeqCheckDead, CheckDead, Return
  <2> QED BY <2>1, UseLabels, OutsideLedger
<1>6. CASE DeqSkip(p)
  BY <1>6, UseLabels, OutsideLedger DEF DeqSkip
<1>7. CASE DeqClaim(p)
  <2>1. CASE deq # loc[p].pos
    <3>1. /\ Goto(p, "d_pos") /\ loc' = loc /\ free' = free /\ log' = log
          /\ slot' = slot /\ pc[p] = "d_cas"
      BY <1>7, <2>1 DEF DeqClaim
    <3> QED BY <3>1, UseLabels, OutsideLedger
  <2>2. CASE deq = loc[p].pos
    <3> DEFINE n == Taken(deq)
    <3>1. /\ pc[p] = "d_cas" /\ pc'[p] = "d_fence" /\ Fate(n, "taken")
          /\ loc' = [loc EXCEPT ![p].ent = n] /\ Others(p)
          /\ slot' = slot /\ free' = free
      BY <1>7, <1>g, <2>2 DEF DeqClaim
    <3>2. n \in DOMAIN log /\ Ticket(n) = deq
      BY <2>2, <3>1, HeadReady DEF Ordered
    <3> HIDE DEF n
    <3>3. /\ DOMAIN log' = DOMAIN log
          /\ \A k \in DOMAIN log : k # n => log'[k] = log[k]
      BY <1>0, <3>1, <3>2, FateKeeps
    <3>4. I(p)' = I(p) BY <1>0, <3>1 DEF WordsOK, Locals, I
    <3>5. Lap(Ticket(n)) = I(p) BY <2>2, <3>2 DEF Lap, I
    <3>6. \A i : i = I(p) => Used(i)'
      BY <3>1, <3>4, UseLabels DEF Used
    <3>7. ASSUME NEW k \in DOMAIN log, k = n
          PROVE  Used(Lap(Ticket(k)))'
      <4>1. Lap(Ticket(k)) = I(p) BY <3>5, <3>7
      <4> QED BY <3>6, <4>1
    <3>8. PageCalm(p)
      BY <3>1, <3>3, <3>7, UseLabels DEF PageCalm, Carries, Wanted
    <3> QED BY <3>8, CalmLedger
  <2> QED BY <2>1, <2>2
<1>8. CASE DeqFence(p)
  <2>1. pc[p] = "d_fence" /\ gen = loc[p].gen
    BY <1>8, SampledLabels
    DEF DeqFence, DeqPcs, Reading, Sound, SoundCall
  <2>2. /\ pc'[p] = "d_exp" /\ Others(p) /\ free' = free /\ log' = log
        /\ slot' = slot /\ loc' = loc
    BY <1>8, <1>g, <2>1 DEF DeqFence
  <2> QED BY <2>1, <2>2, UseLabels, AlongLedger
<1>9. CASE \/ DeqExpiry(p) \/ DeqExpire(p) \/ DeqExpirePid(p)
           \/ DeqExpireTicket(p) \/ DeqExpireLoad(p) \/ DeqExpireClaim(p)
           \/ DeqExpireFree(p)
  BY <1>9, ExpireLedger
<1>10. ASSUME NEW at, NEW new, NEW l, Store(p, at, new, l), UNCHANGED ghost,
              new.ovf = slot[I(p)].ovf, at \in InUse,
              l \in InUse \ {"d_claim"}
       PROVE  Ledger'
  <2>1. pc[p] = at /\ pc'[p] = l /\ Others(p) /\ loc' = loc /\ log' = log
        /\ free' = free
    BY <1>10, <1>g DEF Store
  <2>2. \A i \in Slots : slot'[i].ovf = slot[i].ovf
    BY <1>0, <1>10 DEF Store, WordsOK
  <2> QED BY <1>10, <2>1, <2>2, AlongLedger
<1>s. \A v : LET s == slot[I(p)] IN
             /\ [s EXCEPT !.pid = v].ovf = s.ovf
             /\ [s EXCEPT !.ticket = v].ovf = s.ovf
             /\ [s EXCEPT !.start = v].ovf = s.ovf
  BY <1>0 DEF SlotWords
<1>11. CASE DeqOwnerPid(p)
  <2>1. /\ Store(p, "d_pid", [slot[I(p)] EXCEPT !.pid = p], "d_ticket")
        /\ UNCHANGED ghost
    BY <1>11 DEF DeqOwnerPid, StoreOwnerPid
  <2>2. "d_pid" \in InUse /\ "d_ticket" \in InUse \ {"d_claim"}
    BY UseLabels
  <2>3. [slot[I(p)] EXCEPT !.pid = p].ovf = slot[I(p)].ovf BY <1>s
  <2> QED BY <1>10, <2>1, <2>2, <2>3
<1>12. CASE DeqOwnerTicket(p)
  <2>1. /\ Store(p, "d_ticket", [slot[I(p)] EXCEPT !.ticket = loc[p].pos],
                 "d_start")
        /\ UNCHANGED ghost
    BY <1>12 DEF DeqOwnerTicket, StoreOwnerTicket
  <2>2. "d_ticket" \in InUse /\ "d_start" \in InUse \ {"d_claim"}
    BY UseLabels
  <2>3. [slot[I(p)] EXCEPT !.ticket = loc[p].pos].ovf = slot[I(p)].ovf BY <1>s
  <2> QED BY <1>10, <2>1, <2>2, <2>3
<1>13. CASE DeqOwnerStart(p)
  <2>1. /\ Store(p, "d_start", [slot[I(p)] EXCEPT !.start = StartTime[p]],
                 "d_ovf")
        /\ UNCHANGED ghost
    BY <1>13 DEF DeqOwnerStart, StoreOwnerStart
  <2>2. "d_start" \in InUse /\ "d_ovf" \in InUse \ {"d_claim"}
    BY UseLabels
  <2>3. [slot[I(p)] EXCEPT !.start = StartTime[p]].ovf = slot[I(p)].ovf BY <1>s
  <2> QED BY <1>10, <2>1, <2>2, <2>3
<1>14. CASE \/ DeqLoadOverflow(p) \/ DeqCopy(p) \/ DeqClaimOverflow(p)
            \/ DeqFree(p) \/ DeqRecycle(p)
  BY <1>14, ConsumeLedger
<1>15. CASE DeqClearPid(p)
  <2>1. /\ Store(p, "y_pid", [slot[I(p)] EXCEPT !.pid = None], "y_ticket")
        /\ UNCHANGED ghost
    BY <1>15 DEF DeqClearPid, StoreOwnerPid
  <2>2. "y_pid" \notin InUse \cup Carrying BY UseLabels
  <2>3. [slot[I(p)] EXCEPT !.pid = None].ovf = slot[I(p)].ovf BY <1>s
  <2> QED BY <2>1, <2>2, <2>3, StoreLedger
<1>16. CASE DeqClearTicket(p)
  <2>1. /\ pc[p] = "y_ticket" /\ pc'[p] = "idle" /\ Others(p)
        /\ free' = free /\ log' = log
        /\ slot' = [slot EXCEPT ![I(p)] = [slot[I(p)] EXCEPT !.ticket = 0]]
    BY <1>16, <1>r DEF DeqClearTicket, ClearTicketReturn
  <2>2. \A i \in Slots : slot'[i].ovf = slot[i].ovf
    BY <1>0, <1>s, <2>1 DEF WordsOK
  <2> QED BY <2>1, <2>2, UseLabels, AwayLedger
<1> QED
  BY <1>1, <1>2, <1>3, <1>4, <1>5, <1>6, <1>7, <1>8, <1>9, <1>11, <1>12,
     <1>13, <1>14, <1>15, <1>16
  DEF Dequeue

LEMMA InitLedger == Init => Ledger
<1> SUFFICES ASSUME Init PROVE Ledger OBVIOUS
<1>1. \A p \in Procs : pc[p] = "idle" BY DEF Init
<1>2. \A i \in Slots : slot[i].ovf = None BY DEF Init
<1>3. free = Pages BY DEF Init
<1> QED BY <1>1, <1>2, <1>3 DEF Ledger, NoPageLeak, NoStray, Wanted

LEMMA StepLedger == AtRest /\ Ledger /\ [Next]_vars => Ledger'
<1> SUFFICES ASSUME AtRest, Ledger, [Next]_vars PROVE Ledger'
  OBVIOUS
<1>0. IInv /\ TypeOK /\ Sound /\ Ordered /\ Contents
  BY DEF AtRest, IInv, Tokens, TypeOK
<1>1. ASSUME NEW p \in Senders, Enqueue(p) PROVE Ledger'
  BY <1>0, <1>1, EnqueueLedger DEF Procs
<1>2. ASSUME NEW p \in Receivers, Dequeue(p) PROVE Ledger'
  BY <1>0, <1>2, DequeueLedger DEF Procs
<1>3. ASSUME NEW p \in Procs, Repair(p) PROVE FALSE
  BY <1>0, <1>3, NoRepair
<1>4. CASE UNCHANGED vars
  BY <1>4 DEF Ledger, NoPageLeak, NoStray, Used, Wanted, Carries, I, vars
<1> QED BY <1>1, <1>2, <1>3, <1>4 DEF Next

\* A page that left the slab is in a slot or in a call's hands until it comes
\* back: under the assumptions above no interleaving of try_enqueue and
\* try_dequeue overwrites an offset nobody has taken out.
THEOREM PagesNotLost == SameStart /\ Due => (Spec => []NoPageLeak)
<1> SUFFICES ASSUME SameStart, Due PROVE Spec => []NoPageLeak OBVIOUS
<1>1. Init => AtRest /\ Ledger BY InitSettled, InitLedger
<1>2. AtRest /\ Ledger /\ [Next]_vars => (AtRest /\ Ledger)'
  BY StepSettled, StepLedger DEF AtRest
<1>3. Ledger => NoPageLeak BY DEF Ledger
<1> QED BY <1>1, <1>2, <1>3, PTL DEF Spec
=============================================================================
