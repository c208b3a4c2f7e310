-------------------------- MODULE RingFlushProofs --------------------------
(***************************************************************************)
(* Types under flushes and re-creations, and how long the generation fence *)
(* catches a call that began before a flush.                               *)
(*                                                                         *)
(* A flush breaks the page tokens (NoDoubleFree): it wipes the slab under  *)
(* a call that carries a page.  What survives is the half of the token     *)
(* argument about labels: no call ever releases a page it does not have.   *)
(***************************************************************************)
EXTENDS RingFlush, RingProofs

ColdOK ==
    /\ cold \in [op : {"none", "flush", "init"}, i : Slots,
                 at : {"idle", "enq", "deq", "gen", "seq", "owner", "payload",
                       "index", "slab"}]
    /\ live \in BOOLEAN /\ inits \in 0 .. MaxInits
    /\ epoch \in 0 .. MaxFlushes
    /\ ep \in [Procs -> [flush : 0 .. MaxFlushes, init : 0 .. MaxInits]]
    /\ cold.op = "init" /\ cold.at \in {"enq", "deq", "gen"} => inits < MaxInits

\* The inductive invariant for types.
FInv == Tokens /\ HistoryOK /\ ColdOK

-----------------------------------------------------------------------------
(* The hot path.                                                           *)

LEMMA HotWords ==
  ASSUME FInv, NEW p \in Procs, Hot(p)
  PROVE  FInv'
<1>1. Tokens /\ HistoryOK /\ TypeOK BY DEF FInv, Tokens, TypeOK
<1>2. Tokens' /\ HistoryOK'
  BY <1>1, EnqueueTokens, EnqueueHistory, DequeueTokens, DequeueHistory,
     RepairTokens, RepairHistory, FencedTokens, FencedHistory DEF Hot, Kept
<1>3. [flush |-> epoch, init |-> inits]
         \in [flush : 0 .. MaxFlushes, init : 0 .. MaxInits]
  BY DEF FInv, ColdOK
<1>4. ColdOK' BY <1>3 DEF FInv, ColdOK, Hot
<1> QED BY <1>2, <1>4 DEF FInv

-----------------------------------------------------------------------------
(* The cold path.                                                          *)

\* A step of the cold path changes no label and no local.
LEMMA ColdKeepsCalls == Cold => UNCHANGED hot
  BY DEF Cold, FlushBegin, InitBegin, WipeEnq, WipeDeq, InitGen, WipeSeq,
         WipeOwner, WipePayload, Unlink, WipeSlab, Link

LEMMA ColdSlots ==
  ASSUME FInv, Cold
  PROVE  slot' \in [Slots -> SlotWords]
<1>0. slot \in [Slots -> SlotWords] /\ cold.i \in Slots
      /\ slot[cold.i] \in SlotWords /\ cold.i \in Nat
  BY DEF FInv, Tokens, WordsOK, ColdOK, Slots
<1>1. CASE WipeSeq
  <2>1. [slot[cold.i] EXCEPT !.seq = cold.i] \in SlotWords
    BY <1>0 DEF SlotWords
  <2> QED BY <1>0, <1>1, <2>1 DEF WipeSeq
<1>2. CASE WipeOwner
  <2>1. [slot[cold.i] EXCEPT !.pid = None, !.ticket = 0, !.start = 0]
           \in SlotWords
    BY <1>0 DEF SlotWords
  <2> QED BY <1>0, <1>2, <2>1 DEF WipeOwner
<1>3. CASE WipePayload
  <2>1. [slot[cold.i] EXCEPT !.body = None, !.ovf = None] \in SlotWords
    BY <1>0 DEF SlotWords
  <2> QED BY <1>0, <1>3, <2>1 DEF WipePayload
<1>4. ASSUME ~WipeSeq, ~WipeOwner, ~WipePayload PROVE slot' = slot
  BY <1>4 DEF Cold, FlushBegin, InitBegin, WipeEnq, WipeDeq, InitGen, Unlink,
              WipeSlab, Link
<1> QED BY <1>0, <1>1, <1>2, <1>3, <1>4

LEMMA ColdWords ==
  ASSUME FInv, Cold
  PROVE  (Tokens /\ HistoryOK)'
<1>1. enq' \in Nat /\ deq' \in Nat /\ gen' \in Nat
  BY DEF FInv, Tokens, WordsOK, positions, Cold, FlushBegin, InitBegin,
         WipeEnq, WipeDeq, InitGen, WipeSeq, WipeOwner, WipePayload, Unlink,
         WipeSlab, Link
<1>2. free' \subseteq Pages /\ page' = page
  BY DEF FInv, Tokens, WordsOK, slab, Cold, FlushBegin, InitBegin, WipeEnq,
         WipeDeq, InitGen, WipeSeq, WipeOwner, WipePayload, Unlink, WipeSlab,
         Link
<1>3. UNCHANGED <<pc, loc, sends>> BY ColdKeepsCalls DEF hot
<1>4. Tokens'
  BY <1>1, <1>2, <1>3, ColdSlots DEF FInv, Tokens, WordsOK, KnownPages, Known
<1>5. log' = log
  BY DEF Cold, FlushBegin, InitBegin, WipeEnq, WipeDeq, InitGen, WipeSeq,
         WipeOwner, WipePayload, Unlink, WipeSlab, Link
<1>6. Len(log) \in Nat BY DEF FInv, HistoryOK
<1>7. base' \in [enq : Int, deq : Int]
  BY <1>6 DEF FInv, HistoryOK, Cold, FlushBegin, InitBegin, WipeEnq, WipeDeq,
         InitGen, WipeSeq, WipeOwner, WipePayload, Unlink, WipeSlab, Link
<1> QED BY <1>4, <1>5, <1>7 DEF FInv, HistoryOK

LEMMA ColdDesk ==
  ASSUME FInv, Cold
  PROVE  ColdOK'
<1> USE FlushAssumption, CapacityAssumption DEF ColdOK, ColdGoto, At, hot
<1>0. ColdOK /\ ep' = ep /\ 0 \in Slots
  BY ColdKeepsCalls DEF FInv, Slots
<1>1. CASE FlushBegin BY <1>0, <1>1 DEF FlushBegin
<1>2. CASE InitBegin BY <1>0, <1>2 DEF InitBegin
<1>3. CASE WipeEnq BY <1>0, <1>3 DEF WipeEnq
<1>4. CASE WipeDeq BY <1>0, <1>4 DEF WipeDeq
<1>5. CASE InitGen BY <1>0, <1>5 DEF InitGen
<1>6. CASE WipeSeq BY <1>0, <1>6 DEF WipeSeq
<1>7. CASE WipeOwner BY <1>0, <1>7 DEF WipeOwner
<1>8. CASE WipePayload
  <2>1. cold.i + 1 < Capacity => cold.i + 1 \in Slots
    BY <1>0 DEF Slots
  <2> QED BY <1>0, <1>8, <2>1 DEF WipePayload
<1>9. CASE Unlink BY <1>0, <1>9 DEF Unlink
<1>10. CASE WipeSlab BY <1>0, <1>10 DEF WipeSlab, Free
<1>11. CASE Link BY <1>0, <1>11 DEF Link, Free
<1> QED BY <1>1, <1>2, <1>3, <1>4, <1>5, <1>6, <1>7, <1>8, <1>9, <1>10,
           <1>11 DEF Cold

LEMMA FInitHolds == FInit => FInv
<1> SUFFICES ASSUME FInit PROVE FInv OBVIOUS
<1>1. Tokens /\ HistoryOK BY InitHolds DEF FInit, IInv
<1>2. 0 \in Slots BY CapacityAssumption DEF Slots
<1>3. [flush |-> 0, init |-> 0]
         \in [flush : 0 .. MaxFlushes, init : 0 .. MaxInits]
  BY FlushAssumption
<1>4. ColdOK BY <1>2, <1>3, FlushAssumption DEF FInit, ColdOK
<1> QED BY <1>1, <1>4 DEF FInv

LEMMA FStepHolds == FInv /\ [FNext]_fvars => FInv'
<1> SUFFICES ASSUME FInv, [FNext]_fvars PROVE FInv' OBVIOUS
<1>1. CASE Cold BY <1>1, ColdWords, ColdDesk DEF FInv
<1>2. ASSUME NEW p \in Procs, Hot(p) PROVE FInv' BY <1>2, HotWords
<1>3. CASE UNCHANGED fvars
  BY <1>3 DEF FInv, Tokens, WordsOK, HistoryOK, KnownPages, Known, ColdOK,
              vars, fvars
<1> QED BY <1>1, <1>2, <1>3 DEF FNext

LEMMA FInvariance == FSpec => []FInv
<1>1. FInit => FInv BY FInitHolds
<1>2. FInv /\ [FNext]_fvars => FInv' BY FStepHolds
<1> QED BY <1>1, <1>2, PTL DEF FSpec

\* Type correctness under any number of flushes and re-creations racing the
\* calls: in particular FreePage always gives back a page of the slab, never
\* the absence of one (flush, try_enqueue, try_dequeue, recover_slot).
THEOREM FlushTypeCorrect == FSpec => []FTypeOK
<1>1. FInv => FTypeOK
  BY DEF FInv, Tokens, ColdOK, FTypeOK, TypeOK
<1> QED BY <1>1, FInvariance, PTL

-----------------------------------------------------------------------------
(* The fence.                                                              *)

\* Since a call sampled the generation, and unless the ring has been created
\* again, the generation has moved as often as a flush has begun.
CountsOf(p) ==
    /\ ep[p].init <= inits
    /\ pc[p] \in Sampled /\ ep[p].init = inits =>
           gen - loc[p].gen = epoch - ep[p].flush
Counts == \A p \in Procs : CountsOf(p)

LEMMA HotSteady ==
  ASSUME WordsOK, NEW p \in Procs, Hot(p)
  PROVE  Steady(p)
  BY RepairSteady, EnqueueSteady, DequeueSteady, FencedSteady DEF Hot

LEMMA HotCounts ==
  ASSUME FInv, Counts, NEW p \in Procs, Hot(p)
  PROVE  Counts'
<1> DEFINE now == [flush |-> epoch, init |-> inits]
<1>1. Steady(p) BY HotSteady DEF FInv, Tokens
<1>2. epoch' = epoch /\ inits' = inits BY DEF Hot
<1>3. \A q \in Procs \ {p} : ep'[q] = ep[q] BY DEF FInv, ColdOK, Hot
<1>4. ep'[p] = IF pc[p] \in {"idle", "d_gen"} THEN now ELSE ep[p]
  BY DEF FInv, ColdOK, Hot
<1>5. gen' = gen /\ gen \in Nat /\ epoch \in Nat /\ inits \in Nat
  BY <1>1 DEF Steady, FInv, Tokens, WordsOK, ColdOK
<1>6. \A q \in Procs \ {p} : CountsOf(q)'
  BY <1>1, <1>2, <1>3, <1>5 DEF Steady, Counts, CountsOf
<1>7. CASE pc[p] \in {"idle", "d_gen"}
  <2>1. ep'[p] = now BY <1>4, <1>7
  <2>2. now.flush = epoch /\ now.init = inits OBVIOUS
  <2>3. pc'[p] \in Sampled => loc'[p].gen = gen
    BY <1>1, <1>7 DEF Steady, Sampled
  <2> HIDE DEF now
  <2> QED BY <1>2, <1>5, <1>6, <2>1, <2>2, <2>3 DEF Counts, CountsOf
<1>8. CASE pc[p] \notin {"idle", "d_gen"}
  <2>1. ep'[p] = ep[p] BY <1>4, <1>8
  <2>2. pc'[p] \in Sampled => pc[p] \in Sampled /\ loc'[p].gen = loc[p].gen
    BY <1>1, <1>8 DEF Steady, Sampled
  <2> QED BY <1>2, <1>5, <1>6, <2>1, <2>2 DEF Counts, CountsOf
<1> QED BY <1>7, <1>8

\* A flush moves both counters by one; a re-creation only the number of
\* re-creations, after which no sample is bound any more.
LEMMA ColdCounts ==
  ASSUME FInv, Counts, Cold
  PROVE  Counts'
<1>1. UNCHANGED <<pc, loc, ep>> BY ColdKeepsCalls DEF hot
<1>2. /\ gen \in Nat /\ epoch \in Nat /\ inits \in Nat
      /\ \A p \in Procs : ep[p].flush \in Nat /\ ep[p].init \in Nat
      /\ \A p \in Procs : loc[p].gen \in Nat
  BY DEF FInv, Tokens, WordsOK, Locals, ColdOK
<1>3. CASE InitGen
  <2>1. inits' = inits + 1 BY <1>3 DEF InitGen
  <2> QED BY <1>1, <1>2, <2>1 DEF Counts, CountsOf
<1>4. CASE FlushBegin
  <2>1. gen' = gen + 1 /\ epoch' = epoch + 1 /\ inits' = inits
    BY <1>4 DEF FlushBegin
  <2> QED BY <1>1, <1>2, <2>1 DEF Counts, CountsOf
<1>5. ASSUME ~InitGen, ~FlushBegin PROVE UNCHANGED <<gen, epoch, inits>>
  BY <1>5
  DEF Cold, InitBegin, WipeEnq, WipeDeq, WipeSeq, WipeOwner, WipePayload,
      Unlink, WipeSlab, Link
<1> QED BY <1>1, <1>3, <1>4, <1>5 DEF Counts, CountsOf

\* The two tests of the generation are the only ways past the fence.
LEMMA PastFence ==
  ASSUME WordsOK, NEW p \in Procs, Hot(p), Passes(p)
  PROVE  gen = loc[p].gen
<1> USE DEF Passes
<1>1. ~Repair(p) /\ ~Fenced(p)
  BY DEF Fenced, EnqDrop, EnqRetract, DeqFenced, DeqFencedPid,
         DeqFencedTicket, StoreOwnerPid, ClearTicketReturn, Repair, RecoverClaim, RecoverTicket, RecoverSeq, RepairLoadOverflow,
         RepairClaimOverflow, RepairFree, RepairSeq, RepairClearOwner,
         RepairClearTicket, LoadOverflow, ClaimOverflow, FreePage,
         StoreOwnerTicket, Store
<1>2. ASSUME Enqueue(p) PROVE EnqFence(p)
  BY <1>2
  DEF Enqueue, EnqStart, EnqLoadPos, EnqLoadSeq, EnqLoadOwnerPid,
      EnqCheckDead, EnqClaim, EnqOwnerPid, EnqOwnerTicket, EnqOwnerStart,
      EnqAlloc, EnqExhausted, EnqTombstone, EnqTombstonePid,
      EnqTombstoneTicket, EnqPayload, EnqOverflow, EnqPublish,
      EnqClearPid, EnqClearTicket, EnqLastFence, LoadOwnerPid,
      CheckDead, StoreOwnerPid, StoreOwnerTicket, StoreOwnerStart,
      ClearTicketReturn, Store
<1>3. ASSUME Dequeue(p) PROVE DeqFence(p)
  BY <1>3
  DEF Dequeue, DeqLoadPos, DeqLoadGen, DeqLoadSeq, DeqLoadOwnerPid,
      DeqCheckDead, DeqSkip, DeqClaim, DeqExpiry, DeqExpire, DeqExpirePid, DeqExpireTicket,
      DeqExpireLoad, DeqExpireClaim, DeqExpireFree, DeqOwnerPid,
      DeqOwnerTicket, DeqOwnerStart, DeqLoadOverflow, DeqCopy,
      DeqClaimOverflow, DeqFree, DeqRecycle, DeqClearPid, DeqClearTicket,
      LoadOwnerPid, CheckDead, StoreOwnerPid, StoreOwnerTicket,
      StoreOwnerStart, ClearTicketReturn, LoadOverflow, ClaimOverflow,
      FreePage, Store
<1>4. CASE EnqFence(p)
  <2>1. Goto(p, IF gen # loc[p].gen THEN "e_drop" ELSE "e_pub")
        /\ pc[p] = "e_gen"
    BY <1>4 DEF EnqFence
  <2> QED BY <2>1, GotoPc
<1>5. CASE DeqFence(p)
  <2>1. Goto(p, IF gen # loc[p].gen THEN "f_seq" ELSE "d_exp")
        /\ pc[p] = "d_fence"
    BY <1>5 DEF DeqFence
  <2> QED BY <2>1, GotoPc
<1> QED BY <1>1, <1>2, <1>3, <1>4, <1>5 DEF Hot

LEMMA FenceStep ==
  ASSUME FInv, Counts, [FNext]_fvars
  PROVE  \A p \in Procs :
            Passes(p) => ep[p].flush = epoch \/ ep[p].init # inits
<1> SUFFICES ASSUME NEW p \in Procs, Passes(p), ep[p].init = inits
             PROVE  ep[p].flush = epoch
  OBVIOUS
<1>0. WordsOK BY DEF FInv, Tokens
<1>1. pc[p] \in Sampled
  BY SampledLabels DEF EnqPcs, DeqPcs, Writing, Reading, Passes
<1>2. ~Cold /\ ~UNCHANGED fvars
  <2>1. pc' # pc BY DEF Passes
  <2> QED BY <2>1, ColdKeepsCalls DEF hot, fvars, vars
<1>3. PICK q \in Procs : Hot(q) BY <1>2 DEF FNext
<1>4. Steady(q) BY <1>0, <1>3, HotSteady
<1>5. q = p BY <1>4 DEF Steady, Passes
<1>6. gen = loc[p].gen BY <1>0, <1>3, <1>5, PastFence
<1>7. gen - loc[p].gen = epoch - ep[p].flush BY <1>1 DEF Counts, CountsOf
<1>8. gen \in Nat /\ epoch \in Nat /\ ep[p].flush \in Nat
  BY <1>0 DEF FInv, WordsOK, ColdOK
<1> QED BY <1>6, <1>7, <1>8

LEMMA CountsStart == FInit => Counts
  BY FlushAssumption DEF FInit, Init, Counts, CountsOf, Sampled

LEMMA CountsStep == FInv /\ Counts /\ [FNext]_fvars => Counts'
<1> SUFFICES ASSUME FInv, Counts, [FNext]_fvars PROVE Counts' OBVIOUS
<1>1. CASE Cold BY <1>1, ColdCounts
<1>2. ASSUME NEW p \in Procs, Hot(p) PROVE Counts' BY <1>2, HotCounts
<1>3. CASE UNCHANGED fvars BY <1>3 DEF Counts, CountsOf, fvars, vars
<1> QED BY <1>1, <1>2, <1>3 DEF FNext

\* The generation fence of try_enqueue and try_dequeue: whatever the number of
\* flushes, of re-creations and of processes, a call that sampled the
\* generation before a flush gets past it only if Ring::init has started the
\* generation over in the meantime.  Run flush_again shows that it then does.
THEOREM FenceHolds == FSpec => FenceUntilInit
<1>1. FInit => Counts BY CountsStart
<1>2. FInv /\ Counts /\ [FNext]_fvars => Counts' BY CountsStep
<1>3. FInv /\ Counts /\ [FNext]_fvars =>
         [\A p \in Procs :
             Passes(p) => ep[p].flush = epoch \/ ep[p].init # inits]_fvars
  BY FenceStep
<1> QED BY <1>1, <1>2, <1>3, FInvariance, PTL DEF FSpec, FenceUntilInit
=============================================================================
