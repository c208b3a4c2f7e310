----------------------------- MODULE SlabProofs -----------------------------
(***************************************************************************)
(* The slab allocator for any number of processes, size classes, calls and *)
(* deaths: types; and, as long as what Apart names is kept apart, that a   *)
(* block has one owner, the free lists are whole, nothing is lost, and     *)
(* "out of memory" is the truth.                                           *)
(*                                                                         *)
(* A pile is a place for blocks: the callers, the hands of one call, the   *)
(* list of one class, what died with a process.  Every step moves blocks   *)
(* from one pile to another, but for the one that makes a block at the     *)
(* bump pointer and the one that starts all over.                          *)
(***************************************************************************)
EXTENDS Slab, TLAPS

----------------------------------------------------------------------------
(* Types, and what a call has in its locals at each label.                  *)

Data == DataStart .. PoolEnd
Spots == {0} \cup Data
Ops == {"none", "alloc", "free", "reset"}
Labels == Section \cup Reset \cup {"idle", "lock", "dead"}
Resting == {"idle", "dead"}
Allocating == {"head", "next", "pop", "bump", "grow"}
Freeing == {"fhead", "link", "push"}
Frames == [op : Ops, cold : BOOLEAN, cls : {0} \cup Classes,
           off : Spots, nxt : Spots]

\* The locals r suit the label at.
Suits(at, r) ==
    /\ r \in Frames
    /\ at \in Resting => r = Idle
    /\ at \notin Resting => r.cls \in Classes
    /\ at \in Reset => r.op = "reset"
    /\ at \in {"lock", "out"} => r.op \in {"alloc", "free"}
    /\ at = "lock" => ~r.cold
    /\ at \in Allocating => r.op = "alloc"
    /\ at \in Freeing => r.op = "free"
    /\ r.op = "free" => r.off # 0
    /\ at \in {"next", "pop", "grow"} => r.off # 0
    /\ at \in {"head", "bump"} => r.off = 0
    /\ at = "lock" /\ r.op = "alloc" => r.off = 0
    /\ at = "grow" => r.off + SizeClasses[r.cls] <= PoolEnd

Memory ==
    /\ lock \in [Classes -> {0, 1}]
    /\ head \in [Classes -> Spots]
    /\ link \in [Data -> Spots]
    /\ bump \in Spots
Books ==
    /\ flock \in Procs \cup {None}
    /\ calls \in 0 .. MaxCalls
    /\ live \subseteq Blocks /\ leaked \subseteq Blocks
    /\ list \in [Classes -> Seq(Data)]
    /\ orphans \subseteq Classes
Calls ==
    /\ pc \in [Procs -> Labels]
    /\ loc \in [Procs -> Frames]
    /\ \A p \in Procs : Suits(pc[p], loc[p])
TInv == Memory /\ Books /\ Calls

----------------------------------------------------------------------------
(* Types: what the constants give.                                          *)

LEMMA Constants ==
    /\ DataStart \in Nat /\ DataStart > 0 /\ PoolEnd \in Nat
    /\ Len(SizeClasses) \in Nat /\ 1 \in Classes
    /\ \A c \in Classes : c \in Nat /\ SizeClasses[c] \in Nat \ {0}
    /\ Spots \subseteq Offsets /\ Data \subseteq Nat /\ 0 \notin Data
    /\ Idle \in Frames /\ Len(SizeClasses) \in Classes
BY ClassesAssumption, PoolAssumption
   DEF DataStart, PoolEnd, Classes, Spots, Data, Offsets, Frames, Ops, Idle

LEMMA Typed == TInv => TypeOK
<1>0. Data \subseteq Offsets
  BY Constants DEF Spots
<1>1. \A s : s \in Seq(Data) => s \in Seq(Offsets)
  BY <1>0
<1>. QED
  BY <1>1, Constants DEF TInv, Memory, Books, Calls, TypeOK, Labels, Frames,
     Resting, Ops, Spots, Data

LEMMA TInvInit == Init => TInv
<1>. SUFFICES ASSUME Init PROVE TInv
  OBVIOUS
<1>1. Memory /\ Books
  BY Constants, PoolAssumption
     DEF Init, Memory, Books, Spots, Data
<1>2. Suits("idle", Idle)
  BY Constants DEF Suits, Idle, Resting, Reset, Allocating, Freeing
<1>3. Calls
  BY <1>2, Constants DEF Init, Calls, Labels
<1>. QED
  BY <1>1, <1>3 DEF TInv

\* A step of p alone: its label and its locals change.
LEMMA Turn ==
    ASSUME TInv, NEW p \in Procs, NEW at \in Labels, NEW r, Suits(at, r),
           pc' = [pc EXCEPT ![p] = at], loc' = [loc EXCEPT ![p] = r]
    PROVE  Calls'
<1>1. r \in Frames
  BY DEF Suits
<1>2. ASSUME NEW q \in Procs PROVE Suits(pc[q], loc[q])'
  <2>1. CASE q = p
    BY <2>1 DEF TInv, Calls
  <2>2. CASE q # p
    <3>1. pc'[q] = pc[q] /\ loc'[q] = loc[q]
      BY <2>2 DEF TInv, Calls
    <3>2. Suits(pc[q], loc[q])
      BY DEF TInv, Calls
    <3>. QED
      BY <3>1, <3>2
  <2>. QED
    BY <2>1, <2>2
<1>. QED
  BY <1>1, <1>2 DEF TInv, Calls

----------------------------------------------------------------------------
(* Types: the list without a block.                                         *)

LEMMA WithoutTyped ==
    ASSUME NEW s \in Seq(Data), NEW o PROVE Without(s, o) \in Seq(Data)
<1>1. CASE \E i \in DOMAIN s : s[i] = o
  <2>. DEFINE i == CHOOSE i \in DOMAIN s : s[i] = o
  <2>1. i \in 1 .. Len(s)
    BY <1>1
  <2>. HIDE DEF i
  <2>2. SubSeq(s, 1, i - 1) \in Seq(Data)
    BY <2>1
  <2>3. SubSeq(s, i + 1, Len(s)) \in Seq(Data)
    BY <2>1
  <2>4. Without(s, o) = SubSeq(s, 1, i - 1) \o SubSeq(s, i + 1, Len(s))
    BY <1>1 DEF Without, i
  <2>. QED
    BY <2>2, <2>3, <2>4
<1>2. CASE ~ \E i \in DOMAIN s : s[i] = o
  BY <1>2 DEF Without
<1>. QED
  BY <1>1, <1>2

----------------------------------------------------------------------------
(* Types: calls that begin, and the spinlock.                               *)

LEMMA BeginTyped ==
    ASSUME TInv, NEW p \in Procs, NEW cold \in BOOLEAN, NEW l, NEW at,
           Begin(p, cold, l, at), at \in Labels,
           Suits(IF cold THEN at ELSE "lock", l),
           live' \subseteq Blocks
    PROVE  TInv'
<1>1. Memory'
  BY DEF TInv, Memory, Begin, shared
<1>2. Books'
  BY PoolAssumption DEF TInv, Books, Begin, ghost
<1>3. (IF cold THEN at ELSE "lock") \in Labels
  BY DEF Labels
<1>4. Calls'
  BY <1>3, Turn DEF Begin, Goto
<1>. QED
  BY <1>1, <1>2, <1>4 DEF TInv

LEMMA AllocTyped ==
    ASSUME TInv, NEW p \in Procs, NEW size \in Sizes, NEW cold \in BOOLEAN,
           Alloc(p, size, cold)
    PROVE  TInv'
<1>1. PICK c \in Classes :
          /\ Begin(p, cold, [Idle EXCEPT !.op = "alloc", !.cold = cold,
                                         !.cls = c], "head")
          /\ UNCHANGED live
  BY DEF Alloc
<1>. DEFINE l == [Idle EXCEPT !.op = "alloc", !.cold = cold, !.cls = c]
<1>2. /\ l \in Frames /\ l.op = "alloc" /\ l.cold = cold /\ l.cls = c
      /\ l.off = 0
  BY Constants DEF Idle, Frames, Ops
<1>3. Suits(IF cold THEN "head" ELSE "lock", l)
  BY <1>2, Constants
     DEF Suits, Resting, Reset, Allocating, Freeing
<1>4. live' \subseteq Blocks
  BY <1>1 DEF TInv, Books
<1>. QED
  BY <1>1, <1>3, <1>4, BeginTyped DEF Labels, Section

LEMMA FreeTyped ==
    ASSUME TInv, NEW p \in Procs, NEW b \in live, NEW cold \in BOOLEAN,
           Free(p, b, cold)
    PROVE  TInv'
<1>. DEFINE l == [Idle EXCEPT !.op = "free", !.cold = cold, !.cls = b.cls,
                              !.off = b.off]
<1>1. b.cls \in Classes /\ b.off \in Data
  BY DEF TInv, Books, Blocks, Data
<1>2. /\ l \in Frames /\ l.op = "free" /\ l.cold = cold
      /\ l.cls = b.cls /\ l.off = b.off
  BY <1>1, Constants DEF Idle, Frames, Ops, Spots
<1>3. Suits(IF cold THEN "fhead" ELSE "lock", l)
  BY <1>1, <1>2, Constants
     DEF Suits, Resting, Reset, Allocating, Freeing
<1>4. live' \subseteq Blocks /\ Begin(p, cold, l, "fhead")
  BY DEF TInv, Books, Free
<1>. QED
  BY <1>3, <1>4, BeginTyped DEF Labels, Section

LEMMA ResetBeginTyped ==
    ASSUME TInv, NEW p \in Procs, ResetBegin(p) PROVE TInv'
<1>. DEFINE l == [Idle EXCEPT !.op = "reset", !.cls = 1]
<1>1. l \in Frames /\ l.op = "reset" /\ l.cls = 1
  BY Constants DEF Idle, Frames, Ops
<1>2. Suits("zero", l)
  BY <1>1, Constants
     DEF Suits, Resting, Reset, Allocating, Freeing
<1>3. live' \subseteq Blocks /\ Begin(p, TRUE, l, "zero")
  BY DEF TInv, Books, ResetBegin
<1>. QED
  BY <1>2, <1>3, BeginTyped DEF Labels, Reset

LEMMA LockTyped ==
    ASSUME TInv, NEW p \in Procs, Lock(p) PROVE TInv'
<1>. DEFINE at == IF loc[p].op = "alloc" THEN "head" ELSE "fhead"
<1>1. Suits("lock", loc[p]) /\ loc[p].cls \in Classes
  BY DEF Lock, TInv, Calls, Suits, Resting
<1>2. Suits(at, loc[p])
  BY <1>1 DEF Suits, Resting, Reset, Allocating, Freeing
<1>3. Memory'
  BY <1>1 DEF Lock, TInv, Memory
<1>4. Books'
  BY DEF Lock, TInv, Books, ghost
<1>5. at \in Labels /\ pc' = [pc EXCEPT ![p] = at]
  BY DEF Labels, Section, Lock, Goto
<1>6. loc' = [loc EXCEPT ![p] = loc[p]]
  BY DEF Lock, TInv, Calls
<1>7. Calls'
  <2>. HIDE DEF at
  <2>. QED
    BY <1>2, <1>5, <1>6, Turn
<1>. QED
  BY <1>3, <1>4, <1>7 DEF TInv

----------------------------------------------------------------------------
(* Types: inside a call.                                                    *)

LEMMA LoadTyped ==
    ASSUME TInv, NEW p \in Procs, NEW at, NEW r, NEW next \in Labels,
           Load(p, at, r, next), Suits(next, r)
    PROVE  TInv'
<1>1. Memory' /\ Books'
  BY DEF Load, TInv, Memory, Books, shared, ghost
<1>2. Calls'
  BY Turn DEF Load, Goto
<1>. QED
  BY <1>1, <1>2 DEF TInv

\* What p's label says of p's locals.
LEMMA Local ==
    ASSUME TInv, NEW p \in Procs
    PROVE  /\ Suits(pc[p], loc[p]) /\ loc[p] \in Frames
           /\ loc[p].off \in Spots /\ loc[p].nxt \in Spots
           /\ pc[p] \notin Resting => loc[p].cls \in Classes
           /\ loc[p].off # 0 => loc[p].off \in Data
BY DEF TInv, Calls, Suits, Frames, Spots

LEMMA TopTyped ==
    ASSUME TInv
    PROVE  Top \in Nat /\ DataStart <= Top
BY Constants DEF TInv, Memory, Spots, Data, Top

LEMMA LoadHeadTyped ==
    ASSUME TInv, NEW p \in Procs, LoadHead(p) PROVE TInv'
<1>. DEFINE c == loc[p].cls
            r == [loc[p] EXCEPT !.off = head[c]]
            next == IF head[c] # 0 THEN "next" ELSE "bump"
<1>1. pc[p] = "head" /\ Load(p, "head", r, next)
  BY DEF LoadHead, Load
<1>2. c \in Classes /\ head[c] \in Spots /\ Suits("head", loc[p])
  BY <1>1, Local DEF Resting, TInv, Memory
<1>3. /\ r \in Frames /\ r.op = loc[p].op /\ r.cls = c /\ r.off = head[c]
  BY <1>2, Local DEF Frames
<1>4. Suits(next, r)
  BY <1>2, <1>3 DEF Suits, Resting, Reset, Allocating, Freeing
<1>5. next \in Labels
  BY DEF Labels, Section
<1>. HIDE DEF c, r, next
<1>. QED
  BY <1>1, <1>4, <1>5, LoadTyped

LEMMA LoadNextTyped ==
    ASSUME TInv, NEW p \in Procs, LoadNext(p) PROVE TInv'
<1>. DEFINE r == [loc[p] EXCEPT !.nxt = link[loc[p].off]]
<1>1. pc[p] = "next" /\ Load(p, "next", r, "pop")
  BY DEF LoadNext, Load
<1>2. Suits("next", loc[p]) /\ loc[p].off \in Data
  BY <1>1, Local DEF Suits
<1>3. link[loc[p].off] \in Spots
  BY <1>2 DEF TInv, Memory
<1>4. /\ r \in Frames /\ r.op = loc[p].op /\ r.cls = loc[p].cls
      /\ r.off = loc[p].off
  BY <1>3, Local DEF Frames
<1>5. Suits("pop", r)
  BY <1>2, <1>4 DEF Suits, Resting, Reset, Allocating, Freeing
<1>. HIDE DEF r
<1>. QED
  BY <1>1, <1>5, LoadTyped DEF Labels, Section

LEMMA LoadBumpTyped ==
    ASSUME TInv, NEW p \in Procs, LoadBump(p) PROVE TInv'
<1>. DEFINE c == loc[p].cls
            r == [loc[p] EXCEPT !.off = Top]
<1>1. pc[p] = "bump" /\ Suits("bump", loc[p])
  BY Local DEF LoadBump
<1>2. c \in Classes
  BY <1>1 DEF Suits, Resting
<1>3. CASE Room(c)
  <2>1. Load(p, "bump", r, "grow")
    BY <1>3 DEF LoadBump
  <2>2. Top + SizeClasses[c] <= PoolEnd
    BY <1>3 DEF Room
  <2>3. Top \in Data
    BY <1>2, <2>2, TopTyped, Constants DEF Data
  <2>4. /\ r \in Frames /\ r.op = loc[p].op /\ r.cls = c /\ r.off = Top
    BY <2>3, Local DEF Frames, Spots
  <2>5. Suits("grow", r)
    BY <1>1, <2>2, <2>3, <2>4, Constants
       DEF Suits, Resting, Reset, Allocating, Freeing
  <2>. HIDE DEF r, c
  <2>. QED
    BY <2>1, <2>5, LoadTyped DEF Labels, Section
<1>4. CASE ~Room(c)
  <2>1. Load(p, "bump", loc[p], "out")
    BY <1>4 DEF LoadBump
  <2>2. Suits("out", loc[p])
    BY <1>1 DEF Suits, Resting, Reset, Allocating, Freeing
  <2>. QED
    BY <2>1, <2>2, LoadTyped DEF Labels, Section
<1>. QED
  BY <1>3, <1>4

LEMMA FreeHeadTyped ==
    ASSUME TInv, NEW p \in Procs, FreeHead(p) PROVE TInv'
<1>. DEFINE c == loc[p].cls
            r == [loc[p] EXCEPT !.nxt = head[c]]
<1>1. pc[p] = "fhead" /\ Load(p, "fhead", r, "link")
  BY DEF FreeHead, Load
<1>2. c \in Classes /\ head[c] \in Spots /\ Suits("fhead", loc[p])
  BY <1>1, Local DEF Resting, TInv, Memory
<1>3. /\ r \in Frames /\ r.op = loc[p].op /\ r.cls = c
      /\ r.off = loc[p].off
  BY <1>2, Local DEF Frames
<1>4. Suits("link", r)
  BY <1>2, <1>3 DEF Suits, Resting, Reset, Allocating, Freeing
<1>. HIDE DEF c, r
<1>. QED
  BY <1>1, <1>4, LoadTyped DEF Labels, Section

\* A step of p that leaves its locals alone.
LEMMA Onward ==
    ASSUME TInv, NEW p \in Procs, NEW at \in Labels, Goto(p, at),
           Suits(at, loc[p]), UNCHANGED loc
    PROVE  Calls'
<1>1. loc' = [loc EXCEPT ![p] = loc[p]]
  BY DEF TInv, Calls
<1>. QED
  BY <1>1, Turn DEF Goto

LEMMA PopTyped ==
    ASSUME TInv, NEW p \in Procs, Pop(p) PROVE TInv'
<1>1. Suits("pop", loc[p])
  BY Local DEF Pop
<1>2. Suits("out", loc[p])
  BY <1>1 DEF Suits, Resting, Reset, Allocating, Freeing
<1>3. Calls'
  BY <1>2, Onward DEF Pop, Labels, Section
<1>4. Memory'
  BY Local DEF Pop, TInv, Memory
<1>5. list' \in [Classes -> Seq(Data)]
  <2>. DEFINE c == loc[p].cls
  <2>1. \A d \in Classes : Without(list[d], loc[p].off) \in Seq(Data)
    BY WithoutTyped DEF TInv, Books
  <2>2. list' = [list EXCEPT ![c] = Without(list[c], loc[p].off)]
    BY DEF Pop
  <2>. QED
    BY <2>1, <2>2 DEF TInv, Books
<1>6. Books'
  BY <1>5 DEF Pop, TInv, Books
<1>. QED
  BY <1>3, <1>4, <1>6 DEF TInv

LEMMA StoreBumpTyped ==
    ASSUME TInv, NEW p \in Procs, StoreBump(p) PROVE TInv'
<1>1. Suits("grow", loc[p])
  BY Local DEF StoreBump
<1>2. Suits("out", loc[p])
  BY <1>1 DEF Suits, Resting, Reset, Allocating, Freeing
<1>3. Calls'
  BY <1>2, Onward DEF StoreBump, Labels, Section
<1>4. /\ loc[p].cls \in Classes /\ loc[p].off \in Data
      /\ loc[p].off + SizeClasses[loc[p].cls] <= PoolEnd
  BY <1>1, Local DEF Suits, Resting
<1>5. loc[p].off + SizeClasses[loc[p].cls] \in Data
  BY <1>4, Constants DEF Data
<1>6. Memory'
  BY <1>5 DEF StoreBump, TInv, Memory, Spots
<1>7. Books'
  BY DEF StoreBump, TInv, Books, ghost
<1>. QED
  BY <1>3, <1>6, <1>7 DEF TInv

LEMMA FreeLinkTyped ==
    ASSUME TInv, NEW p \in Procs, FreeLink(p) PROVE TInv'
<1>1. Suits("link", loc[p])
  BY Local DEF FreeLink
<1>2. Suits("push", loc[p])
  BY <1>1 DEF Suits, Resting, Reset, Allocating, Freeing
<1>3. Calls'
  BY <1>2, Onward DEF FreeLink, Labels, Section
<1>4. Memory'
  BY Local DEF FreeLink, TInv, Memory
<1>5. Books'
  BY DEF FreeLink, TInv, Books, ghost
<1>. QED
  BY <1>3, <1>4, <1>5 DEF TInv

LEMMA FreePushTyped ==
    ASSUME TInv, NEW p \in Procs, FreePush(p) PROVE TInv'
<1>1. Suits("push", loc[p])
  BY Local DEF FreePush
<1>2. Suits("out", loc[p])
  BY <1>1 DEF Suits, Resting, Reset, Allocating, Freeing
<1>3. Calls'
  BY <1>2, Onward DEF FreePush, Labels, Section
<1>4. Memory'
  BY Local DEF FreePush, TInv, Memory
<1>5. loc[p].off \in Data
  BY <1>1, Local DEF Suits, Freeing
<1>6. \A s \in Seq(Data) : <<loc[p].off>> \o s \in Seq(Data)
  BY <1>5
<1>7. list' \in [Classes -> Seq(Data)]
  BY <1>6 DEF FreePush, TInv, Books
<1>8. Books'
  BY <1>7 DEF FreePush, TInv, Books
<1>. QED
  BY <1>3, <1>4, <1>8 DEF TInv

----------------------------------------------------------------------------
(* Types: the end of a call.                                                *)

LEMMA ResultTyped ==
    ASSUME TInv, NEW p \in Procs, pc[p] \notin Resting
    PROVE  Result(p) \subseteq Blocks
BY Local DEF Result, Blocks, Data

LEMMA HandTyped ==
    ASSUME TInv, NEW p \in Procs, pc[p] \notin Resting
    PROVE  Hand(p) \subseteq Blocks
<1>1. loc[p].op = "free" => loc[p].off \in Data
  BY Local DEF Suits
<1>. QED
  BY <1>1, Local, ResultTyped DEF Hand, Blocks, Data

LEMMA RestTyped ==
    /\ Suits("idle", Idle) /\ Suits("dead", Idle)
    /\ "idle" \in Labels /\ "dead" \in Labels
BY Constants DEF Suits, Idle, Resting, Reset, Allocating, Freeing, Labels

LEMMA ReturnTyped ==
    ASSUME TInv, NEW p \in Procs, Return(p) PROVE TInv'
<1>1. pc[p] = "out" /\ loc[p].cls \in Classes
  BY Local DEF Return, Resting
<1>2. Memory'
  BY <1>1 DEF Return, TInv, Memory, Unlock
<1>3. Result(p) \subseteq Blocks
  BY <1>1, ResultTyped DEF Resting
<1>4. Books'
  BY <1>3 DEF Return, TInv, Books, ghost
<1>5. Calls'
  BY RestTyped, Turn DEF Return, Goto
<1>. QED
  BY <1>2, <1>4, <1>5 DEF TInv

LEMMA ListedTyped ==
    ASSUME TInv, NEW c \in Classes
    PROVE  {[off |-> list[c][i], cls |-> c] : i \in DOMAIN list[c]}
              \subseteq Blocks
<1>1. \A i \in DOMAIN list[c] : list[c][i] \in Data
  BY DEF TInv, Books
<1>. QED
  BY <1>1 DEF Blocks, Data

LEMMA ResetClassTyped ==
    ASSUME TInv, NEW p \in Procs, ResetClass(p) PROVE TInv'
<1>. DEFINE c == loc[p].cls
            r == [loc[p] EXCEPT !.cls = c + 1]
<1>1. pc[p] = "zero" /\ Suits("zero", loc[p]) /\ c \in Classes
  BY Local DEF ResetClass, Resting
<1>2. Memory'
  BY <1>1 DEF ResetClass, TInv, Memory, Spots
<1>3. leaked' \subseteq Blocks
  BY <1>1, ListedTyped DEF ResetClass, TInv, Books
<1>4. << >> \in Seq(Data)
  OBVIOUS
<1>5. list' \in [Classes -> Seq(Data)] /\ orphans' \subseteq Classes
  BY <1>4 DEF ResetClass, TInv, Books
<1>6. Books'
  BY <1>3, <1>5 DEF ResetClass, TInv, Books
<1>7. CASE c = Len(SizeClasses)
  <2>1. Suits("zero_bump", loc[p])
    BY <1>1 DEF Suits, Resting, Reset, Allocating, Freeing
  <2>. QED
    BY <1>2, <1>6, <1>7, <2>1, Onward DEF ResetClass, Labels, Reset, TInv
<1>8. CASE c # Len(SizeClasses)
  <2>1. c + 1 \in Classes
    BY <1>1, <1>8, Constants DEF Classes
  <2>2. r \in Frames /\ r.op = loc[p].op /\ r.cls = c + 1 /\ r.off = loc[p].off
    BY <2>1, Local DEF Frames
  <2>3. Suits("zero", r)
    BY <1>1, <2>1, <2>2 DEF Suits, Resting, Reset, Allocating, Freeing
  <2>4. pc' = [pc EXCEPT ![p] = "zero"] /\ loc' = [loc EXCEPT ![p] = r]
    BY <1>1, <1>8 DEF ResetClass, TInv, Calls
  <2>5. Calls'
    <3>. HIDE DEF r
    <3>. QED
      BY <2>3, <2>4, Turn DEF Labels, Reset
  <2>. QED
    BY <1>2, <1>6, <2>5 DEF TInv
<1>. QED
  BY <1>7, <1>8

LEMMA ResetBumpTyped ==
    ASSUME TInv, NEW p \in Procs, ResetBump(p) PROVE TInv'
<1>1. Memory' /\ Books'
  BY DEF ResetBump, TInv, Memory, Books, Spots
<1>2. Calls'
  BY RestTyped, Turn DEF ResetBump, Goto
<1>. QED
  BY <1>1, <1>2 DEF TInv

LEMMA CrashTyped ==
    ASSUME TInv, NEW p \in Procs, Crash(p) PROVE TInv'
<1>1. pc[p] \notin Resting
  BY DEF Crash, Resting
<1>2. Memory'
  BY DEF Crash, TInv, Memory, shared
<1>3. leaked' \subseteq Blocks
  BY <1>1, HandTyped DEF Crash, TInv, Books
<1>4. orphans' \subseteq Classes
  BY <1>1, Local DEF Crash, TInv, Books
<1>5. Books'
  BY <1>3, <1>4 DEF Crash, TInv, Books
<1>6. Calls'
  BY RestTyped, Turn DEF Crash, Goto
<1>. QED
  BY <1>2, <1>5, <1>6 DEF TInv

LEMMA TypeStep == TInv /\ [Next]_vars => TInv'
<1>. SUFFICES ASSUME TInv, [Next]_vars PROVE TInv'
  OBVIOUS
<1>1. CASE UNCHANGED vars
  BY <1>1 DEF TInv, Memory, Books, Calls, vars, shared, ghost
<1>2. CASE Next
  <2>1. PICK p \in Procs : Call(p) \/ Step(p) \/ Crash(p)
    BY <1>2 DEF Next
  <2>2. CASE Call(p)
    BY <2>2, AllocTyped, FreeTyped, ResetBeginTyped DEF Call
  <2>3. CASE Step(p)
    BY <2>3, LockTyped, LoadHeadTyped, LoadNextTyped, PopTyped,
       LoadBumpTyped, StoreBumpTyped, FreeHeadTyped, FreeLinkTyped,
       FreePushTyped, ReturnTyped, ResetClassTyped, ResetBumpTyped DEF Step
  <2>4. CASE Crash(p)
    BY <2>4, CrashTyped
  <2>. QED
    BY <2>1, <2>2, <2>3, <2>4
<1>. QED
  BY <1>1, <1>2

\* Any number of allocations, releases, resets and deaths, under the spinlocks
\* or beside them, keep every variable in its type; in particular the offsets
\* that heads, links and callers hold are offsets of blocks inside the pool
\* (slab.rs alloc_from_class, free, reset).
THEOREM SlabTypeCorrect == Spec => []TypeOK
<1>1. Spec => []TInv
  BY TInvInit, TypeStep, PTL DEF Spec
<1>. QED
  BY <1>1, Typed, PTL

----------------------------------------------------------------------------
(* Who is where.                                                            *)

\* Nothing the code leaves to luck happens.
KeptApart == Exclusive = {"grow", "cold", "flush"}

Inside(p) == pc[p] \in Section

\* Calls in the pool at one time are in different classes and hold the
\* spinlocks of those; one at most is at the bump pointer; a reset is alone.
Alone ==
    /\ \A p, q \in Procs : p # q /\ Inside(p) /\ Inside(q) =>
          /\ ~loc[p].cold /\ loc[p].cls # loc[q].cls
          /\ ~(pc[p] = "grow" /\ pc[q] = "grow")
    /\ \A p \in Procs :
          Inside(p) /\ ~loc[p].cold => lock[loc[p].cls] = 1
    /\ \A p, q \in Procs :
          p # q /\ pc[p] \in Reset => pc[q] \in Resting

\* What p does leaves the others where they are.
Others(p) ==
    \A q \in Procs : q # p => pc'[q] = pc[q] /\ loc'[q] = loc[q]

LEMMA StepOthers ==
    ASSUME TInv, NEW p \in Procs, Call(p) \/ Step(p) \/ Crash(p)
    PROVE  Others(p)
<1>1. CASE Call(p)
  BY <1>1 DEF Call, Alloc, Free, ResetBegin, Begin, Goto, Others, TInv, Calls
<1>2. CASE Step(p)
  BY <1>2 DEF Step, Lock, LoadHead, LoadNext, Pop, LoadBump, StoreBump,
     FreeHead, FreeLink, FreePush, Return, ResetClass, ResetBump, Load, Goto,
     Others, TInv, Calls
<1>3. CASE Crash(p)
  BY <1>3 DEF Crash, Goto, Others, TInv, Calls
<1>. QED
  BY <1>1, <1>2, <1>3

LEMMA AloneInit == Init => Alone
BY DEF Init, Alone, Inside, Section, Reset, Idle

\* A step inside the pool, or out of it, that leaves the locks alone.
LEMMA AloneWork ==
    ASSUME TInv, Alone, NEW p \in Procs, Others(p), UNCHANGED lock,
           \/ pc'[p] \in Resting
           \/ /\ Inside(p) /\ pc'[p] \in Section /\ loc'[p].cold = loc[p].cold
              /\ loc'[p].cls = loc[p].cls
              /\ pc'[p] = "grow" => \A q \in Procs \ {p} : pc[q] # "grow"
    PROVE  Alone'
<1>1. ASSUME NEW q \in Procs, NEW r \in Procs, q # r, Inside(q)', Inside(r)'
      PROVE  (/\ ~loc[q].cold /\ loc[q].cls # loc[r].cls
              /\ ~(pc[q] = "grow" /\ pc[r] = "grow"))'
  <2>1. Inside(q) /\ Inside(r)
    BY <1>1 DEF Inside, Others, Resting, Section
  <2>2. ~loc[q].cold /\ loc[q].cls # loc[r].cls /\ ~loc[r].cold
    BY <1>1, <2>1 DEF Alone
  <2>3. /\ pc'[q] \notin Resting /\ pc'[r] \notin Resting
    BY <1>1 DEF Inside, Resting, Section
  <2>4. /\ loc'[q].cold = loc[q].cold /\ loc'[q].cls = loc[q].cls
        /\ loc'[r].cold = loc[r].cold /\ loc'[r].cls = loc[r].cls
    BY <2>3 DEF Others
  <2>5. ~(pc'[q] = "grow" /\ pc'[r] = "grow")
    BY <1>1, <2>1, <2>3 DEF Others, Alone
  <2>. QED
    BY <2>2, <2>4, <2>5
<1>2. ASSUME NEW q \in Procs, Inside(q)', ~loc'[q].cold
      PROVE  lock'[loc'[q].cls] = 1
  BY <1>2 DEF Inside, Others, Resting, Section, Alone
<1>3. ASSUME NEW q \in Procs, NEW r \in Procs, q # r, pc'[q] \in Reset
      PROVE  pc'[r] \in Resting
  BY <1>3 DEF Inside, Others, Resting, Section, Reset, Alone
<1>. QED
  BY <1>1, <1>2, <1>3 DEF Alone

LEMMA AloneLock ==
    ASSUME TInv, Alone, KeptApart, NEW p \in Procs, Lock(p), Others(p)
    PROVE  Alone'
<1>. DEFINE c == loc[p].cls
<1>1. /\ c \in Classes /\ ~loc[p].cold /\ lock[c] = 0
      /\ lock' = [lock EXCEPT ![c] = 1] /\ loc' = loc
      /\ pc'[p] \in {"head", "fhead"} /\ pc[p] = "lock"
  BY Local DEF Lock, Resting, Suits, Goto, TInv, Calls
<1>2. \A q \in Procs : q # p /\ Inside(q) => ~loc[q].cold
  BY DEF Lock, NoCold, KeptApart, Inside
<1>3. \A q \in Procs : q # p /\ Inside(q) => loc[q].cls # c
  BY <1>1, <1>2 DEF Alone
<1>4. \A q \in Procs : q # p => pc'[q] = pc[q]
  BY DEF Others
<1>5. \A q \in Procs : q # p => pc[q] \notin Reset
  BY <1>1 DEF Alone, Resting
<1>6. ASSUME NEW q \in Procs, Inside(q)', ~loc'[q].cold
      PROVE  lock'[loc'[q].cls] = 1
  <2>1. CASE q = p
    BY <1>1, <2>1 DEF TInv, Memory
  <2>2. CASE q # p
    <3>1. Inside(q)
      BY <1>4, <1>6, <2>2 DEF Inside
    <3>2. loc[q].cls # c /\ lock[loc[q].cls] = 1 /\ loc[q].cls \in Classes
      BY <1>1, <1>3, <1>6, <2>2, <3>1, Local
         DEF Alone, Inside, Section, Resting
    <3>. QED
      BY <1>1, <3>2 DEF TInv, Memory
  <2>. QED
    BY <2>1, <2>2
<1>7. ASSUME NEW q \in Procs, NEW r \in Procs, q # r, Inside(q)', Inside(r)'
      PROVE  (/\ ~loc[q].cold /\ loc[q].cls # loc[r].cls
              /\ ~(pc[q] = "grow" /\ pc[r] = "grow"))'
  BY <1>1, <1>2, <1>3, <1>4, <1>7 DEF Inside, Alone
<1>8. ASSUME NEW q \in Procs, NEW r \in Procs, q # r, pc'[q] \in Reset
      PROVE  pc'[r] \in Resting
  BY <1>1, <1>4, <1>5, <1>8 DEF Reset
<1>. QED
  BY <1>6, <1>7, <1>8 DEF Alone

LEMMA AloneReturn ==
    ASSUME TInv, Alone, NEW p \in Procs, Return(p), Others(p)
    PROVE  Alone'
<1>. DEFINE c == loc[p].cls
<1>1. /\ pc[p] = "out" /\ pc'[p] = "idle" /\ c \in Classes
  BY Local DEF Return, Resting, Goto, TInv, Calls
<1>2. \A d \in Classes : d # c => lock'[d] = lock[d]
  BY <1>1 DEF Return, Unlock, TInv, Memory
<1>3. \A q \in Procs : Inside(q)' =>
          /\ q # p /\ Inside(q) /\ loc'[q] = loc[q] /\ pc'[q] = pc[q]
          /\ loc[q].cls \in Classes /\ loc[q].cls # c
  BY <1>1, Local DEF Others, Inside, Section, Resting, Alone
<1>4. ASSUME NEW q \in Procs, NEW r \in Procs, q # r, pc'[q] \in Reset
      PROVE  pc'[r] \in Resting
  BY <1>1, <1>4 DEF Others, Alone, Reset, Resting
<1>. QED
  BY <1>2, <1>3, <1>4 DEF Alone, Inside

\* A call begins.  A cold one is inside at once, a reset alone.
LEMMA AloneBegin ==
    ASSUME TInv, Alone, KeptApart, NEW p \in Procs, NEW cold \in BOOLEAN,
           NEW l, NEW at \in Section, Begin(p, cold, l, at), l.cold = cold,
           Others(p)
    PROVE  Alone'
<1>1. /\ pc[p] = "idle" /\ UNCHANGED lock /\ loc'[p] = l
      /\ pc'[p] = IF cold THEN at ELSE "lock"
  BY DEF Begin, shared, Goto, TInv, Calls
<1>2. cold => \A q \in Procs : q # p => pc[q] \notin Section
  BY DEF Begin, Apart, KeptApart
<1>3. \A q \in Procs : q # p => pc[q] \notin Reset
  BY DEF Begin, Apart, KeptApart
<1>4. \A q \in Procs : q # p => pc'[q] = pc[q] /\ loc'[q] = loc[q]
  BY DEF Others
<1>5. ASSUME NEW q \in Procs, NEW r \in Procs, q # r, Inside(q)', Inside(r)'
      PROVE  (/\ ~loc[q].cold /\ loc[q].cls # loc[r].cls
              /\ ~(pc[q] = "grow" /\ pc[r] = "grow"))'
  <2>1. q # p /\ r # p
    BY <1>1, <1>2, <1>4, <1>5 DEF Inside, Section
  <2>. QED
    BY <1>4, <1>5, <2>1 DEF Alone, Inside
<1>6. ASSUME NEW q \in Procs, Inside(q)', ~loc'[q].cold
      PROVE  lock'[loc'[q].cls] = 1
  <2>1. q # p
    BY <1>1, <1>6 DEF Inside, Section
  <2>. QED
    BY <1>1, <1>4, <1>6, <2>1 DEF Alone, Inside
<1>7. ASSUME NEW q \in Procs, NEW r \in Procs, q # r, pc'[q] \in Reset
      PROVE  pc'[r] \in Resting
  BY <1>1, <1>3, <1>4, <1>7 DEF Section, Reset
<1>. QED
  BY <1>5, <1>6, <1>7 DEF Alone

\* A reset begins, goes on and ends.
LEMMA AloneReset ==
    ASSUME TInv, NEW p \in Procs, Others(p), pc'[p] \notin Section,
           \A q \in Procs : q # p => pc[q] \in Resting
    PROVE  Alone'
<1>1. \A q \in Procs : q # p => pc'[q] \in Resting
  BY DEF Others
<1>2. \A q \in Procs : ~Inside(q)'
  BY <1>1 DEF Inside, Resting, Section
<1>3. ASSUME NEW q \in Procs, NEW r \in Procs, q # r, pc'[q] \in Reset
      PROVE  pc'[r] \in Resting
  BY <1>1, <1>3 DEF Resting, Reset
<1>. QED
  BY <1>2, <1>3 DEF Alone

LEMMA AloneResetBegin ==
    ASSUME TInv, KeptApart, NEW p \in Procs, ResetBegin(p)
    PROVE  \A q \in Procs : q # p => pc[q] \in Resting
<1>1. \A q \in Procs : q # p => pc[q] \notin Section \cup {"lock"} \cup Reset
  BY DEF ResetBegin, Begin, Apart, KeptApart
<1>. QED
  BY <1>1 DEF TInv, Calls, Labels, Resting

LEMMA AloneCall ==
    ASSUME TInv, Alone, KeptApart, NEW p \in Procs, Call(p)
    PROVE  Alone'
<1>1. Others(p)
  BY StepOthers
<1>2. ASSUME NEW size \in Sizes, NEW cold \in BOOLEAN, Alloc(p, size, cold)
      PROVE  Alone'
  <2>1. PICK c \in Classes :
            Begin(p, cold, [Idle EXCEPT !.op = "alloc", !.cold = cold,
                                        !.cls = c], "head")
    BY <1>2 DEF Alloc
  <2>2. [Idle EXCEPT !.op = "alloc", !.cold = cold, !.cls = c].cold = cold
    BY DEF Idle
  <2>. QED
    BY <1>1, <2>1, <2>2, AloneBegin DEF Section
<1>3. ASSUME NEW b \in live, NEW cold \in BOOLEAN, Free(p, b, cold)
      PROVE  Alone'
  <2>. DEFINE l == [Idle EXCEPT !.op = "free", !.cold = cold, !.cls = b.cls,
                                !.off = b.off]
  <2>1. Begin(p, cold, l, "fhead")
    BY <1>3 DEF Free
  <2>2. l.cold = cold
    BY DEF Idle
  <2>. HIDE DEF l
  <2>. QED
    BY <1>1, <2>1, <2>2, AloneBegin DEF Section
<1>4. CASE ResetBegin(p)
  <2>1. pc'[p] = "zero"
    BY <1>4 DEF ResetBegin, Begin, Goto, TInv, Calls
  <2>. QED
    BY <1>1, <1>4, <2>1, AloneResetBegin, AloneReset DEF Section
<1>. QED
  BY <1>2, <1>3, <1>4 DEF Call

LEMMA AloneStep ==
    ASSUME TInv, Alone, KeptApart, [Next]_vars
    PROVE  Alone'
<1>1. CASE UNCHANGED vars
  BY <1>1 DEF Alone, Inside, vars, shared
<1>2. ASSUME NEW p \in Procs, Step(p) PROVE Alone'
  <2>1. Others(p)
    BY <1>2, StepOthers
  <2>2. CASE Lock(p)
    BY <2>1, <2>2, AloneLock
  <2>3. CASE Return(p)
    BY <2>1, <2>3, AloneReturn
  <2>4. CASE ResetClass(p) \/ ResetBump(p)
    <3>1. pc[p] \in Reset
      BY <2>4 DEF ResetClass, ResetBump, Reset
    <3>2. pc'[p] \notin Section
      BY <2>4 DEF ResetClass, ResetBump, Goto, Section, TInv, Calls
    <3>. QED
      BY <2>1, <3>1, <3>2, AloneReset DEF Alone
  <2>5. CASE LoadHead(p) \/ LoadNext(p) \/ Pop(p) \/ StoreBump(p)
             \/ FreeHead(p) \/ FreeLink(p) \/ FreePush(p)
    <3>1. /\ Inside(p) /\ pc'[p] \in Section /\ pc'[p] # "grow"
      BY <2>5 DEF LoadHead, LoadNext, Pop, StoreBump, FreeHead, FreeLink,
         FreePush, Load, Goto, Inside, Section, TInv, Calls
    <3>2. loc'[p].cold = loc[p].cold /\ loc'[p].cls = loc[p].cls
      BY <2>5 DEF LoadHead, LoadNext, Pop, StoreBump, FreeHead, FreeLink,
         FreePush, Load, TInv, Calls, Frames
    <3>3. UNCHANGED lock
      BY <2>5 DEF LoadHead, LoadNext, Pop, StoreBump, FreeHead, FreeLink,
         FreePush, Load, shared
    <3>. QED
      BY <2>1, <3>1, <3>2, <3>3, AloneWork
  <2>6. CASE LoadBump(p)
    <3>1. \A q \in Procs \ {p} : pc[q] # "grow"
      BY <2>6 DEF LoadBump, Apart, KeptApart
    <3>2. Inside(p) /\ pc'[p] \in Section
      BY <2>6 DEF LoadBump, Load, Goto, Inside, Section, TInv, Calls
    <3>3. loc'[p].cold = loc[p].cold /\ loc'[p].cls = loc[p].cls
      BY <2>6 DEF LoadBump, Load, TInv, Calls, Frames
    <3>4. UNCHANGED lock
      BY <2>6 DEF LoadBump, Load, shared
    <3>. QED
      BY <2>1, <3>1, <3>2, <3>3, <3>4, AloneWork
  <2>. QED
    BY <1>2, <2>2, <2>3, <2>4, <2>5, <2>6 DEF Step
<1>3. ASSUME NEW p \in Procs, Crash(p) PROVE Alone'
  <2>1. pc'[p] \in Resting /\ UNCHANGED lock
    BY <1>3 DEF Crash, Goto, Resting, shared, TInv, Calls
  <2>. QED
    BY <1>3, <2>1, StepOthers, AloneWork
<1>. QED
  BY <1>1, <1>2, <1>3, AloneCall DEF Next

----------------------------------------------------------------------------
(* Blocks in piles.                                                         *)

\* The places a block can be in.
Keys == {<<"live", 0>>, <<"lost", 0>>}
           \cup {<<"call", p>> : p \in Procs}
           \cup {<<"free", c>> : c \in Classes}
Listed(c) == {[off |-> list[c][i], cls |-> c] : i \in DOMAIN list[c]}
Piles == [k \in Keys |-> CASE k[1] = "live" -> live
                           [] k[1] = "lost" -> leaked
                           [] k[1] = "call" -> Hand(k[2])
                           [] k[1] = "free" -> Listed(k[2])]

\* Piles f whose blocks lie below top, share no word and leave no word out.
Below(f, top) ==
    \A k \in Keys : \A b \in f[k] :
        b \in Blocks /\ b.off + SizeClasses[b.cls] <= top
Disjoint(f) ==
    \A k, l \in Keys : \A b \in f[k], d \in f[l] :
        k # l \/ b # d => Words(b) \cap Words(d) = {}
Covering(f, top) ==
    \A w \in DataStart .. top - 1 : \E k \in Keys : \E b \in f[k] :
        w \in Words(b)
Heap(f, top) == Below(f, top) /\ Disjoint(f) /\ Covering(f, top)

\* Blocks that start at one place are one block in one pile.
LEMMA OneAt ==
    ASSUME NEW f, NEW top, Heap(f, top), NEW k \in Keys, NEW l \in Keys,
           NEW b \in f[k], NEW d \in f[l], b.off = d.off
    PROVE  k = l /\ b = d
<1>1. b \in Blocks /\ d \in Blocks
  BY DEF Heap, Below
<1>2. b.off \in Nat /\ SizeClasses[b.cls] \in Nat \ {0}
      /\ SizeClasses[d.cls] \in Nat \ {0}
  BY <1>1, Constants DEF Blocks, Data
<1>3. b.off \in Words(b) \cap Words(d)
  BY <1>2 DEF Words
<1>. QED
  BY <1>3 DEF Heap, Disjoint

\* From the piles f to the piles g the blocks M go from k to l.
Shift(f, g, M, k, l) ==
    /\ k \in Keys /\ l \in Keys /\ k # l
    /\ M \subseteq f[k] /\ g[k] = f[k] \ M /\ g[l] = f[l] \cup M
    /\ \A m \in Keys : m # k /\ m # l => g[m] = f[m]

\* Moving blocks from one pile to another changes nothing for the heap.
LEMMA Moved ==
    ASSUME NEW f, NEW g, NEW top, NEW M, NEW k, NEW l,
           Heap(f, top), Shift(f, g, M, k, l)
    PROVE  Heap(g, top)
<1>. USE DEF Shift
<1>. DEFINE From(m, b) == IF m = l /\ b \in M THEN k ELSE m
<1>1. \A m \in Keys : \A b \in g[m] :
          From(m, b) \in Keys /\ b \in f[From(m, b)]
  OBVIOUS
<1>2. \A m, n \in Keys : \A b \in g[m] : b \in g[n] /\ From(m, b) = From(n, b)
          => m = n
  OBVIOUS
<1>3. Below(g, top)
  BY <1>1 DEF Heap, Below
<1>4. Disjoint(g)
  <2>. SUFFICES ASSUME NEW m \in Keys, NEW n \in Keys, NEW b \in g[m],
                       NEW d \in g[n], m # n \/ b # d
                PROVE  Words(b) \cap Words(d) = {}
    BY DEF Disjoint
  <2>1. From(m, b) # From(n, d) \/ b # d
    BY <1>2
  <2>. QED
    BY <1>1, <2>1 DEF Heap, Disjoint
<1>5. Covering(g, top)
  <2>. SUFFICES ASSUME NEW w \in DataStart .. top - 1
                PROVE  \E m \in Keys : \E b \in g[m] : w \in Words(b)
    BY DEF Covering
  <2>1. PICK n \in Keys : \E b \in f[n] : w \in Words(b)
    BY DEF Heap, Covering
  <2>2. PICK b \in f[n] : w \in Words(b)
    BY <2>1
  <2>3. b \in g[n] \/ b \in g[l]
    OBVIOUS
  <2>. QED
    BY <2>2, <2>3
<1>. QED
  BY <1>3, <1>4, <1>5 DEF Heap

LEMMA Kept ==
    ASSUME NEW f, NEW g, NEW top, Heap(f, top),
           \A m \in Keys : g[m] = f[m]
    PROVE  Heap(g, top)
BY DEF Heap, Below, Disjoint, Covering

\* A block made at the top.
LEMMA Made ==
    ASSUME NEW f, NEW g, NEW top \in Nat, Heap(f, top), NEW k \in Keys,
           NEW b \in Blocks, b.off = top, g[k] = f[k] \cup {b},
           \A m \in Keys : m # k => g[m] = f[m]
    PROVE  Heap(g, top + SizeClasses[b.cls])
<1>. DEFINE size == SizeClasses[b.cls]
<1>1. size \in Nat \ {0}
  BY Constants DEF Blocks
<1>2. \A m \in Keys : \A d \in g[m] : d \in f[m] \/ (m = k /\ d = b)
  OBVIOUS
<1>3. \A m \in Keys : \A d \in f[m] :
          /\ d \in Blocks /\ d.off \in Nat /\ SizeClasses[d.cls] \in Nat
          /\ d.off + SizeClasses[d.cls] <= top
  BY Constants DEF Heap, Below, Blocks, Data
<1>4. Below(g, top + size)
  <2>. SUFFICES ASSUME NEW m \in Keys, NEW d \in g[m]
                PROVE  d \in Blocks /\ d.off + SizeClasses[d.cls] <= top + size
    BY DEF Below
  <2>1. CASE d \in f[m]
    BY <1>1, <1>3, <2>1
  <2>2. CASE d = b
    BY <1>1, <2>2
  <2>. QED
    BY <1>2, <2>1, <2>2
<1>5. \A m \in Keys : \A d \in f[m] :
          Words(d) \cap Words(b) = {} /\ Words(b) \cap Words(d) = {}
  <2>. SUFFICES ASSUME NEW m \in Keys, NEW d \in f[m], NEW w \in Words(d)
                PROVE  w \notin Words(b)
    OBVIOUS
  <2>1. w < top
    BY <1>3 DEF Words
  <2>. QED
    BY <2>1 DEF Words
<1>6. Disjoint(g)
  <2>. SUFFICES ASSUME NEW m \in Keys, NEW n \in Keys, NEW d \in g[m],
                       NEW e \in g[n], m # n \/ d # e
                PROVE  Words(d) \cap Words(e) = {}
    BY DEF Disjoint
  <2>1. CASE d \in f[m] /\ e \in f[n]
    BY <2>1 DEF Heap, Disjoint
  <2>2. CASE d \in f[m] /\ e = b
    BY <1>5, <2>2
  <2>3. CASE d = b /\ e \in f[n]
    BY <1>5, <2>3
  <2>. QED
    BY <1>2, <2>1, <2>2, <2>3
<1>7. Covering(g, top + size)
  <2>. SUFFICES ASSUME NEW w \in DataStart .. (top + size) - 1
                PROVE  \E m \in Keys : \E d \in g[m] : w \in Words(d)
    BY DEF Covering
  <2>1. CASE w < top
    <3>1. w \in DataStart .. top - 1
      BY <2>1, <1>1, Constants
    <3>2. PICK m \in Keys : \E d \in f[m] : w \in Words(d)
      BY <3>1 DEF Heap, Covering
    <3>3. f[m] \subseteq g[m]
      OBVIOUS
    <3>. QED
      BY <3>2, <3>3
  <2>2. CASE w >= top
    <3>1. w \in Words(b)
      BY <2>2, <1>1, Constants DEF Words
    <3>. QED
      BY <3>1
  <2>. QED
    BY <2>1, <2>2, <1>1, Constants
<1>. QED
  BY <1>4, <1>6, <1>7 DEF Heap

\* No blocks, nothing to cover.
LEMMA Nothing ==
    ASSUME NEW f, \A m \in Keys : f[m] = {}
    PROVE  Heap(f, DataStart)
BY Constants DEF Heap, Below, Disjoint, Covering

\* The piles by name.
LEMMA KeyFacts ==
    /\ <<"live", 0>> \in Keys /\ <<"lost", 0>> \in Keys
    /\ \A p \in Procs : <<"call", p>> \in Keys
    /\ \A c \in Classes : <<"free", c>> \in Keys
    /\ \A k \in Keys :
          \/ k = <<"live", 0>> \/ k = <<"lost", 0>>
          \/ \E p \in Procs : k = <<"call", p>>
          \/ \E c \in Classes : k = <<"free", c>>
BY DEF Keys

Named ==
    /\ Piles[<<"live", 0>>] = live /\ Piles[<<"lost", 0>>] = leaked
    /\ \A p \in Procs : Piles[<<"call", p>>] = Hand(p)
    /\ \A c \in Classes : Piles[<<"free", c>>] = Listed(c)

LEMMA NamedNow == Named
BY KeyFacts DEF Named, Piles

LEMMA NamedNext == Named'
BY KeyFacts DEF Named, Piles

----------------------------------------------------------------------------
(* Free lists.                                                              *)

Distinct(s) == \A i, j \in DOMAIN s : i # j => s[i] # s[j]

\* The list s starts at the head h and runs through the links m.
Chained(h, s, m) ==
    /\ h = IF s = << >> THEN 0 ELSE s[1]
    /\ \A i \in DOMAIN s : m[s[i]] = IF i = Len(s) THEN 0 ELSE s[i + 1]

\* The list without its first block.
LEMMA WithoutFirst ==
    ASSUME NEW s \in Seq(Data), s # << >>, Distinct(s)
    PROVE  LET t == Without(s, s[1]) IN
           /\ t \in Seq(Data) /\ Len(t) = Len(s) - 1
           /\ \A i \in 1 .. Len(t) : t[i] = s[i + 1]
<1>. DEFINE t == Without(s, s[1])
<1>1. Len(s) \in Nat /\ Len(s) > 0 /\ DOMAIN s = 1 .. Len(s)
  OBVIOUS
<1>2. 1 \in DOMAIN s
  BY <1>1
<1>3. (CHOOSE i \in DOMAIN s : s[i] = s[1]) = 1
  <2>1. \A i \in DOMAIN s : s[i] = s[1] => i = 1
    BY <1>2 DEF Distinct
  <2>. QED
    BY <1>2, <2>1
<1>4. t = SubSeq(s, 1, 0) \o SubSeq(s, 2, Len(s))
  <2>. DEFINE i == CHOOSE i \in DOMAIN s : s[i] = s[1]
  <2>1. t = SubSeq(s, 1, i - 1) \o SubSeq(s, i + 1, Len(s))
    BY <1>2 DEF Without
  <2>2. i = 1
    BY <1>3
  <2>. HIDE DEF i, t
  <2>. QED
    BY <2>1, <2>2
<1>5. /\ SubSeq(s, 1, 0) \in Seq(Data) /\ Len(SubSeq(s, 1, 0)) = 0
  BY <1>1
<1>6. /\ SubSeq(s, 2, Len(s)) \in Seq(Data)
      /\ Len(SubSeq(s, 2, Len(s))) = Len(s) - 1
      /\ \A i \in 1 .. Len(s) - 1 : SubSeq(s, 2, Len(s))[i] = s[i + 1]
  BY <1>1
<1>. HIDE DEF t
<1>7. t \in Seq(Data) /\ Len(t) = Len(s) - 1
  BY <1>1, <1>4, <1>5, <1>6
<1>8. \A i \in 1 .. Len(t) : t[i] = s[i + 1]
  BY <1>1, <1>4, <1>5, <1>6, <1>7
<1>. QED
  BY <1>7, <1>8 DEF t

\* Popping: the rest is a list that starts at the link of the first block.
LEMMA ChainPop ==
    ASSUME NEW s \in Seq(Data), s # << >>, Distinct(s), NEW h, NEW m,
           Chained(h, s, m)
    PROVE  /\ Distinct(Without(s, s[1]))
           /\ Chained(m[s[1]], Without(s, s[1]), m)
<1>. DEFINE t == Without(s, s[1])
<1>1. /\ t \in Seq(Data) /\ Len(t) = Len(s) - 1
      /\ \A i \in 1 .. Len(t) : t[i] = s[i + 1]
  BY WithoutFirst
<1>. HIDE DEF t
<1>2. Len(s) \in Nat /\ Len(s) > 0 /\ DOMAIN s = 1 .. Len(s)
      /\ DOMAIN t = 1 .. Len(t)
  BY <1>1
<1>3. Distinct(t)
  <2>. SUFFICES ASSUME NEW i \in DOMAIN t, NEW j \in DOMAIN t, i # j
                PROVE  t[i] # t[j]
    BY DEF Distinct
  <2>1. i + 1 \in DOMAIN s /\ j + 1 \in DOMAIN s /\ i + 1 # j + 1
    BY <1>1, <1>2
  <2>. QED
    BY <1>1, <1>2, <2>1 DEF Distinct
<1>4. m[s[1]] = IF t = << >> THEN 0 ELSE t[1]
  BY <1>1, <1>2 DEF Chained
<1>5. ASSUME NEW i \in DOMAIN t
      PROVE  m[t[i]] = IF i = Len(t) THEN 0 ELSE t[i + 1]
  <2>1. i \in 1 .. Len(t) /\ i + 1 \in DOMAIN s /\ t[i] = s[i + 1]
    BY <1>1, <1>2, <1>5
  <2>2. m[s[i + 1]] = IF i + 1 = Len(s) THEN 0 ELSE s[i + 1 + 1]
    BY <2>1 DEF Chained
  <2>3. i # Len(t) => t[i + 1] = s[i + 1 + 1]
    BY <1>1, <1>2, <2>1
  <2>. QED
    BY <1>1, <1>2, <2>1, <2>2, <2>3
<1>. QED
  BY <1>3, <1>4, <1>5 DEF Chained, t

\* Pushing a new block that links to the old head.
LEMMA ChainPush ==
    ASSUME NEW s \in Seq(Data), Distinct(s), NEW h, NEW m, Chained(h, s, m),
           NEW o \in Data, \A i \in DOMAIN s : s[i] # o, m[o] = h
    PROVE  Distinct(<<o>> \o s) /\ Chained(o, <<o>> \o s, m)
<1>. DEFINE t == <<o>> \o s
<1>1. /\ t \in Seq(Data) /\ Len(t) = Len(s) + 1 /\ t[1] = o
      /\ \A i \in 1 .. Len(s) : t[i + 1] = s[i]
  OBVIOUS
<1>. HIDE DEF t
<1>2. /\ Len(s) \in Nat /\ DOMAIN s = 1 .. Len(s)
      /\ DOMAIN t = 1 .. Len(s) + 1
  BY <1>1
<1>3. \A i \in DOMAIN t : i = 1 \/ (i - 1 \in DOMAIN s /\ t[i] = s[i - 1])
  BY <1>1, <1>2
<1>4. Distinct(t)
  BY <1>1, <1>2, <1>3 DEF Distinct
<1>5. t # << >>
  BY <1>1, <1>2
<1>6. ASSUME NEW i \in DOMAIN t
      PROVE  m[t[i]] = IF i = Len(t) THEN 0 ELSE t[i + 1]
  <2>1. CASE i = 1
    BY <1>1, <1>2, <2>1 DEF Chained
  <2>2. CASE i # 1
    <3>1. i - 1 \in DOMAIN s /\ t[i] = s[i - 1]
      BY <1>3, <2>2
    <3>2. m[t[i]] = IF i - 1 = Len(s) THEN 0 ELSE s[i - 1 + 1]
      BY <3>1 DEF Chained
    <3>3. i - 1 # Len(s) => i \in 1 .. Len(s) /\ s[i - 1 + 1] = t[i + 1]
      BY <1>1, <1>2, <3>1
    <3>. QED
      BY <1>1, <1>2, <3>1, <3>2, <3>3
  <2>. QED
    BY <2>1, <2>2
<1>. QED
  BY <1>1, <1>4, <1>5, <1>6 DEF Chained, t

\* Writing a word that is in no block of the list.
LEMMA ChainAside ==
    ASSUME NEW s \in Seq(Data), NEW h, NEW m, NEW n, Chained(h, s, m),
           \A i \in DOMAIN s : n[s[i]] = m[s[i]]
    PROVE  Chained(h, s, n)
BY DEF Chained

LEMMA ChainEmpty ==
    ASSUME NEW m PROVE Distinct(<< >>) /\ Chained(0, << >>, m)
BY DEF Distinct, Chained

----------------------------------------------------------------------------
(* What a call knows, and the invariant.                                    *)

\* The list and the bump pointer are as a call in its section has read them.
Knows(p) ==
    LET c == loc[p].cls IN
    /\ pc[p] \in {"next", "pop"} => loc[p].off = head[c]
    /\ pc[p] = "pop" => loc[p].nxt = link[loc[p].off]
    /\ pc[p] = "bump" => list[c] = << >>
    /\ pc[p] = "grow" => loc[p].off = Top
    /\ pc[p] = "out" /\ loc[p].op = "alloc" /\ loc[p].off = 0 =>
          list[c] = << >> /\ ~Room(c)
    /\ pc[p] \in {"link", "push"} => loc[p].nxt = head[c]
    /\ pc[p] = "push" => link[loc[p].off] = loc[p].nxt
    /\ pc[p] = "zero" => \A d \in Classes : d < c => list[d] = << >>
    /\ pc[p] = "zero_bump" => \A d \in Classes : list[d] = << >>

Lists ==
    \A c \in Classes : Distinct(list[c]) /\ Chained(head[c], list[c], link)

SInv ==
    /\ Alone
    /\ \A p \in Procs : Knows(p)
    /\ Heap(Piles, Top)
    /\ Lists

LEMMA SInvInit == Init => SInv
<1>. SUFFICES ASSUME Init PROVE SInv
  OBVIOUS
<1>1. \A p \in Procs : Knows(p)
  BY DEF Init, Knows
<1>2. \A k \in Keys : Piles[k] = {}
  BY KeyFacts, NamedNow DEF Init, Named, Hand, Listed, Idle
<1>3. Heap(Piles, Top)
  BY <1>2, Nothing DEF Top, Init
<1>4. Lists
  BY ChainEmpty DEF Lists, Init
<1>. QED
  BY <1>1, <1>3, <1>4, AloneInit DEF SInv

\* Another process, when the head and the list of its class, the links it has
\* read and the room it has seen are as before.
LEMMA Bystander ==
    ASSUME NEW q \in Procs, Knows(q),
           pc'[q] = pc[q], loc'[q] = loc[q], pc[q] \notin Reset,
           Inside(q) =>
              /\ head'[loc[q].cls] = head[loc[q].cls]
              /\ list'[loc[q].cls] = list[loc[q].cls]
              /\ pc[q] \in {"pop", "push"} =>
                    link'[loc[q].off] = link[loc[q].off]
              /\ pc[q] = "grow" => Top' = Top
              /\ Room(loc[q].cls)' => Room(loc[q].cls)
    PROVE  Knows(q)'
<1>1. Inside(q) \/ pc[q] \notin {"next", "pop", "bump", "grow", "out", "link",
                                 "push", "zero", "zero_bump"}
  BY DEF Inside, Section, Reset
<1>2. CASE Inside(q)
  BY <1>2 DEF Knows, Reset
<1>3. CASE ~Inside(q)
  BY <1>1, <1>3 DEF Knows
<1>. QED
  BY <1>2, <1>3

LEMMA HandOther ==
    ASSUME NEW p \in Procs, Others(p), NEW q \in Procs, q # p
    PROVE  Hand(q)' = Hand(q)
BY DEF Others, Hand, Result

LEMMA NoReset ==
    ASSUME Alone, NEW p \in Procs, pc[p] \notin Resting,
           NEW q \in Procs, q # p
    PROVE  pc[q] \notin Reset
BY DEF Alone

\* What has to be kept beside Alone.
Pool == (\A p \in Procs : Knows(p)) /\ Heap(Piles, Top) /\ Lists

\* Heads, lists, links and the bump pointer are as before.
LEMMA OthersKnow ==
    ASSUME SInv, NEW p \in Procs, Others(p),
           UNCHANGED <<head, link, bump, list>>,
           \A q \in Procs : q # p => pc[q] \notin Reset
    PROVE  \A q \in Procs : q # p => Knows(q)'
<1>1. UNCHANGED Top
  BY DEF Top
<1>. TAKE q \in Procs
<1>. HAVE q # p
<1>2. Room(loc[q].cls)' => Room(loc[q].cls)
  BY <1>1 DEF Room, Others
<1>. QED
  BY <1>1, <1>2, Bystander DEF Others, SInv

\* Nothing in the pool changes and no block changes hands.
LEMMA Unmoved ==
    ASSUME SInv, NEW p \in Procs, Others(p),
           UNCHANGED <<head, link, bump, list, live, leaked>>,
           Hand(p)' = Hand(p), Knows(p)',
           \A q \in Procs : q # p => pc[q] \notin Reset
    PROVE  Pool'
<1>1. UNCHANGED Top
  BY DEF Top
<1>3. \A q \in Procs : Knows(q)'
  BY OthersKnow
<1>4. \A k \in Keys : Piles'[k] = Piles[k]
  <2>1. \A q \in Procs : Hand(q)' = Hand(q)
    BY HandOther
  <2>2. \A c \in Classes : Listed(c)' = Listed(c)
    BY DEF Listed
  <2>. QED
    BY <2>1, <2>2, KeyFacts, NamedNow, NamedNext DEF Named
<1>5. Heap(Piles, Top)'
  BY <1>1, <1>4, Kept DEF SInv
<1>6. Lists'
  BY DEF SInv, Lists
<1>. QED
  BY <1>3, <1>5, <1>6 DEF Pool

LEMMA AllocPool ==
    ASSUME TInv, SInv, KeptApart, NEW p \in Procs, NEW size \in Sizes,
           NEW cold \in BOOLEAN, Alloc(p, size, cold), Others(p)
    PROVE  Pool'
<1>1. PICK c \in Classes :
          /\ Begin(p, cold, [Idle EXCEPT !.op = "alloc", !.cold = cold,
                                         !.cls = c], "head")
          /\ UNCHANGED live
  BY DEF Alloc
<1>2. /\ pc[p] = "idle" /\ loc[p] = Idle /\ pc'[p] \in {"head", "lock"}
      /\ loc'[p].op = "alloc"
  BY <1>1, Local DEF Begin, Goto, TInv, Calls, Suits, Resting, Idle
<1>3. Hand(p) = {} /\ Hand(p)' = {}
  BY <1>2 DEF Hand, Idle
<1>4. Knows(p)'
  BY <1>2 DEF Knows
<1>5. \A q \in Procs : q # p => pc[q] \notin Reset
  BY <1>1 DEF Begin, Apart, KeptApart
<1>. QED
  BY <1>1, <1>3, <1>4, <1>5, Unmoved DEF Begin, shared, ghost

LEMMA ResetBeginPool ==
    ASSUME TInv, SInv, KeptApart, NEW p \in Procs, ResetBegin(p), Others(p)
    PROVE  Pool'
<1>1. /\ pc[p] = "idle" /\ loc[p] = Idle /\ pc'[p] = "zero"
      /\ loc'[p].op = "reset" /\ loc'[p].cls = 1
  BY Local DEF ResetBegin, Begin, Goto, TInv, Calls, Suits, Resting, Idle
<1>2. Hand(p) = {} /\ Hand(p)' = {}
  BY <1>1 DEF Hand, Idle
<1>3. Knows(p)'
  BY <1>1 DEF Knows, Classes
<1>4. \A q \in Procs : q # p => pc[q] \notin Reset
  BY AloneResetBegin DEF Resting, Reset
<1>. QED
  BY <1>2, <1>3, <1>4, Unmoved DEF ResetBegin, Begin, shared, ghost

LEMMA LockPool ==
    ASSUME TInv, SInv, NEW p \in Procs, Lock(p), Others(p)
    PROVE  Pool'
<1>1. /\ pc[p] = "lock" /\ UNCHANGED loc /\ pc'[p] \in {"head", "fhead"}
  BY DEF Lock, Goto, TInv, Calls
<1>2. Hand(p)' = Hand(p) /\ Knows(p)'
  BY <1>1 DEF Hand, Knows
<1>3. \A q \in Procs : q # p => pc[q] \notin Reset
  BY <1>1, NoReset DEF SInv, Resting
<1>. QED
  BY <1>2, <1>3, Unmoved DEF Lock, ghost

LEMMA LoadPool ==
    ASSUME TInv, SInv, NEW p \in Procs, NEW at, NEW r, NEW next \in Section,
           Load(p, at, r, next), at \in Section, Others(p), Hand(p)' = Hand(p),
           Knows(p)'
    PROVE  Pool'
<1>1. \A q \in Procs : q # p => pc[q] \notin Reset
  BY NoReset DEF SInv, Resting, Section, Load
<1>. QED
  BY <1>1, Unmoved DEF Load, shared, ghost

LEMMA LoadHeadPool ==
    ASSUME TInv, SInv, NEW p \in Procs, LoadHead(p), Others(p)
    PROVE  Pool'
<1>. DEFINE c == loc[p].cls
            r == [loc[p] EXCEPT !.off = head[c]]
            next == IF head[c] # 0 THEN "next" ELSE "bump"
<1>1. pc[p] = "head" /\ Load(p, "head", r, next)
  BY DEF LoadHead, Load
<1>2. /\ c \in Classes /\ loc[p].op = "alloc" /\ loc[p] \in Frames
  BY <1>1, Local DEF Resting, Suits, Allocating
<1>3. /\ loc'[p] = r /\ r.op = "alloc" /\ r.cls = c /\ r.off = head[c]
      /\ pc'[p] = next
  BY <1>1, <1>2 DEF Load, Goto, TInv, Calls, Frames
<1>4. Hand(p)' = Hand(p)
  BY <1>1, <1>2, <1>3 DEF Hand
<1>5. head[c] = 0 => list[c] = << >>
  <2>. SUFFICES ASSUME list[c] # << >> PROVE head[c] # 0
    OBVIOUS
  <2>1. list[c] \in Seq(Data)
    BY <1>2 DEF TInv, Books
  <2>2. list[c][1] \in Data
    BY <2>1
  <2>3. head[c] = list[c][1]
    BY <1>2 DEF SInv, Lists, Chained
  <2>. QED
    BY <2>2, <2>3, Constants
<1>6. Knows(p)'
  BY <1>3, <1>5, <1>1 DEF Knows, Load, shared, ghost
<1>7. next \in Section
  BY DEF Section
<1>. HIDE DEF next, r
<1>. QED
  BY <1>1, <1>4, <1>6, <1>7, LoadPool DEF Section

LEMMA LoadNextPool ==
    ASSUME TInv, SInv, NEW p \in Procs, LoadNext(p), Others(p)
    PROVE  Pool'
<1>. DEFINE r == [loc[p] EXCEPT !.nxt = link[loc[p].off]]
<1>1. pc[p] = "next" /\ Load(p, "next", r, "pop")
  BY DEF LoadNext, Load
<1>2. /\ loc[p].op = "alloc" /\ loc[p] \in Frames
  BY <1>1, Local DEF Suits, Allocating
<1>3. /\ loc'[p] = r /\ r.op = "alloc" /\ r.cls = loc[p].cls
      /\ r.off = loc[p].off /\ r.nxt = link[loc[p].off] /\ pc'[p] = "pop"
  BY <1>1, <1>2 DEF Load, Goto, TInv, Calls, Frames
<1>4. Hand(p)' = Hand(p)
  BY <1>1, <1>2, <1>3 DEF Hand
<1>5. loc[p].off = head[loc[p].cls]
  BY <1>1 DEF SInv, Knows
<1>6. Knows(p)'
  BY <1>3, <1>5, <1>1 DEF Knows, Load, shared, ghost
<1>. HIDE DEF r
<1>. QED
  BY <1>1, <1>4, <1>6, LoadPool DEF Section

LEMMA LoadBumpPool ==
    ASSUME TInv, SInv, NEW p \in Procs, LoadBump(p), Others(p)
    PROVE  Pool'
<1>. DEFINE c == loc[p].cls
            r == [loc[p] EXCEPT !.off = Top]
<1>1. /\ pc[p] = "bump" /\ loc[p].op = "alloc" /\ loc[p] \in Frames
      /\ loc[p].off = 0 /\ list[c] = << >>
  BY Local DEF LoadBump, Suits, Allocating, SInv, Knows
<1>2. CASE Room(c)
  <2>1. Load(p, "bump", r, "grow")
    BY <1>2 DEF LoadBump
  <2>2. /\ loc'[p] = r /\ r.op = "alloc" /\ r.cls = c /\ r.off = Top
        /\ pc'[p] = "grow" /\ Top' = Top
    BY <1>1, <2>1 DEF Load, Goto, TInv, Calls, Frames, Top, shared
  <2>3. Hand(p)' = Hand(p)
    BY <1>1, <2>2 DEF Hand
  <2>4. Knows(p)'
    BY <2>2 DEF Knows
  <2>. HIDE DEF r
  <2>. QED
    BY <2>1, <2>3, <2>4, LoadPool DEF Section
<1>3. CASE ~Room(c)
  <2>1. Load(p, "bump", loc[p], "out")
    BY <1>3 DEF LoadBump
  <2>2. /\ loc'[p] = loc[p] /\ pc'[p] = "out" /\ Top' = Top
        /\ list' = list
    BY <2>1 DEF Load, Goto, TInv, Calls, Top, shared, ghost
  <2>3. Hand(p)' = Hand(p)
    BY <1>1, <2>2 DEF Hand, Result
  <2>4. ~Room(loc[p].cls)'
    BY <1>3, <2>2 DEF Room
  <2>5. Knows(p)'
    BY <1>1, <2>2, <2>4 DEF Knows
  <2>. QED
    BY <2>1, <2>3, <2>5, LoadPool DEF Section
<1>. QED
  BY <1>2, <1>3

LEMMA FreeHeadPool ==
    ASSUME TInv, SInv, NEW p \in Procs, FreeHead(p), Others(p)
    PROVE  Pool'
<1>. DEFINE c == loc[p].cls
            r == [loc[p] EXCEPT !.nxt = head[c]]
<1>1. pc[p] = "fhead" /\ Load(p, "fhead", r, "link")
  BY DEF FreeHead, Load
<1>2. loc[p].op = "free" /\ loc[p] \in Frames
  BY <1>1, Local DEF Suits, Freeing
<1>3. /\ loc'[p] = r /\ r.op = "free" /\ r.cls = c /\ r.off = loc[p].off
      /\ r.nxt = head[c] /\ pc'[p] = "link"
  BY <1>1, <1>2 DEF Load, Goto, TInv, Calls, Frames
<1>4. Hand(p)' = Hand(p)
  BY <1>1, <1>2, <1>3 DEF Hand
<1>5. Knows(p)'
  BY <1>3, <1>1 DEF Knows, Load, shared
<1>. HIDE DEF r
<1>. QED
  BY <1>1, <1>4, <1>5, LoadPool DEF Section

\* Blocks leave the hands of p, or come into them, for the callers or for
\* what is lost; the pool itself is as before.
LEMMA Handed ==
    ASSUME SInv, NEW p \in Procs, Others(p),
           UNCHANGED <<head, link, bump, list>>, Knows(p)',
           \A q \in Procs : q # p => pc[q] \notin Reset,
           NEW M,
           \/ /\ M \subseteq live /\ live' = live \ M /\ UNCHANGED leaked
              /\ Hand(p) = {} /\ Hand(p)' = M
           \/ /\ M = Hand(p) /\ live' = live \cup M /\ UNCHANGED leaked
              /\ Hand(p)' = {}
           \/ /\ M = Hand(p) /\ leaked' = leaked \cup M /\ UNCHANGED live
              /\ Hand(p)' = {}
    PROVE  Pool'
<1>1. UNCHANGED Top
  BY DEF Top
<1>2. \A q \in Procs : Knows(q)'
  BY OthersKnow
<1>3. Lists'
  BY DEF SInv, Lists
<1>. DEFINE LV == <<"live", 0>>
            LO == <<"lost", 0>>
            CA == <<"call", p>>
<1>4. LV \in Keys /\ LO \in Keys /\ CA \in Keys
  BY KeyFacts
<1>5. LV # LO /\ LV # CA /\ LO # CA
  OBVIOUS
<1>6. /\ Piles[LV] = live /\ Piles[LO] = leaked /\ Piles[CA] = Hand(p)
      /\ Piles'[LV] = live' /\ Piles'[LO] = leaked' /\ Piles'[CA] = Hand(p)'
  BY NamedNow, NamedNext DEF Named
<1>7. \A k \in Keys : k # LV /\ k # LO /\ k # CA => Piles'[k] = Piles[k]
  <2>1. \A q \in Procs : q # p => Hand(q)' = Hand(q)
    BY HandOther
  <2>2. \A c \in Classes : Listed(c)' = Listed(c)
    BY DEF Listed
  <2>. QED
    BY <2>1, <2>2, KeyFacts, NamedNow, NamedNext DEF Named
<1>. HIDE DEF LV, LO, CA
<1>8. Heap(Piles, Top)
  BY DEF SInv
<1>9. Heap(Piles', Top)
  <2>1. CASE /\ M \subseteq live /\ live' = live \ M /\ UNCHANGED leaked
             /\ Hand(p) = {} /\ Hand(p)' = M
    <3>1. Shift(Piles, Piles', M, LV, CA)
      BY <1>4, <1>5, <1>6, <1>7, <2>1 DEF Shift
    <3>. QED
      BY <1>8, <3>1, Moved
  <2>2. CASE /\ M = Hand(p) /\ live' = live \cup M /\ UNCHANGED leaked
             /\ Hand(p)' = {}
    <3>1. Shift(Piles, Piles', M, CA, LV)
      BY <1>4, <1>5, <1>6, <1>7, <2>2 DEF Shift
    <3>. QED
      BY <1>8, <3>1, Moved
  <2>3. CASE /\ M = Hand(p) /\ leaked' = leaked \cup M /\ UNCHANGED live
             /\ Hand(p)' = {}
    <3>1. Shift(Piles, Piles', M, CA, LO)
      BY <1>4, <1>5, <1>6, <1>7, <2>3 DEF Shift
    <3>. QED
      BY <1>8, <3>1, Moved
  <2>. QED
    BY <2>1, <2>2, <2>3
<1>. QED
  BY <1>1, <1>2, <1>3, <1>9 DEF Pool

LEMMA FreePool ==
    ASSUME TInv, SInv, KeptApart, NEW p \in Procs, NEW b \in live,
           NEW cold \in BOOLEAN, Free(p, b, cold), Others(p)
    PROVE  Pool'
<1>. DEFINE l == [Idle EXCEPT !.op = "free", !.cold = cold, !.cls = b.cls,
                              !.off = b.off]
<1>1. Begin(p, cold, l, "fhead") /\ live' = live \ {b}
  BY DEF Free
<1>2. /\ l.op = "free" /\ l.cls = b.cls /\ l.off = b.off
  BY DEF Idle
<1>3. /\ pc[p] = "idle" /\ loc[p] = Idle /\ pc'[p] \in {"fhead", "lock"}
      /\ loc'[p] = l
  BY <1>1, Local DEF Begin, Goto, TInv, Calls, Suits, Resting
<1>. HIDE DEF l
<1>4. b = [off |-> b.off, cls |-> b.cls]
  BY DEF TInv, Books, Blocks
<1>5. Hand(p) = {} /\ Hand(p)' = {b}
  BY <1>2, <1>3, <1>4 DEF Hand, Idle
<1>6. Knows(p)'
  BY <1>3 DEF Knows
<1>7. \A q \in Procs : q # p => pc[q] \notin Reset
  BY <1>1 DEF Begin, Apart, KeptApart
<1>. QED
  BY <1>1, <1>5, <1>6, <1>7, Handed DEF Begin, shared, ghost

LEMMA ReturnPool ==
    ASSUME TInv, SInv, NEW p \in Procs, Return(p), Others(p)
    PROVE  Pool'
<1>1. /\ pc[p] = "out" /\ pc'[p] = "idle" /\ loc'[p] = Idle
  BY DEF Return, Goto, TInv, Calls
<1>2. Hand(p) = Result(p) /\ Hand(p)' = {}
  BY <1>1 DEF Hand, Idle
<1>3. Knows(p)'
  BY <1>1 DEF Knows
<1>4. \A q \in Procs : q # p => pc[q] \notin Reset
  BY <1>1, NoReset DEF SInv, Resting
<1>. QED
  BY <1>2, <1>3, <1>4, Handed DEF Return, ghost

LEMMA CrashPool ==
    ASSUME TInv, SInv, NEW p \in Procs, Crash(p), Others(p)
    PROVE  Pool'
<1>1. /\ pc[p] \notin Resting /\ pc'[p] = "dead" /\ loc'[p] = Idle
  BY DEF Crash, Goto, TInv, Calls, Resting
<1>2. Hand(p)' = {}
  BY <1>1 DEF Hand, Idle
<1>3. Knows(p)'
  BY <1>1 DEF Knows
<1>4. \A q \in Procs : q # p => pc[q] \notin Reset
  BY <1>1, NoReset DEF SInv
<1>. QED
  BY <1>2, <1>3, <1>4, Handed DEF Crash, shared

----------------------------------------------------------------------------
(* The steps that change the pool.                                          *)

LEMMA PopPool ==
    ASSUME TInv, SInv, NEW p \in Procs, Pop(p), Others(p)
    PROVE  Pool'
<1>. DEFINE c == loc[p].cls
            o == loc[p].off
            b == [off |-> o, cls |-> c]
            s == list[c]
            t == Without(list[c], o)
<1>1. /\ pc[p] = "pop" /\ pc'[p] = "out" /\ loc' = loc
      /\ loc[p].op = "alloc" /\ o # 0 /\ c \in Classes
  BY Local DEF Pop, Goto, TInv, Calls, Suits, Allocating, Resting
<1>2. /\ o = head[c] /\ loc[p].nxt = link[o]
  BY <1>1 DEF SInv, Knows
<1>3. s \in Seq(Data) /\ Distinct(s) /\ Chained(head[c], s, link)
  BY <1>1 DEF TInv, Books, SInv, Lists
<1>4. s # << >> /\ o = s[1]
  BY <1>1, <1>2, <1>3 DEF Chained
<1>5. Distinct(t) /\ Chained(link[o], t, link)
  BY <1>3, <1>4, ChainPop
<1>6. /\ t \in Seq(Data) /\ Len(t) = Len(s) - 1
      /\ \A i \in 1 .. Len(t) : t[i] = s[i + 1]
  BY <1>3, <1>4, WithoutFirst
<1>7. /\ head' = [head EXCEPT ![c] = link[o]] /\ list' = [list EXCEPT ![c] = t]
      /\ UNCHANGED <<link, bump, live, leaked>>
  BY <1>2 DEF Pop
<1>8. list'[c] = t /\ \A d \in Classes : d # c => list'[d] = list[d]
  BY <1>1, <1>7 DEF TInv, Books
<1>9. head'[c] = link[o] /\ \A d \in Classes : d # c => head'[d] = head[d]
  BY <1>1, <1>7 DEF TInv, Memory
<1>10. Lists'
  BY <1>5, <1>7, <1>8, <1>9 DEF SInv, Lists
<1>11. UNCHANGED Top
  BY <1>7 DEF Top
<1>12. \A q \in Procs : Knows(q)'
  <2>1. Knows(p)'
    BY <1>1 DEF Knows
  <2>2. ASSUME NEW q \in Procs, q # p PROVE Knows(q)'
    <3>1. pc[q] \notin Reset
      BY <1>1, <2>2, NoReset DEF SInv, Resting
    <3>2. Inside(q) => loc[q].cls \in Classes /\ loc[q].cls # c
      BY <1>1, <2>2, Local DEF SInv, Alone, Inside, Section, Resting
    <3>3. Room(loc[q].cls)' => Room(loc[q].cls)
      BY <1>11, <2>2 DEF Room, Others
    <3>. QED
      BY <1>7, <1>8, <1>9, <1>11, <2>2, <3>1, <3>2, <3>3, Bystander
         DEF Others, SInv
  <2>. QED
    BY <2>1, <2>2
<1>13. Hand(p) = {} /\ Hand(p)' = {b}
  BY <1>1 DEF Hand, Result
<1>14. b \in Listed(c) /\ Listed(c)' = Listed(c) \ {b}
  <2>1. DOMAIN s = 1 .. Len(s) /\ DOMAIN t = 1 .. Len(t) /\ Len(s) \in Nat
        /\ Len(s) > 0
    BY <1>3, <1>4, <1>6
  <2>2. Listed(c) = {[off |-> s[i], cls |-> c] : i \in DOMAIN s}
    BY DEF Listed
  <2>3. Listed(c)' = {[off |-> t[i], cls |-> c] : i \in DOMAIN t}
    BY <1>1, <1>8 DEF Listed
  <2>. HIDE DEF c, o, s, t
  <2>4. b \in Listed(c)
    BY <1>4, <2>1, <2>2
  <2>5. ASSUME NEW x \in Listed(c)', x \notin Listed(c) \ {b} PROVE FALSE
    <3>1. PICK i \in DOMAIN t : x = [off |-> t[i], cls |-> c]
      BY <2>3
    <3>2. i + 1 \in DOMAIN s /\ t[i] = s[i + 1] /\ i + 1 # 1 /\ 1 \in DOMAIN s
      BY <1>6, <2>1
    <3>3. x \in Listed(c)
      BY <2>2, <3>1, <3>2
    <3>4. s[i + 1] # o
      BY <1>3, <1>4, <3>2 DEF Distinct
    <3>. QED
      BY <2>5, <3>1, <3>2, <3>3, <3>4
  <2>6. ASSUME NEW x \in Listed(c), x # b PROVE x \in Listed(c)'
    <3>1. PICK i \in DOMAIN s : x = [off |-> s[i], cls |-> c]
      BY <2>2
    <3>2. i # 1
      BY <1>4, <2>6, <3>1
    <3>3. i - 1 \in DOMAIN t /\ t[i - 1] = s[i]
      BY <1>6, <2>1, <3>2
    <3>. QED
      BY <2>3, <3>1, <3>3
  <2>. QED
    BY <2>4, <2>5, <2>6
<1>15. Heap(Piles', Top)
  <2>. DEFINE FR == <<"free", c>>
              CA == <<"call", p>>
  <2>1. FR \in Keys /\ CA \in Keys /\ FR # CA
    BY <1>1, KeyFacts
  <2>2. /\ Piles[FR] = Listed(c) /\ Piles[CA] = {}
        /\ Piles'[FR] = Listed(c) \ {b} /\ Piles'[CA] = {b}
    BY <1>1, <1>13, <1>14, NamedNow, NamedNext DEF Named
  <2>3. \A k \in Keys : k # FR /\ k # CA => Piles'[k] = Piles[k]
    <3>1. \A q \in Procs : q # p => Hand(q)' = Hand(q)
      BY HandOther
    <3>2. \A d \in Classes : d # c => Listed(d)' = Listed(d)
      BY <1>8 DEF Listed
    <3>. QED
      BY <1>7, <3>1, <3>2, KeyFacts, NamedNow, NamedNext DEF Named
  <2>. HIDE DEF FR, CA, b, c
  <2>4. Shift(Piles, Piles', {b}, FR, CA)
    BY <1>14, <2>1, <2>2, <2>3 DEF Shift
  <2>. QED
    BY <2>4, Moved DEF SInv
<1>. QED
  BY <1>10, <1>11, <1>12, <1>15 DEF Pool

LEMMA StoreBumpPool ==
    ASSUME TInv, SInv, NEW p \in Procs, StoreBump(p), Others(p)
    PROVE  Pool'
<1>. DEFINE c == loc[p].cls
            b == [off |-> loc[p].off, cls |-> c]
            size == SizeClasses[c]
<1>1. /\ pc[p] = "grow" /\ pc'[p] = "out" /\ loc' = loc
      /\ loc[p].op = "alloc" /\ loc[p].off # 0 /\ c \in Classes
  BY Local DEF StoreBump, Goto, TInv, Calls, Suits, Allocating, Resting
<1>2. loc[p].off = Top
  BY <1>1 DEF SInv, Knows
<1>3. /\ Top \in Nat /\ size \in Nat \ {0}
  BY <1>1, TopTyped, Constants
<1>4. b \in Blocks
  BY <1>1, Local DEF Blocks, Data
<1>5. Top' = Top + size
  BY <1>2, <1>3, Constants DEF StoreBump, Top
<1>6. UNCHANGED <<head, link, list, live, leaked>>
  BY DEF StoreBump, ghost
<1>. HIDE DEF size
<1>7. Lists'
  BY <1>6 DEF SInv, Lists
<1>8. \A q \in Procs : Knows(q)'
  <2>1. Knows(p)'
    BY <1>1 DEF Knows
  <2>2. ASSUME NEW q \in Procs, q # p PROVE Knows(q)'
    <3>1. pc[q] \notin Reset
      BY <1>1, <2>2, NoReset DEF SInv, Resting
    <3>2. pc[q] # "grow"
      BY <1>1, <2>2 DEF SInv, Alone, Inside, Section
    <3>3. Inside(q) => (Room(loc[q].cls)' => Room(loc[q].cls))
      <4>1. Inside(q) => SizeClasses[loc[q].cls] \in Nat
        BY Local, Constants DEF Inside, Section, Resting
      <4>2. loc'[q] = loc[q]
        BY <1>1
      <4>. QED
        BY <1>3, <1>5, <4>1, <4>2, Constants DEF Room
    <3>. QED
      BY <1>6, <2>2, <3>1, <3>2, <3>3, Bystander DEF Others, SInv
  <2>. QED
    BY <2>1, <2>2
<1>9. Hand(p) = {} /\ Hand(p)' = {b}
  BY <1>1 DEF Hand, Result
<1>10. Heap(Piles', Top')
  <2>. DEFINE CA == <<"call", p>>
  <2>1. CA \in Keys
    BY KeyFacts
  <2>2. Piles[CA] = {} /\ Piles'[CA] = {b}
    BY <1>9, NamedNow, NamedNext DEF Named
  <2>3. \A k \in Keys : k # CA => Piles'[k] = Piles[k]
    <3>1. \A q \in Procs : q # p => Hand(q)' = Hand(q)
      BY HandOther
    <3>2. \A d \in Classes : Listed(d)' = Listed(d)
      BY <1>6 DEF Listed
    <3>. QED
      BY <1>6, <3>1, <3>2, KeyFacts, NamedNow, NamedNext DEF Named
  <2>4. b.off = Top /\ SizeClasses[b.cls] = size
    BY <1>2 DEF size
  <2>. HIDE DEF CA, b
  <2>5. Piles'[CA] = Piles[CA] \cup {b}
    BY <2>2
  <2>. QED
    BY <1>3, <1>4, <1>5, <2>1, <2>3, <2>4, <2>5, Made DEF SInv
<1>. QED
  BY <1>7, <1>8, <1>10 DEF Pool

\* The block that a call frees is in no list and in no other hand.
LEMMA Own ==
    ASSUME TInv, SInv, NEW p \in Procs, pc[p] \in Freeing
    PROVE  /\ loc[p].op = "free" /\ loc[p].cls \in Classes
           /\ loc[p].off \in Data
           /\ Hand(p) = {[off |-> loc[p].off, cls |-> loc[p].cls]}
           /\ \A c \in Classes : \A i \in DOMAIN list[c] :
                 list[c][i] # loc[p].off
           /\ \A q \in Procs : q # p /\ pc[q] \in Freeing =>
                 loc[q].off # loc[p].off
<1>1. /\ loc[p].op = "free" /\ loc[p].cls \in Classes /\ loc[p].off \in Data
  BY Local DEF Suits, Freeing, Resting
<1>2. \A q \in Procs : pc[q] \in Freeing =>
          Hand(q) = {[off |-> loc[q].off, cls |-> loc[q].cls]}
  BY Local DEF Suits, Freeing, Resting, Hand
<1>3. ASSUME NEW c \in Classes, NEW i \in DOMAIN list[c],
             list[c][i] = loc[p].off
      PROVE  FALSE
  <2>1. [off |-> list[c][i], cls |-> c] \in Piles[<<"free", c>>]
    BY NamedNow DEF Named, Listed
  <2>2. [off |-> loc[p].off, cls |-> loc[p].cls] \in Piles[<<"call", p>>]
    BY <1>2, NamedNow DEF Named
  <2>3. <<"free", c>> \in Keys /\ <<"call", p>> \in Keys
    BY KeyFacts
  <2>. DEFINE F == <<"free", c>>
              K == <<"call", p>>
              x == [off |-> list[c][i], cls |-> c]
              y == [off |-> loc[p].off, cls |-> loc[p].cls]
  <2>4. x.off = y.off /\ F # K
    BY <1>3
  <2>. HIDE DEF F, K, x, y
  <2>. QED
    BY <2>1, <2>2, <2>3, <2>4, OneAt DEF SInv, F, K, x, y
<1>4. ASSUME NEW q \in Procs, q # p, pc[q] \in Freeing,
             loc[q].off = loc[p].off
      PROVE  FALSE
  <2>. DEFINE F == <<"call", q>>
              K == <<"call", p>>
              x == [off |-> loc[q].off, cls |-> loc[q].cls]
              y == [off |-> loc[p].off, cls |-> loc[p].cls]
  <2>1. x \in Piles[F] /\ y \in Piles[K]
    BY <1>2, <1>4, NamedNow DEF Named
  <2>2. F \in Keys /\ K \in Keys
    BY KeyFacts
  <2>3. x.off = y.off /\ F # K
    BY <1>4
  <2>. HIDE DEF F, K, x, y
  <2>. QED
    BY <2>1, <2>2, <2>3, OneAt DEF SInv
<1>. QED
  BY <1>1, <1>2, <1>3, <1>4

LEMMA FreeLinkPool ==
    ASSUME TInv, SInv, NEW p \in Procs, FreeLink(p), Others(p)
    PROVE  Pool'
<1>. DEFINE o == loc[p].off
<1>1. /\ pc[p] = "link" /\ pc'[p] = "push" /\ loc' = loc
      /\ pc[p] \in Freeing
  BY DEF FreeLink, Goto, TInv, Calls, Freeing
<1>2. /\ o \in Data /\ loc[p].op = "free"
      /\ \A c \in Classes : \A i \in DOMAIN list[c] : list[c][i] # o
      /\ \A q \in Procs : q # p /\ pc[q] \in Freeing => loc[q].off # o
  BY <1>1, Own
<1>3. /\ link' = [link EXCEPT ![o] = loc[p].nxt]
      /\ UNCHANGED <<head, bump, list, live, leaked>>
  BY DEF FreeLink, ghost
<1>4. link'[o] = loc[p].nxt /\ \A x : x # o => link'[x] = link[x]
  BY <1>2, <1>3 DEF TInv, Memory
<1>5. Lists'
  <2>. SUFFICES ASSUME NEW c \in Classes
                PROVE  Distinct(list[c]) /\ Chained(head[c], list[c], link')
    BY <1>3 DEF Lists
  <2>1. list[c] \in Seq(Data) /\ Chained(head[c], list[c], link)
    BY DEF TInv, Books, SInv, Lists
  <2>2. \A i \in DOMAIN list[c] : link'[list[c][i]] = link[list[c][i]]
    BY <1>2, <1>4
  <2>. QED
    BY <2>1, <2>2, ChainAside DEF SInv, Lists
<1>6. UNCHANGED Top
  BY <1>3 DEF Top
<1>7. \A q \in Procs : Knows(q)'
  <2>1. Knows(p)'
    BY <1>1, <1>3, <1>4 DEF Knows, SInv
  <2>2. ASSUME NEW q \in Procs, q # p PROVE Knows(q)'
    <3>1. pc[q] \notin Reset
      BY <1>1, <2>2, NoReset DEF SInv, Resting
    <3>2. pc[q] = "pop" => loc[q].off # o
      <4>. SUFFICES ASSUME pc[q] = "pop" PROVE loc[q].off # o
        OBVIOUS
      <4>. DEFINE d == loc[q].cls
      <4>1. d \in Classes /\ loc[q].off # 0 /\ loc[q].off = head[d]
        BY Local DEF Suits, Resting, SInv, Knows
      <4>2. list[d] \in Seq(Data) /\ Chained(head[d], list[d], link)
        BY <4>1 DEF TInv, Books, SInv, Lists
      <4>3. list[d] # << >> /\ head[d] = list[d][1]
        BY <4>1, <4>2 DEF Chained
      <4>4. 1 \in DOMAIN list[d]
        BY <4>2, <4>3
      <4>. QED
        BY <1>2, <4>1, <4>3, <4>4
    <3>3. pc[q] = "push" => loc[q].off # o
      BY <1>2, <2>2 DEF Freeing
    <3>4. Room(loc[q].cls)' => Room(loc[q].cls)
      BY <1>1, <1>6 DEF Room
    <3>. QED
      BY <1>3, <1>4, <1>6, <2>2, <3>1, <3>2, <3>3, <3>4, Bystander
         DEF Others, SInv
  <2>. QED
    BY <2>1, <2>2
<1>8. \A k \in Keys : Piles'[k] = Piles[k]
  <2>1. Hand(p)' = Hand(p)
    BY <1>1 DEF Hand
  <2>2. \A q \in Procs : Hand(q)' = Hand(q)
    BY <2>1, HandOther
  <2>3. \A c \in Classes : Listed(c)' = Listed(c)
    BY <1>3 DEF Listed
  <2>. QED
    BY <1>3, <2>2, <2>3, KeyFacts, NamedNow, NamedNext DEF Named
<1>9. Heap(Piles, Top)'
  BY <1>6, <1>8, Kept DEF SInv
<1>. QED
  BY <1>5, <1>7, <1>9 DEF Pool

LEMMA FreePushPool ==
    ASSUME TInv, SInv, NEW p \in Procs, FreePush(p), Others(p)
    PROVE  Pool'
<1>. DEFINE c == loc[p].cls
            o == loc[p].off
            b == [off |-> o, cls |-> c]
            s == list[c]
            t == <<o>> \o list[c]
<1>1. /\ pc[p] = "push" /\ pc'[p] = "out" /\ loc' = loc
      /\ pc[p] \in Freeing
  BY DEF FreePush, Goto, TInv, Calls, Freeing
<1>2. /\ o \in Data /\ loc[p].op = "free" /\ c \in Classes
      /\ Hand(p) = {b} /\ \A i \in DOMAIN s : s[i] # o
  BY <1>1, Own
<1>3. link[o] = head[c]
  BY <1>1 DEF SInv, Knows
<1>4. s \in Seq(Data) /\ Distinct(s) /\ Chained(head[c], s, link)
  BY <1>2 DEF TInv, Books, SInv, Lists
<1>5. Distinct(t) /\ Chained(o, t, link)
  BY <1>2, <1>3, <1>4, ChainPush
<1>6. /\ head' = [head EXCEPT ![c] = o] /\ list' = [list EXCEPT ![c] = t]
      /\ UNCHANGED <<link, bump, live, leaked>>
  BY DEF FreePush
<1>7. list'[c] = t /\ \A d \in Classes : d # c => list'[d] = list[d]
  BY <1>2, <1>6 DEF TInv, Books
<1>8. head'[c] = o /\ \A d \in Classes : d # c => head'[d] = head[d]
  BY <1>2, <1>6 DEF TInv, Memory
<1>9. Lists'
  BY <1>5, <1>6, <1>7, <1>8 DEF SInv, Lists
<1>10. UNCHANGED Top
  BY <1>6 DEF Top
<1>11. \A q \in Procs : Knows(q)'
  <2>1. Knows(p)'
    BY <1>1, <1>2 DEF Knows
  <2>2. ASSUME NEW q \in Procs, q # p PROVE Knows(q)'
    <3>1. pc[q] \notin Reset
      BY <1>1, <2>2, NoReset DEF SInv, Resting
    <3>2. Inside(q) => loc[q].cls \in Classes /\ loc[q].cls # c
      BY <1>1, <2>2, Local DEF SInv, Alone, Inside, Section, Resting
    <3>3. Room(loc[q].cls)' => Room(loc[q].cls)
      BY <1>1, <1>10 DEF Room
    <3>. QED
      BY <1>6, <1>7, <1>8, <1>10, <2>2, <3>1, <3>2, <3>3, Bystander
         DEF Others, SInv
  <2>. QED
    BY <2>1, <2>2
<1>12. Hand(p)' = {}
  BY <1>1, <1>2 DEF Hand, Result
<1>13. Listed(c)' = Listed(c) \cup {b}
  <2>1. /\ DOMAIN s = 1 .. Len(s) /\ DOMAIN t = 1 .. Len(s) + 1
        /\ t[1] = o /\ \A i \in DOMAIN s : t[i + 1] = s[i]
        /\ Len(s) \in Nat
    BY <1>2, <1>4
  <2>2. Listed(c) = {[off |-> s[i], cls |-> c] : i \in DOMAIN s}
    BY DEF Listed
  <2>3. Listed(c)' = {[off |-> t[i], cls |-> c] : i \in DOMAIN t}
    BY <1>1, <1>7 DEF Listed
  <2>. HIDE DEF c, o, s, t
  <2>4. ASSUME NEW x \in Listed(c)' PROVE x \in Listed(c) \cup {b}
    <3>1. PICK i \in DOMAIN t : x = [off |-> t[i], cls |-> c]
      BY <2>3
    <3>2. i = 1 \/ (i - 1 \in DOMAIN s /\ t[i] = s[i - 1])
      <4>1. i # 1 => i - 1 \in DOMAIN s /\ i - 1 + 1 = i
        BY <2>1
      <4>. QED
        BY <2>1, <4>1
    <3>. QED
      BY <2>1, <2>2, <3>1, <3>2
  <2>5. b \in Listed(c)'
    <3>1. 1 \in DOMAIN t
      BY <2>1
    <3>. QED
      BY <2>1, <2>3, <3>1
  <2>6. ASSUME NEW x \in Listed(c) PROVE x \in Listed(c)'
    <3>1. PICK i \in DOMAIN s : x = [off |-> s[i], cls |-> c]
      BY <2>2
    <3>2. i + 1 \in DOMAIN t /\ t[i + 1] = s[i]
      BY <2>1
    <3>. QED
      BY <2>3, <3>1, <3>2
  <2>. QED
    BY <2>4, <2>5, <2>6
<1>14. Heap(Piles', Top)
  <2>. DEFINE FR == <<"free", c>>
              CA == <<"call", p>>
  <2>1. FR \in Keys /\ CA \in Keys /\ FR # CA
    BY <1>2, KeyFacts
  <2>2. /\ Piles[FR] = Listed(c) /\ Piles[CA] = {b}
        /\ Piles'[FR] = Listed(c) \cup {b} /\ Piles'[CA] = {}
    BY <1>1, <1>2, <1>12, <1>13, NamedNow, NamedNext DEF Named
  <2>3. \A k \in Keys : k # FR /\ k # CA => Piles'[k] = Piles[k]
    <3>1. \A q \in Procs : q # p => Hand(q)' = Hand(q)
      BY HandOther
    <3>2. \A d \in Classes : d # c => Listed(d)' = Listed(d)
      BY <1>7 DEF Listed
    <3>. QED
      BY <1>6, <3>1, <3>2, KeyFacts, NamedNow, NamedNext DEF Named
  <2>. HIDE DEF FR, CA, b, c
  <2>4. Shift(Piles, Piles', {b}, CA, FR)
    BY <2>1, <2>2, <2>3 DEF Shift
  <2>. QED
    BY <2>4, Moved DEF SInv
<1>. QED
  BY <1>9, <1>10, <1>11, <1>14 DEF Pool

LEMMA ResetClassPool ==
    ASSUME TInv, SInv, NEW p \in Procs, ResetClass(p), Others(p)
    PROVE  Pool'
<1>0. PICK c \in Classes : c = loc[p].cls
  BY Local DEF ResetClass, Resting
<1>. DEFINE M == {[off |-> list[c][i], cls |-> c] : i \in DOMAIN list[c]}
<1>1. /\ pc[p] = "zero" /\ loc[p].op = "reset" /\ loc[p] \in Frames
  BY Local DEF ResetClass, Suits, Resting, Reset
<1>2. /\ head' = [head EXCEPT ![c] = 0] /\ list' = [list EXCEPT ![c] = << >>]
      /\ UNCHANGED <<link, bump, live>> /\ leaked' = leaked \cup M
  BY <1>0 DEF ResetClass
<1>3. \A q \in Procs : q # p => pc[q] \in Resting
  BY <1>1 DEF SInv, Alone, Reset
<1>4. list'[c] = << >> /\ \A d \in Classes : d # c => list'[d] = list[d]
  BY <1>1, <1>2 DEF TInv, Books
<1>5. head'[c] = 0 /\ \A d \in Classes : d # c => head'[d] = head[d]
  BY <1>1, <1>2 DEF TInv, Memory
<1>6. Lists'
  BY <1>2, <1>4, <1>5, ChainEmpty DEF SInv, Lists
<1>7. \A d \in Classes : d < c => list[d] = << >>
  BY <1>0, <1>1 DEF SInv, Knows
<1>8. Knows(p)'
  <2>1. CASE c = Len(SizeClasses)
    <3>1. pc'[p] = "zero_bump"
      BY <1>0, <2>1 DEF ResetClass, Goto, TInv, Calls
    <3>2. \A d \in Classes : d < c \/ d = c
      BY <2>1, <1>1 DEF Classes
    <3>3. \A d \in Classes : list'[d] = << >>
      BY <1>4, <1>7, <3>2
    <3>. QED
      BY <3>1, <3>3 DEF Knows
  <2>2. CASE c # Len(SizeClasses)
    <3>1. pc'[p] = "zero" /\ loc'[p].cls = c + 1
      BY <1>0, <1>1, <2>2 DEF ResetClass, TInv, Calls, Frames
    <3>2. \A d \in Classes : d < c + 1 => d < c \/ d = c
      BY <1>1 DEF Classes
    <3>3. \A d \in Classes : d < c + 1 => list'[d] = << >>
      BY <1>4, <1>7, <3>2
    <3>. QED
      BY <3>1, <3>3 DEF Knows
  <2>. QED
    BY <2>1, <2>2
<1>9. \A q \in Procs : Knows(q)'
  <2>1. ASSUME NEW q \in Procs, q # p PROVE Knows(q)'
    <3>1. pc'[q] \in Resting
      BY <1>3, <2>1 DEF Others
    <3>. QED
      BY <3>1 DEF Knows, Resting
  <2>. QED
    BY <1>8, <2>1
<1>10. UNCHANGED Top
  BY <1>2 DEF Top
<1>11. Hand(p) = {} /\ Hand(p)' = {}
  <2>1. pc'[p] \in Reset /\ loc'[p].op = "reset"
    BY <1>1 DEF ResetClass, Goto, Reset, TInv, Calls, Frames
  <2>. QED
    BY <1>1, <2>1 DEF Hand, Reset
<1>12. M = Listed(c) /\ Listed(c)' = {}
  BY <1>1, <1>4 DEF Listed
<1>13. Heap(Piles', Top)
  <2>. DEFINE FR == <<"free", c>>
              LO == <<"lost", 0>>
  <2>1. FR \in Keys /\ LO \in Keys /\ FR # LO
    BY <1>1, KeyFacts
  <2>2. /\ Piles[FR] = M /\ Piles[LO] = leaked
        /\ Piles'[FR] = {} /\ Piles'[LO] = leaked \cup M
    BY <1>1, <1>2, <1>12, NamedNow, NamedNext DEF Named
  <2>3. \A k \in Keys : k # FR /\ k # LO => Piles'[k] = Piles[k]
    <3>1. \A q \in Procs : Hand(q)' = Hand(q)
      BY <1>11, HandOther
    <3>2. \A d \in Classes : d # c => Listed(d)' = Listed(d)
      BY <1>4 DEF Listed
    <3>. QED
      BY <1>2, <3>1, <3>2, KeyFacts, NamedNow, NamedNext DEF Named
  <2>. HIDE DEF FR, LO, M
  <2>4. Shift(Piles, Piles', M, FR, LO)
    BY <2>1, <2>2, <2>3 DEF Shift
  <2>. QED
    BY <2>4, Moved DEF SInv
<1>. QED
  BY <1>6, <1>9, <1>10, <1>13 DEF Pool

LEMMA ResetBumpPool ==
    ASSUME TInv, SInv, NEW p \in Procs, ResetBump(p), Others(p)
    PROVE  Pool'
<1>1. /\ pc[p] = "zero_bump" /\ pc'[p] = "idle" /\ loc'[p] = Idle
      /\ UNCHANGED <<head, link, list>>
  BY DEF ResetBump, Goto, TInv, Calls
<1>2. \A q \in Procs : q # p => pc[q] \in Resting
  BY <1>1 DEF SInv, Alone, Reset
<1>3. \A q \in Procs : pc'[q] \in Resting /\ loc'[q] = Idle
  BY <1>1, <1>2, Local DEF Others, Suits, Resting
<1>4. \A q \in Procs : Knows(q)'
  BY <1>3 DEF Knows, Resting
<1>5. Lists'
  BY <1>1 DEF SInv, Lists
<1>6. \A c \in Classes : list[c] = << >>
  BY <1>1 DEF SInv, Knows
<1>7. \A k \in Keys : Piles'[k] = {}
  <2>1. \A q \in Procs : Hand(q)' = {}
    BY <1>3 DEF Hand, Resting, Idle
  <2>2. \A c \in Classes : Listed(c)' = {}
    BY <1>1, <1>6 DEF Listed
  <2>3. live' = {} /\ leaked' = {}
    BY DEF ResetBump
  <2>. QED
    BY <2>1, <2>2, <2>3, KeyFacts, NamedNext DEF Named
<1>8. Top' = DataStart
  BY DEF ResetBump, Top
<1>9. Heap(Piles', Top')
  BY <1>7, <1>8, Nothing
<1>. QED
  BY <1>4, <1>5, <1>9 DEF Pool

LEMMA PoolStep ==
    ASSUME TInv, SInv, KeptApart, [Next]_vars
    PROVE  Pool'
<1>1. CASE UNCHANGED vars
  <2>1. UNCHANGED Top
    BY <1>1 DEF Top, vars, shared
  <2>2. \A q \in Procs : Hand(q)' = Hand(q)
    BY <1>1 DEF Hand, Result, vars
  <2>3. \A c \in Classes : Listed(c)' = Listed(c)
    BY <1>1 DEF Listed, vars, ghost
  <2>4. \A k \in Keys : Piles'[k] = Piles[k]
    BY <1>1, <2>2, <2>3, KeyFacts, NamedNow, NamedNext DEF Named, vars, ghost
  <2>5. Heap(Piles, Top)'
    BY <2>1, <2>4, Kept DEF SInv
  <2>6. Lists'
    BY <1>1 DEF SInv, Lists, vars, shared, ghost
  <2>7. ASSUME NEW q \in Procs PROVE Knows(q)'
    BY <1>1, <2>1 DEF SInv, Knows, Room, vars, shared, ghost
  <2>. QED
    BY <2>5, <2>6, <2>7 DEF Pool
<1>2. CASE Next
  <2>1. PICK p \in Procs : Call(p) \/ Step(p) \/ Crash(p)
    BY <1>2 DEF Next
  <2>2. Others(p)
    BY <2>1, StepOthers
  <2>3. CASE Call(p)
    BY <2>2, <2>3, AllocPool, FreePool, ResetBeginPool DEF Call
  <2>4. CASE Step(p)
    BY <2>2, <2>4, LockPool, LoadHeadPool, LoadNextPool, PopPool,
       LoadBumpPool, StoreBumpPool, FreeHeadPool, FreeLinkPool, FreePushPool,
       ReturnPool, ResetClassPool, ResetBumpPool DEF Step
  <2>5. CASE Crash(p)
    BY <2>2, <2>5, CrashPool
  <2>. QED
    BY <2>1, <2>3, <2>4, <2>5
<1>. QED
  BY <1>1, <1>2

LEMMA SInvStep == KeptApart /\ TInv /\ SInv /\ [Next]_vars => SInv'
<1>. SUFFICES ASSUME KeptApart, TInv, SInv, [Next]_vars PROVE SInv'
  OBVIOUS
<1>1. Alone'
  BY AloneStep DEF SInv
<1>2. Pool'
  BY PoolStep
<1>. QED
  BY <1>1, <1>2 DEF SInv, Pool

LEMMA InvAlways == KeptApart => (Spec => [](TInv /\ SInv))
<1>. SUFFICES ASSUME KeptApart PROVE Spec => [](TInv /\ SInv)
  OBVIOUS
<1>1. Init => TInv /\ SInv
  BY TInvInit, SInvInit
<1>2. TInv /\ SInv /\ [Next]_vars => (TInv /\ SInv)'
  BY TypeStep, SInvStep
<1>. QED
  BY <1>1, <1>2, PTL DEF Spec

----------------------------------------------------------------------------
(* What the callers rely on.                                                *)

\* A place is a pile, and which of its blocks it names is clear.
Site(x) ==
    \/ \E b \in live : x = <<"live", 0, b>>
    \/ \E b \in leaked : x = <<"lost", 0, b>>
    \/ \E p \in Procs : \E b \in Hand(p) : x = <<"call", p, b>>
    \/ \E c \in Classes : \E i \in DOMAIN list[c] :
          x = <<"free", i, [off |-> list[c][i], cls |-> c]>>

LEMMA Sites == \A x : x \in Places <=> Site(x)
<1>. TAKE x
<1>. DEFINE free(c) == {<<"free", i, [off |-> list[c][i], cls |-> c]>> :
                           i \in DOMAIN list[c]}
            C == UNION {{<<"call", p, b>> : b \in Hand(p)} : p \in Procs}
            D == UNION {free(c) : c \in Classes}
<1>1. x \in Places <=> \/ \E b \in live : x = <<"live", 0, b>>
                       \/ \E b \in leaked : x = <<"lost", 0, b>>
                       \/ x \in C \/ x \in D
  BY DEF Places
<1>2. x \in C <=> \E p \in Procs : \E b \in Hand(p) : x = <<"call", p, b>>
  OBVIOUS
<1>3. x \in D <=> \E c \in Classes : \E i \in DOMAIN list[c] :
                    x = <<"free", i, [off |-> list[c][i], cls |-> c]>>
  OBVIOUS
<1>. HIDE DEF C, D
<1>. QED
  BY <1>1, <1>2, <1>3 DEF Site

\* A place is in a pile k, and which of its blocks it names is clear.
Locates(k, x) ==
    /\ x[3] \in Piles[k] /\ x[1] = k[1]
    /\ k[1] \in {"live", "lost"} => x[2] = 0
    /\ k[1] = "call" => x[2] = k[2]
    /\ k[1] = "free" =>
          x[2] \in DOMAIN list[k[2]] /\ x[3].off = list[k[2]][x[2]]
    /\ x = <<x[1], x[2], x[3]>>

LEMMA PlaceOfPile ==
    ASSUME NEW x \in Places PROVE \E k \in Keys : Locates(k, x)
<1>1. ASSUME NEW b \in live, x = <<"live", 0, b>>
      PROVE  Locates(<<"live", 0>>, x)
  BY <1>1, NamedNow DEF Named, Locates
<1>2. ASSUME NEW b \in leaked, x = <<"lost", 0, b>>
      PROVE  Locates(<<"lost", 0>>, x)
  BY <1>2, NamedNow DEF Named, Locates
<1>3. ASSUME NEW p \in Procs, NEW b \in Hand(p), x = <<"call", p, b>>
      PROVE  Locates(<<"call", p>>, x)
  BY <1>3, NamedNow DEF Named, Locates
<1>4. ASSUME NEW c \in Classes, NEW i \in DOMAIN list[c],
             x = <<"free", i, [off |-> list[c][i], cls |-> c]>>
      PROVE  Locates(<<"free", c>>, x)
  <2>. DEFINE b == [off |-> list[c][i], cls |-> c]
  <2>1. b \in Piles[<<"free", c>>] /\ b.off = list[c][i]
    BY NamedNow DEF Named, Listed
  <2>2. x = <<"free", i, b>>
    BY <1>4
  <2>. HIDE DEF b
  <2>. QED
    BY <2>1, <2>2 DEF Locates
<1>5. Site(x)
  BY Sites
<1>6. /\ <<"live", 0>> \in Keys /\ <<"lost", 0>> \in Keys
      /\ \A p \in Procs : <<"call", p>> \in Keys
      /\ \A c \in Classes : <<"free", c>> \in Keys
  BY KeyFacts
<1>7. CASE \E c \in Classes : \E i \in DOMAIN list[c] :
             x = <<"free", i, [off |-> list[c][i], cls |-> c]>>
  BY <1>4, <1>6, <1>7
<1>8. CASE \E p \in Procs : \E b \in Hand(p) : x = <<"call", p, b>>
  BY <1>3, <1>6, <1>8
<1>. QED
  BY <1>1, <1>2, <1>5, <1>6, <1>7, <1>8 DEF Site

LEMMA Owners == TInv /\ SInv => OneOwner
<1>. SUFFICES ASSUME TInv, SInv, NEW x \in Places, NEW y \in Places, x # y
              PROVE  Words(x[3]) \cap Words(y[3]) = {}
  BY DEF OneOwner
<1>1. PICK k \in Keys : Locates(k, x)
  BY PlaceOfPile
<1>2. PICK l \in Keys : Locates(l, y)
  BY PlaceOfPile
<1>. USE DEF Locates
<1>3. CASE k # l
  BY <1>1, <1>2, <1>3 DEF SInv, Heap, Disjoint
<1>4. CASE k = l
  <2>1. x[2] # y[2] \/ x[3] # y[3]
    BY <1>1, <1>2, <1>4
  <2>2. x[3] # y[3]
    <3>1. CASE k[1] # "free"
      <4>1. k[1] \in {"live", "lost", "call"}
        BY <3>1, KeyFacts
      <4>. QED
        BY <1>1, <1>2, <1>4, <2>1, <4>1
    <3>2. CASE k[1] = "free"
      <4>1. PICK c \in Classes : k = <<"free", c>>
        BY <3>2, KeyFacts
      <4>2. Distinct(list[c])
        BY DEF SInv, Lists
      <4>. QED
        BY <1>1, <1>2, <1>4, <2>1, <3>2, <4>1, <4>2 DEF Distinct
    <3>. QED
      BY <3>1, <3>2
  <2>. QED
    BY <1>1, <1>2, <1>4, <2>2 DEF SInv, Heap, Disjoint
<1>. QED
  BY <1>3, <1>4

LEMMA PileOfPlace ==
    ASSUME NEW k \in Keys, NEW b \in Piles[k]
    PROVE  \E x \in Places : x[3] = b
<1>1. CASE k = <<"live", 0>>
  <2>1. <<"live", 0, b>> \in Places
    BY <1>1, NamedNow, Sites DEF Named, Site
  <2>. QED
    BY <2>1
<1>2. CASE k = <<"lost", 0>>
  <2>1. <<"lost", 0, b>> \in Places
    BY <1>2, NamedNow, Sites DEF Named, Site
  <2>. QED
    BY <2>1
<1>3. ASSUME NEW p \in Procs, k = <<"call", p>>
      PROVE  \E x \in Places : x[3] = b
  <2>1. <<"call", p, b>> \in Places
    BY <1>3, NamedNow, Sites DEF Named, Site
  <2>. QED
    BY <2>1
<1>4. ASSUME NEW c \in Classes, k = <<"free", c>>
      PROVE  \E x \in Places : x[3] = b
  <2>1. PICK i \in DOMAIN list[c] : b = [off |-> list[c][i], cls |-> c]
    BY <1>4, NamedNow DEF Named, Listed
  <2>2. <<"free", i, b>> \in Places
    BY <2>1, Sites DEF Site
  <2>. QED
    BY <2>2
<1>. QED
  BY <1>1, <1>2, <1>3, <1>4, KeyFacts

LEMMA Nowhere == TInv /\ SInv => NothingLost
<1>. SUFFICES ASSUME TInv, SInv PROVE NothingLost
  OBVIOUS
<1>. DEFINE All == UNION {Words(x[3]) : x \in Places}
<1>1. ASSUME NEW x \in Places, NEW w \in Words(x[3])
      PROVE  w \in DataStart .. Top - 1
  <2>1. PICK k \in Keys : x[3] \in Piles[k]
    BY PlaceOfPile DEF Locates
  <2>2. x[3] \in Blocks /\ x[3].off + SizeClasses[x[3].cls] <= Top
    BY <2>1 DEF SInv, Heap, Below
  <2>3. /\ x[3].off \in Nat /\ DataStart <= x[3].off
        /\ SizeClasses[x[3].cls] \in Nat
    BY <2>2, Constants DEF Blocks, Data
  <2>4. /\ w \in Nat /\ x[3].off <= w
        /\ w <= x[3].off + SizeClasses[x[3].cls] - 1
    BY <2>3 DEF Words
  <2>5. Top \in Nat /\ DataStart \in Nat
    BY TopTyped, Constants
  <2>6. x[3].off + SizeClasses[x[3].cls] <= Top
    BY <2>2
  <2>. HIDE DEF All
  <2>. QED
    BY <2>3, <2>4, <2>5, <2>6
<1>2. ASSUME NEW w \in DataStart .. Top - 1 PROVE w \in All
  <2>1. PICK k \in Keys : \E b \in Piles[k] : w \in Words(b)
    BY DEF SInv, Heap, Covering
  <2>2. PICK b \in Piles[k] : w \in Words(b)
    BY <2>1
  <2>3. PICK x \in Places : x[3] = b
    BY PileOfPlace
  <2>. QED
    BY <2>2, <2>3
<1>3. All = DataStart .. Top - 1
  BY <1>1, <1>2
<1>. QED
  BY <1>3 DEF NothingLost

LEMMA ListsWhole == TInv /\ SInv => ListIntact
<1>. SUFFICES ASSUME TInv, SInv, NEW c \in Classes
              PROVE  LET s == list[c] \o <<0>> IN
                     /\ head[c] = s[1]
                     /\ \A i \in DOMAIN list[c] : link[s[i]] = s[i + 1]
  BY DEF ListIntact
<1>. DEFINE l == list[c]
            s == l \o <<0>>
<1>1. l \in Seq(Data) /\ Chained(head[c], l, link)
  BY DEF TInv, Books, SInv, Lists
<1>2. l \in Seq(Spots) /\ Len(l) \in Nat /\ DOMAIN l = 1 .. Len(l)
  <2>1. Data \subseteq Spots
    BY DEF Spots
  <2>2. \A z : z \in Seq(Data) => z \in Seq(Spots)
    BY <2>1
  <2>. QED
    BY <1>1, <2>2
<1>3. /\ s \in Seq(Spots) /\ Len(s) = Len(l) + 1 /\ s[Len(l) + 1] = 0
      /\ \A i \in 1 .. Len(l) : s[i] = l[i]
  <2>1. <<0>> \in Seq(Spots)
    BY DEF Spots
  <2>. QED
    BY <1>2, <2>1
<1>. HIDE DEF s
<1>4. head[c] = s[1]
  BY <1>1, <1>2, <1>3 DEF Chained
<1>5. ASSUME NEW i \in DOMAIN l PROVE link[s[i]] = s[i + 1]
  <2>1. link[l[i]] = IF i = Len(l) THEN 0 ELSE l[i + 1]
    BY <1>1 DEF Chained
  <2>2. s[i] = l[i] /\ (i # Len(l) => s[i + 1] = l[i + 1])
    <3>1. i # Len(l) => i + 1 \in 1 .. Len(l)
      BY <1>2
    <3>. QED
      BY <1>2, <1>3, <3>1
  <2>. QED
    BY <1>2, <1>3, <2>1, <2>2
<1>. QED
  BY <1>4, <1>5 DEF s

LEMMA FullKnown == TInv /\ SInv => FullMeansFull
<1>. SUFFICES ASSUME TInv, SInv, NEW p \in Procs, NEW c \in Classes,
                     pc[p] = "out",
                     loc[p] = [Idle EXCEPT !.op = "alloc", !.cls = c]
              PROVE  list[c] = << >> /\ Top + SizeClasses[c] > PoolEnd
  BY DEF FullMeansFull
<1>1. loc[p].op = "alloc" /\ loc[p].cls = c /\ loc[p].off = 0
  BY DEF Idle
<1>2. list[c] = << >> /\ ~Room(c)
  BY <1>1 DEF SInv, Knows
<1>. QED
  BY <1>2, TopTyped, Constants DEF Room

\* As long as a reset, a call under the flock and two classes at the bump
\* pointer meet nobody, what alloc returns is the caller's alone: no two blocks
\* overlap and none is in two places, for any number of processes, classes,
\* calls and deaths (slab.rs alloc_from_class, free).
THEOREM BlocksHaveOneOwner == KeptApart => (Spec => []OneOwner)
BY InvAlways, Owners, PTL

\* Under the same condition every free list runs from its head through exactly
\* the blocks that were freed and not taken since.
THEOREM FreeListsAreWhole == KeptApart => (Spec => []ListIntact)
BY InvAlways, ListsWhole, PTL

\* Under the same condition every word below the bump pointer belongs to a
\* block in one known place: only a death loses memory.
THEOREM PoolIsAccountedFor == KeptApart => (Spec => []NothingLost)
BY InvAlways, Nowhere, PTL

\* Under the same condition alloc answers "out of memory" only when the class
\* has no free block and the rest of the pool is too small for one.
THEOREM OutOfMemoryIsTrue == KeptApart => (Spec => []FullMeansFull)
BY InvAlways, FullKnown, PTL

=============================================================================
