-------------------------------- MODULE Slab --------------------------------
(* The slab allocator of the dynamic pool (slab.rs, SIZE_CLASSES of         *)
(* layout.rs).  Overflow pages are allocated and freed under the spinlock   *)
(* of their size class; rings and member arrays under the flock, without    *)
(* the spinlock (alloc_cold, free_cold).  The free list of a class runs     *)
(* through the first word of its free blocks; a class whose list is empty   *)
(* takes its block at the bump pointer, which all classes share.            *)
(*                                                                          *)
(* One action per access to shared memory.  Offsets and sizes are in words  *)
(* of eight bytes.                                                          *)
EXTENDS Integers, Sequences, FiniteSets

CONSTANTS
    Procs,          \* the processes that map the region
    SizeClasses,    \* block sizes, ascending
    Sizes,          \* the sizes the callers ask for
    PoolOffset,     \* where the pool starts
    PoolSize,       \* and its size
    Exclusive,      \* what meets no other call: see Apart
    MaxCalls,       \* bound on calls
    MaxCrashes,     \* bound on crashes
    None

Classes == 1 .. Len(SizeClasses)

\* strictly_ascending is asserted when the crate is compiled.
ASSUME ClassesAssumption ==
    /\ SizeClasses \in Seq(Nat \ {0}) /\ SizeClasses # << >>
    /\ \A c, d \in Classes : c < d => SizeClasses[c] < SizeClasses[d]
ASSUME PoolAssumption ==
    /\ PoolOffset \in Nat \ {0} /\ PoolSize \in Nat
    /\ Sizes \subseteq Nat /\ MaxCalls \in Nat /\ MaxCrashes \in Nat
    /\ Exclusive \subseteq {"grow", "cold", "flush"}
    /\ None \notin Procs

\* The pool begins with a spinlock and a list head per class, then the bump
\* pointer; the blocks follow.
DataStart == PoolOffset + 2 * Len(SizeClasses) + 1
PoolEnd == PoolOffset + PoolSize

\* The first class that is large enough for a size; none may be.
Fits(size) == {c \in Classes : SizeClasses[c] >= size}
IsClassOf(c, size) == c \in Fits(size) /\ \A d \in Fits(size) : c <= d

VARIABLES
    lock,       \* class -> its spinlock: 0 or 1
    head,       \* class -> its first free block, 0 for an empty list
    link,       \* offset -> the first word of the block there
    bump,       \* the bump pointer, 0 until the first allocation
    flock,      \* who holds the global flock
    pc,         \* the access a process makes next
    loc,        \* its locals: the call, the class, the offsets it has read
    calls,      \* number of calls so far
    live,       \* blocks that callers own
    list,       \* history: class -> the free list as a sequence of offsets
    leaked,     \* history: blocks lost with a process that died
    orphans     \* history: classes whose lock died with its holder

shared == <<lock, head, link, bump>>
ghost == <<list, leaked, orphans>>
vars == <<shared, flock, pc, loc, calls, live, ghost>>

Idle == [op |-> "none", cold |-> FALSE, cls |-> 0, off |-> 0, nxt |-> 0]

\* The labels at which a call is among the pool's words.
Section == {"head", "next", "pop", "bump", "grow", "fhead", "link", "push",
            "out"}
Reset == {"zero", "zero_bump"}

Init ==
    /\ lock = [c \in Classes |-> 0]
    /\ head = [c \in Classes |-> 0]
    /\ link = [o \in DataStart .. PoolEnd |-> 0]
    /\ bump = 0
    /\ flock = None
    /\ pc = [p \in Procs |-> "idle"]
    /\ loc = [p \in Procs |-> Idle]
    /\ calls = 0
    /\ live = {}
    /\ list = [c \in Classes |-> << >>]
    /\ leaked = {}
    /\ orphans = {}

Goto(p, label) == pc' = [pc EXCEPT ![p] = label]

\* A load: only the locals change.
Load(p, at, new, next) ==
    /\ pc[p] = at
    /\ loc' = [loc EXCEPT ![p] = new]
    /\ Goto(p, next)
    /\ UNCHANGED <<shared, flock, calls, live, ghost>>

\* What the code leaves to luck and a run may exclude: two classes at the bump
\* pointer at once ("grow"), a call under the flock beside one under a spinlock
\* ("cold"), a reset beside any call ("flush").
Apart(p, what, labels) ==
    what \in Exclusive => \A q \in Procs \ {p} : pc[q] \notin labels
NoCold(p) ==
    "cold" \in Exclusive =>
        \A q \in Procs \ {p} : ~(loc[q].cold /\ pc[q] \in Section)

----------------------------------------------------------------------------
(* Calls: alloc, free, alloc_cold, free_cold, reset.                        *)

\* A cold call is made under the flock and takes no spinlock.
Begin(p, cold, l, label) ==
    /\ pc[p] = "idle" /\ calls < MaxCalls
    /\ IF cold THEN flock = None /\ flock' = p ELSE UNCHANGED flock
    /\ cold => Apart(p, "cold", Section)
    /\ Apart(p, "flush", Reset)
    /\ calls' = calls + 1
    /\ loc' = [loc EXCEPT ![p] = l]
    /\ Goto(p, IF cold THEN label ELSE "lock")
    /\ UNCHANGED <<shared, ghost>>

\* A size above the largest class is refused before any access.
Alloc(p, size, cold) ==
    \E c \in Classes :
        /\ IsClassOf(c, size)
        /\ Begin(p, cold, [Idle EXCEPT !.op = "alloc", !.cold = cold,
                                       !.cls = c], "head")
        /\ UNCHANGED live

\* Any process may free a block, whoever allocated it.
Free(p, b, cold) ==
    /\ Begin(p, cold, [Idle EXCEPT !.op = "free", !.cold = cold,
                                   !.cls = b.cls, !.off = b.off], "fhead")
    /\ live' = live \ {b}

\* Variant: the lock is stored without a look at it.
LockStore(p) ==
    /\ pc[p] = "lock" /\ NoCold(p) /\ Apart(p, "flush", Reset)
    /\ lock' = [lock EXCEPT ![loc[p].cls] = 1]
    /\ Goto(p, IF loc[p].op = "alloc" THEN "head" ELSE "fhead")
    /\ UNCHANGED <<head, link, bump, flock, loc, calls, live, ghost>>

\* spinlock_acquire: compare-and-swap 0 -> 1; until then the process yields.
Lock(p) ==
    /\ pc[p] = "lock" /\ NoCold(p) /\ Apart(p, "flush", Reset)
    /\ lock[loc[p].cls] = 0
    /\ lock' = [lock EXCEPT ![loc[p].cls] = 1]
    /\ Goto(p, IF loc[p].op = "alloc" THEN "head" ELSE "fhead")
    /\ UNCHANGED <<head, link, bump, flock, loc, calls, live, ghost>>

----------------------------------------------------------------------------
(* alloc_from_class: pop the list, or take the block at the bump pointer.   *)

LoadHead(p) ==
    Load(p, "head", [loc[p] EXCEPT !.off = head[loc[p].cls]],
         IF head[loc[p].cls] # 0 THEN "next" ELSE "bump")

LoadNext(p) ==
    Load(p, "next", [loc[p] EXCEPT !.nxt = link[loc[p].off]], "pop")

\* Variant: the rest of the list is lost with the block.
PopAll(p) ==
    /\ pc[p] = "pop"
    /\ head' = [head EXCEPT ![loc[p].cls] = 0]
    /\ list' = [list EXCEPT ![loc[p].cls] = << >>]
    /\ Goto(p, "out")
    /\ UNCHANGED <<lock, link, bump, flock, loc, calls, live, leaked, orphans>>

\* A list without the block o.
Without(s, o) ==
    IF \E i \in DOMAIN s : s[i] = o
      THEN LET i == CHOOSE i \in DOMAIN s : s[i] = o
           IN  SubSeq(s, 1, i - 1) \o SubSeq(s, i + 1, Len(s))
      ELSE s

Pop(p) ==
    /\ pc[p] = "pop"
    /\ head' = [head EXCEPT ![loc[p].cls] = loc[p].nxt]
    /\ list' = [list EXCEPT ![loc[p].cls] = Without(@, loc[p].off)]
    /\ Goto(p, "out")
    /\ UNCHANGED <<lock, link, bump, flock, loc, calls, live, leaked, orphans>>

Top == IF bump = 0 THEN DataStart ELSE bump

\* Variant: the last word of a block may lie past the end of the pool.
RoomPast(c) == Top + SizeClasses[c] <= PoolEnd + 1

\* Variant: a block that ends exactly at the end of the pool is refused.
RoomShort(c) == Top + SizeClasses[c] < PoolEnd

Room(c) == Top + SizeClasses[c] <= PoolEnd

\* No room is answered with 0, "out of memory".
LoadBump(p) ==
    /\ pc[p] = "bump" /\ Apart(p, "grow", {"grow"})
    /\ IF Room(loc[p].cls)
         THEN Load(p, "bump", [loc[p] EXCEPT !.off = Top], "grow")
         ELSE Load(p, "bump", loc[p], "out")

StoreBump(p) ==
    /\ pc[p] = "grow"
    /\ bump' = loc[p].off + SizeClasses[loc[p].cls]
    /\ Goto(p, "out")
    /\ UNCHANGED <<lock, head, link, flock, loc, calls, live, ghost>>

----------------------------------------------------------------------------
(* free: push the block in front of the list of its class.                  *)

FreeHead(p) ==
    Load(p, "fhead", [loc[p] EXCEPT !.nxt = head[loc[p].cls]], "link")

\* Variant: the link to the rest of the list is not stored.
FreeLinkNot(p) == Load(p, "link", loc[p], "push")

FreeLink(p) ==
    /\ pc[p] = "link"
    /\ link' = [link EXCEPT ![loc[p].off] = loc[p].nxt]
    /\ Goto(p, "push")
    /\ UNCHANGED <<lock, head, bump, flock, loc, calls, live, ghost>>

FreePush(p) ==
    /\ pc[p] = "push"
    /\ head' = [head EXCEPT ![loc[p].cls] = loc[p].off]
    /\ list' = [list EXCEPT ![loc[p].cls] = <<loc[p].off>> \o @]
    /\ Goto(p, "out")
    /\ UNCHANGED <<lock, link, bump, flock, loc, calls, live, leaked, orphans>>

----------------------------------------------------------------------------
(* The end of a call.                                                       *)

\* The block an allocation hands to its caller: none when there is no room.
Result(p) ==
    {[off |-> o, cls |-> loc[p].cls] :
        o \in IF loc[p].op = "alloc" THEN {loc[p].off} \ {0} ELSE {}}

\* Variant: an allocation that found no room returns with the lock held.
UnlockFound(p) ==
    IF loc[p].op = "alloc" /\ loc[p].off = 0 THEN lock
    ELSE [lock EXCEPT ![loc[p].cls] = 0]

\* spinlock_release.
Unlock(p) == [lock EXCEPT ![loc[p].cls] = 0]

\* The call returns; the caller of a cold one releases the flock.
Return(p) ==
    /\ pc[p] = "out"
    /\ IF loc[p].cold THEN flock' = None /\ UNCHANGED lock
                      ELSE lock' = Unlock(p) /\ UNCHANGED flock
    /\ live' = live \cup Result(p)
    /\ loc' = [loc EXCEPT ![p] = Idle]
    /\ Goto(p, "idle")
    /\ UNCHANGED <<head, link, bump, calls, ghost>>

----------------------------------------------------------------------------
(* init and reset, under the flock.  What was allocated before belongs to   *)
(* nobody afterwards.                                                       *)

ResetBegin(p) ==
    /\ Apart(p, "flush", Section \cup {"lock"})
    /\ Begin(p, TRUE, [Idle EXCEPT !.op = "reset", !.cls = 1], "zero")
    /\ UNCHANGED live

\* Lock and head of one class.
ResetClass(p) ==
    LET c == loc[p].cls IN
    /\ pc[p] = "zero"
    /\ lock' = [lock EXCEPT ![c] = 0]
    /\ head' = [head EXCEPT ![c] = 0]
    /\ list' = [list EXCEPT ![c] = << >>]
    /\ leaked' = leaked \cup {[off |-> list[c][i], cls |-> c] :
                                  i \in DOMAIN list[c]}
    /\ orphans' = orphans \ {c}
    /\ IF c = Len(SizeClasses)
         THEN Goto(p, "zero_bump") /\ UNCHANGED loc
         ELSE UNCHANGED pc /\ loc' = [loc EXCEPT ![p].cls = c + 1]
    /\ UNCHANGED <<link, bump, flock, calls, live>>

ResetBump(p) ==
    /\ pc[p] = "zero_bump"
    /\ bump' = 0
    /\ live' = {} /\ leaked' = {}
    /\ flock' = None
    /\ loc' = [loc EXCEPT ![p] = Idle]
    /\ Goto(p, "idle")
    /\ UNCHANGED <<lock, head, link, calls, list, orphans>>

----------------------------------------------------------------------------
\* The block a call holds: one to free, or one it is about to return.
Hand(p) ==
    IF pc[p] = "out" THEN Result(p)
    ELSE IF loc[p].op = "free" THEN {[off |-> loc[p].off, cls |-> loc[p].cls]}
    ELSE {}

\* A process dies: the kernel releases its flock, nobody its spinlock.
Crash(p) ==
    /\ pc[p] \notin {"idle", "dead"}
    /\ Cardinality({q \in Procs : pc[q] = "dead"}) < MaxCrashes
    /\ flock' = IF flock = p THEN None ELSE flock
    /\ leaked' = leaked \cup Hand(p)
    /\ orphans' = orphans \cup IF pc[p] \in Section /\ ~loc[p].cold
                                 THEN {loc[p].cls} ELSE {}
    /\ loc' = [loc EXCEPT ![p] = Idle]
    /\ Goto(p, "dead")
    /\ UNCHANGED <<shared, calls, live, list>>

Step(p) ==
    \/ Lock(p) \/ LoadHead(p) \/ LoadNext(p) \/ Pop(p)
    \/ LoadBump(p) \/ StoreBump(p)
    \/ FreeHead(p) \/ FreeLink(p) \/ FreePush(p)
    \/ Return(p) \/ ResetClass(p) \/ ResetBump(p)

Call(p) ==
    \/ \E cold \in BOOLEAN : \/ \E size \in Sizes : Alloc(p, size, cold)
                             \/ \E b \in live : Free(p, b, cold)
    \/ ResetBegin(p)

Next == \E p \in Procs : Call(p) \/ Step(p) \/ Crash(p)

\* The kernel schedules every live process.
Spec == Init /\ [][Next]_vars /\ \A p \in Procs : WF_vars(Step(p))

----------------------------------------------------------------------------
Offsets == 0 .. PoolEnd
Blocks == [off : DataStart .. PoolEnd, cls : Classes]
Words(b) == b.off .. b.off + SizeClasses[b.cls] - 1

\* Every variable has its type.
TypeOK ==
    /\ lock \in [Classes -> {0, 1}]
    /\ head \in [Classes -> Offsets]
    /\ link \in [DataStart .. PoolEnd -> Offsets]
    /\ bump \in Offsets
    /\ flock \in Procs \cup {None}
    /\ pc \in [Procs -> Section \cup Reset \cup {"idle", "lock", "dead"}]
    /\ loc \in [Procs -> [op : {"none", "alloc", "free", "reset"},
                          cold : BOOLEAN, cls : {0} \cup Classes,
                          off : Offsets, nxt : Offsets]]
    /\ calls \in 0 .. MaxCalls
    /\ live \subseteq Blocks /\ leaked \subseteq Blocks
    /\ list \in [Classes -> Seq(Offsets)]
    /\ orphans \subseteq Classes

\* Where a block can be: with a caller, in the hands of a call, in a free
\* list, or lost.
Places ==
    LET free(c) == {<<"free", i, [off |-> list[c][i], cls |-> c]>> :
                       i \in DOMAIN list[c]}
    IN  {<<"live", 0, b>> : b \in live} \cup {<<"lost", 0, b>> : b \in leaked}
        \cup (UNION {{<<"call", p, b>> : b \in Hand(p)} : p \in Procs})
        \cup (UNION {free(c) : c \in Classes})

\* No two blocks overlap, and no block is in two places: what alloc returns is
\* the caller's alone, whoever allocates, frees or dies meanwhile (slab.rs
\* alloc_from_class, free).
OneOwner ==
    \A x, y \in Places : x # y => Words(x[3]) \cap Words(y[3]) = {}

\* The free list that starts at the head and runs through the blocks is the
\* one the calls have built: nothing is cut off, it does not run in circles
\* and it does not enter a block in use.
ListIntact ==
    \A c \in Classes :
        LET s == list[c] \o <<0>> IN
        /\ head[c] = s[1]
        /\ \A i \in DOMAIN list[c] : link[s[i]] = s[i + 1]

\* Every word below the bump pointer belongs to a block that is in some place:
\* only a process that dies with a block in its hands loses memory.
NothingLost == UNION {Words(x[3]) : x \in Places} = DataStart .. Top - 1

\* A spinlock is held by the one call in its section, or by a process that
\* died there; every way out of a call releases it.
LockHeld ==
    \A c \in Classes :
        LET inside == {p \in Procs : /\ pc[p] \in Section
                                     /\ ~loc[p].cold /\ loc[p].cls = c}
        IN  lock[c] = Cardinality(inside) + IF c \in orphans THEN 1 ELSE 0

\* alloc answers "out of memory" only when the free list of the class is empty
\* and what is left of the pool is smaller than a block: the promise on which
\* try_enqueue gives its ticket back and reports ChannelFull.
FullMeansFull ==
    \A p \in Procs : \A c \in Classes :
        pc[p] = "out" /\ loc[p] = [Idle EXCEPT !.op = "alloc", !.cls = c] =>
            list[c] = << >> /\ Top + SizeClasses[c] > PoolEnd

\* Every call returns, unless the lock of its class died with its holder: no
\* path leaves a spinlock or the flock behind.
CallsReturn ==
    \A p \in Procs :
        pc[p] # "idle" ~>
            \/ pc[p] \in {"idle", "dead"}
            \/ pc[p] = "lock" /\ loc[p].cls \in orphans
=============================================================================
