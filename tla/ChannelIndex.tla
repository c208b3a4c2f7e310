---------------------------- MODULE ChannelIndex ----------------------------
(* The channel index (index.rs) as the channel manager uses it: a lookup    *)
(* takes no lock and relies on the version word of a slot (odd while it is  *)
(* written); creation and flush hold the flock.  A process may die between  *)
(* any two accesses; the next creation repairs the slot it left odd.        *)
(*                                                                          *)
(* One action per access that another process can see or disturb.  What the *)
(* flock holder reads is changed by nobody else and is read in one action.  *)
(* Capacity and non_local are written next to ring_offset and never used:   *)
(* they are left out.                                                       *)
EXTENDS Integers, FiniteSets

CONSTANTS
    Procs, Names,
    Hash,           \* name -> hash and length; names may share one
    NumSlots,       \* max_channels
    Rings,          \* the blocks of the pool, enough for every creation
    MaxCalls, MaxCrashes, MaxFlushes,   \* bounds
    None

ASSUME IndexAssumption ==
    /\ Hash \in [Names -> Nat \ {0}]
    /\ NumSlots \in Nat \ {0}
    /\ MaxCalls \in Nat /\ MaxCrashes \in Nat /\ MaxFlushes \in Nat
    /\ None \notin Procs \cup Names \cup Rings

Slots == 1 .. NumSlots

VARIABLES
    slot,       \* the index: version, hash, len (0 or not), name, ring
    free,       \* blocks of the pool nobody has allocated
    flock,      \* who holds the flock
    pc, loc,    \* the access a process makes next, its locals
    calls,      \* number of calls so far
    owner,      \* history: ring -> the channel it was created for
    flushes,    \* history: begins and ends of flushes; odd during one
    crashes,    \* history: processes that died holding the flock
    repairs     \* history: half-written slots repaired

ghost == <<flushes, crashes, repairs>>
vars == <<slot, free, flock, pc, loc, calls, owner, ghost>>

Empty == [ver |-> 0, hash |-> 0, len |-> 0, name |-> None, ring |-> None]
Idle == [name |-> None, i |-> 1, hash |-> 0, ver |-> 0, read |-> None,
         ring |-> None, since |-> <<0, 0, 0>>, had |-> FALSE]

Init ==
    /\ slot = [i \in Slots |-> Empty]
    /\ free = Rings
    /\ flock = None
    /\ pc = [p \in Procs |-> "idle"]
    /\ loc = [p \in Procs |-> Idle]
    /\ calls = 0
    /\ owner = [r \in Rings |-> None]
    /\ flushes = 0
    /\ crashes = 0
    /\ repairs = 0

Goto(p, label) == pc' = [pc EXCEPT ![p] = label]
S(p) == slot[loc[p].i]

\* A step that reads: only the locals change.
Read(p, at, new, next) ==
    /\ pc[p] = at
    /\ loc' = [loc EXCEPT ![p] = new]
    /\ Goto(p, next)
    /\ UNCHANGED <<slot, free, flock, calls, owner, ghost>>

\* A store to the slot.
Write(p, at, new, next) ==
    /\ pc[p] = at
    /\ slot' = [slot EXCEPT ![loc[p].i] = new]
    /\ Goto(p, next)
    /\ UNCHANGED <<free, flock, loc, calls, owner, ghost>>

\* An entry a finished creation left, and the flush since has not touched.
Complete(s) == s.ver % 2 = 0 /\ s.len # 0
Holds(s, n) == Complete(s) /\ s.name = n

----------------------------------------------------------------------------
(* channel_index_lookup, without a lock in get_ring, under the flock when   *)
(* get_or_create_ring looks again.                                          *)

Start(n) == [Idle EXCEPT !.name = n, !.since = ghost,
                         !.had = \E i \in Slots : Holds(slot[i], n)]

GetRing(p, n) ==
    /\ pc[p] = "idle" /\ calls < MaxCalls
    /\ calls' = calls + 1
    /\ loc' = [loc EXCEPT ![p] = Start(n)]
    /\ Goto(p, "l_hash")
    /\ UNCHANGED <<slot, free, flock, owner, ghost>>

\* On to the next slot, or the name is not there.
NextSlot(p, at) ==
    IF loc[p].i < NumSlots
      THEN Read(p, at, [loc[p] EXCEPT !.i = @ + 1], "l_hash")
      ELSE Read(p, at, loc[p], "missed")

LookupHash(p) ==
    Read(p, "l_hash", [loc[p] EXCEPT !.hash = S(p).hash], "l_len")

LookupLen(p) ==
    IF \E n \in Names : loc[p].name = n /\ loc[p].hash = Hash[n] /\ S(p).len # 0
      THEN Read(p, "l_len", loc[p], "l_ver")
      ELSE NextSlot(p, "l_len")

\* Variant: an odd version is not looked at.
LookupVersionAny(p) ==
    Read(p, "l_ver", [loc[p] EXCEPT !.ver = S(p).ver], "l_name")

LookupVersion(p) ==
    IF S(p).ver % 2 = 0
      THEN Read(p, "l_ver", [loc[p] EXCEPT !.ver = S(p).ver], "l_name")
      ELSE NextSlot(p, "l_ver")

LookupName(p) ==
    Read(p, "l_name", [loc[p] EXCEPT !.read = S(p).name], "l_again")

LookupAgain(p) ==
    IF S(p).ver = loc[p].ver /\ loc[p].read = loc[p].name
      THEN Read(p, "l_again", loc[p], "l_ring")
      ELSE NextSlot(p, "l_again")

\* The ring is read after the version was checked; 0 counts as not found.
LookupRing(p) ==
    Read(p, "l_ring", [loc[p] EXCEPT !.ring = S(p).ring],
         IF S(p).ring = None THEN "missed" ELSE "found")

----------------------------------------------------------------------------
(* The callers: the pump gives up on a miss, send and receive take the      *)
(* flock and look again before they create.                                 *)

\* The call is over, and the flock released.
Finish(p) ==
    /\ loc' = [loc EXCEPT ![p] = Idle]
    /\ flock' = IF flock = p THEN None ELSE flock
    /\ Goto(p, "idle")
    /\ UNCHANGED <<slot, calls, owner>>

Use(p) == pc[p] = "found" /\ Finish(p) /\ UNCHANGED <<free, ghost>>

GiveUp(p) ==
    pc[p] = "missed" /\ flock # p /\ Finish(p) /\ UNCHANGED <<free, ghost>>

Acquire(p) ==
    /\ pc[p] = "missed" /\ flock = None
    /\ flock' = p
    /\ loc' = [loc EXCEPT ![p] = Start(loc[p].name)]
    /\ Goto(p, "l_hash")
    /\ UNCHANGED <<slot, free, calls, owner, ghost>>

\* alloc_cold and Ring.init: a fresh ring for the channel.
CreateRing(p) ==
    /\ pc[p] = "missed" /\ flock = p
    /\ \E r \in free :
          /\ free' = free \ {r}
          /\ owner' = [owner EXCEPT ![r] = loc[p].name]
          /\ loc' = [loc EXCEPT ![p] = [Idle EXCEPT !.name = loc[p].name,
                                                    !.ring = r]]
    /\ Goto(p, "c_scan")
    /\ UNCHANGED <<slot, flock, calls, ghost>>

----------------------------------------------------------------------------
(* channel_index_create, under the flock.  First pass: repair every slot a  *)
(* dead writer left odd, stop at an entry of that name.                     *)

NextScan(p, at) ==
    IF loc[p].i < NumSlots
      THEN Read(p, at, [loc[p] EXCEPT !.i = @ + 1], "c_scan")
      ELSE Read(p, at, [loc[p] EXCEPT !.i = 1], "c_find")

\* Variant: an odd slot is passed over.
ScanOver(p) ==
    /\ pc[p] = "c_scan"
    /\ IF S(p).ver % 2 = 0 /\ S(p).len # 0 /\ S(p).name = loc[p].name
         THEN Read(p, "c_scan", loc[p], "found")
         ELSE NextScan(p, "c_scan")

Scan(p) ==
    /\ pc[p] = "c_scan"
    /\ IF S(p).ver % 2 # 0 THEN Read(p, "c_scan", loc[p], "r_ver")
       ELSE IF S(p).len # 0 /\ S(p).name = loc[p].name
         THEN Read(p, "c_scan", loc[p], "found")
         ELSE NextScan(p, "c_scan")

RepairVersion(p) == Write(p, "r_ver", [S(p) EXCEPT !.ver = 1], "r_hash")
RepairHash(p) == Write(p, "r_hash", [S(p) EXCEPT !.hash = 0], "r_len")
RepairLen(p) == Write(p, "r_len", [S(p) EXCEPT !.len = 0], "r_ring")
RepairRing(p) == Write(p, "r_ring", [S(p) EXCEPT !.ring = None], "r_done")
RepairDone(p) ==
    /\ pc[p] = "r_done"
    /\ slot' = [slot EXCEPT ![loc[p].i].ver = 0]
    /\ repairs' = repairs + 1
    /\ Goto(p, "r_next")
    /\ UNCHANGED <<free, flock, loc, calls, owner, flushes, crashes>>

RepairNext(p) == NextScan(p, "r_next")

\* Second pass: the first empty slot is written, version odd before and even
\* after.
\* Variant: the search runs on past the last slot.
FindPast(p) ==
    /\ pc[p] = "c_find"
    /\ IF loc[p].i \in Slots /\ S(p).len = 0
         THEN Read(p, "c_find", loc[p], "w_ver")
         ELSE Read(p, "c_find", [loc[p] EXCEPT !.i = @ + 1], "c_find")

Find(p) ==
    /\ pc[p] = "c_find"
    /\ IF S(p).len = 0 THEN Read(p, "c_find", loc[p], "w_ver")
       ELSE IF loc[p].i < NumSlots
         THEN Read(p, "c_find", [loc[p] EXCEPT !.i = @ + 1], "c_find")
         ELSE Read(p, "c_find", loc[p], "c_full")

\* Variant: the version stays even while the slot is written.
WriteVersionNot(p) == Write(p, "w_ver", S(p), "w_hash")

WriteVersion(p) == Write(p, "w_ver", [S(p) EXCEPT !.ver = 1], "w_hash")
WriteHash(p) ==
    Write(p, "w_hash", [S(p) EXCEPT !.hash = Hash[loc[p].name]], "w_len")
WriteLen(p) == Write(p, "w_len", [S(p) EXCEPT !.len = 1], "w_name")
WriteName(p) ==
    Write(p, "w_name", [S(p) EXCEPT !.name = loc[p].name], "w_ring")
WriteRing(p) == Write(p, "w_ring", [S(p) EXCEPT !.ring = loc[p].ring], "w_done")
WriteDone(p) == Write(p, "w_done", [S(p) EXCEPT !.ver = 2], "found")

\* The index is full: free_cold, and the caller gets an error.
Full(p) ==
    /\ pc[p] = "c_full"
    /\ free' = free \cup {loc[p].ring}
    /\ Finish(p)
    /\ UNCHANGED ghost

----------------------------------------------------------------------------
(* flush, under the flock: slot by slot, then the slab.  The version goes   *)
(* to 0 without going odd first.                                            *)

FlushBegin(p) ==
    /\ pc[p] = "idle" /\ flock = None
    /\ flushes < 2 * MaxFlushes
    /\ flock' = p
    /\ flushes' = flushes + 1
    /\ loc' = [loc EXCEPT ![p] = Idle]
    /\ Goto(p, "f_len")
    /\ UNCHANGED <<slot, free, calls, owner, crashes, repairs>>

FlushLen(p) == Write(p, "f_len", [S(p) EXCEPT !.len = 0], "f_ring")

\* Variant: the ring offset survives the flush.
FlushRingNot(p) == Write(p, "f_ring", S(p), "f_ver")

FlushRing(p) == Write(p, "f_ring", [S(p) EXCEPT !.ring = None], "f_ver")
FlushVersion(p) == Write(p, "f_ver", [S(p) EXCEPT !.ver = 0], "f_next")

FlushNext(p) ==
    IF loc[p].i < NumSlots
      THEN Read(p, "f_next", [loc[p] EXCEPT !.i = @ + 1], "f_len")
      ELSE Read(p, "f_next", loc[p], "f_slab")

\* slab.reset: every block is free again, and no ring is anybody's.
FlushSlab(p) ==
    /\ pc[p] = "f_slab"
    /\ free' = Rings
    /\ owner' = [r \in Rings |-> None]
    /\ flushes' = flushes + 1
    /\ flock' = None
    /\ loc' = [loc EXCEPT ![p] = Idle]
    /\ Goto(p, "idle")
    /\ UNCHANGED <<slot, calls, crashes, repairs>>

----------------------------------------------------------------------------
\* A flock holder dies; the kernel releases the flock.  (A reader's death
\* changes nothing for anybody.)
Crash(p) ==
    /\ flock = p /\ crashes < MaxCrashes
    /\ flock' = None
    /\ crashes' = crashes + 1
    /\ flushes' = flushes + (flushes % 2)
    /\ loc' = [loc EXCEPT ![p] = Idle]
    /\ Goto(p, "dead")
    /\ UNCHANGED <<slot, free, calls, owner, repairs>>

Lookup(p) ==
    \/ LookupHash(p) \/ LookupLen(p) \/ LookupVersion(p) \/ LookupName(p)
    \/ LookupAgain(p) \/ LookupRing(p)
Create(p) ==
    \/ CreateRing(p) \/ Scan(p) \/ Find(p) \/ Full(p)
    \/ RepairVersion(p) \/ RepairHash(p) \/ RepairLen(p) \/ RepairRing(p)
    \/ RepairDone(p) \/ RepairNext(p)
    \/ WriteVersion(p) \/ WriteHash(p) \/ WriteLen(p) \/ WriteName(p)
    \/ WriteRing(p) \/ WriteDone(p)
Flush(p) ==
    \/ FlushBegin(p) \/ FlushLen(p) \/ FlushRing(p) \/ FlushVersion(p)
    \/ FlushNext(p) \/ FlushSlab(p)

Next ==
    \E p \in Procs :
        \/ \E n \in Names : GetRing(p, n)
        \/ Lookup(p) \/ Use(p) \/ GiveUp(p) \/ Acquire(p)
        \/ Create(p) \/ Flush(p) \/ Crash(p)

Spec == Init /\ [][Next]_vars

----------------------------------------------------------------------------
Labels == {"idle", "dead", "found", "missed", "l_hash", "l_len", "l_ver",
           "l_name", "l_again", "l_ring", "c_scan", "c_find", "c_full",
           "r_ver", "r_hash", "r_len", "r_ring", "r_done", "r_next",
           "w_ver", "w_hash", "w_len", "w_name", "w_ring", "w_done",
           "f_len", "f_ring", "f_ver", "f_next", "f_slab"}
Hashes == {0} \cup {Hash[n] : n \in Names}

\* Every variable has its type.
TypeOK ==
    /\ slot \in [Slots -> [ver : 0 .. 2, hash : Hashes, len : {0, 1},
                           name : Names \cup {None}, ring : Rings \cup {None}]]
    /\ free \subseteq Rings
    /\ flock \in Procs \cup {None}
    /\ pc \in [Procs -> Labels]
    /\ loc \in [Procs -> [name : Names \cup {None}, i : Slots, hash : Hashes,
                          ver : 0 .. 2, read : Names \cup {None},
                          ring : Rings \cup {None}, since : Nat \X Nat \X Nat,
                          had : BOOLEAN]]
    /\ calls \in 0 .. MaxCalls
    /\ owner \in [Rings -> Names \cup {None}]
    /\ flushes \in 0 .. 2 * MaxFlushes /\ crashes \in 0 .. MaxCrashes
    /\ repairs \in Nat

\* No flush, no death and no repair since the lookup began.
Undisturbed(p) == loc[p].since = ghost /\ flushes % 2 = 0

\* A lookup that met no flush, no death and no repair gives the ring of the channel it
\* asked for, and does not miss a channel that was there when it began: the
\* version word makes up for the missing lock (index.rs channel_index_lookup).
LookupExact ==
    \A p \in Procs : Undisturbed(p) =>
        /\ pc[p] = "found" => owner[loc[p].ring] = loc[p].name
        /\ pc[p] = "missed" => ~loc[p].had

\* A channel has one entry, and no two entries share a ring, whoever creates,
\* flushes or dies.
OneRing ==
    \A i, j \in Slots :
        i # j /\ Complete(slot[i]) /\ Complete(slot[j]) =>
            slot[i].name # slot[j].name /\ slot[i].ring # slot[j].ring

\* Wherever a slot in use points, there is a ring: flush and compact, which
\* follow the offset of half-written slots too, never reset or repair a block
\* that is something else (index.rs flush, compact).
RealRings ==
    \A i \in Slots :
        slot[i].len # 0 /\ slot[i].ring # None =>
            slot[i].ring \notin free /\ owner[slot[i].ring] # None

\* "Channel index full" is the truth: a writer that died takes no slot with it.
FullIsFull == \A p \in Procs : pc[p] = "c_full" =>
                  \A i \in Slots : Complete(slot[i])

\* What the comment in channel_index_create says of a repair: "Seqlock write
\* protocol keeps lockless lookup safe".  A lookup that met no flush gives no
\* other channel's ring.
LookupSafeBesideRepair ==
    \A p \in Procs :
        pc[p] = "found" /\ loc[p].since[1] = flushes /\ flushes % 2 = 0 =>
            owner[loc[p].ring] = loc[p].name
=============================================================================
