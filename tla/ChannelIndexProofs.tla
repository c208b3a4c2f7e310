------------------------- MODULE ChannelIndexProofs -------------------------
(* The channel index for any number of processes, names, slots and rings,   *)
(* and any number of creations, flushes and deaths: who writes a slot is     *)
(* settled by the flock, what a reader takes from it by the version word.    *)
EXTENDS ChannelIndex, TLAPS

Lookups == {"l_hash", "l_len", "l_ver", "l_name", "l_again", "l_ring"}
Repairing == {"r_ver", "r_hash", "r_len", "r_ring", "r_done"}
Scanning == {"c_scan", "r_next"} \cup Repairing
Writing == {"w_ver", "w_hash", "w_len", "w_name", "w_ring", "w_done"}
Creating == Scanning \cup {"c_find", "c_full"} \cup Writing
Flushing == {"f_len", "f_ring", "f_ver", "f_next", "f_slab"}

\* Who creates or flushes holds the flock; a flush is going on while its
\* counter is odd; nobody remembers a time that is still to come.
Holders ==
    /\ \A p \in Procs : pc[p] \in Creating \cup Flushing => flock = p
    /\ \A p \in Procs : flock = p => pc[p] \notin {"idle", "dead"}
    /\ \A p \in Procs : pc[p] \in Lookups \cup Creating \cup {"missed"} =>
                            loc[p].name \in Names
    /\ flushes % 2 = 1 <=> \E p \in Procs : pc[p] \in Flushing
    /\ \A p \in Procs : /\ loc[p].since[1] <= flushes
                        /\ loc[p].since[2] <= crashes
                        /\ loc[p].since[3] <= repairs

\* What the slots say, of the rings and of each other, half-written or not.
Pointer(i) ==
    slot[i].ring # None =>
        slot[i].ring \notin free /\ owner[slot[i].ring] # None
Entry(i) ==
    Complete(slot[i]) =>
        /\ slot[i].name \in Names /\ slot[i].hash = Hash[slot[i].name]
        /\ slot[i].ring # None /\ owner[slot[i].ring] = slot[i].name
Distinct(i, j) ==
    /\ slot[i].ring # None => slot[i].ring # slot[j].ring
    /\ Complete(slot[i]) /\ Complete(slot[j]) => slot[i].name # slot[j].name
Entries ==
    /\ \A i \in Slots : Pointer(i) /\ Entry(i)
    /\ \A i, j \in Slots : i # j => Distinct(i, j)

\* What the holder of the flock has done so far.
Passed(i, n) == slot[i].ver % 2 = 0 /\ ~Holds(slot[i], n)

OwnRing(p) ==
    pc[p] \in Creating =>
        /\ loc[p].ring \in Rings \ free
        /\ owner[loc[p].ring] = loc[p].name
        /\ \A j \in Slots : slot[j].ring = loc[p].ring =>
                                pc[p] = "w_done" /\ j = loc[p].i
Scanned(p) ==
    /\ pc[p] \in Scanning =>
          \A j \in Slots : j < loc[p].i => Passed(j, loc[p].name)
    /\ pc[p] = "r_ver" => S(p).ver % 2 = 1
    /\ pc[p] \in Repairing \ {"r_ver"} => S(p).ver = 1
    /\ pc[p] \in {"r_ring", "r_done", "r_next"} => S(p).len = 0
    /\ pc[p] = "r_next" => S(p).ver = 0
    /\ pc[p] \in {"c_find", "c_full"} =>
          \A j \in Slots : Passed(j, loc[p].name)
    /\ pc[p] = "c_find" => \A j \in Slots : j < loc[p].i => slot[j].len # 0
    /\ pc[p] = "c_full" => \A j \in Slots : slot[j].len # 0
Written(p) ==
    /\ pc[p] \in Writing =>
          \A j \in Slots : j # loc[p].i => Passed(j, loc[p].name)
    /\ pc[p] = "w_ver" => S(p).len = 0
    /\ pc[p] \in Writing \ {"w_ver"} => S(p).ver = 1
    /\ pc[p] \in Writing \ {"w_ver", "w_hash"} => S(p).hash = Hash[loc[p].name]
    /\ pc[p] \in {"w_name", "w_ring", "w_done"} => S(p).len = 1
    /\ pc[p] \in {"w_ring", "w_done"} => S(p).name = loc[p].name
    /\ pc[p] = "w_done" => S(p).ring = loc[p].ring
Blank(i) == slot[i].len = 0 /\ slot[i].ring = None
Wiped(p) ==
    /\ pc[p] \in Flushing => \A j \in Slots : j < loc[p].i => Blank(j)
    /\ pc[p] = "f_ring" => S(p).len = 0
    /\ pc[p] \in {"f_ver", "f_next"} => Blank(loc[p].i)
    /\ pc[p] = "f_slab" => \A j \in Slots : Blank(j)
Work(p) == OwnRing(p) /\ Scanned(p) /\ Written(p) /\ Wiped(p)

\* What an undisturbed reader knows of the slot it is at: from the version on
\* that it is complete.  What it would miss lies there or further on.
Seen(p) ==
    /\ pc[p] = "l_ver" => S(p).len # 0 \/ S(p).ver % 2 = 1
    /\ pc[p] \in {"l_name", "l_again", "l_ring"} => Complete(S(p))
    /\ pc[p] = "l_again" => loc[p].read = S(p).name
    /\ pc[p] = "l_ring" => S(p).name = loc[p].name
    /\ pc[p] = "found" =>
          /\ loc[p].ring \in Rings \ free
          /\ owner[loc[p].ring] = loc[p].name
          /\ \A q \in Procs : pc[q] \in Creating => loc[q].ring # loc[p].ring
Ahead(p, j) ==
    /\ loc[p].i <= j /\ Holds(slot[j], loc[p].name)
    /\ j = loc[p].i =>
          /\ pc[p] = "l_len" => loc[p].hash = slot[j].hash
          /\ pc[p] \in {"l_name", "l_again"} => loc[p].ver = slot[j].ver
Expects(p) ==
    loc[p].had =>
        /\ pc[p] \in Lookups => \E j \in Slots : Ahead(p, j)
        /\ pc[p] # "missed"
Reading(p) == Undisturbed(p) => Seen(p) /\ Expects(p)

IInv ==
    /\ TypeOK /\ Holders /\ Entries
    /\ \A p \in Procs : Work(p) /\ Reading(p)

-----------------------------------------------------------------------------
(* Types.                                                                   *)

SlotType == [ver : 0 .. 2, hash : Hashes, len : {0, 1},
             name : Names \cup {None}, ring : Rings \cup {None}]
LocType == [name : Names \cup {None}, i : Slots, hash : Hashes, ver : 0 .. 2,
            read : Names \cup {None}, ring : Rings \cup {None},
            since : Nat \X Nat \X Nat, had : BOOLEAN]

LEMMA SlotOf ==
    ASSUME TypeOK, NEW i \in Slots
    PROVE  /\ slot[i] \in SlotType
           /\ slot[i].ver \in 0 .. 2 /\ slot[i].hash \in Hashes
           /\ slot[i].len \in {0, 1} /\ slot[i].name \in Names \cup {None}
           /\ slot[i].ring \in Rings \cup {None}
<1>1. slot[i] \in SlotType
  BY DEF TypeOK, SlotType
<1> QED BY <1>1 DEF SlotType

LEMMA LocOf ==
    ASSUME TypeOK, NEW p \in Procs
    PROVE  /\ loc[p] \in LocType
           /\ loc[p].name \in Names \cup {None} /\ loc[p].i \in Slots
           /\ loc[p].hash \in Hashes /\ loc[p].ver \in 0 .. 2
           /\ loc[p].read \in Names \cup {None}
           /\ loc[p].ring \in Rings \cup {None}
           /\ loc[p].since \in Nat \X Nat \X Nat /\ loc[p].had \in BOOLEAN
<1>1. loc[p] \in LocType
  BY DEF TypeOK, LocType
<1> QED BY <1>1 DEF LocType

LEMMA IdleType == Idle \in LocType
<1>1. 1 \in Slots /\ 0 \in Hashes
  BY IndexAssumption DEF Slots, Hashes
<1>2. <<0, 0, 0>> \in Nat \X Nat \X Nat
  OBVIOUS
<1> QED BY <1>1, <1>2 DEF Idle, LocType

LEMMA StartType ==
    ASSUME TypeOK, NEW n \in Names
    PROVE  Start(n) \in LocType
<1>1. ghost \in Nat \X Nat \X Nat
  BY IndexAssumption DEF TypeOK, ghost
<1>2. (\E i \in Slots : Holds(slot[i], n)) \in BOOLEAN
  OBVIOUS
<1> QED BY <1>1, <1>2, IdleType DEF Start, Idle, LocType

\* What a load may do to the types.
LEMMA ReadType ==
    ASSUME TypeOK, NEW p \in Procs, NEW at, NEW new \in LocType,
           NEW next \in Labels, Read(p, at, new, next)
    PROVE  TypeOK'
<1>1. loc' = [loc EXCEPT ![p] = new] /\ pc' = [pc EXCEPT ![p] = next]
  BY DEF Read, Goto
<1>2. UNCHANGED <<slot, free, flock, calls, owner, flushes, crashes, repairs>>
  BY DEF Read, ghost
<1>3. loc' \in [Procs -> LocType]
  BY <1>1 DEF TypeOK, LocType
<1>4. pc' \in [Procs -> Labels]
  BY <1>1 DEF TypeOK
<1> QED BY <1>2, <1>3, <1>4 DEF TypeOK, LocType

LEMMA WriteType ==
    ASSUME TypeOK, NEW p \in Procs, NEW at, NEW new \in SlotType,
           NEW next \in Labels, Write(p, at, new, next)
    PROVE  TypeOK'
<1>1. /\ slot' = [slot EXCEPT ![loc[p].i] = new]
      /\ pc' = [pc EXCEPT ![p] = next]
  BY DEF Write, Goto
<1>2. UNCHANGED <<free, flock, loc, calls, owner, flushes, crashes, repairs>>
  BY DEF Write, ghost
<1>3. slot' \in [Slots -> SlotType]
  BY <1>1, LocOf DEF TypeOK, SlotType
<1>4. pc' \in [Procs -> Labels]
  BY <1>1 DEF TypeOK
<1> QED BY <1>2, <1>3, <1>4 DEF TypeOK, SlotType

\* A field set in the locals.
LEMMA LocSet ==
    ASSUME NEW l \in LocType
    PROVE  /\ \A i \in Slots : [l EXCEPT !.i = i] \in LocType
           /\ \A h \in Hashes : [l EXCEPT !.hash = h] \in LocType
           /\ \A v \in 0 .. 2 : [l EXCEPT !.ver = v] \in LocType
           /\ \A n \in Names \cup {None} : [l EXCEPT !.read = n] \in LocType
           /\ \A r \in Rings \cup {None} : [l EXCEPT !.ring = r] \in LocType
BY DEF LocType

LEMMA NextIndex ==
    ASSUME TypeOK, NEW p \in Procs
    PROVE  /\ loc[p].i < NumSlots => [loc[p] EXCEPT !.i = @ + 1] \in LocType
           /\ [loc[p] EXCEPT !.i = 1] \in LocType
<1>1. loc[p].i < NumSlots => loc[p].i + 1 \in Slots
  BY LocOf, IndexAssumption DEF Slots
<1>2. 1 \in Slots
  BY IndexAssumption DEF Slots
<1> QED BY <1>1, <1>2, LocOf, LocSet

\* What the code stores in a slot.
LEMMA StoreType ==
    ASSUME TypeOK, NEW p \in Procs
    PROVE  /\ [S(p) EXCEPT !.ver = 0] \in SlotType
           /\ [S(p) EXCEPT !.ver = 1] \in SlotType
           /\ [S(p) EXCEPT !.ver = 2] \in SlotType
           /\ [S(p) EXCEPT !.hash = 0] \in SlotType
           /\ [S(p) EXCEPT !.len = 0] \in SlotType
           /\ [S(p) EXCEPT !.len = 1] \in SlotType
           /\ [S(p) EXCEPT !.ring = None] \in SlotType
           /\ [S(p) EXCEPT !.ring = loc[p].ring] \in SlotType
           /\ loc[p].name \in Names =>
                /\ [S(p) EXCEPT !.hash = Hash[loc[p].name]] \in SlotType
                /\ [S(p) EXCEPT !.name = loc[p].name] \in SlotType
<1>1. S(p) \in SlotType
  BY LocOf, SlotOf DEF S
<1>2. 0 \in Hashes /\ loc[p].ring \in Rings \cup {None}
  BY LocOf DEF Hashes
<1>3. loc[p].name \in Names => Hash[loc[p].name] \in Hashes
  BY DEF Hashes
<1> QED BY <1>1, <1>2, <1>3 DEF SlotType

LEMMA Bounds ==
    ASSUME TypeOK
    PROVE  /\ flushes \in Nat /\ MaxFlushes \in Nat
           /\ flushes <= 2 * MaxFlushes
           /\ crashes \in Nat /\ MaxCrashes \in Nat /\ crashes <= MaxCrashes
           /\ calls \in Nat /\ MaxCalls \in Nat /\ calls <= MaxCalls
           /\ repairs \in Nat
BY IndexAssumption DEF TypeOK

\* Steps that only load: the slot is not touched, the next label is known.
LEMMA LookupType ==
    ASSUME TypeOK, Holders, NEW p \in Procs, Lookup(p)
    PROVE  TypeOK'
<1> USE DEF Labels
<1>1. S(p) = slot[loc[p].i] /\ loc[p].i \in Slots /\ S(p) \in SlotType
  BY LocOf, SlotOf DEF S
<1>2. /\ S(p).hash \in Hashes /\ S(p).ver \in 0 .. 2
      /\ S(p).name \in Names \cup {None} /\ S(p).ring \in Rings \cup {None}
  BY <1>1, SlotOf
<1>3. ASSUME NEW at, NextSlot(p, at) PROVE TypeOK'
  BY <1>3, ReadType, NextIndex, LocOf DEF NextSlot
<1>4. CASE LookupHash(p)
  BY <1>2, <1>4, ReadType, LocOf, LocSet DEF LookupHash
<1>5. CASE LookupLen(p)
  BY <1>3, <1>5, ReadType, LocOf DEF LookupLen
<1>6. CASE LookupVersion(p)
  BY <1>2, <1>3, <1>6, ReadType, LocOf, LocSet DEF LookupVersion
<1>7. CASE LookupName(p)
  BY <1>2, <1>7, ReadType, LocOf, LocSet DEF LookupName
<1>8. CASE LookupAgain(p)
  BY <1>3, <1>8, ReadType, LocOf DEF LookupAgain
<1>9. CASE LookupRing(p)
  <2>1. [loc[p] EXCEPT !.ring = S(p).ring] \in LocType
    BY <1>2, LocOf, LocSet
  <2> QED BY <1>9, <2>1, ReadType DEF LookupRing
<1> QED BY <1>4, <1>5, <1>6, <1>7, <1>8, <1>9 DEF Lookup

\* The calls begin and end.
LEMMA CallType ==
    ASSUME TypeOK, Holders, NEW p \in Procs,
           \/ \E n \in Names : GetRing(p, n)
           \/ Use(p) \/ GiveUp(p) \/ Acquire(p) \/ Crash(p)
    PROVE  TypeOK'
<1>1. CASE \E n \in Names : GetRing(p, n)
  <2>1. PICK n \in Names : GetRing(p, n)
    BY <1>1
  <2>2. Start(n) \in LocType
    BY StartType
  <2>3. /\ loc' = [loc EXCEPT ![p] = Start(n)]
        /\ pc' = [pc EXCEPT ![p] = "l_hash"]
        /\ UNCHANGED <<slot, free, flock, owner, flushes, crashes, repairs>>
        /\ calls < MaxCalls /\ calls' = calls + 1
    BY <2>1 DEF GetRing, Goto, ghost
  <2>4. loc' \in [Procs -> LocType] /\ pc' \in [Procs -> Labels]
    BY <2>2, <2>3 DEF TypeOK, LocType, Labels
  <2>5. calls' \in 0 .. MaxCalls
    BY <2>3, IndexAssumption DEF TypeOK
  <2> QED BY <2>3, <2>4, <2>5 DEF TypeOK, LocType
<1>2. CASE Use(p) \/ GiveUp(p)
  <2>1. /\ loc' = [loc EXCEPT ![p] = Idle] /\ pc' = [pc EXCEPT ![p] = "idle"]
        /\ flock' \in {flock, None}
        /\ UNCHANGED <<slot, free, calls, owner, flushes, crashes, repairs>>
    BY <1>2 DEF Use, GiveUp, Finish, Goto, ghost
  <2>2. loc' \in [Procs -> LocType] /\ pc' \in [Procs -> Labels]
    BY <2>1, IdleType DEF TypeOK, LocType, Labels
  <2> QED BY <2>1, <2>2 DEF TypeOK, LocType
<1>3. CASE Acquire(p)
  <2>1. loc[p].name \in Names
    BY <1>3 DEF Acquire, Holders
  <2>2. /\ loc' = [loc EXCEPT ![p] = Start(loc[p].name)]
        /\ pc' = [pc EXCEPT ![p] = "l_hash"] /\ flock' = p
        /\ UNCHANGED <<slot, free, calls, owner, flushes, crashes, repairs>>
    BY <1>3 DEF Acquire, Goto, ghost
  <2>3. loc' \in [Procs -> LocType] /\ pc' \in [Procs -> Labels]
    BY <2>1, <2>2, StartType DEF TypeOK, LocType, Labels
  <2> QED BY <2>2, <2>3 DEF TypeOK, LocType
<1>4. CASE Crash(p)
  <2>1. /\ loc' = [loc EXCEPT ![p] = Idle] /\ pc' = [pc EXCEPT ![p] = "dead"]
        /\ flock' = None /\ crashes < MaxCrashes /\ crashes' = crashes + 1
        /\ flushes' = flushes + (flushes % 2)
        /\ UNCHANGED <<slot, free, calls, owner, repairs>>
    BY <1>4 DEF Crash, Goto
  <2>2. loc' \in [Procs -> LocType] /\ pc' \in [Procs -> Labels]
    BY <2>1, IdleType DEF TypeOK, LocType, Labels
  <2>3. crashes' \in 0 .. MaxCrashes /\ flushes' \in 0 .. 2 * MaxFlushes
    BY <2>1, Bounds
  <2> QED BY <2>1, <2>2, <2>3 DEF TypeOK, LocType
<1> QED BY <1>1, <1>2, <1>3, <1>4

LEMMA CreateType ==
    ASSUME TypeOK, Holders, NEW p \in Procs, Create(p), OwnRing(p)
    PROVE  TypeOK'
<1> USE DEF Labels
<1>1. S(p) = slot[loc[p].i] /\ loc[p].i \in Slots /\ S(p) \in SlotType
  BY LocOf, SlotOf DEF S
<1>2. pc[p] \in Writing =>
        Hash[loc[p].name] \in Hashes /\ loc[p].name \in Names
  BY DEF Holders, Creating, Hashes
<1>3. loc[p] \in LocType
  BY LocOf
<1>4. ASSUME NEW at, NextScan(p, at) PROVE TypeOK'
  BY <1>4, ReadType, NextIndex DEF NextScan
<1>5. CASE CreateRing(p)
  <2>1. PICK r \in free :
          /\ free' = free \ {r}
          /\ owner' = [owner EXCEPT ![r] = loc[p].name]
          /\ loc' = [loc EXCEPT ![p] = [Idle EXCEPT !.name = loc[p].name,
                                                    !.ring = r]]
    BY <1>5 DEF CreateRing
  <2>2. pc' = [pc EXCEPT ![p] = "c_scan"]
        /\ UNCHANGED <<slot, flock, calls, flushes, crashes, repairs>>
    BY <1>5 DEF CreateRing, Goto, ghost
  <2>3. r \in Rings /\ loc[p].name \in Names \cup {None}
    BY LocOf, <2>1 DEF TypeOK
  <2>4. [Idle EXCEPT !.name = loc[p].name, !.ring = r] \in LocType
    BY <2>3, IdleType DEF LocType
  <2>5. loc' \in [Procs -> LocType] /\ pc' \in [Procs -> Labels]
    BY <2>1, <2>2, <2>4 DEF TypeOK, LocType
  <2>6. owner' \in [Rings -> Names \cup {None}] /\ free' \subseteq Rings
    BY <2>1, <2>3 DEF TypeOK
  <2> QED BY <2>2, <2>5, <2>6 DEF TypeOK, LocType
<1>6. CASE Scan(p)
  BY <1>3, <1>4, <1>6, ReadType DEF Scan
<1>7. CASE Find(p)
  BY <1>3, <1>7, ReadType, NextIndex DEF Find
<1>8. CASE Full(p)
  <2>1. /\ loc' = [loc EXCEPT ![p] = Idle] /\ pc' = [pc EXCEPT ![p] = "idle"]
        /\ flock' \in {flock, None} /\ free' = free \cup {loc[p].ring}
        /\ UNCHANGED <<slot, calls, owner, flushes, crashes, repairs>>
    BY <1>8 DEF Full, Finish, Goto, ghost
  <2>2. loc[p].ring \in Rings
    BY <1>8 DEF Full, OwnRing, Creating
  <2>3. loc' \in [Procs -> LocType] /\ pc' \in [Procs -> Labels]
    BY <2>1, IdleType DEF TypeOK, LocType
  <2> QED BY <2>1, <2>2, <2>3 DEF TypeOK, LocType
<1>9. CASE RepairVersion(p) \/ WriteVersion(p)
  BY <1>9, StoreType, WriteType DEF RepairVersion, WriteVersion
<1>10. CASE RepairHash(p) \/ RepairLen(p) \/ RepairRing(p)
  BY <1>10, StoreType, WriteType DEF RepairHash, RepairLen, RepairRing
<1>11. CASE RepairDone(p)
  <2>1. /\ slot' = [slot EXCEPT ![loc[p].i] = [S(p) EXCEPT !.ver = 0]]
        /\ pc' = [pc EXCEPT ![p] = "r_next"] /\ repairs' = repairs + 1
        /\ UNCHANGED <<free, flock, loc, calls, owner, flushes, crashes>>
    BY <1>11 DEF RepairDone, Goto, S
  <2>2. slot' \in [Slots -> SlotType] /\ pc' \in [Procs -> Labels]
    BY <1>1, <2>1, StoreType DEF TypeOK, SlotType
  <2> QED BY <2>1, <2>2 DEF TypeOK, SlotType
<1>12. CASE RepairNext(p)
  BY <1>4, <1>12 DEF RepairNext
<1>13. CASE WriteHash(p) \/ WriteName(p)
  <2>1. pc[p] \in Writing
    BY <1>13 DEF WriteHash, WriteName, Write, Writing
  <2> QED BY <1>2, <1>13, <2>1, StoreType, WriteType
          DEF WriteHash, WriteName
<1>14. CASE WriteLen(p) \/ WriteRing(p) \/ WriteDone(p)
  BY <1>14, StoreType, WriteType DEF WriteLen, WriteRing, WriteDone
<1> QED BY <1>5, <1>6, <1>7, <1>8, <1>9, <1>10, <1>11, <1>12, <1>13, <1>14
        DEF Create

LEMMA FlushType ==
    ASSUME TypeOK, Holders, NEW p \in Procs, Flush(p)
    PROVE  TypeOK'
<1> USE DEF Labels
<1>1. CASE FlushBegin(p)
  <2>1. /\ loc' = [loc EXCEPT ![p] = Idle] /\ pc' = [pc EXCEPT ![p] = "f_len"]
        /\ flock' = p /\ flushes < 2 * MaxFlushes /\ flushes' = flushes + 1
        /\ UNCHANGED <<slot, free, calls, owner, crashes, repairs>>
    BY <1>1 DEF FlushBegin, Goto
  <2>2. loc' \in [Procs -> LocType] /\ pc' \in [Procs -> Labels]
    BY <2>1, IdleType DEF TypeOK, LocType
  <2>3. flushes' \in 0 .. 2 * MaxFlushes
    BY <2>1, IndexAssumption DEF TypeOK
  <2> QED BY <2>1, <2>2, <2>3 DEF TypeOK, LocType
<1>2. CASE FlushLen(p) \/ FlushRing(p) \/ FlushVersion(p)
  BY <1>2, StoreType, WriteType DEF FlushLen, FlushRing, FlushVersion
<1>3. CASE FlushNext(p)
  BY <1>3, ReadType, NextIndex, LocOf DEF FlushNext
<1>4. CASE FlushSlab(p)
  <2>1. /\ loc' = [loc EXCEPT ![p] = Idle] /\ pc' = [pc EXCEPT ![p] = "idle"]
        /\ flock' = None /\ free' = Rings /\ flushes' = flushes + 1
        /\ owner' = [r \in Rings |-> None]
        /\ UNCHANGED <<slot, calls, crashes, repairs>>
    BY <1>4 DEF FlushSlab, Goto
  <2>2. loc' \in [Procs -> LocType] /\ pc' \in [Procs -> Labels]
    BY <2>1, IdleType DEF TypeOK, LocType
  <2>3. flushes % 2 = 1
    BY <1>4 DEF Holders, Flushing, FlushSlab
  <2>4. flushes' \in 0 .. 2 * MaxFlushes
    BY <2>1, <2>3, Bounds
  <2> QED BY <2>1, <2>2, <2>4 DEF TypeOK, LocType
<1> QED BY <1>1, <1>2, <1>3, <1>4 DEF Flush

LEMMA TypeStep ==
    ASSUME TypeOK, Holders, \A p \in Procs : OwnRing(p), [Next]_vars
    PROVE  TypeOK'
<1>1. CASE UNCHANGED vars
  BY <1>1 DEF vars, ghost, TypeOK
<1>2. CASE Next
  <2>1. PICK p \in Procs :
          \/ \E n \in Names : GetRing(p, n)
          \/ Lookup(p) \/ Use(p) \/ GiveUp(p) \/ Acquire(p)
          \/ Create(p) \/ Flush(p) \/ Crash(p)
    BY <1>2 DEF Next
  <2> QED BY <2>1, LookupType, CallType, CreateType, FlushType
<1> QED BY <1>1, <1>2

-----------------------------------------------------------------------------
(* What a step of one process leaves to the others.                         *)

Others(p) == \A q \in Procs \ {p} : pc'[q] = pc[q] /\ loc'[q] = loc[q]

\* What readers count on as long as no flush, death or repair happens:
\* complete entries stay, what is in use stays in use, rings keep their owner,
\* and a ring is new to a creator only if nobody has it.
Calm == ghost' = ghost /\ flushes % 2 = 0
Gentle ==
    /\ flushes <= flushes' /\ crashes <= crashes' /\ repairs <= repairs'
    /\ Calm =>
        /\ \A j \in Slots : Complete(slot[j]) => slot'[j] = slot[j]
        /\ \A j \in Slots : slot[j].len # 0 \/ slot[j].ver % 2 = 1 =>
                                slot'[j].len # 0 \/ slot'[j].ver % 2 = 1
        /\ \A r \in Rings \ free :
              /\ owner'[r] = owner[r]
              /\ r \in free' =>
                    \E x \in Procs : pc[x] \in Creating /\ loc[x].ring = r
        /\ \A x \in Procs : pc'[x] \in Creating =>
              \/ pc[x] \in Creating /\ loc'[x].ring = loc[x].ring
              \/ loc'[x].ring \in free

\* Only the holder of the flock has work under way.
LEMMA OthersWork ==
    ASSUME TypeOK, Holders, NEW p \in Procs, NEW q \in Procs \ {p}, Others(p),
           Work(q), flock = p \/ UNCHANGED <<slot, free, owner>>
    PROVE  Work(q)'
<1>1. pc'[q] = pc[q] /\ loc'[q] = loc[q]
  BY DEF Others
<1>2. CASE flock = p
  <2>1. pc'[q] \notin Creating \cup Flushing
    BY <1>1, <1>2 DEF Holders
  <2> QED BY <2>1 DEF Work, OwnRing, Scanned, Written, Wiped, Creating,
                      Scanning, Repairing, Writing, Flushing
<1>3. CASE UNCHANGED <<slot, free, owner>>
  <2>1. OwnRing(q)'
    BY <1>1, <1>3 DEF Work, OwnRing
  <2>2. Scanned(q)'
    BY <1>1, <1>3 DEF Work, Scanned, S, Passed, Holds, Complete
  <2>3. Written(q)'
    BY <1>1, <1>3 DEF Work, Written, S, Passed, Holds, Complete
  <2>4. Wiped(q)'
    BY <1>1, <1>3 DEF Work, Wiped, S, Blank
  <2> QED BY <2>1, <2>2, <2>3, <2>4 DEF Work
<1> QED BY <1>2, <1>3

\* A reader that is undisturbed after the step was so before it.
LEMMA StillCalm ==
    ASSUME TypeOK, TypeOK', Holders, Gentle, NEW q \in Procs,
           loc'[q].since = loc[q].since, Undisturbed(q)'
    PROVE  Undisturbed(q) /\ Calm
<1>1. loc[q].since \in Nat \X Nat \X Nat
  BY LocOf
<1>2. loc[q].since = <<flushes', crashes', repairs'>>
  BY DEF Undisturbed, ghost
<1>3. /\ loc[q].since[1] <= flushes /\ loc[q].since[2] <= crashes
      /\ loc[q].since[3] <= repairs
  BY DEF Holders
<1>4. flushes' \in Nat /\ crashes' \in Nat /\ repairs' \in Nat
  BY IndexAssumption DEF TypeOK
<1>5. flushes' = flushes /\ crashes' = crashes /\ repairs' = repairs
  BY <1>2, <1>3, <1>4, Bounds DEF Gentle
<1>6. ghost' = ghost /\ flushes % 2 = 0
  BY <1>5 DEF ghost, Undisturbed
<1> QED BY <1>6 DEF Calm, Undisturbed

LEMMA OthersRead ==
    ASSUME TypeOK, TypeOK', Holders, Gentle, NEW p \in Procs,
           NEW q \in Procs \ {p}, Others(p), Reading(q)
    PROVE  Reading(q)'
<1> SUFFICES ASSUME Undisturbed(q)' PROVE Seen(q)' /\ Expects(q)'
  BY DEF Reading
<1>1. pc'[q] = pc[q] /\ loc'[q] = loc[q] /\ loc[q].i \in Slots
  BY LocOf DEF Others
<1>2. Calm /\ Seen(q) /\ Expects(q)
  BY <1>1, StillCalm DEF Reading
<1>3. \A j \in Slots : Complete(slot[j]) =>
        slot'[j] = slot[j] /\ Complete(slot'[j])
  BY <1>2 DEF Gentle, Complete
<1>4. Seen(q)'
  <2>1. pc[q] = "l_ver" => S(q)'.len # 0 \/ S(q)'.ver % 2 = 1
    BY <1>1, <1>2 DEF Gentle, Seen, S
  <2>2. pc[q] \in {"l_name", "l_again", "l_ring"} =>
          S(q)' = S(q) /\ Complete(S(q))
    BY <1>1, <1>2, <1>3 DEF Seen, S
  <2>3. ASSUME pc[q] = "found"
        PROVE  /\ loc[q].ring \in Rings \ free'
               /\ owner'[loc[q].ring] = loc[q].name
               /\ \A x \in Procs : pc'[x] \in Creating =>
                                     loc'[x].ring # loc[q].ring
    <3>1. /\ loc[q].ring \in Rings \ free /\ owner[loc[q].ring] = loc[q].name
          /\ \A x \in Procs : pc[x] \in Creating => loc[x].ring # loc[q].ring
      BY <1>2, <2>3 DEF Seen
    <3> QED BY <1>2, <3>1 DEF Gentle
  <2> QED BY <1>1, <1>2, <2>1, <2>2, <2>3 DEF Seen
<1>5. Expects(q)'
  <2>1. \A j \in Slots : Ahead(q, j) => Ahead(q, j)'
    BY <1>1, <1>3 DEF Ahead, Holds
  <2> QED BY <1>1, <1>2, <2>1 DEF Expects
<1> QED BY <1>4, <1>5

\* Holders, from what the process that moves does to itself.
LEMMA HoldersKept ==
    ASSUME TypeOK, TypeOK', Holders, NEW p \in Procs, Others(p),
           \/ flock' = flock
           \/ flock = None /\ flock' = p
           \/ flock = p /\ flock' = None,
           pc'[p] \in Creating \cup Flushing => flock' = p,
           flock' = p => pc'[p] \notin {"idle", "dead"},
           pc'[p] \in Lookups \cup Creating \cup {"missed"} =>
                loc'[p].name \in Names,
           flushes <= flushes' /\ crashes <= crashes' /\ repairs <= repairs',
           /\ loc'[p].since[1] <= flushes' /\ loc'[p].since[2] <= crashes'
           /\ loc'[p].since[3] <= repairs',
           \/ /\ flushes' = flushes
              /\ (pc'[p] \in Flushing <=> pc[p] \in Flushing)
           \/ flushes' % 2 = 1 /\ pc'[p] \in Flushing
           \/ flushes' % 2 = 0 /\ pc'[p] \notin Flushing /\ flock = p
    PROVE  Holders'
<1>1. \A q \in Procs \ {p} : pc'[q] = pc[q] /\ loc'[q] = loc[q]
  BY DEF Others
<1>2. \A q \in Procs : pc'[q] \in Creating \cup Flushing => flock' = q
  BY <1>1, IndexAssumption DEF Holders
<1>3. \A q \in Procs : flock' = q => pc'[q] \notin {"idle", "dead"}
  BY <1>1, IndexAssumption DEF Holders
<1>4. \A q \in Procs : pc'[q] \in Lookups \cup Creating \cup {"missed"} =>
                            loc'[q].name \in Names
  BY <1>1 DEF Holders
<1>5. \A q \in Procs : /\ loc'[q].since[1] <= flushes'
                       /\ loc'[q].since[2] <= crashes'
                       /\ loc'[q].since[3] <= repairs'
  <2> TAKE q \in Procs
  <2>1. CASE q = p
    BY <2>1
  <2>2. CASE q # p
    <3>1. loc'[q].since \in Nat \X Nat \X Nat /\ loc'[q] = loc[q]
      BY <1>1, <2>2, LocOf
    <3>2. flushes' \in Nat /\ crashes' \in Nat /\ repairs' \in Nat
      BY IndexAssumption DEF TypeOK
    <3>3. /\ loc[q].since[1] <= flushes /\ loc[q].since[2] <= crashes
          /\ loc[q].since[3] <= repairs
      BY DEF Holders
    <3> QED BY <3>1, <3>2, <3>3, Bounds
  <2> QED BY <2>1, <2>2
<1>6. flushes' % 2 = 1 <=> \E q \in Procs : pc'[q] \in Flushing
  <2>1. CASE flushes' = flushes /\ (pc'[p] \in Flushing <=> pc[p] \in Flushing)
    BY <1>1, <2>1 DEF Holders
  <2>2. CASE flushes' % 2 = 1 /\ pc'[p] \in Flushing
    BY <2>2
  <2>3. CASE flushes' % 2 = 0 /\ pc'[p] \notin Flushing /\ flock = p
    BY <1>1, <2>3 DEF Holders
  <2> QED BY <2>1, <2>2, <2>3
<1> QED BY <1>2, <1>3, <1>4, <1>5, <1>6 DEF Holders

\* The index, when one slot changes and gets neither complete nor a new ring.
LEMMA EntriesKept ==
    ASSUME Entries, UNCHANGED <<free, owner>>, NEW i \in Slots,
           \A j \in Slots \ {i} : slot'[j] = slot[j],
           slot'[i].ring \in {None, slot[i].ring}, ~Complete(slot'[i])
    PROVE  Entries'
<1>1. \A j \in Slots : Pointer(j)' /\ Entry(j)'
  BY DEF Entries, Pointer, Entry
<1>2. \A j, k \in Slots : j # k => Distinct(j, k)'
  BY DEF Entries, Distinct
<1> QED BY <1>1, <1>2 DEF Entries

LEMMA Assemble ==
    ASSUME IInv, TypeOK', Holders', Entries', Gentle,
           NEW p \in Procs, Others(p),
           flock = p \/ UNCHANGED <<slot, free, owner>>,
           Work(p)', Reading(p)'
    PROVE  IInv'
<1>1. ASSUME NEW q \in Procs PROVE Work(q)' /\ Reading(q)'
  BY OthersWork, OthersRead DEF IInv
<1> QED BY <1>1 DEF IInv

LEMMA NoWork ==
    ASSUME NEW p \in Procs, pc'[p] \notin Creating \cup Flushing
    PROVE  Work(p)'
BY DEF Work, OwnRing, Scanned, Written, Wiped, Creating, Scanning, Repairing,
       Writing, Flushing

LEMMA NoReading ==
    ASSUME NEW p \in Procs, pc'[p] \notin Lookups \cup {"found", "missed"}
    PROVE  Reading(p)'
BY DEF Reading, Seen, Expects, Lookups

-----------------------------------------------------------------------------
(* Steps that load.                                                         *)

LEMMA ReadShape ==
    ASSUME TypeOK, NEW p \in Procs, NEW at, NEW new, NEW next,
           Read(p, at, new, next)
    PROVE  /\ pc[p] = at /\ pc'[p] = next /\ loc'[p] = new /\ Others(p)
           /\ UNCHANGED <<slot, free, flock, owner, flushes, crashes, repairs>>
BY DEF TypeOK, Read, Goto, Others, ghost

LEMMA ReadKeeps ==
    ASSUME IInv, TypeOK', NEW p \in Procs, NEW at, NEW new \in LocType,
           NEW next \in Labels, Read(p, at, new, next),
           new.name = loc[p].name, new.since = loc[p].since,
           next \notin {"idle", "dead"},
           next \in Creating => at \in Creating /\ new.ring = loc[p].ring,
           next \in Flushing <=> at \in Flushing,
           next \in Lookups \cup {"missed"} => at \in Lookups,
           Work(p)', Reading(p)'
    PROVE  IInv'
<1>1. /\ pc[p] = at /\ pc'[p] = next /\ loc'[p] = new /\ Others(p)
      /\ UNCHANGED <<slot, free, flock, owner, flushes, crashes, repairs>>
  BY ReadShape DEF IInv
<1>2. TypeOK /\ Holders
  BY DEF IInv
<1>3. Holders'
  <2>1. pc'[p] \in Creating \cup Flushing => flock' = p
    BY <1>1, <1>2 DEF Holders
  <2>2. pc'[p] \in Lookups \cup Creating \cup {"missed"} =>
            loc'[p].name \in Names
    BY <1>1, <1>2 DEF Holders
  <2>3. flushes <= flushes' /\ crashes <= crashes' /\ repairs <= repairs'
    BY <1>1, <1>2, Bounds
  <2>4. /\ loc'[p].since[1] <= flushes' /\ loc'[p].since[2] <= crashes'
        /\ loc'[p].since[3] <= repairs'
    BY <1>1, <1>2 DEF Holders
  <2> QED BY <1>1, <1>2, <2>1, <2>2, <2>3, <2>4, HoldersKept
<1>4. Entries'
  BY <1>1 DEF IInv, Entries, Pointer, Entry, Distinct
<1>5. Gentle
  <2>1. \A x \in Procs : pc'[x] \in Creating =>
              pc[x] \in Creating /\ loc'[x].ring = loc[x].ring
    BY <1>1 DEF Others
  <2> QED BY <1>1, <1>2, <2>1, Bounds DEF Gentle
<1> QED BY <1>1, <1>3, <1>4, <1>5, Assemble

LEMMA NextSlotKeeps ==
    ASSUME IInv, TypeOK', NEW p \in Procs, NEW at \in Lookups \ {"l_ring"},
           NextSlot(p, at),
           Undisturbed(p) /\ loc[p].had =>
                \E j \in Slots : loc[p].i < j /\ Holds(slot[j], loc[p].name)
    PROVE  IInv'
<1>1. TypeOK /\ loc[p].i \in Slots /\ loc[p] \in LocType
  BY LocOf DEF IInv
<1>2. CASE loc[p].i < NumSlots
  <2> DEFINE new == [loc[p] EXCEPT !.i = @ + 1]
  <2>1. new \in LocType /\ Read(p, at, new, "l_hash")
    BY <1>1, <1>2, NextIndex DEF NextSlot
  <2>2. /\ new.name = loc[p].name /\ new.since = loc[p].since
        /\ new.had = loc[p].had /\ new.i = loc[p].i + 1
    BY <1>1 DEF LocType
  <2>3. /\ pc'[p] = "l_hash" /\ loc'[p] = new
        /\ UNCHANGED <<slot, free, flock, owner, flushes, crashes, repairs>>
    BY <1>1, <2>1, ReadShape
  <2>4. Reading(p)'
    <3> SUFFICES ASSUME Undisturbed(p)' PROVE Seen(p)' /\ Expects(p)'
      BY DEF Reading
    <3>1. Undisturbed(p)
      BY <2>2, <2>3 DEF Undisturbed, ghost
    <3>2. Seen(p)'
      BY <2>3 DEF Seen
    <3>3. ASSUME loc'[p].had PROVE \E j \in Slots : Ahead(p, j)'
      <4>1. PICK j \in Slots : loc[p].i < j /\ Holds(slot[j], loc[p].name)
        BY <2>2, <2>3, <3>1, <3>3
      <4>2. loc[p].i + 1 <= j
        BY <1>1, <4>1 DEF Slots
      <4> QED BY <2>2, <2>3, <4>1, <4>2 DEF Ahead
    <3> QED BY <2>3, <3>2, <3>3 DEF Expects
  <2>5. Work(p)'
    BY <2>3, NoWork DEF Creating, Scanning, Repairing, Writing, Flushing
  <2> HIDE DEF new
  <2> QED BY <2>1, <2>2, <2>4, <2>5, ReadKeeps
          DEF Lookups, Labels, Creating, Scanning, Repairing, Writing, Flushing
<1>3. CASE ~(loc[p].i < NumSlots)
  <2>1. Read(p, at, loc[p], "missed")
    BY <1>3 DEF NextSlot
  <2>2. /\ pc'[p] = "missed" /\ loc'[p] = loc[p]
        /\ UNCHANGED <<slot, free, flock, owner, flushes, crashes, repairs>>
    BY <1>1, <2>1, ReadShape
  <2>3. Undisturbed(p) => ~loc[p].had
    BY <1>1, <1>3, IndexAssumption DEF Slots
  <2>4. Reading(p)'
    BY <2>2, <2>3 DEF Reading, Seen, Expects, Undisturbed, Lookups, ghost
  <2>5. Work(p)'
    BY <2>2, NoWork DEF Creating, Scanning, Repairing, Writing, Flushing
  <2> QED BY <1>1, <2>1, <2>4, <2>5, ReadKeeps
          DEF Lookups, Labels, Creating, Scanning, Repairing, Writing, Flushing
<1> QED BY <1>2, <1>3

\* A complete entry's ring is nobody's work.
LEMMA NotUnderWork ==
    ASSUME IInv, NEW j \in Slots, Complete(slot[j])
    PROVE  /\ slot[j].ring \in Rings \ free
           /\ owner[slot[j].ring] = slot[j].name
           /\ \A q \in Procs : pc[q] \in Creating => loc[q].ring # slot[j].ring
<1>1. Pointer(j) /\ Entry(j) /\ TypeOK
  BY DEF IInv, Entries
<1>2. slot[j].ring \in Rings \ free /\ owner[slot[j].ring] = slot[j].name
  BY <1>1, SlotOf DEF Pointer, Entry
<1>3. ASSUME NEW q \in Procs, pc[q] \in Creating, loc[q].ring = slot[j].ring
      PROVE  FALSE
  <2>1. pc[q] = "w_done" /\ j = loc[q].i
    BY <1>3 DEF IInv, Work, OwnRing
  <2>2. slot[j].ver = 1
    BY <2>1 DEF IInv, Work, Written, S, Writing
  <2> QED BY <2>2 DEF Complete
<1> QED BY <1>2, <1>3

LEMMA LookupStep ==
    ASSUME IInv, TypeOK', NEW p \in Procs, Lookup(p)
    PROVE  IInv'
<1>1. /\ TypeOK /\ Holders /\ Reading(p)
      /\ loc[p].i \in Slots /\ loc[p] \in LocType
  BY LocOf DEF IInv
<1>2. /\ S(p) = slot[loc[p].i] /\ S(p).hash \in Hashes /\ S(p).ver \in 0 .. 2
      /\ S(p).name \in Names \cup {None} /\ S(p).ring \in Rings \cup {None}
  BY <1>1, SlotOf DEF S
<1>3. Entry(loc[p].i)
  BY <1>1 DEF IInv, Entries
<1>4. ASSUME NEW at \in Lookups, NEW next \in Lookups \cup {"found", "missed"},
             NEW new \in LocType, Read(p, at, new, next),
             new.name = loc[p].name, new.since = loc[p].since, Reading(p)'
      PROVE  IInv'
  <2>1. pc'[p] = next
    BY <1>1, <1>4, ReadShape
  <2>2. Work(p)'
    BY <2>1, NoWork
       DEF Lookups, Creating, Scanning, Repairing, Writing, Flushing
  <2> QED BY <1>4, <2>2, ReadKeeps
          DEF Lookups, Labels, Creating, Scanning, Repairing, Writing, Flushing
<1>5. ASSUME pc[p] \in Lookups, Undisturbed(p), loc[p].had
      PROVE  \E j \in Slots : Ahead(p, j)
  BY <1>1, <1>5 DEF Reading, Expects
<1>6. CASE LookupHash(p)
  <2> DEFINE new == [loc[p] EXCEPT !.hash = S(p).hash]
  <2>1. new \in LocType /\ Read(p, "l_hash", new, "l_len")
    BY <1>1, <1>2, <1>6, LocSet DEF LookupHash
  <2>2. /\ new.name = loc[p].name /\ new.since = loc[p].since
        /\ new.had = loc[p].had /\ new.i = loc[p].i /\ new.hash = S(p).hash
    BY <1>1 DEF LocType
  <2>3. /\ pc[p] = "l_hash" /\ pc'[p] = "l_len" /\ loc'[p] = new
        /\ UNCHANGED <<slot, free, flock, owner, flushes, crashes, repairs>>
    BY <1>1, <2>1, ReadShape
  <2> HIDE DEF new
  <2>4. \A j \in Slots : Ahead(p, j) => Ahead(p, j)'
    BY <1>2, <2>2, <2>3 DEF Ahead
  <2>5. Undisturbed(p)' => Undisturbed(p)
    BY <2>2, <2>3 DEF Undisturbed, ghost
  <2>6. Reading(p)'
    BY <1>5, <2>2, <2>3, <2>4, <2>5 DEF Reading, Seen, Expects, Lookups
  <2> QED BY <1>4, <2>1, <2>2, <2>6 DEF Lookups
<1>7. CASE LookupLen(p)
  <2>0. loc[p].name \in Names /\ pc[p] = "l_len"
    BY <1>1, <1>7 DEF Holders, LookupLen, NextSlot, Read, Lookups
  <2>1. CASE loc[p].hash = Hash[loc[p].name] /\ S(p).len # 0
    <3>1. Read(p, "l_len", loc[p], "l_ver")
      BY <1>7, <2>0, <2>1 DEF LookupLen
    <3>2. /\ pc'[p] = "l_ver" /\ loc'[p] = loc[p]
          /\ UNCHANGED <<slot, free, flock, owner, flushes, crashes, repairs>>
      BY <1>1, <3>1, ReadShape
    <3>3. \A j \in Slots : Ahead(p, j) => Ahead(p, j)'
      BY <3>2 DEF Ahead
    <3>4. Undisturbed(p)' => Undisturbed(p)
      BY <3>2 DEF Undisturbed, ghost
    <3>5. Reading(p)'
      BY <1>5, <2>0, <2>1, <3>2, <3>3, <3>4
         DEF Reading, Seen, Expects, Lookups, S
    <3> QED BY <1>1, <1>4, <3>1, <3>5 DEF Lookups
  <2>2. CASE ~(loc[p].hash = Hash[loc[p].name] /\ S(p).len # 0)
    <3>1. NextSlot(p, "l_len")
      BY <1>7, <2>2 DEF LookupLen
    <3>2. \A j \in Slots : Ahead(p, j) =>
                loc[p].i < j /\ Holds(slot[j], loc[p].name)
      BY <1>1, <1>2, <1>3, <2>0, <2>2 DEF Ahead, Holds, Entry, Slots, Complete
    <3> QED BY <1>5, <2>0, <3>1, <3>2, NextSlotKeeps DEF Lookups
  <2> QED BY <2>1, <2>2
<1>8. CASE LookupVersion(p)
  <2>1. CASE S(p).ver % 2 = 0
    <3> DEFINE new == [loc[p] EXCEPT !.ver = S(p).ver]
    <3>1. new \in LocType /\ Read(p, "l_ver", new, "l_name")
      BY <1>1, <1>2, <1>8, <2>1, LocSet DEF LookupVersion
    <3>2. /\ new.name = loc[p].name /\ new.since = loc[p].since
          /\ new.had = loc[p].had /\ new.i = loc[p].i /\ new.ver = S(p).ver
      BY <1>1 DEF LocType
    <3>3. /\ pc[p] = "l_ver" /\ pc'[p] = "l_name" /\ loc'[p] = new
          /\ UNCHANGED <<slot, free, flock, owner, flushes, crashes, repairs>>
      BY <1>1, <3>1, ReadShape
    <3> HIDE DEF new
    <3>4. \A j \in Slots : Ahead(p, j) => Ahead(p, j)'
      BY <1>2, <3>2, <3>3 DEF Ahead
    <3>5. Undisturbed(p)' => Undisturbed(p) /\ Complete(S(p))
      BY <1>1, <2>1, <3>2, <3>3
         DEF Undisturbed, ghost, Reading, Seen, Complete
    <3>6. Reading(p)'
      BY <1>2, <1>5, <3>2, <3>3, <3>4, <3>5
         DEF Reading, Seen, Expects, Lookups, S
    <3> QED BY <1>4, <3>1, <3>2, <3>6 DEF Lookups
  <2>2. CASE S(p).ver % 2 # 0
    <3>1. NextSlot(p, "l_ver") /\ pc[p] = "l_ver"
      BY <1>8, <2>2 DEF LookupVersion, NextSlot, Read
    <3>2. \A j \in Slots : Ahead(p, j) =>
                loc[p].i < j /\ Holds(slot[j], loc[p].name)
      BY <1>1, <1>2, <2>2 DEF Ahead, Holds, Slots, Complete
    <3> QED BY <1>5, <3>1, <3>2, NextSlotKeeps DEF Lookups
  <2> QED BY <2>1, <2>2
<1>9. CASE LookupName(p)
  <2> DEFINE new == [loc[p] EXCEPT !.read = S(p).name]
  <2>1. new \in LocType /\ Read(p, "l_name", new, "l_again")
    BY <1>1, <1>2, <1>9, LocSet DEF LookupName
  <2>2. /\ new.name = loc[p].name /\ new.since = loc[p].since
        /\ new.had = loc[p].had /\ new.i = loc[p].i /\ new.read = S(p).name
        /\ new.ver = loc[p].ver
    BY <1>1 DEF LocType
  <2>3. /\ pc[p] = "l_name" /\ pc'[p] = "l_again" /\ loc'[p] = new
        /\ UNCHANGED <<slot, free, flock, owner, flushes, crashes, repairs>>
    BY <1>1, <2>1, ReadShape
  <2> HIDE DEF new
  <2>4. \A j \in Slots : Ahead(p, j) => Ahead(p, j)'
    BY <2>2, <2>3 DEF Ahead
  <2>5. Undisturbed(p)' => Undisturbed(p) /\ Complete(S(p))
    BY <1>1, <2>2, <2>3 DEF Undisturbed, ghost, Reading, Seen
  <2>6. Reading(p)'
    BY <1>2, <1>5, <2>2, <2>3, <2>4, <2>5
       DEF Reading, Seen, Expects, Lookups, S
  <2> QED BY <1>4, <2>1, <2>2, <2>6 DEF Lookups
<1>10. CASE LookupAgain(p)
  <2>1. CASE S(p).ver = loc[p].ver /\ loc[p].read = loc[p].name
    <3>1. Read(p, "l_again", loc[p], "l_ring")
      BY <1>10, <2>1 DEF LookupAgain
    <3>2. /\ pc[p] = "l_again" /\ pc'[p] = "l_ring" /\ loc'[p] = loc[p]
          /\ UNCHANGED <<slot, free, flock, owner, flushes, crashes, repairs>>
      BY <1>1, <3>1, ReadShape
    <3>3. \A j \in Slots : Ahead(p, j) => Ahead(p, j)'
      BY <3>2 DEF Ahead
    <3>4. Undisturbed(p)' =>
            /\ Undisturbed(p) /\ Complete(S(p)) /\ S(p).name = loc[p].name
      BY <1>1, <2>1, <3>2 DEF Undisturbed, ghost, Reading, Seen
    <3>5. Reading(p)'
      BY <1>5, <3>2, <3>3, <3>4 DEF Reading, Seen, Expects, Lookups, S
    <3> QED BY <1>1, <1>4, <3>1, <3>5 DEF Lookups
  <2>2. CASE ~(S(p).ver = loc[p].ver /\ loc[p].read = loc[p].name)
    <3>1. NextSlot(p, "l_again") /\ pc[p] = "l_again"
      BY <1>10, <2>2 DEF LookupAgain, NextSlot, Read
    <3>2. Undisturbed(p) => loc[p].read = S(p).name
      BY <1>1, <3>1 DEF Reading, Seen
    <3>3. Undisturbed(p) => \A j \in Slots : Ahead(p, j) =>
                loc[p].i < j /\ Holds(slot[j], loc[p].name)
      BY <1>1, <1>2, <2>2, <3>1, <3>2 DEF Ahead, Holds, Slots
    <3> QED BY <1>5, <3>1, <3>3, NextSlotKeeps DEF Lookups
  <2> QED BY <2>1, <2>2
<1>11. CASE LookupRing(p)
  <2> DEFINE new == [loc[p] EXCEPT !.ring = S(p).ring]
             next == IF S(p).ring = None THEN "missed" ELSE "found"
  <2>1. new \in LocType /\ Read(p, "l_ring", new, next)
    BY <1>1, <1>2, <1>11, LocSet DEF LookupRing
  <2>2. /\ new.name = loc[p].name /\ new.since = loc[p].since
        /\ new.had = loc[p].had /\ new.ring = S(p).ring
    BY <1>1 DEF LocType
  <2>3. /\ pc[p] = "l_ring" /\ pc'[p] = next /\ loc'[p] = new /\ Others(p)
        /\ UNCHANGED <<slot, free, flock, owner, flushes, crashes, repairs>>
    BY <1>1, <2>1, ReadShape
  <2>4. next \in {"found", "missed"}
    OBVIOUS
  <2>5. Undisturbed(p)' => Complete(S(p)) /\ S(p).name = loc[p].name
    BY <1>1, <2>2, <2>3 DEF Undisturbed, ghost, Reading, Seen
  <2>6. Complete(S(p)) => /\ next = "found"
                          /\ S(p).ring \in Rings \ free
                          /\ owner[S(p).ring] = S(p).name
                          /\ \A q \in Procs : pc[q] \in Creating =>
                                loc[q].ring # S(p).ring
    BY <1>1, <1>2, <1>3, NotUnderWork DEF Entry
  <2> HIDE DEF new, next
  <2>7. \A q \in Procs : pc'[q] \in Creating =>
            pc[q] \in Creating /\ loc'[q].ring = loc[q].ring
    BY <2>3, <2>4 DEF Others, Creating, Scanning, Repairing, Writing
  <2>8. Reading(p)'
    BY <2>2, <2>3, <2>4, <2>5, <2>6, <2>7 DEF Reading, Seen, Expects, Lookups
  <2> QED BY <1>4, <2>1, <2>2, <2>4, <2>8 DEF Lookups
<1> QED BY <1>6, <1>7, <1>8, <1>9, <1>10, <1>11 DEF Lookup

-----------------------------------------------------------------------------
(* The calls' ends, and what changes the pool instead of a slot.            *)

\* A call that starts to look: what it asks for, if it is there, lies ahead.
LEMMA Begins ==
    ASSUME IInv, NEW p \in Procs, NEW n \in Names, pc'[p] = "l_hash",
           loc'[p] = Start(n), UNCHANGED <<slot, flushes, crashes, repairs>>
    PROVE  /\ Work(p)' /\ Reading(p)' /\ loc'[p].name = n
           /\ loc'[p].since = <<flushes, crashes, repairs>>
<1>1. /\ loc'[p].name = n /\ loc'[p].i = 1 /\ loc'[p].since = ghost
      /\ loc'[p].had = \E i \in Slots : Holds(slot[i], n)
  BY DEF Start, Idle
<1>2. Work(p)'
  BY NoWork DEF Creating, Scanning, Repairing, Writing, Flushing
<1>3. ASSUME loc'[p].had PROVE \E j \in Slots : Ahead(p, j)'
  <2>1. PICK j \in Slots : Holds(slot[j], n)
    BY <1>1, <1>3
  <2>2. loc'[p].i <= j /\ Holds(slot'[j], loc'[p].name)
    BY <1>1, <2>1 DEF Slots
  <2>3. Ahead(p, j)'
    BY <2>2 DEF Ahead
  <2> QED BY <2>3
<1>4. Reading(p)'
  BY <1>3 DEF Reading, Seen, Expects
<1> QED BY <1>1, <1>2, <1>4 DEF ghost

LEMMA CallStep ==
    ASSUME IInv, TypeOK', NEW p \in Procs,
           (\E n \in Names : GetRing(p, n)) \/ Acquire(p)
    PROVE  IInv'
<1>1. TypeOK /\ Holders /\ pc[p] \notin Flushing
  BY DEF IInv, GetRing, Acquire, Flushing
<1>2. PICK n \in Names :
        /\ pc' = [pc EXCEPT ![p] = "l_hash"]
        /\ loc' = [loc EXCEPT ![p] = Start(n)]
        /\ flock' = flock \/ (flock = None /\ flock' = p)
        /\ UNCHANGED <<slot, free, owner, flushes, crashes, repairs>>
  BY <1>1 DEF GetRing, Acquire, Goto, ghost, Holders
<1>3. pc'[p] = "l_hash" /\ loc'[p] = Start(n) /\ Others(p)
  BY <1>1, <1>2 DEF TypeOK, Others
<1>4. /\ Work(p)' /\ Reading(p)' /\ loc'[p].name = n
      /\ loc'[p].since = <<flushes, crashes, repairs>>
  BY <1>2, <1>3, Begins
<1>5. pc'[p] \notin Creating \cup Flushing
  BY <1>3 DEF Creating, Scanning, Repairing, Writing, Flushing
<1>6. Holders'
  <2>1. flushes <= flushes' /\ crashes <= crashes' /\ repairs <= repairs'
    BY <1>1, <1>2, Bounds
  <2>2. /\ loc'[p].since[1] <= flushes' /\ loc'[p].since[2] <= crashes'
        /\ loc'[p].since[3] <= repairs'
    BY <1>1, <1>2, <1>4, Bounds
  <2> QED BY <1>1, <1>2, <1>3, <1>4, <1>5, <2>1, <2>2, HoldersKept
<1>7. Entries'
  BY <1>2 DEF IInv, Entries, Pointer, Entry, Distinct
<1>8. Gentle
  <2>1. \A x \in Procs : pc'[x] \in Creating =>
            pc[x] \in Creating /\ loc'[x].ring = loc[x].ring
    BY <1>3, <1>5 DEF Others
  <2> QED BY <1>1, <1>2, <2>1, Bounds DEF Gentle
<1> QED BY <1>2, <1>3, <1>4, <1>6, <1>7, <1>8, Assemble

\* A process that stops: after a call, a flush or an error, or dead.
LEMMA Stops ==
    ASSUME IInv, TypeOK', NEW p \in Procs, NEW l \in {"idle", "dead"},
           pc' = [pc EXCEPT ![p] = l], loc' = [loc EXCEPT ![p] = Idle],
           flock' = IF flock = p THEN None ELSE flock,
           UNCHANGED slot, Entries', Gentle,
           flock = p \/ UNCHANGED <<free, owner>>,
           \/ flushes' = flushes /\ pc[p] \notin Flushing
           \/ flushes' % 2 = 0 /\ flock = p
    PROVE  IInv'
<1>1. TypeOK /\ Holders
  BY DEF IInv
<1>2. pc'[p] = l /\ loc'[p] = Idle /\ Others(p)
  BY <1>1 DEF TypeOK, Others
<1>3. /\ pc'[p] \notin Creating \cup Flushing
      /\ pc'[p] \notin Lookups \cup {"found", "missed"}
  BY <1>2 DEF Creating, Scanning, Repairing, Writing, Flushing, Lookups
<1>4. Work(p)' /\ Reading(p)'
  BY <1>3, NoWork, NoReading
<1>5. Holders'
  <2>1. flushes <= flushes' /\ crashes <= crashes' /\ repairs <= repairs'
    BY DEF Gentle
  <2>2. /\ loc'[p].since[1] = 0 /\ loc'[p].since[2] = 0
        /\ loc'[p].since[3] = 0
    BY <1>2 DEF Idle
  <2>3. 0 <= flushes' /\ 0 <= crashes' /\ 0 <= repairs'
    BY IndexAssumption DEF TypeOK
  <2>4. flock' # p /\ (flock' = flock \/ (flock = p /\ flock' = None))
    BY IndexAssumption
  <2> QED BY <1>1, <1>2, <1>3, <2>1, <2>2, <2>3, <2>4, HoldersKept
<1> QED BY <1>2, <1>4, <1>5, Assemble

LEMMA EndStep ==
    ASSUME IInv, TypeOK', NEW p \in Procs,
           Use(p) \/ GiveUp(p) \/ Full(p) \/ FlushSlab(p) \/ Crash(p)
    PROVE  IInv'
<1>1. TypeOK /\ Holders /\ Entries /\ Work(p)
  BY DEF IInv
<1>2. \A l \in {"idle", "dead"} : pc' = [pc EXCEPT ![p] = l] =>
        \A x \in Procs : pc'[x] \in Creating => x # p
  BY <1>1 DEF TypeOK, Creating, Scanning, Repairing, Writing
<1>3. ASSUME NEW l \in {"idle", "dead"}, pc' = [pc EXCEPT ![p] = l],
             loc' = [loc EXCEPT ![p] = Idle]
      PROVE  \A x \in Procs : pc'[x] \in Creating =>
                pc[x] \in Creating /\ loc'[x].ring = loc[x].ring
  BY <1>1, <1>2, <1>3 DEF TypeOK
<1>4. CASE Use(p) \/ GiveUp(p)
  <2>1. /\ pc' = [pc EXCEPT ![p] = "idle"] /\ loc' = [loc EXCEPT ![p] = Idle]
        /\ flock' = IF flock = p THEN None ELSE flock
        /\ UNCHANGED <<slot, free, owner, flushes, crashes, repairs>>
        /\ pc[p] \notin Flushing
    BY <1>4 DEF Use, GiveUp, Finish, Goto, ghost, Flushing
  <2>2. Entries'
    BY <1>1, <2>1 DEF Entries, Pointer, Entry, Distinct
  <2>3. Gentle
    BY <1>1, <1>3, <2>1, Bounds DEF Gentle
  <2> QED BY <2>1, <2>2, <2>3, Stops
<1>5. CASE Full(p)
  <2>1. /\ pc' = [pc EXCEPT ![p] = "idle"] /\ loc' = [loc EXCEPT ![p] = Idle]
        /\ flock' = IF flock = p THEN None ELSE flock
        /\ free' = free \cup {loc[p].ring} /\ pc[p] = "c_full"
        /\ UNCHANGED <<slot, owner, flushes, crashes, repairs>>
    BY <1>5 DEF Full, Finish, Goto, ghost
  <2>2. pc[p] \in Creating /\ pc[p] \notin Flushing /\ flock = p
    BY <1>1, <2>1 DEF Holders, Creating, Flushing
  <2>3. \A j \in Slots : slot[j].ring # loc[p].ring
    BY <1>1, <2>1, <2>2 DEF Work, OwnRing
  <2>4. Entries'
    BY <1>1, <2>1, <2>3 DEF Entries, Pointer, Entry, Distinct
  <2>5. Gentle
    BY <1>1, <1>3, <2>1, <2>2, Bounds DEF Gentle
  <2> QED BY <2>1, <2>2, <2>4, <2>5, Stops
<1>6. CASE FlushSlab(p)
  <2>1. /\ pc' = [pc EXCEPT ![p] = "idle"] /\ loc' = [loc EXCEPT ![p] = Idle]
        /\ flock' = None /\ flushes' = flushes + 1 /\ pc[p] = "f_slab"
        /\ UNCHANGED <<slot, crashes, repairs>>
    BY <1>6 DEF FlushSlab, Goto
  <2>2. flock = p /\ flushes % 2 = 1
    BY <1>1, <2>1 DEF Holders, Flushing
  <2>3. \A j \in Slots : Blank(j)
    BY <1>1, <2>1 DEF Work, Wiped
  <2>4. Entries'
    BY <2>1, <2>3 DEF Entries, Pointer, Entry, Distinct, Blank, Complete
  <2>5. Gentle
    BY <1>1, <2>1, <2>2, Bounds DEF Gentle, Calm
  <2>6. flushes' % 2 = 0
    BY <1>1, <2>1, <2>2, Bounds
  <2> QED BY <2>1, <2>2, <2>4, <2>5, <2>6, Stops
<1>7. CASE Crash(p)
  <2>1. /\ pc' = [pc EXCEPT ![p] = "dead"] /\ loc' = [loc EXCEPT ![p] = Idle]
        /\ flock = p /\ flock' = None /\ crashes' = crashes + 1
        /\ flushes' = flushes + (flushes % 2)
        /\ UNCHANGED <<slot, free, owner, repairs>>
    BY <1>7 DEF Crash, Goto
  <2>2. Entries'
    BY <1>1, <2>1 DEF Entries, Pointer, Entry, Distinct
  <2>3. flushes <= flushes' /\ flushes' % 2 = 0 /\ crashes < crashes'
    BY <1>1, <2>1, Bounds
  <2>4. ~Calm
    BY <1>1, <2>1, Bounds DEF Calm, ghost
  <2>5. Gentle
    BY <1>1, <2>1, <2>3, <2>4, Bounds DEF Gentle
  <2> QED BY <2>1, <2>2, <2>3, <2>5, Stops
<1> QED BY <1>4, <1>5, <1>6, <1>7

\* A creation begins with a ring nobody has, a flush with nothing.
LEMMA OpenStep ==
    ASSUME IInv, TypeOK', NEW p \in Procs, CreateRing(p) \/ FlushBegin(p)
    PROVE  IInv'
<1>1. TypeOK /\ Holders /\ Entries
  BY DEF IInv
<1>2. CASE CreateRing(p)
  <2>1. PICK r \in free :
          /\ free' = free \ {r}
          /\ owner' = [owner EXCEPT ![r] = loc[p].name]
          /\ loc' = [loc EXCEPT ![p] = [Idle EXCEPT !.name = loc[p].name,
                                                    !.ring = r]]
    BY <1>2 DEF CreateRing
  <2>2. /\ pc[p] = "missed" /\ flock = p /\ pc' = [pc EXCEPT ![p] = "c_scan"]
        /\ UNCHANGED <<slot, flock, flushes, crashes, repairs>>
    BY <1>2 DEF CreateRing, Goto, ghost
  <2>3. /\ Others(p) /\ pc'[p] = "c_scan" /\ loc'[p].name = loc[p].name
        /\ loc'[p].ring = r /\ loc'[p].i = 1 /\ loc'[p].since = <<0, 0, 0>>
    BY <1>1, <2>1, <2>2 DEF TypeOK, Others, Idle
  <2>4. loc[p].name \in Names /\ r \in Rings
    BY <1>1, <2>1, <2>2 DEF Holders, TypeOK
  <2>5. /\ owner'[r] = loc[p].name
        /\ \A x \in Rings \ {r} : owner'[x] = owner[x]
    BY <1>1, <2>1, <2>4 DEF TypeOK
  <2>6. \A j \in Slots : /\ slot[j].ring \in Rings \cup {None}
                         /\ slot[j].ring # None => slot[j].ring # r
    BY <1>1, <2>1, SlotOf DEF Entries, Pointer
  <2>7. pc'[p] \notin Flushing /\ pc[p] \notin Flushing
    BY <2>2, <2>3 DEF Flushing
  <2>8. Holders'
    <3>1. flushes <= flushes' /\ crashes <= crashes' /\ repairs <= repairs'
      BY <1>1, <2>2, Bounds
    <3>2. /\ loc'[p].since[1] <= flushes' /\ loc'[p].since[2] <= crashes'
          /\ loc'[p].since[3] <= repairs'
      BY <1>1, <2>2, <2>3, Bounds
    <3> QED BY <1>1, <2>2, <2>3, <2>4, <2>7, <3>1, <3>2, HoldersKept
  <2>9. Entries'
    <3>1. \A j \in Slots : Pointer(j)' /\ Entry(j)'
      BY <1>1, <2>1, <2>2, <2>5, <2>6 DEF Entries, Pointer, Entry
    <3> QED BY <1>1, <2>2, <3>1 DEF Entries, Distinct
  <2>10. Gentle
    <3>1. \A x \in Procs : pc'[x] \in Creating =>
              \/ pc[x] \in Creating /\ loc'[x].ring = loc[x].ring
              \/ loc'[x].ring \in free
      BY <2>1, <2>3 DEF Others
    <3>2. \A x \in Rings \ free : owner'[x] = owner[x] /\ x \notin free'
      BY <2>1, <2>5
    <3> QED BY <1>1, <2>2, <3>1, <3>2, Bounds DEF Gentle
  <2>11. Work(p)'
    <3>1. OwnRing(p)'
      BY <2>1, <2>2, <2>3, <2>4, <2>5, <2>6, IndexAssumption DEF OwnRing
    <3>2. \A j \in Slots : ~(j < loc'[p].i)
      BY <2>3 DEF Slots
    <3> QED BY <2>3, <3>1, <3>2
            DEF Work, Scanned, Written, Wiped, Scanning, Repairing, Writing,
                Flushing
  <2>12. Reading(p)'
    BY <2>3, NoReading DEF Lookups
  <2> QED BY <2>2, <2>3, <2>8, <2>9, <2>10, <2>11, <2>12, Assemble
<1>3. CASE FlushBegin(p)
  <2>1. /\ pc[p] = "idle" /\ flock = None /\ flock' = p
        /\ flushes' = flushes + 1
        /\ pc' = [pc EXCEPT ![p] = "f_len"] /\ loc' = [loc EXCEPT ![p] = Idle]
        /\ UNCHANGED <<slot, free, owner, crashes, repairs>>
    BY <1>3 DEF FlushBegin, Goto
  <2>2. /\ Others(p) /\ pc'[p] = "f_len" /\ loc'[p].i = 1
        /\ loc'[p].since = <<0, 0, 0>>
    BY <1>1, <2>1 DEF TypeOK, Others, Idle
  <2>3. flushes % 2 = 0
    <3>1. \A q \in Procs : pc[q] \notin Flushing
      BY <1>1, <2>1, IndexAssumption DEF Holders
    <3> QED BY <1>1, <3>1, Bounds DEF Holders
  <2>4. /\ pc'[p] \in Flushing
        /\ pc'[p] \notin Creating \cup Lookups \cup {"missed"}
    BY <2>2 DEF Flushing, Creating, Scanning, Repairing, Writing, Lookups
  <2>5. /\ flushes <= flushes' /\ crashes <= crashes' /\ repairs <= repairs'
        /\ flushes' % 2 = 1 /\ flushes' # flushes
    BY <1>1, <2>1, <2>3, Bounds
  <2>6. Holders'
    <3>1. /\ loc'[p].since[1] <= flushes' /\ loc'[p].since[2] <= crashes'
          /\ loc'[p].since[3] <= repairs'
      BY <1>1, <2>1, <2>2, Bounds
    <3> QED BY <1>1, <2>1, <2>2, <2>4, <2>5, <3>1, HoldersKept
  <2>7. Entries'
    BY <1>1, <2>1 DEF Entries, Pointer, Entry, Distinct
  <2>8. Gentle
    BY <2>5 DEF Gentle, Calm, ghost
  <2>9. Work(p)'
    <3>1. \A j \in Slots : ~(j < loc'[p].i)
      BY <2>2 DEF Slots
    <3> QED BY <2>2, <3>1
            DEF Work, OwnRing, Scanned, Written, Wiped, Creating, Scanning,
                Repairing, Writing
  <2>10. Reading(p)'
    BY <2>2, NoReading DEF Lookups
  <2> QED BY <2>1, <2>2, <2>6, <2>7, <2>8, <2>9, <2>10, Assemble
<1> QED BY <1>2, <1>3

-----------------------------------------------------------------------------
(* The holder of the flock looks at a slot and goes on.                     *)

LEMMA ScanReads ==
    ASSUME IInv, TypeOK', NEW p \in Procs, NEW at \in Creating,
           NEW next \in Creating, NEW new \in LocType, Read(p, at, new, next),
           new.name = loc[p].name, new.since = loc[p].since,
           new.ring = loc[p].ring, at # "w_done", next # "w_done",
           Scanned(p)', Written(p)'
    PROVE  IInv'
<1>1. TypeOK
  BY DEF IInv
<1>2. /\ pc[p] = at /\ pc'[p] = next /\ loc'[p] = new
      /\ UNCHANGED <<slot, free, flock, owner, flushes, crashes, repairs>>
  BY <1>1, ReadShape
<1>3. OwnRing(p)'
  BY <1>2 DEF IInv, Work, OwnRing
<1>4. Wiped(p)'
  BY <1>2 DEF Wiped, Flushing, Creating, Scanning, Repairing, Writing
<1>5. Reading(p)'
  BY <1>2, NoReading DEF Lookups, Creating, Scanning, Repairing, Writing
<1>6. /\ next \in Labels /\ next \notin Flushing /\ at \notin Flushing
      /\ next \notin Lookups \cup {"missed", "idle", "dead"}
  BY DEF Labels, Flushing, Lookups, Creating, Scanning, Repairing, Writing
<1>7. Work(p)'
  BY <1>3, <1>4 DEF Work
<1> QED BY <1>5, <1>6, <1>7, ReadKeeps

LEMMA NextScanKeeps ==
    ASSUME IInv, TypeOK', NEW p \in Procs, NEW at \in {"c_scan", "r_next"},
           NextScan(p, at), Passed(loc[p].i, loc[p].name)
    PROVE  IInv'
<1>1. TypeOK /\ loc[p].i \in Slots /\ loc[p] \in LocType /\ Scanned(p)
  BY LocOf DEF IInv, Work
<1>2. pc[p] = at
  BY DEF NextScan, Read
<1>3. \A j \in Slots : j <= loc[p].i => Passed(j, loc[p].name)
  BY <1>1, <1>2 DEF Scanned, Scanning, Slots
<1>4. CASE loc[p].i < NumSlots
  <2> DEFINE new == [loc[p] EXCEPT !.i = @ + 1]
  <2>1. new \in LocType /\ Read(p, at, new, "c_scan")
    BY <1>1, <1>4, NextIndex DEF NextScan
  <2>2. /\ new.name = loc[p].name /\ new.since = loc[p].since
        /\ new.ring = loc[p].ring /\ new.i = loc[p].i + 1
    BY <1>1 DEF LocType
  <2>3. /\ pc'[p] = "c_scan" /\ loc'[p] = new
        /\ UNCHANGED <<slot, free, flock, owner, flushes, crashes, repairs>>
    BY <1>1, <2>1, ReadShape
  <2> HIDE DEF new
  <2>4. \A j \in Slots : j < new.i => Passed(j, new.name)
    BY <1>1, <1>3, <2>2 DEF Slots
  <2>5. Scanned(p)'
    BY <2>3, <2>4 DEF Scanned, Passed, Holds, Complete, Scanning, Repairing
  <2>6. Written(p)'
    BY <2>3 DEF Written, Writing
  <2> QED BY <2>1, <2>2, <2>5, <2>6, ScanReads DEF Creating, Scanning
<1>5. CASE ~(loc[p].i < NumSlots)
  <2> DEFINE new == [loc[p] EXCEPT !.i = 1]
  <2>1. new \in LocType /\ Read(p, at, new, "c_find")
    BY <1>1, <1>5, NextIndex DEF NextScan
  <2>2. /\ new.name = loc[p].name /\ new.since = loc[p].since
        /\ new.ring = loc[p].ring /\ new.i = 1
    BY <1>1 DEF LocType
  <2>3. /\ pc'[p] = "c_find" /\ loc'[p] = new
        /\ UNCHANGED <<slot, free, flock, owner, flushes, crashes, repairs>>
    BY <1>1, <2>1, ReadShape
  <2> HIDE DEF new
  <2>4. \A j \in Slots : ~(j < new.i) /\ Passed(j, new.name)
    BY <1>1, <1>3, <1>5, <2>2, IndexAssumption DEF Slots
  <2>5. Scanned(p)'
    BY <2>3, <2>4 DEF Scanned, Passed, Holds, Complete, Scanning, Repairing
  <2>6. Written(p)'
    BY <2>3 DEF Written, Writing
  <2> QED BY <2>1, <2>2, <2>5, <2>6, ScanReads DEF Creating, Scanning
<1> QED BY <1>4, <1>5

\* A creation that is over, with the ring it has made.
LEMMA CreatorFinds ==
    ASSUME IInv, NEW p \in Procs, pc[p] \in Creating, pc'[p] = "found",
           Others(p), UNCHANGED <<free, owner, loc>>
    PROVE  Work(p)' /\ Reading(p)'
<1>1. Work(p)'
  BY NoWork DEF Creating, Scanning, Repairing, Writing, Flushing
<1>2. \A q \in Procs : pc'[q] \notin Creating
  BY DEF IInv, Holders, Others, Creating, Scanning, Repairing, Writing
<1>3. loc[p].ring \in Rings \ free /\ owner[loc[p].ring] = loc[p].name
  BY DEF IInv, Work, OwnRing
<1>4. Seen(p)'
  BY <1>2, <1>3 DEF Seen
<1> QED BY <1>1, <1>4 DEF Reading, Expects, Lookups

LEMMA ScanStep ==
    ASSUME IInv, TypeOK', NEW p \in Procs,
           Scan(p) \/ RepairNext(p) \/ Find(p)
    PROVE  IInv'
<1>1. /\ TypeOK /\ loc[p].i \in Slots /\ loc[p] \in LocType /\ Scanned(p)
      /\ S(p) = slot[loc[p].i] /\ S(p).ver \in 0 .. 2
  BY LocOf, SlotOf DEF IInv, Work, S
<1>2. CASE RepairNext(p)
  <2>1. NextScan(p, "r_next") /\ pc[p] = "r_next"
    BY <1>2 DEF RepairNext, NextScan, Read
  <2>2. S(p).ver = 0 /\ S(p).len = 0
    BY <1>1, <2>1 DEF Scanned
  <2>3. Passed(loc[p].i, loc[p].name)
    BY <1>1, <2>2 DEF Passed, Holds, Complete
  <2> QED BY <2>1, <2>3, NextScanKeeps
<1>3. CASE Scan(p)
  <2>1. pc[p] = "c_scan" /\ pc[p] \in Creating
    BY <1>3 DEF Scan, Creating, Scanning
  <2>2. CASE S(p).ver % 2 # 0
    <3>1. Read(p, "c_scan", loc[p], "r_ver")
      BY <1>3, <2>2 DEF Scan
    <3>2. /\ pc'[p] = "r_ver" /\ loc'[p] = loc[p]
          /\ UNCHANGED <<slot, free, flock, owner, flushes, crashes, repairs>>
      BY <1>1, <3>1, ReadShape
    <3>3. S(p).ver % 2 = 1
      BY <1>1, <2>2
    <3>4. Scanned(p)'
      BY <1>1, <2>1, <3>2, <3>3
         DEF Scanned, S, Passed, Holds, Complete, Scanning, Repairing
    <3>5. Written(p)'
      BY <3>2 DEF Written, Writing
    <3> QED BY <1>1, <3>1, <3>4, <3>5, ScanReads
            DEF Creating, Scanning, Repairing
  <2>3. CASE S(p).ver % 2 = 0 /\ S(p).len # 0 /\ S(p).name = loc[p].name
    <3>1. Read(p, "c_scan", loc[p], "found")
      BY <1>3, <2>3 DEF Scan
    <3>2. /\ pc'[p] = "found" /\ loc'[p] = loc[p] /\ Others(p)
          /\ UNCHANGED <<slot, free, flock, owner, flushes, crashes, repairs>>
      BY <1>1, <3>1, ReadShape
    <3>3. loc' = loc
      BY <1>1, <3>1 DEF Read, TypeOK
    <3>4. Work(p)' /\ Reading(p)'
      BY <2>1, <3>2, <3>3, CreatorFinds
    <3> QED BY <1>1, <3>1, <3>4, ReadKeeps
            DEF Creating, Scanning, Repairing, Writing, Flushing, Lookups,
                Labels
  <2>4. CASE S(p).ver % 2 = 0 /\ ~(S(p).len # 0 /\ S(p).name = loc[p].name)
    <3>1. NextScan(p, "c_scan")
      BY <1>3, <2>4 DEF Scan
    <3>2. Passed(loc[p].i, loc[p].name)
      BY <1>1, <2>4 DEF Passed, Holds, Complete
    <3> QED BY <3>1, <3>2, NextScanKeeps
  <2> QED BY <2>2, <2>3, <2>4
<1>4. CASE Find(p)
  <2>1. pc[p] = "c_find"
    BY <1>4 DEF Find
  <2>2. CASE S(p).len = 0
    <3>1. Read(p, "c_find", loc[p], "w_ver")
      BY <1>4, <2>2 DEF Find
    <3>2. /\ pc'[p] = "w_ver" /\ loc'[p] = loc[p]
          /\ UNCHANGED <<slot, free, flock, owner, flushes, crashes, repairs>>
      BY <1>1, <3>1, ReadShape
    <3>3. Scanned(p)'
      BY <3>2 DEF Scanned, Scanning, Repairing
    <3>4. Written(p)'
      BY <1>1, <2>1, <2>2, <3>2
         DEF Written, Scanned, S, Passed, Holds, Complete, Writing
    <3> QED BY <1>1, <3>1, <3>3, <3>4, ScanReads DEF Creating, Writing
  <2>3. CASE S(p).len # 0 /\ loc[p].i < NumSlots
    <3> DEFINE new == [loc[p] EXCEPT !.i = @ + 1]
    <3>1. new \in LocType /\ Read(p, "c_find", new, "c_find")
      BY <1>1, <1>4, <2>3, NextIndex DEF Find
    <3>2. /\ new.name = loc[p].name /\ new.since = loc[p].since
          /\ new.ring = loc[p].ring /\ new.i = loc[p].i + 1
      BY <1>1 DEF LocType
    <3>3. /\ pc'[p] = "c_find" /\ loc'[p] = new
          /\ UNCHANGED <<slot, free, flock, owner, flushes, crashes, repairs>>
      BY <1>1, <3>1, ReadShape
    <3> HIDE DEF new
    <3>4. \A j \in Slots : /\ Passed(j, new.name)
                           /\ j < new.i => slot[j].len # 0
      BY <1>1, <2>1, <2>3, <3>2 DEF Scanned, Slots
    <3>5. Scanned(p)'
      BY <3>3, <3>4 DEF Scanned, Passed, Holds, Complete, Scanning, Repairing
    <3>6. Written(p)'
      BY <3>3 DEF Written, Writing
    <3> QED BY <3>1, <3>2, <3>5, <3>6, ScanReads DEF Creating
  <2>4. CASE S(p).len # 0 /\ ~(loc[p].i < NumSlots)
    <3>1. Read(p, "c_find", loc[p], "c_full")
      BY <1>4, <2>4 DEF Find
    <3>2. /\ pc'[p] = "c_full" /\ loc'[p] = loc[p]
          /\ UNCHANGED <<slot, free, flock, owner, flushes, crashes, repairs>>
      BY <1>1, <3>1, ReadShape
    <3>3. \A j \in Slots : Passed(j, loc[p].name) /\ slot[j].len # 0
      BY <1>1, <2>1, <2>4, IndexAssumption DEF Scanned, Slots
    <3>4. Scanned(p)'
      BY <3>2, <3>3 DEF Scanned, Passed, Holds, Complete, Scanning, Repairing
    <3>5. Written(p)'
      BY <3>2 DEF Written, Writing
    <3> QED BY <1>1, <3>1, <3>4, <3>5, ScanReads DEF Creating
  <2> QED BY <2>2, <2>3, <2>4
<1> QED BY <1>2, <1>3, <1>4

-----------------------------------------------------------------------------
(* The holder of the flock writes.                                          *)

LEMMA WriteShape ==
    ASSUME TypeOK, NEW p \in Procs, NEW at, NEW new, NEW next,
           Write(p, at, new, next)
    PROVE  /\ pc[p] = at /\ pc'[p] = next /\ loc' = loc /\ Others(p)
           /\ S(p)' = new /\ slot'[loc[p].i] = new
           /\ \A j \in Slots \ {loc[p].i} : slot'[j] = slot[j]
           /\ UNCHANGED <<free, flock, owner, flushes, crashes, repairs>>
BY LocOf DEF TypeOK, Write, Goto, Others, ghost, S

LEMMA WriteKeeps ==
    ASSUME IInv, TypeOK', NEW p \in Procs, NEW at \in Creating \cup Flushing,
           NEW next, NEW new, Write(p, at, new, next),
           next \in Creating => at \in Creating,
           next \in Flushing <=> at \in Flushing,
           next \notin Lookups \cup {"missed", "idle", "dead"},
           \/ at \in Flushing
           \/ ~Complete(S(p)) /\ (new.ver % 2 = 1 \/ new.len # 0),
           Entries', Work(p)', Reading(p)'
    PROVE  IInv'
<1>1. TypeOK /\ Holders /\ loc[p].i \in Slots
  BY LocOf DEF IInv
<1>2. /\ pc[p] = at /\ pc'[p] = next /\ loc' = loc /\ Others(p)
      /\ slot'[loc[p].i] = new
      /\ \A j \in Slots \ {loc[p].i} : slot'[j] = slot[j]
      /\ UNCHANGED <<free, flock, owner, flushes, crashes, repairs>>
  BY <1>1, WriteShape
<1>3. flock = p
  BY <1>1, <1>2 DEF Holders
<1>4. Holders'
  <2>1. pc'[p] \in Lookups \cup Creating \cup {"missed"} =>
            loc'[p].name \in Names
    BY <1>1, <1>2 DEF Holders
  <2>2. flushes <= flushes' /\ crashes <= crashes' /\ repairs <= repairs'
    BY <1>1, <1>2, Bounds
  <2>3. /\ loc'[p].since[1] <= flushes' /\ loc'[p].since[2] <= crashes'
        /\ loc'[p].since[3] <= repairs'
    BY <1>1, <1>2 DEF Holders
  <2> QED BY <1>1, <1>2, <1>3, <2>1, <2>2, <2>3, HoldersKept
<1>5. Gentle
  <2>1. \A x \in Procs : pc'[x] \in Creating =>
            pc[x] \in Creating /\ loc'[x].ring = loc[x].ring
    BY <1>2 DEF Others
  <2>2. CASE at \in Flushing
    <3>1. ~Calm
      BY <1>1, <1>2, <2>2 DEF Holders, Calm
    <3> QED BY <1>1, <1>2, <3>1, Bounds DEF Gentle
  <2>3. CASE ~Complete(S(p)) /\ (new.ver % 2 = 1 \/ new.len # 0)
    <3>1. \A j \in Slots : Complete(slot[j]) => slot'[j] = slot[j]
      BY <1>2, <2>3 DEF S
    <3>2. \A j \in Slots : slot[j].len # 0 \/ slot[j].ver % 2 = 1 =>
                              slot'[j].len # 0 \/ slot'[j].ver % 2 = 1
      BY <1>2, <2>3
    <3> QED BY <1>1, <1>2, <2>1, <3>1, <3>2, Bounds DEF Gentle
  <2> QED BY <2>2, <2>3
<1> QED BY <1>2, <1>3, <1>4, <1>5, Assemble

\* A step of a creation that leaves the slot odd, with no ring it had not.
LEMMA OddKeeps ==
    ASSUME IInv, TypeOK', NEW p \in Procs, NEW at \in Creating,
           NEW next \in Creating \ {"w_done"}, NEW new,
           Write(p, at, new, next),
           ~Complete(S(p)), new.ver = 1, new.ring \in {None, S(p).ring},
           at # "w_done", Scanned(p)', Written(p)'
    PROVE  IInv'
<1>1. /\ TypeOK /\ Holders /\ loc[p].i \in Slots /\ Entries
      /\ S(p) = slot[loc[p].i] /\ OwnRing(p)
  BY LocOf DEF IInv, Work, S
<1>2. /\ pc[p] = at /\ pc'[p] = next /\ loc' = loc /\ Others(p)
      /\ slot'[loc[p].i] = new
      /\ \A j \in Slots \ {loc[p].i} : slot'[j] = slot[j]
      /\ UNCHANGED <<free, flock, owner, flushes, crashes, repairs>>
  BY <1>1, WriteShape
<1>3. Entries'
  <2>1. ~Complete(slot'[loc[p].i])
    BY <1>2 DEF Complete
  <2> QED BY <1>1, <1>2, <2>1, EntriesKept
<1>4. OwnRing(p)'
  <2>1. loc[p].ring # None
    BY <1>1, <1>2, IndexAssumption DEF OwnRing
  <2>2. \A j \in Slots : slot'[j].ring # loc[p].ring
    BY <1>1, <1>2, <2>1 DEF OwnRing
  <2> QED BY <1>1, <1>2, <2>2 DEF OwnRing
<1>5. Wiped(p)'
  BY <1>2 DEF Wiped, Flushing, Creating, Scanning, Repairing, Writing
<1>6. Reading(p)'
  BY <1>2, NoReading DEF Lookups, Creating, Scanning, Repairing, Writing
<1>7. /\ next \notin Flushing /\ at \notin Flushing
      /\ next \notin Lookups \cup {"missed", "idle", "dead"}
  BY DEF Flushing, Lookups, Creating, Scanning, Repairing, Writing
<1>8. Work(p)'
  BY <1>4, <1>5 DEF Work
<1>9. new.ver % 2 = 1
  OBVIOUS
<1> QED BY <1>3, <1>6, <1>7, <1>8, <1>9, WriteKeeps

LEMMA RepairStep ==
    ASSUME IInv, TypeOK', NEW p \in Procs,
           RepairVersion(p) \/ RepairHash(p) \/ RepairLen(p) \/ RepairRing(p)
    PROVE  IInv'
<1>1. /\ TypeOK /\ loc[p].i \in Slots /\ Scanned(p) /\ S(p) \in SlotType
  BY LocOf, SlotOf DEF IInv, Work, S
<1>2. ASSUME NEW at \in Repairing, NEW next \in Repairing \ {"r_ver"}, NEW new,
             Write(p, at, new, next), new.ver = 1,
             new.ring \in {None, S(p).ring},
             next \in {"r_ring", "r_done"} => new.len = 0
      PROVE  IInv'
  <2>1. /\ pc[p] = at /\ pc'[p] = next /\ loc' = loc /\ S(p)' = new
        /\ \A j \in Slots \ {loc[p].i} : slot'[j] = slot[j]
    BY <1>1, <1>2, WriteShape
  <2>2. ~Complete(S(p))
    BY <1>1, <2>1 DEF Scanned, Complete, Repairing
  <2>3. \A j \in Slots : j < loc[p].i => Passed(j, loc[p].name)
    BY <1>1, <2>1 DEF Scanned, Scanning
  <2>4. \A j \in Slots : j < loc[p].i => slot'[j] = slot[j]
    BY <1>1, <2>1 DEF Slots
  <2>5. Scanned(p)'
    BY <1>2, <2>1, <2>3, <2>4
       DEF Scanned, Passed, Holds, Complete, Scanning, Repairing
  <2>6. Written(p)'
    BY <2>1 DEF Written, Writing, Repairing
  <2> QED BY <1>2, <2>2, <2>5, <2>6, OddKeeps
          DEF Creating, Scanning, Repairing
<1>3. /\ [S(p) EXCEPT !.ver = 1].ver = 1
      /\ [S(p) EXCEPT !.ver = 1].ring = S(p).ring
      /\ [S(p) EXCEPT !.hash = 0].ver = S(p).ver
      /\ [S(p) EXCEPT !.hash = 0].ring = S(p).ring
      /\ [S(p) EXCEPT !.len = 0].ver = S(p).ver
      /\ [S(p) EXCEPT !.len = 0].len = 0
      /\ [S(p) EXCEPT !.len = 0].ring = S(p).ring
      /\ [S(p) EXCEPT !.ring = None].ver = S(p).ver
      /\ [S(p) EXCEPT !.ring = None].len = S(p).len
      /\ [S(p) EXCEPT !.ring = None].ring = None
  BY <1>1 DEF SlotType
<1>4. CASE RepairVersion(p)
  BY <1>2, <1>3, <1>4 DEF RepairVersion, Repairing
<1>5. CASE RepairHash(p)
  <2>1. S(p).ver = 1
    BY <1>1, <1>5 DEF RepairHash, Write, Scanned, Repairing
  <2> QED BY <1>2, <1>3, <1>5, <2>1 DEF RepairHash, Repairing
<1>6. CASE RepairLen(p)
  <2>1. S(p).ver = 1
    BY <1>1, <1>6 DEF RepairLen, Write, Scanned, Repairing
  <2> QED BY <1>2, <1>3, <1>6, <2>1 DEF RepairLen, Repairing
<1>7. CASE RepairRing(p)
  <2>1. S(p).ver = 1 /\ S(p).len = 0
    BY <1>1, <1>7 DEF RepairRing, Write, Scanned, Repairing
  <2> QED BY <1>2, <1>3, <1>7, <2>1 DEF RepairRing, Repairing
<1> QED BY <1>4, <1>5, <1>6, <1>7

\* The end of a repair: every reader under way is disturbed.
LEMMA RepairDoneStep ==
    ASSUME IInv, TypeOK', NEW p \in Procs, RepairDone(p)
    PROVE  IInv'
<1>1. /\ TypeOK /\ Holders /\ Entries /\ loc[p].i \in Slots /\ Scanned(p)
      /\ S(p) \in SlotType /\ S(p) = slot[loc[p].i] /\ OwnRing(p)
  BY LocOf, SlotOf DEF IInv, Work, S
<1>2. /\ pc[p] = "r_done" /\ pc'[p] = "r_next" /\ loc' = loc /\ Others(p)
      /\ S(p)' = [S(p) EXCEPT !.ver = 0] /\ slot'[loc[p].i] = S(p)'
      /\ \A j \in Slots \ {loc[p].i} : slot'[j] = slot[j]
      /\ repairs' = repairs + 1
      /\ UNCHANGED <<free, flock, owner, flushes, crashes>>
  BY <1>1 DEF RepairDone, Goto, Others, TypeOK, S
<1>3. S(p).len = 0 /\ flock = p
  BY <1>1, <1>2 DEF Scanned, Holders, Creating, Scanning, Repairing
<1>4. S(p)'.ver = 0 /\ S(p)'.len = 0 /\ S(p)'.ring = S(p).ring
  BY <1>1, <1>2, <1>3 DEF SlotType
<1>5. Entries'
  <2>1. ~Complete(slot'[loc[p].i])
    BY <1>2, <1>4 DEF Complete
  <2> QED BY <1>1, <1>2, <1>4, <2>1, EntriesKept
<1>6. /\ pc'[p] \in Creating /\ pc[p] \in Creating
      /\ pc'[p] \notin Flushing /\ pc[p] \notin Flushing
      /\ pc'[p] \notin Lookups \cup {"found", "missed", "idle", "dead"}
  BY <1>2 DEF Creating, Scanning, Repairing, Flushing, Lookups
<1>7. flushes <= flushes' /\ crashes <= crashes' /\ repairs < repairs'
  BY <1>1, <1>2, Bounds
<1>8. Holders'
  <2>1. /\ loc'[p].since[1] <= flushes' /\ loc'[p].since[2] <= crashes'
        /\ loc'[p].since[3] <= repairs'
    <3>1. loc[p].since \in Nat \X Nat \X Nat
      BY <1>1, LocOf
    <3>2. /\ loc[p].since[1] <= flushes /\ loc[p].since[2] <= crashes
          /\ loc[p].since[3] <= repairs
      BY <1>1 DEF Holders
    <3> QED BY <1>1, <1>2, <3>1, <3>2, Bounds
  <2>2. loc'[p].name \in Names
    BY <1>1, <1>2, <1>6 DEF Holders
  <2>3. repairs <= repairs'
    BY <1>1, <1>2, Bounds
  <2> QED BY <1>1, <1>2, <1>3, <1>6, <1>7, <2>1, <2>2, <2>3, HoldersKept
<1>9. Gentle
  <2>1. ~Calm
    BY <1>1, <1>2, Bounds DEF Calm, ghost
  <2>2. repairs <= repairs'
    BY <1>1, <1>2, Bounds
  <2> QED BY <1>7, <2>1, <2>2 DEF Gentle
<1>10. Work(p)'
  <2>1. OwnRing(p)'
    <3>1. \A j \in Slots : slot'[j].ring # loc[p].ring
      <4>1. \A j \in Slots : slot[j].ring # loc[p].ring
        BY <1>1, <1>2, <1>6 DEF OwnRing
      <4>2. \A j \in Slots : slot'[j].ring = slot[j].ring
        BY <1>1, <1>2, <1>4
      <4> QED BY <4>1, <4>2
    <3> QED BY <1>1, <1>2, <1>6, <3>1 DEF OwnRing
  <2>2. \A j \in Slots : j < loc[p].i => slot'[j] = slot[j]
    BY <1>1, <1>2 DEF Slots
  <2>3. \A j \in Slots : j < loc[p].i => Passed(j, loc[p].name)
    BY <1>1, <1>2 DEF Scanned, Scanning, Repairing
  <2>4. Scanned(p)'
    BY <1>2, <1>4, <2>2, <2>3
       DEF Scanned, Passed, Holds, Complete, Scanning, Repairing
  <2> QED BY <1>2, <2>1, <2>4 DEF Work, Written, Wiped, Writing, Flushing
<1>11. Reading(p)'
  BY <1>6, NoReading
<1> QED BY <1>2, <1>3, <1>5, <1>8, <1>9, <1>10, <1>11, Assemble

\* The slot is filled in while its version is odd.
LEMMA FillStep ==
    ASSUME IInv, TypeOK', NEW p \in Procs,
           WriteVersion(p) \/ WriteHash(p) \/ WriteLen(p) \/ WriteName(p)
    PROVE  IInv'
<1>1. /\ TypeOK /\ loc[p].i \in Slots /\ Written(p) /\ S(p) \in SlotType
  BY LocOf, SlotOf DEF IInv, Work, S
<1>2. ASSUME NEW at \in Writing \ {"w_ring", "w_done"},
             NEW next \in Writing \ {"w_ver", "w_done"}, NEW new,
             Write(p, at, new, next), new.ver = 1, new.ring = S(p).ring,
             next # "w_hash" => new.hash = Hash[loc[p].name],
             next \in {"w_name", "w_ring"} => new.len = 1,
             next = "w_ring" => new.name = loc[p].name
      PROVE  IInv'
  <2>1. /\ pc[p] = at /\ pc'[p] = next /\ loc' = loc /\ S(p)' = new
        /\ \A j \in Slots \ {loc[p].i} : slot'[j] = slot[j]
    BY <1>1, <1>2, WriteShape
  <2>2. ~Complete(S(p))
    BY <1>1, <2>1 DEF Written, Complete, Writing
  <2>3. \A j \in Slots : j # loc[p].i => Passed(j, loc[p].name)
    BY <1>1, <2>1 DEF Written, Writing
  <2>4. Scanned(p)'
    BY <2>1 DEF Scanned, Scanning, Repairing, Writing
  <2>5. Written(p)'
    BY <1>2, <2>1, <2>3 DEF Written, Passed, Holds, Complete, Writing
  <2> QED BY <1>2, <2>2, <2>4, <2>5, OddKeeps DEF Creating, Writing
<1>3. CASE WriteVersion(p)
  <2> DEFINE new == [S(p) EXCEPT !.ver = 1]
  <2>1. new.ver = 1 /\ new.ring = S(p).ring
    BY <1>1 DEF SlotType
  <2> QED BY <1>2, <1>3, <2>1 DEF WriteVersion, Writing
<1>4. CASE WriteHash(p)
  <2> DEFINE new == [S(p) EXCEPT !.hash = Hash[loc[p].name]]
  <2>1. S(p).ver = 1
    BY <1>1, <1>4 DEF WriteHash, Write, Written, Writing
  <2>2. new.ver = 1 /\ new.ring = S(p).ring /\ new.hash = Hash[loc[p].name]
    BY <1>1, <2>1 DEF SlotType
  <2> QED BY <1>2, <1>4, <2>2 DEF WriteHash, Writing
<1>5. CASE WriteLen(p)
  <2> DEFINE new == [S(p) EXCEPT !.len = 1]
  <2>1. S(p).ver = 1 /\ S(p).hash = Hash[loc[p].name]
    BY <1>1, <1>5 DEF WriteLen, Write, Written, Writing
  <2>2. /\ new.ver = 1 /\ new.ring = S(p).ring /\ new.len = 1
        /\ new.hash = Hash[loc[p].name]
    BY <1>1, <2>1 DEF SlotType
  <2> QED BY <1>2, <1>5, <2>2 DEF WriteLen, Writing
<1>6. CASE WriteName(p)
  <2> DEFINE new == [S(p) EXCEPT !.name = loc[p].name]
  <2>1. S(p).ver = 1 /\ S(p).hash = Hash[loc[p].name] /\ S(p).len = 1
    BY <1>1, <1>6 DEF WriteName, Write, Written, Writing
  <2>2. /\ new.ver = 1 /\ new.ring = S(p).ring /\ new.len = 1
        /\ new.hash = Hash[loc[p].name] /\ new.name = loc[p].name
    BY <1>1, <2>1 DEF SlotType
  <2> QED BY <1>2, <1>6, <2>2 DEF WriteName, Writing
<1> QED BY <1>3, <1>4, <1>5, <1>6

\* The ring is fresh, so the slot may point to it; and the other slots have
\* been looked through, so the entry may become complete.
LEMMA PublishStep ==
    ASSUME IInv, TypeOK', NEW p \in Procs, WriteRing(p) \/ WriteDone(p)
    PROVE  IInv'
<1>1. /\ TypeOK /\ Holders /\ Entries /\ loc[p].i \in Slots /\ Written(p)
      /\ S(p) \in SlotType /\ S(p) = slot[loc[p].i] /\ OwnRing(p)
  BY LocOf, SlotOf DEF IInv, Work, S
<1> DEFINE i == loc[p].i
<1>2. pc[p] \in {"w_ring", "w_done"} /\ pc[p] \in Creating /\ pc[p] \in Writing
  BY DEF WriteRing, WriteDone, Write, Creating, Writing
<1>3. /\ loc[p].ring \in Rings \ free /\ owner[loc[p].ring] = loc[p].name
      /\ loc[p].name \in Names /\ loc[p].ring # None /\ loc[p].name # None
  BY <1>1, <1>2, IndexAssumption DEF OwnRing, Holders
<1>4. \A j \in Slots \ {i} :
        /\ slot[j].ring # loc[p].ring /\ Passed(j, loc[p].name)
  BY <1>1, <1>2 DEF OwnRing, Written
<1>5. ASSUME NEW new, slot'[i] = new, UNCHANGED <<free, owner>>,
             \A j \in Slots \ {i} : slot'[j] = slot[j],
             new.ring = loc[p].ring,
             Complete(new) => /\ new.name = loc[p].name
                              /\ new.hash = Hash[loc[p].name]
      PROVE  Entries'
  <2>1. \A j \in Slots : Pointer(j)'
    BY <1>1, <1>3, <1>5 DEF Entries, Pointer
  <2>2. \A j \in Slots : Entry(j)'
    BY <1>1, <1>3, <1>5 DEF Entries, Entry
  <2>3. ASSUME NEW j \in Slots, NEW l \in Slots, j # l PROVE Distinct(j, l)'
    <3>1. CASE j # i /\ l # i
      BY <1>1, <1>5, <2>3, <3>1 DEF Entries, Distinct
    <3>2. CASE j = i
      BY <1>4, <1>5, <2>3, <3>2 DEF Distinct, Passed, Holds
    <3>3. CASE l = i
      BY <1>4, <1>5, <2>3, <3>3 DEF Distinct, Passed, Holds
    <3> QED BY <3>1, <3>2, <3>3
  <2> QED BY <2>1, <2>2, <2>3 DEF Entries
<1>6. S(p).ver = 1 /\ S(p).len = 1 /\ ~Complete(S(p))
      /\ S(p).hash = Hash[loc[p].name] /\ S(p).name = loc[p].name
  BY <1>1, <1>2 DEF Written, Complete, Writing
<1>7. CASE WriteRing(p)
  <2> DEFINE new == [S(p) EXCEPT !.ring = loc[p].ring]
  <2>1. Write(p, "w_ring", new, "w_done")
    BY <1>7 DEF WriteRing
  <2>2. /\ new.ver = 1 /\ new.len = 1 /\ new.ring = loc[p].ring
        /\ new.hash = Hash[loc[p].name] /\ new.name = loc[p].name
    BY <1>1, <1>6 DEF SlotType
  <2> HIDE DEF new
  <2>3. /\ pc[p] = "w_ring" /\ pc'[p] = "w_done" /\ loc' = loc /\ S(p)' = new
        /\ slot'[i] = new /\ \A j \in Slots \ {i} : slot'[j] = slot[j]
        /\ UNCHANGED <<free, flock, owner, flushes, crashes, repairs>>
    BY <1>1, <2>1, WriteShape
  <2>4. Entries'
    BY <1>5, <2>2, <2>3
  <2>5. OwnRing(p)'
    BY <1>3, <1>4, <2>3 DEF OwnRing
  <2>6. Scanned(p)'
    BY <2>3 DEF Scanned, Scanning, Repairing
  <2>7. Written(p)'
    BY <1>4, <2>2, <2>3 DEF Written, Passed, Holds, Complete, Writing
  <2>8. Wiped(p)'
    BY <2>3 DEF Wiped, Flushing
  <2>9. Reading(p)'
    BY <2>3, NoReading DEF Lookups
  <2>10. Work(p)'
    BY <2>5, <2>6, <2>7, <2>8 DEF Work
  <2>11. new.ver % 2 = 1
    BY <2>2
  <2> QED BY <1>6, <2>1, <2>4, <2>9, <2>10, <2>11, WriteKeeps
          DEF Creating, Writing, Flushing, Lookups
<1>8. CASE WriteDone(p)
  <2> DEFINE new == [S(p) EXCEPT !.ver = 2]
  <2>1. Write(p, "w_done", new, "found")
    BY <1>8 DEF WriteDone
  <2>2. S(p).ring = loc[p].ring
    BY <1>1, <2>1 DEF Written, Write
  <2>3. /\ new.len = 1 /\ new.ring = loc[p].ring
        /\ new.hash = Hash[loc[p].name] /\ new.name = loc[p].name
    BY <1>1, <1>6, <2>2 DEF SlotType
  <2> HIDE DEF new
  <2>4. /\ pc[p] = "w_done" /\ pc'[p] = "found" /\ loc' = loc /\ S(p)' = new
        /\ slot'[i] = new /\ \A j \in Slots \ {i} : slot'[j] = slot[j]
        /\ Others(p)
        /\ UNCHANGED <<free, flock, owner, flushes, crashes, repairs>>
    BY <1>1, <2>1, WriteShape
  <2>5. Entries'
    BY <1>5, <2>3, <2>4
  <2>6. Work(p)' /\ Reading(p)'
    BY <1>2, <2>4, CreatorFinds
  <2> QED BY <1>6, <2>1, <2>3, <2>5, <2>6, WriteKeeps
          DEF Creating, Scanning, Repairing, Writing, Flushing, Lookups
<1> QED BY <1>7, <1>8

LEMMA FlushStep ==
    ASSUME IInv, TypeOK', NEW p \in Procs,
           FlushLen(p) \/ FlushRing(p) \/ FlushVersion(p) \/ FlushNext(p)
    PROVE  IInv'
<1>1. /\ TypeOK /\ Entries /\ loc[p].i \in Slots /\ loc[p] \in LocType
      /\ S(p) \in SlotType /\ S(p) = slot[loc[p].i] /\ Wiped(p)
  BY LocOf, SlotOf DEF IInv, Work, S
<1> DEFINE i == loc[p].i
<1>2. ASSUME NEW at \in Flushing, NEW next \in Flushing \ {"f_slab"}, NEW new,
             Write(p, at, new, next), new.len = 0,
             new.ring \in {None, S(p).ring},
             next \in {"f_ver", "f_next"} => new.ring = None
      PROVE  IInv'
  <2>1. /\ pc[p] = at /\ pc'[p] = next /\ loc' = loc /\ S(p)' = new
        /\ slot'[i] = new /\ \A j \in Slots \ {i} : slot'[j] = slot[j]
        /\ UNCHANGED <<free, owner>>
    BY <1>1, <1>2, WriteShape
  <2>2. Entries'
    <3>1. ~Complete(slot'[i])
      BY <1>2, <2>1 DEF Complete
    <3> QED BY <1>1, <1>2, <2>1, <3>1, EntriesKept
  <2>3. \A j \in Slots : j < i => Blank(j)'
    BY <1>1, <2>1 DEF Wiped, Blank, Slots
  <2>4. Wiped(p)'
    BY <1>1, <1>2, <2>1, <2>3 DEF Wiped, Blank
  <2>5. Work(p)'
    BY <2>1, <2>4 DEF Work, OwnRing, Scanned, Written, Flushing, Creating,
                      Scanning, Repairing, Writing
  <2>6. Reading(p)'
    BY <2>1, NoReading DEF Lookups, Flushing
  <2>7. /\ next \notin Creating
        /\ next \notin Lookups \cup {"missed", "idle", "dead"}
    BY DEF Flushing, Creating, Scanning, Repairing, Writing, Lookups
  <2> QED BY <1>2, <2>2, <2>5, <2>6, <2>7, WriteKeeps
<1>3. ASSUME NEW next \in {"f_len", "f_slab"}, NEW new \in LocType,
             Read(p, "f_next", new, next), new.name = loc[p].name,
             new.since = loc[p].since,
             \A j \in Slots : j < new.i \/ next = "f_slab" => Blank(j)
      PROVE  IInv'
  <2>1. /\ pc[p] = "f_next" /\ pc'[p] = next /\ loc'[p] = new
        /\ UNCHANGED <<slot, free, flock, owner, flushes, crashes, repairs>>
    BY <1>1, <1>3, ReadShape
  <2>2. Wiped(p)'
    BY <1>3, <2>1 DEF Wiped, Blank
  <2>3. Work(p)'
    BY <2>1, <2>2 DEF Work, OwnRing, Scanned, Written, Creating,
                      Scanning, Repairing, Writing
  <2>4. Reading(p)'
    BY <2>1, NoReading DEF Lookups
  <2> QED BY <1>3, <2>3, <2>4, ReadKeeps
          DEF Labels, Flushing, Creating, Scanning, Repairing, Writing, Lookups
<1>4. CASE FlushLen(p)
  <2>1. /\ [S(p) EXCEPT !.len = 0].len = 0
        /\ [S(p) EXCEPT !.len = 0].ring = S(p).ring
    BY <1>1 DEF SlotType
  <2> QED BY <1>2, <1>4, <2>1 DEF FlushLen, Flushing
<1>5. CASE FlushRing(p)
  <2>1. S(p).len = 0
    BY <1>1, <1>5 DEF FlushRing, Write, Wiped
  <2>2. /\ [S(p) EXCEPT !.ring = None].len = 0
        /\ [S(p) EXCEPT !.ring = None].ring = None
    BY <1>1, <2>1 DEF SlotType
  <2> QED BY <1>2, <1>5, <2>2 DEF FlushRing, Flushing
<1>6. CASE FlushVersion(p)
  <2>1. S(p).len = 0 /\ S(p).ring = None
    BY <1>1, <1>6 DEF FlushVersion, Write, Wiped, Blank
  <2>2. /\ [S(p) EXCEPT !.ver = 0].len = 0
        /\ [S(p) EXCEPT !.ver = 0].ring = None
    BY <1>1, <2>1 DEF SlotType
  <2> QED BY <1>2, <1>6, <2>2 DEF FlushVersion, Flushing
<1>7. CASE FlushNext(p)
  <2>1. \A j \in Slots : j <= i => Blank(j)
    BY <1>1, <1>7 DEF FlushNext, Read, Wiped, Flushing, Slots
  <2>2. CASE i < NumSlots
    <3> DEFINE new == [loc[p] EXCEPT !.i = @ + 1]
    <3>1. new \in LocType /\ Read(p, "f_next", new, "f_len")
      BY <1>1, <1>7, <2>2, NextIndex DEF FlushNext
    <3>2. /\ new.name = loc[p].name /\ new.since = loc[p].since
          /\ new.i = i + 1
      BY <1>1 DEF LocType
    <3> HIDE DEF new
    <3>3. \A j \in Slots : j < new.i => Blank(j)
      BY <1>1, <2>1, <3>2 DEF Slots
    <3> QED BY <1>3, <3>1, <3>2, <3>3
  <2>3. CASE ~(i < NumSlots)
    <3>1. Read(p, "f_next", loc[p], "f_slab")
      BY <1>7, <2>3 DEF FlushNext
    <3>2. \A j \in Slots : Blank(j)
      BY <1>1, <2>1, <2>3, IndexAssumption DEF Slots
    <3> QED BY <1>1, <1>3, <3>1, <3>2
  <2> QED BY <2>2, <2>3
<1> QED BY <1>4, <1>5, <1>6, <1>7

-----------------------------------------------------------------------------
(* The theorems.                                                            *)

LEMMA IInvInit == Init => IInv
<1> SUFFICES ASSUME Init PROVE IInv
  OBVIOUS
<1>1. Empty \in SlotType
  BY DEF Empty, SlotType, Hashes
<1>2. \A i \in Slots : slot[i] = Empty
  BY DEF Init
<1>3. \A p \in Procs : pc[p] = "idle" /\ loc[p] = Idle
  BY DEF Init
<1>4. TypeOK
  <2>1. slot \in [Slots -> SlotType] /\ loc \in [Procs -> LocType]
    BY <1>1, IdleType DEF Init
  <2>2. pc \in [Procs -> Labels]
    BY DEF Init, Labels
  <2>3. owner \in [Rings -> Names \cup {None}]
    BY DEF Init
  <2> QED BY <2>1, <2>2, <2>3, IndexAssumption
          DEF Init, TypeOK, SlotType, LocType
<1>5. Holders
  <2>1. \A p \in Procs : pc[p] \notin Creating \cup Flushing \cup Lookups
                                        \cup {"missed"}
    BY <1>3 DEF Creating, Scanning, Repairing, Writing, Flushing, Lookups
  <2>2. \A p \in Procs : loc[p].since = <<0, 0, 0>>
    BY <1>3 DEF Idle
  <2>3. flushes = 0 /\ crashes = 0 /\ repairs = 0 /\ flock = None
    BY DEF Init
  <2> QED BY <2>1, <2>2, <2>3, IndexAssumption DEF Holders
<1>6. Entries
  BY <1>2 DEF Entries, Pointer, Entry, Distinct, Complete, Empty
<1>7. \A p \in Procs : Work(p)
  BY <1>3 DEF Work, OwnRing, Scanned, Written, Wiped, Creating, Scanning,
              Repairing, Writing, Flushing
<1>8. \A p \in Procs : Reading(p)
  BY <1>3 DEF Reading, Seen, Expects, Lookups
<1> QED BY <1>4, <1>5, <1>6, <1>7, <1>8 DEF IInv

LEMMA IInvStep == IInv /\ [Next]_vars => IInv'
<1> SUFFICES ASSUME IInv, [Next]_vars PROVE IInv'
  OBVIOUS
<1>1. TypeOK'
  BY TypeStep DEF IInv, Work
<1>2. CASE UNCHANGED vars
  <2>1. UNCHANGED <<slot, free, flock, pc, loc, owner, flushes, crashes,
                    repairs>>
    BY <1>2 DEF vars, ghost
  <2>2. Holders' /\ Entries'
    BY <2>1 DEF IInv, Holders, Entries, Pointer, Entry, Distinct
  <2>3. ASSUME NEW p \in Procs PROVE Work(p)' /\ Reading(p)'
    <3>1. OwnRing(p)' /\ Scanned(p)'
      BY <2>1 DEF IInv, Work, OwnRing, Scanned, S, Passed, Holds, Complete
    <3>2. Written(p)' /\ Wiped(p)'
      BY <2>1 DEF IInv, Work, Written, Wiped, Blank, S, Passed, Holds, Complete
    <3>3. Seen(p)' = Seen(p) /\ Undisturbed(p)' = Undisturbed(p)
      BY <2>1 DEF Seen, Undisturbed, ghost, S, Complete
    <3>4. \A j \in Slots : Ahead(p, j)' = Ahead(p, j)
      BY <2>1 DEF Ahead, Holds, Complete
    <3>5. Expects(p) => Expects(p)'
      BY <2>1, <3>4 DEF Expects
    <3> QED BY <3>1, <3>2, <3>3, <3>5 DEF IInv, Work, Reading
  <2> QED BY <1>1, <2>2, <2>3 DEF IInv
<1>3. CASE Next
  <2>1. PICK p \in Procs :
          \/ \E n \in Names : GetRing(p, n)
          \/ Lookup(p) \/ Use(p) \/ GiveUp(p) \/ Acquire(p)
          \/ Create(p) \/ Flush(p) \/ Crash(p)
    BY <1>3 DEF Next
  <2>2. CASE (\E n \in Names : GetRing(p, n)) \/ Acquire(p)
    BY <1>1, <2>2, CallStep
  <2>3. CASE Lookup(p)
    BY <1>1, <2>3, LookupStep
  <2>4. CASE Use(p) \/ GiveUp(p) \/ Crash(p)
    BY <1>1, <2>4, EndStep
  <2>5. CASE Create(p)
    BY <1>1, <2>5, OpenStep, ScanStep, EndStep, RepairStep, RepairDoneStep,
       FillStep, PublishStep DEF Create
  <2>6. CASE Flush(p)
    BY <1>1, <2>6, OpenStep, FlushStep, EndStep DEF Flush
  <2> QED BY <2>1, <2>2, <2>3, <2>4, <2>5, <2>6
<1> QED BY <1>2, <1>3

LEMMA IInvHolds == Spec => []IInv
BY IInvInit, IInvStep, PTL DEF Spec

\* Every variable keeps its type, whatever a dead writer leaves in a slot and
\* wherever a flush stops half-way (index.rs).
THEOREM IndexTypeCorrect == Spec => []TypeOK
<1>1. IInv => TypeOK
  BY DEF IInv
<1> QED BY <1>1, IInvHolds, PTL

\* A lookup takes no lock: if no flush, death or repair came in between, it
\* gives the ring of the channel it asked for, and misses none that was there
\* when it began, however many channels are created meanwhile (index.rs
\* channel_index_lookup).
THEOREM LookupsAreExact == Spec => []LookupExact
<1>1. IInv => LookupExact
  BY DEF IInv, LookupExact, Reading, Seen, Expects
<1> QED BY <1>1, IInvHolds, PTL

\* No channel has two complete entries and no ring belongs to two, whoever
\* creates, flushes or dies half-way (index.rs channel_index_create).
THEOREM ChannelHasOneRing == Spec => []OneRing
<1>1. IInv => OneRing
  BY DEF IInv, Entries, Entry, Distinct, OneRing
<1> QED BY <1>1, IInvHolds, PTL

\* What flush and compact find in a slot in use, finished or not, is a ring and
\* never a block of the free pool (index.rs flush, layer.py).
THEOREM SlotsLeadToRings == Spec => []RealRings
<1>1. IInv => RealRings
  BY DEF IInv, Entries, Pointer, RealRings
<1> QED BY <1>1, IInvHolds, PTL

\* A creation that reports a full index has met no slot that is empty or left
\* half-written by a dead process (index.rs channel_index_create).
THEOREM FullIndexIsFull == Spec => []FullIsFull
<1>1. IInv => FullIsFull
  BY DEF IInv, Work, Scanned, Passed, Complete, FullIsFull
<1> QED BY <1>1, IInvHolds, PTL
=============================================================================
