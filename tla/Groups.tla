------------------------------- MODULE Groups -------------------------------
(* Group membership: the group index (index.rs), the member arrays          *)
(* (member.rs) and the group manager (group/manager.py).  add, discard and  *)
(* flush hold the flock; get_members, the snapshot a group_send takes,      *)
(* holds nothing.  A flock holder may die between any two stores.           *)
(*                                                                          *)
(* One action per access that another process can see or disturb; what the  *)
(* flock holder reads nobody else changes, and is read in one action.  The  *)
(* name hash, a filter on top of the name, is left out (ChannelIndex has    *)
(* it).  A member's name is 128 bytes: it is written and read in two        *)
(* halves, so that a reader may meet one being written.                     *)
EXTENDS Integers, Sequences, FiniteSets

CONSTANTS
    Procs, GroupNames, Channels,
    NumSlots,       \* max_groups
    NumMembers,     \* max_members_per_group
    Arrays,         \* the blocks of the pool for member arrays
    Expiry,         \* group_expiry
    MaxTime, MaxCalls, MaxReads, MaxCrashes,      \* bounds
    None

ASSUME GroupsAssumption ==
    /\ NumSlots \in Nat \ {0} /\ NumMembers \in Nat \ {0}
    /\ Expiry \in Nat /\ MaxTime \in Nat
    /\ MaxCalls \in Nat /\ MaxReads \in Nat /\ MaxCrashes \in Nat
    /\ None \notin Procs \cup GroupNames \cup Channels \cup Arrays

Slots == 1 .. NumSlots
Entries == 1 .. NumMembers

VARIABLES
    slot,       \* the index
    mem,        \* the member arrays
    free,       \* arrays nobody has allocated
    flock,      \* who holds the flock
    now,        \* int(time.time())
    pc, loc,    \* the access a process makes next, its locals
    calls, reads,   \* adds, discards and flushes so far; get_members
    since,      \* history: when a channel joined a group; Unsure, Out
    must, may,  \* history: what a get_members has to give, and may give
    changing,   \* history: a flush or a slot's change of group (a creation,
    calm,       \* a repair) is under way; none was since the call began
    flushes, crashes    \* history: flushes; processes that died in a call

shared == <<slot, mem, free>>
truth == <<since, must, may>>
ghost == <<changing, calm, flushes, crashes>>
count == <<calls, reads>>
vars == <<shared, flock, now, pc, loc, count, truth, ghost>>

Unused == [ver |-> 0, len |-> 0, name |-> None, array |-> None, count |-> 0,
           active |-> FALSE]
Vacant == [first |-> None, second |-> None, time |-> 0, active |-> FALSE]
Idle == [group |-> None, chan |-> None, i |-> 1, j |-> 1, k |-> 0, now |-> 0,
         slot |-> Unused, first |-> None, out |-> {},
         skipped |-> FALSE]

Out == -2           \* no member
Unsure == -1        \* an add or a discard is under way, or died

Init ==
    /\ slot = [i \in Slots |-> Unused]
    /\ mem = [a \in Arrays |-> [j \in Entries |-> Vacant]]
    /\ free = Arrays
    /\ flock = None
    /\ now = 0
    /\ pc = [p \in Procs |-> "idle"]
    /\ loc = [p \in Procs |-> Idle]
    /\ calls = 0 /\ reads = 0
    /\ since = [x \in GroupNames \X Channels |-> Out]
    /\ must = [p \in Procs |-> {}] /\ may = must
    /\ changing = FALSE /\ calm = [p \in Procs |-> FALSE]
    /\ flushes = 0 /\ crashes = 0

Step(p, at, next) == pc[p] = at /\ pc' = [pc EXCEPT ![p] = next]
S(p) == slot[loc[p].i]
A(p) == mem[loc[p].slot.array]

\* A step that reads, a store to the slot, a store to an entry.
Read(p, at, new, next) ==
    /\ Step(p, at, next)
    /\ loc' = [loc EXCEPT ![p] = new]
    /\ UNCHANGED <<shared, flock, now, count, truth, ghost>>
WriteSlot(p, at, new, next) ==
    /\ Step(p, at, next)
    /\ slot' = [slot EXCEPT ![loc[p].i] = new]
    /\ UNCHANGED <<mem, free, flock, now, loc, count>>
WriteEntry(p, at, j, new, next) ==
    /\ Step(p, at, next)
    /\ mem' = [mem EXCEPT ![loc[p].slot.array][j] = new]
    /\ UNCHANGED <<slot, free, flock, now, loc, count, ghost>>

\* Who is in changes; so does what the readers under way have to, or may, give.
Know(new) ==
    /\ since' = new
    /\ must' = [p \in Procs |->
                   {c \in must[p] : new[<<loc[p].group, c>>] >= 0}]
    /\ may' = [p \in Procs |-> may[p] \cup IF pc[p] = "idle" THEN {} ELSE
                  {c \in Channels : loc[p].group # None
                                        /\ new[<<loc[p].group, c>>] # Out}]
Note(p, v) == Know([since EXCEPT ![<<loc[p].group, loc[p].chan>>] = v])

Begin(p, g, c, next) ==
    /\ Step(p, "idle", next)
    /\ loc' = [loc EXCEPT ![p] = [Idle EXCEPT !.group = g, !.chan = c]]
End(p, at) ==
    /\ Step(p, at, "idle")
    /\ flock' = IF flock = p THEN None ELSE flock
    /\ loc' = [loc EXCEPT ![p] = Idle]
    /\ UNCHANGED <<shared, now, count>>
    /\ calm' = [calm EXCEPT ![p] = FALSE]
    /\ UNCHANGED <<changing, flushes, crashes>>

Turn ==
    /\ changing' = ~changing
    /\ calm' = [p \in Procs |-> FALSE]

First(X) == CHOOSE x \in X : \A y \in X : x <= y
Odd(i) == slot[i].ver % 2 # 0

----------------------------------------------------------------------------
(* A slot changes hands field by field: a creation and a repair make the    *)
(* version odd first, a flush does not.                                     *)

Fields == <<"len", "name", "array", "count", "active">>

GoOdd(p, at, next) ==
    /\ WriteSlot(p, at, [S(p) EXCEPT !.ver = 1], next)
    /\ Turn
    /\ UNCHANGED <<truth, flushes, crashes>>

\* The next field of "new" is stored.
Put(p, at, new, next) ==
    /\ Step(p, at, IF loc[p].k + 1 < Len(Fields) THEN at ELSE next)
    /\ LET f == Fields[loc[p].k + 1]
       IN  slot' = [slot EXCEPT ![loc[p].i][f] = new[f]]
    /\ loc' = [loc EXCEPT ![p].k = (@ + 1) % Len(Fields)]
    /\ UNCHANGED <<mem, free, flock, now, count, truth, ghost>>

\* All but the name, which stays behind.
Clear(p, at, next) == Put(p, at, [Unused EXCEPT !.name = S(p).name], next)

GoEven(p, at, v, next) ==
    /\ WriteSlot(p, at, [S(p) EXCEPT !.ver = v], next)
    /\ Turn
    /\ UNCHANGED <<truth, flushes, crashes>>

----------------------------------------------------------------------------
(* add: group_index_create_or_find.                                         *)

Add(p, g, c) ==
    /\ flock = None /\ flock' = p
    /\ Begin(p, g, c, "a_scan")
    /\ Know([since EXCEPT ![<<g, c>>] = IF @ = Out THEN Unsure ELSE @])
    /\ calls < MaxCalls /\ calls' = calls + 1
    /\ UNCHANGED <<reads, shared, now, ghost>>

\* Variant: a group that is there already is not recognised.
HitNot(i, g) == FALSE

Hit(i, g) ==
    ~Odd(i) /\ slot[i].len # 0 /\ slot[i].active /\ slot[i].name = g
Stops(p) == {i \in Slots : Odd(i) \/ Hit(i, loc[p].group)}
Inactive == {i \in Slots : ~slot[i].active}

\* First pass, up to the first slot that is half-written or the group's.
Scan(p) ==
    /\ pc[p] = "a_scan" /\ Stops(p) # {}
    /\ LET i == First(Stops(p))
       IN  Read(p, "a_scan", [loc[p] EXCEPT !.i = i, !.slot = slot[i]],
                IF Odd(i) THEN "r_odd" ELSE "a_now")

Repair(p) ==
    \/ GoOdd(p, "r_odd", "r")
    \/ Clear(p, "r", "r_even")
    \/ GoEven(p, "r_even", 0, "a_scan")

\* Second pass: the first inactive slot, and a fresh array.
Alloc(p) ==
    /\ Step(p, "a_scan", "w_odd")
    /\ Stops(p) = {} /\ Inactive # {}
    /\ \E a \in free :
          /\ free' = free \ {a}
          /\ mem' = [mem EXCEPT ![a] = [j \in Entries |->
                        [@[j] EXCEPT !.active = FALSE, !.time = 0]]]
          /\ loc' = [loc EXCEPT ![p].i = First(Inactive),
                                ![p].slot = [ver |-> 2, len |-> 1,
                                    name |-> loc[p].group, array |-> a,
                                    count |-> 0, active |-> TRUE]]
    /\ UNCHANGED <<slot, flock, now, count, truth, ghost>>

Write(p) ==
    \/ GoOdd(p, "w_odd", "w")
    \/ Put(p, "w", loc[p].slot, "w_even")
    \/ GoEven(p, "w_even", 2, "a_now")

\* The add fails: index full or pool exhausted, and later the group full.
Fail(p, at) ==
    /\ End(p, at)
    /\ Note(p, IF since[<<loc[p].group, loc[p].chan>>] = Unsure THEN Out
               ELSE since[<<loc[p].group, loc[p].chan>>])
NoGroup(p) ==
    pc[p] = "a_scan" /\ Stops(p) = {} /\ (Inactive = {} \/ free = {})
        /\ Fail(p, "a_scan")

----------------------------------------------------------------------------
(* add: group_member_add.                                                   *)

Now(p) == Read(p, "a_now", [loc[p] EXCEPT !.now = now], "a_entry")

Whole(e, c) == e.first = c /\ e.second = c
Active(p) == {j \in Entries : A(p)[j].active}
Mine(p) == {j \in Active(p) : Whole(A(p)[j], loc[p].chan)}

\* Expired entries the scan meets before the channel's own.
Stale(p) == {j \in Active(p) \ Mine(p) :
                /\ A(p)[j].time + Expiry < loc[p].now
                /\ \A k \in Mine(p) : j < k}

Sweep(p) ==
    /\ pc[p] = "a_entry" /\ Stale(p) # {}
    /\ LET j == First(Stale(p))
       IN  /\ WriteEntry(p, "a_entry", j, [A(p)[j] EXCEPT !.active = FALSE],
                         "a_entry")
           /\ Know([since EXCEPT ![<<loc[p].group, A(p)[j].first>>] = Out])

\* Already in: the join time is renewed.
Refresh(p) ==
    /\ pc[p] = "a_entry" /\ Stale(p) = {} /\ Mine(p) # {}
    /\ LET j == First(Mine(p))
       IN  WriteEntry(p, "a_entry", j, [A(p)[j] EXCEPT !.time = loc[p].now],
                      "return")
    /\ Note(p, loc[p].now)

GroupFull(p) ==
    /\ pc[p] = "a_entry" /\ Stale(p) = {} /\ Active(p) = Entries
    /\ Mine(p) = {}
    /\ Fail(p, "a_entry")

EntryFields == <<"first", "second", "time", "active">>

\* The first inactive entry is filled field by field.
Fill(p) ==
    /\ pc[p] = "a_entry" /\ Stale(p) = {} /\ Mine(p) = {}
    /\ Active(p) # Entries
    /\ LET j == First(Entries \ Active(p))
           f == EntryFields[loc[p].k + 1]
           new == [first |-> loc[p].chan, second |-> loc[p].chan,
                   time |-> loc[p].now, active |-> TRUE]
       IN  mem' = [mem EXCEPT ![loc[p].slot.array][j][f] = new[f]]
    /\ loc' = [loc EXCEPT ![p].k = (@ + 1) % Len(EntryFields)]
    /\ Step(p, "a_entry", IF loc'[p].k = 0 THEN "e_odd" ELSE "a_entry")
    /\ UNCHANGED <<slot, free, flock, now, count, truth, ghost>>

\* A store to the slot that does not change whose it is.
Store(p, at, new, next) == WriteSlot(p, at, new, next) /\ UNCHANGED ghost
Bump(p, at, next) ==
    Store(p, at, [S(p) EXCEPT !.ver = @ + 1], next) /\ UNCHANGED truth

\* Variant: the join is not counted.
CountUpNot(p) == Store(p, "e_count", S(p), "e_even") /\ UNCHANGED truth

CountUp(p) ==
    /\ Store(p, "e_count", [S(p) EXCEPT !.count = @ + 1], "e_even")
    /\ UNCHANGED truth
Joined(p) ==
    /\ Store(p, "e_even", [S(p) EXCEPT !.ver = @ + 1], "return")
    /\ Note(p, loc[p].now)

Return(p) == End(p, "return") /\ UNCHANGED truth

----------------------------------------------------------------------------
(* discard: group_index_lookup, which takes an inactive slot too, and       *)
(* group_member_remove.                                                     *)

Discard(p, g, c) ==
    /\ flock = None /\ flock' = p
    /\ Begin(p, g, c, "d_slot")
    /\ Know([since EXCEPT ![<<g, c>>] = IF @ = Out THEN Out ELSE Unsure])
    /\ calls < MaxCalls /\ calls' = calls + 1
    /\ UNCHANGED <<reads, shared, now, ghost>>

Named(g) == {i \in Slots : ~Odd(i) /\ slot[i].len # 0 /\ slot[i].name = g}

DiscardSlot(p) ==
    /\ pc[p] = "d_slot" /\ Named(loc[p].group) # {}
    /\ LET i == First(Named(loc[p].group))
       IN  Read(p, "d_slot", [loc[p] EXCEPT !.i = i, !.slot = slot[i]],
                "d_entry")

NotIn(p) ==
    /\ \/ pc[p] = "d_slot" /\ Named(loc[p].group) = {}
       \/ pc[p] = "d_entry" /\ Mine(p) = {}
    /\ End(p, pc[p])
    /\ Note(p, Out)

\* Variant: the entry stays active, only the count goes down.
RemoveNot(p) ==
    /\ pc[p] = "d_entry" /\ Mine(p) # {}
    /\ Step(p, "d_entry", "d_odd")
    /\ Note(p, Out)
    /\ UNCHANGED <<shared, flock, now, loc, count, ghost>>

Remove(p) ==
    /\ pc[p] = "d_entry" /\ Mine(p) # {}
    /\ LET j == First(Mine(p))
       IN  WriteEntry(p, "d_entry", j, [A(p)[j] EXCEPT !.active = FALSE],
                      "d_odd")
    /\ Note(p, Out)

\* Variant: the count goes below zero.
CountDownPast(p) ==
    /\ Store(p, "d_count", [S(p) EXCEPT !.count = @ - 1], "d_active")
    /\ UNCHANGED truth

CountDown(p) ==
    /\ Store(p, "d_count",
             [S(p) EXCEPT !.count = IF @ > 0 THEN @ - 1 ELSE 0], "d_active")
    /\ UNCHANGED truth

\* Variant: any departure makes the group inactive.
DeactivateAny(p) ==
    /\ Store(p, "d_active", [S(p) EXCEPT !.active = FALSE], "d_even")
    /\ UNCHANGED truth

\* The count was at most 1: the group becomes inactive.
Deactivate(p) ==
    /\ Store(p, "d_active",
             [S(p) EXCEPT !.active = @ /\ S(p).count # 0], "d_even")
    /\ UNCHANGED truth

----------------------------------------------------------------------------
(* get_members, with no lock: group_index_lookup, then                      *)
(* group_members_read_all.                                                  *)

GetMembers(p, g) ==
    /\ Begin(p, g, None, "l_len")
    /\ must' = [must EXCEPT ![p] = {c \in Channels : since[<<g, c>>] >= 0}]
    /\ may' = [may EXCEPT ![p] = {c \in Channels : since[<<g, c>>] # Out}]
    /\ calm' = [calm EXCEPT ![p] = ~changing]
    /\ reads < MaxReads /\ reads' = reads + 1
    /\ UNCHANGED <<calls, shared, flock, now, since>>
    /\ UNCHANGED <<changing, flushes, crashes>>

\* The call is over but for its answer; other locals are dead.
Done(p, at, out, skipped) ==
    Read(p, at, [Idle EXCEPT !.group = loc[p].group, !.out = out,
                             !.skipped = skipped], "done")

NextSlot(p, at, skipped) ==
    IF loc[p].i < NumSlots
      THEN Read(p, at, [loc[p] EXCEPT !.i = @ + 1, !.slot = Unused,
                                      !.skipped = skipped], "l_len")
      ELSE Done(p, at, {}, skipped)

LookupLen(p) ==
    IF S(p).len # 0 THEN Read(p, "l_len", loc[p], "l_ver")
                    ELSE NextSlot(p, "l_len", loc[p].skipped)

\* A slot whose version is odd, or has changed, is passed over.
LookupVersion(p) ==
    IF ~Odd(loc[p].i)
      THEN Read(p, "l_ver", [loc[p] EXCEPT !.slot.ver = S(p).ver], "l_name")
      ELSE NextSlot(p, "l_ver", TRUE)
LookupName(p) ==
    Read(p, "l_name", [loc[p] EXCEPT !.slot.name = S(p).name], "l_again")
LookupAgain(p) ==
    IF S(p).ver # loc[p].slot.ver
      THEN NextSlot(p, "l_again", TRUE)
    ELSE IF loc[p].slot.name # loc[p].group
      THEN NextSlot(p, "l_again", loc[p].skipped)
    ELSE Read(p, "l_again", loc[p], "l_array")

\* The three fields are read after the version was checked.
LookupArray(p) ==
    Read(p, "l_array", [loc[p] EXCEPT !.slot.array = S(p).array], "l_count")
LookupCount(p) ==
    Read(p, "l_count", [loc[p] EXCEPT !.slot.count = S(p).count], "l_active")
LookupActive(p) ==
    IF S(p).active /\ loc[p].slot.count # 0
      THEN Read(p, "l_active", [loc[p] EXCEPT
                    !.slot = [Unused EXCEPT !.array = loc[p].slot.array]],
                "l_now")
      ELSE Done(p, "l_active", {}, loc[p].skipped)

\* Who has expired by now need not be in the answer.
LookupNow(p) ==
    /\ Step(p, "l_now", "m_active")
    /\ loc' = [loc EXCEPT ![p].now = now]
    /\ must' = [must EXCEPT ![p] =
                   {c \in @ : since[<<loc[p].group, c>>] + Expiry >= now}]
    /\ UNCHANGED <<shared, flock, now, count, since, may, ghost>>

NextEntry(p, at, out) ==
    IF loc[p].j < NumMembers
      THEN Read(p, at, [loc[p] EXCEPT !.j = @ + 1, !.out = out,
                                      !.first = None], "m_active")
      ELSE Done(p, at, out, loc[p].skipped)

MemberActive(p) ==
    /\ pc[p] = "m_active" /\ loc[p].slot.array # None
    /\ IF A(p)[loc[p].j].active THEN Read(p, "m_active", loc[p], "m_time")
                                ELSE NextEntry(p, "m_active", loc[p].out)
MemberTime(p) ==
    /\ pc[p] = "m_time"
    /\ IF A(p)[loc[p].j].time + Expiry < loc[p].now
         THEN NextEntry(p, "m_time", loc[p].out)
         ELSE Read(p, "m_time", loc[p], "m_first")
MemberFirst(p) ==
    /\ pc[p] = "m_first"
    /\ Read(p, "m_first", [loc[p] EXCEPT !.first = A(p)[loc[p].j].first],
            "m_second")
MemberSecond(p) ==
    /\ pc[p] = "m_second"
    /\ NextEntry(p, "m_second",
                 loc[p].out \cup {<<loc[p].first, A(p)[loc[p].j].second>>})

\* The offset of an emptied slot is 0: the region's header is read as members.
\* Any names may come out of it; the properties tell nothing and all apart.
MemberWild(p) ==
    /\ pc[p] = "m_active" /\ loc[p].slot.array = None
    /\ \E X \in {{}, Channels \X Channels} :
          Done(p, "m_active", X, loc[p].skipped)

Answer(p) ==
    /\ End(p, "done")
    /\ must' = [must EXCEPT ![p] = {}] /\ may' = [may EXCEPT ![p] = {}]
    /\ UNCHANGED since

----------------------------------------------------------------------------
(* flush, under the flock: slot by slot, then the slab.                     *)

FlushBegin(p) ==
    /\ calls < MaxCalls /\ calls' = calls + 1
    /\ flushes' = flushes + 1
    /\ flock = None /\ flock' = p
    /\ Step(p, "idle", "f")
    /\ Turn
    /\ Know([x \in DOMAIN since |-> IF since[x] = Out THEN Out ELSE Unsure])
    /\ UNCHANGED <<shared, now, loc, reads, crashes>>

FlushSlot(p) ==
    \/ Clear(p, "f", "f_even")
    \/ Store(p, "f_even", [S(p) EXCEPT !.ver = 0], "f_next") /\ UNCHANGED truth
    \/ /\ loc[p].i < NumSlots
       /\ Read(p, "f_next", [loc[p] EXCEPT !.i = @ + 1], "f")

\* slab.reset: every array is free again.
FlushSlab(p) ==
    /\ loc[p].i = NumSlots /\ Step(p, "f_next", "return")
    /\ free' = Arrays
    /\ Turn
    /\ Know([x \in DOMAIN since |-> Out])
    /\ UNCHANGED <<slot, mem, flock, now, loc, count, flushes, crashes>>

----------------------------------------------------------------------------
Tick ==
    /\ now < MaxTime /\ now' = now + 1
    /\ UNCHANGED <<shared, flock, pc, loc, count, truth, ghost>>

\* The flock holder dies, the kernel releases the flock.
Crash(p) ==
    /\ flock = p /\ crashes < MaxCrashes
    /\ crashes' = crashes + 1
    /\ flock' = None
    /\ pc' = [pc EXCEPT ![p] = "dead"]
    /\ loc' = [loc EXCEPT ![p] = Idle]
    /\ changing' = FALSE
    /\ calm' = [q \in Procs |-> calm[q] /\ ~changing]
    /\ UNCHANGED <<shared, now, count, truth, flushes>>

AddStep(p) ==
    \/ Scan(p) \/ Repair(p) \/ Alloc(p) \/ Write(p) \/ NoGroup(p) \/ Now(p)
    \/ Sweep(p) \/ Refresh(p) \/ GroupFull(p) \/ Fill(p)
    \/ Bump(p, "e_odd", "e_count") \/ CountUp(p) \/ Joined(p)
DiscardStep(p) ==
    \/ DiscardSlot(p) \/ NotIn(p) \/ Remove(p)
    \/ Bump(p, "d_odd", "d_count") \/ CountDown(p) \/ Deactivate(p)
    \/ Bump(p, "d_even", "return")
GetStep(p) ==
    \/ LookupLen(p) \/ LookupVersion(p) \/ LookupName(p) \/ LookupAgain(p)
    \/ LookupArray(p) \/ LookupCount(p) \/ LookupActive(p) \/ LookupNow(p)
    \/ MemberActive(p) \/ MemberTime(p) \/ MemberFirst(p) \/ MemberSecond(p)
    \/ MemberWild(p) \/ Answer(p)

Next ==
    \/ Tick
    \/ \E p \in Procs :
          \/ \E g \in GroupNames :
                \/ GetMembers(p, g)
                \/ \E c \in Channels : Add(p, g, c) \/ Discard(p, g, c)
          \/ AddStep(p) \/ DiscardStep(p) \/ GetStep(p)
          \/ FlushBegin(p) \/ FlushSlot(p) \/ FlushSlab(p)
          \/ Return(p) \/ Crash(p)

Spec == Init /\ [][Next]_vars

----------------------------------------------------------------------------
\* Every variable has its type.
TypeOK ==
    /\ slot \in [Slots -> [ver : 0 .. 2 * MaxCalls + 2, len : {0, 1},
                           name : GroupNames \cup {None},
                           array : Arrays \cup {None}, count : 0 .. MaxCalls,
                           active : BOOLEAN]]
    /\ \A a \in Arrays, j \in Entries :
          mem[a][j] \in [first : Channels \cup {None}, time : 0 .. MaxTime,
                         second : Channels \cup {None}, active : BOOLEAN]
    /\ free \subseteq Arrays
    /\ flock \in Procs \cup {None}
    /\ \A p \in Procs : loc[p].i \in Slots /\ loc[p].j \in Entries
    /\ since \in [GroupNames \X Channels -> Out .. MaxTime]
    /\ \A p \in Procs : must[p] \subseteq may[p]

\* No flush, no death and no slot that changed hands since the call began.
Undisturbed(p) == calm[p]

\* A group_send reaches every channel that was a member from before its
\* snapshot began until after it ended and had not expired, whoever joins,
\* leaves or is swept out meanwhile and whichever groups come and go: unless
\* the lookup passed a slot over for its version (index.rs group_index_lookup).
MembersReached ==
    \A p \in Procs, c \in Channels :
        pc[p] = "done" /\ ~loc[p].skipped /\ crashes = 0 /\ c \in must[p] =>
            <<c, c>> \in loc[p].out

\* What manager.py says of get_members, "safe to call without holding the
\* flock": no member is ever missed.
NobodyMissed ==
    \A p \in Procs, c \in Channels :
        pc[p] = "done" /\ crashes = 0 /\ c \in must[p] =>
            <<c, c>> \in loc[p].out

\* A snapshot names no channel that was not in the group, or about to be,
\* while it was taken.
OnlyMembers ==
    \A p \in Procs, c \in Channels :
        pc[p] = "done" /\ Undisturbed(p) /\ <<c, c>> \in loc[p].out =>
            c \in may[p]

\* The count a reader skips an empty group by is never too small, but for the
\* one add that a death left uncounted (member.rs group_member_add).
CountCovers ==
    \A i \in Slots : slot[i].len # 0 /\ slot[i].active /\ ~Odd(i) =>
        Cardinality({j \in Entries : mem[slot[i].array][j].active})
            <= slot[i].count + crashes
                 + Cardinality({p \in Procs : pc[p] = "e_odd" /\ loc[p].i = i})

\* An active group is the first of its name, so that a lookup, which does not
\* look at "active", finds it before a slot the group left; and no two groups
\* share a member array.
GroupsApart ==
    \A i, k \in {x \in Slots : ~Odd(x) /\ slot[x].len # 0} :
        i # k /\ slot[k].active =>
            /\ slot[i].name = slot[k].name => k < i
            /\ slot[i].active => slot[i].array # slot[k].array

\* What manager.py says of the lookup, "the index lookup is seqlock-safe": a
\* snapshot no flush and no death disturbed names only members of its group.
SnapshotOfGroup ==
    \A p \in Procs, c \in Channels :
        pc[p] = "done" /\ flushes = 0 /\ crashes = 0 /\ <<c, c>> \in loc[p].out
            => c \in may[p]

\* What manager.py says of the entries, "member reads are atomic": a name in a
\* snapshot is the name of a channel, never two halves.
WholeNames ==
    \A p \in Procs : pc[p] = "done" /\ flushes = 0 /\ crashes = 0 =>
        loc[p].out \subseteq {<<c, c>> : c \in Channels}

\* What manager.py says of discard: down to zero members, the group's slot is
\* inactive.
EmptyIsInactive ==
    flock = None /\ crashes = 0 =>
        \A i \in Slots : slot[i].active =>
            \E j \in Entries : mem[slot[i].array][j].active
=============================================================================
