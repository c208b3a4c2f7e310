---------------------------- MODULE GroupsProofs ----------------------------
(* Group membership for any number of processes, groups, channels, slots    *)
(* and arrays, any number of joins, departures, flushes and deaths.         *)
EXTENDS Groups, TLAPS, FiniteSetTheorems, WellFoundedInduction

Repairing == {"r_odd", "r", "r_even"}
Writing == {"w_odd", "w", "w_even"}
Counted == {"e_odd", "e_count", "e_even"}
Joining == {"a_now", "a_entry"} \cup Counted
Adding == {"a_scan"} \cup Repairing \cup Writing \cup Joining
Leaving == {"d_entry", "d_odd", "d_count", "d_active", "d_even"}
Discarding == {"d_slot"} \cup Leaving
Flushing == {"f", "f_even", "f_next"}
Working == Adding \cup Discarding \cup Flushing \cup {"return"}
Lookups == {"l_len", "l_ver", "l_name", "l_again", "l_array", "l_count",
            "l_active", "l_now"}
Listing == {"m_active", "m_time", "m_first", "m_second"}
Getting == Lookups \cup Listing \cup {"done"}
Labels == {"idle", "dead"} \cup Working \cup Getting

\* A slot is odd for its holder's bookkeeping only.
Bumped == {"e_count", "e_even", "d_count", "d_active", "d_even"}
\* A slot is changing hands, or the whole index is.
Changing == {"r", "r_even", "w", "w_even"} \cup Flushing

At(p, i, labels) == pc[p] \in labels /\ loc[p].i = i
HolderAt(i, labels) == flock # None /\ At(flock, i, labels)

----------------------------------------------------------------------------
SlotType == [ver : Nat, len : {0, 1}, name : GroupNames \cup {None},
             array : Arrays \cup {None}, count : Nat, active : BOOLEAN]
EntryType == [first : Channels \cup {None}, second : Channels \cup {None},
              time : 0 .. MaxTime, active : BOOLEAN]
Halves == Channels \cup {None}
LocType == [group : GroupNames \cup {None}, chan : Channels \cup {None},
            i : Slots, j : Entries, k : 0 .. 4, now : 0 .. MaxTime,
            slot : SlotType, first : Halves, out : SUBSET (Halves \X Halves),
            skipped : BOOLEAN]

Truths ==
    /\ since \in [GroupNames \X Channels -> Out .. MaxTime]
    /\ must \in [Procs -> SUBSET Channels]
    /\ may \in [Procs -> SUBSET Channels]
Types ==
    /\ slot \in [Slots -> SlotType]
    /\ mem \in [Arrays -> [Entries -> EntryType]]
    /\ free \in SUBSET Arrays
    /\ flock \in Procs \cup {None}
    /\ now \in 0 .. MaxTime
    /\ pc \in [Procs -> Labels]
    /\ loc \in [Procs -> LocType]
    /\ calls \in 0 .. MaxCalls
    /\ Truths
    /\ changing \in BOOLEAN
    /\ calm \in [Procs -> BOOLEAN]
    /\ crashes \in Nat

\* Who works holds the flock, and what its locals are about.
Local(p) ==
    /\ pc[p] \in Adding \cup Discarding =>
            loc[p].group \in GroupNames /\ loc[p].chan \in Channels
    /\ pc[p] \in Getting => loc[p].group \in GroupNames
    /\ pc[p] \notin {"r", "w", "f", "a_entry"} => loc[p].k = 0
    /\ pc[p] = "a_entry" => loc[p].k < 4
    /\ pc[p] \in Lookups => loc[p].j = 1
    /\ pc[p] \in {"m_time", "m_first", "m_second"} =>
            loc[p].slot.array \in Arrays
    /\ pc[p] = "idle" => loc[p].i = 1
Desk ==
    /\ \A p \in Procs : pc[p] \in Working <=> flock = p
    /\ \A p \in Procs : Local(p)
    /\ changing <=> flock # None /\ pc[flock] \in Changing
    /\ \A p \in Procs : calm[p] => ~changing

\* The bounds of the version and of the count: two bumps a call.
Unbumped == (Adding \ {"e_count", "e_even"})
                \cup {"d_slot", "d_entry", "d_odd"}
Due ==
    IF flock = None THEN 0 ELSE IF pc[flock] \in Unbumped THEN 2
    ELSE IF pc[flock] \in Bumped THEN 1 ELSE 0
Budget(i) ==
    /\ slot[i].ver + Due <= 2 * calls + 2 /\ slot[i].count <= calls
    /\ Due > 0 => calls > 0
    /\ flock # None /\ pc[flock] \in Adding \ {"e_even"} =>
            slot[i].count < calls

----------------------------------------------------------------------------
(* The slots.                                                               *)

\* A slot that leads to a group.
Held(i) == slot[i].len # 0 /\ (Odd(i) => HolderAt(i, Bumped))

Pointer(i) ==
    /\ slot[i].array # None => slot[i].array \notin free
    /\ Held(i) => slot[i].name \in GroupNames /\ slot[i].array \in Arrays
Apart(i, k) ==
    /\ slot[i].array # None => slot[i].array # slot[k].array
    /\ Held(i) /\ Held(k) /\ slot[k].active /\ slot[i].name = slot[k].name
         => k < i
Index ==
    /\ \A i \in Slots : Pointer(i)
    /\ \A i, k \in Slots : i # k => Apart(i, k)
    /\ crashes = 0 => \A i \in Slots : Odd(i) =>
                            HolderAt(i, Bumped \cup {"w", "w_even"})

----------------------------------------------------------------------------
(* The arrays.                                                              *)

In(a) == {j \in Entries : mem[a][j].active}
Entry(i, j) == mem[slot[i].array][j]
Listed(i) ==
    /\ \A j \in In(slot[i].array) : Entry(i, j).first \in Channels
                /\ Entry(i, j).second = Entry(i, j).first
    /\ \A j, k \in In(slot[i].array) :
            j # k => Entry(i, j).first # Entry(i, k).first
    /\ slot[i].active => \A j \in In(slot[i].array) :
            since[<<slot[i].name, Entry(i, j).first>>] # Out

One(b) == IF b THEN 1 ELSE 0
Covered(i) ==
    Cardinality(In(slot[i].array)) + One(HolderAt(i, {"d_odd", "d_count"}))
        <= slot[i].count + crashes + One(HolderAt(i, {"e_odd", "e_count"}))

\* Channel c of group g has its entry j in slot k.
Home(g, c, k, j) ==
    /\ Held(k) /\ slot[k].active /\ slot[k].name = g
    /\ j \in In(slot[k].array)
    /\ Entry(k, j).first = c /\ Entry(k, j).time = since[<<g, c>>]
Rolls ==
    /\ \A i \in Slots : Held(i) => Listed(i) /\ Covered(i)
    /\ crashes = 0 => \A g \in GroupNames, c \in Channels :
            since[<<g, c>>] >= 0 =>
                \E k \in Slots, j \in Entries : Home(g, c, k, j)
    /\ \A a \in Arrays, j \in Entries : mem[a][j].time <= now

----------------------------------------------------------------------------
(* What the holder of the flock has done so far.                            *)

Repairs(p) ==
    /\ pc[p] \in Repairing => Odd(loc[p].i) /\ crashes > 0
    /\ pc[p] = "r" /\ loc[p].k > 0 => S(p).len = 0
    /\ pc[p] = "r_even" => S(p).len = 0
Fresh(p) == loc[p].slot.array
Creates(p) ==
    pc[p] \in Writing =>
        /\ loc[p].slot.len = 1 /\ loc[p].slot.name = loc[p].group
        /\ loc[p].slot.count = 0 /\ loc[p].slot.active
        /\ Fresh(p) \in Arrays \ free /\ In(Fresh(p)) = {}
        /\ \A k \in Slots : k # loc[p].i =>
              /\ ~Odd(k) /\ ~Hit(k, loc[p].group) /\ slot[k].array # Fresh(p)
              /\ ~slot[k].active => loc[p].i < k
        /\ pc[p] = "w_odd" => ~Odd(loc[p].i) /\ ~S(p).active
                                /\ S(p).array # Fresh(p)
        /\ pc[p] # "w_odd" => Odd(loc[p].i)
        /\ pc[p] = "w_even" \/ loc[p].k > 0 => S(p).len = 1
        /\ pc[p] = "w_even" \/ loc[p].k > 1 => S(p).name = loc[p].group
        /\ pc[p] = "w_even" \/ loc[p].k > 2 => S(p).array = Fresh(p)
        /\ pc[p] = "w" /\ loc[p].k <= 2 => S(p).array # Fresh(p)
        /\ pc[p] = "w_even" \/ loc[p].k > 3 => S(p).count = 0
        /\ pc[p] = "w_even" => S(p).active
AtSlot(p) == S(p).len # 0 /\ S(p).name = loc[p].group
            /\ Fresh(p) = S(p).array /\ (Odd(loc[p].i) <=> pc[p] \in Bumped)
Blank(p) == First(Entries \ Active(p))
Joins(p) ==
    /\ pc[p] \in Joining => AtSlot(p) /\ S(p).active
    /\ pc[p] \in {"a_entry"} \cup Counted =>
          /\ loc[p].now <= now
          /\ \A a \in Arrays, j \in Entries : mem[a][j].time <= loc[p].now
    /\ pc[p] = "a_entry" /\ loc[p].k > 0 =>
          /\ Stale(p) = {} /\ Mine(p) = {} /\ Active(p) # Entries
          /\ A(p)[Blank(p)].first = loc[p].chan
          /\ loc[p].k > 1 => A(p)[Blank(p)].second = loc[p].chan
          /\ loc[p].k > 2 => A(p)[Blank(p)].time = loc[p].now
    /\ pc[p] \in Counted => \E j \in In(S(p).array) :
          A(p)[j].first = loc[p].chan /\ A(p)[j].time = loc[p].now
    /\ pc[p] \in Counted /\ crashes = 0 =>
          since[<<loc[p].group, loc[p].chan>>] = Unsure
    /\ pc[p] \in Adding => since[<<loc[p].group, loc[p].chan>>] # Out
Leaves(p) ==
    /\ pc[p] \in Leaving => AtSlot(p)
    /\ pc[p] = "d_entry" => \A k \in Named(loc[p].group) : loc[p].i <= k
    /\ pc[p] \in Discarding => since[<<loc[p].group, loc[p].chan>>] < 0
Empty(i) == slot[i].len = 0 /\ slot[i].array = None
Flushes(p) ==
    pc[p] \in Flushing =>
        /\ \A x \in GroupNames \X Channels : since[x] < 0
        /\ \A j \in Slots : j < loc[p].i => Empty(j)
        /\ pc[p] # "f" \/ loc[p].k > 0 => S(p).len = 0
        /\ pc[p] # "f" \/ loc[p].k > 2 => S(p).array = None
Work(p) == Repairs(p) /\ Creates(p) /\ Joins(p) /\ Leaves(p) /\ Flushes(p)

----------------------------------------------------------------------------
(* What a get_members knows.                                                *)

Ghosts(p) ==
    /\ pc[p] \in Getting => \A c \in Channels :
          /\ since[<<loc[p].group, c>>] # Out => c \in may[p]
          /\ c \in must[p] => since[<<loc[p].group, c>>] >= 0
    /\ pc[p] \notin Getting => must[p] = {}
    /\ must[p] \subseteq may[p]

\* While no slot changes hands: the slot is the group's from the version
\* check on, and whom its array lists may be given.
Firsts(p, i) == \A j \in In(slot[i].array) : Entry(i, j).first \in may[p]
Checked == {"l_array", "l_count", "l_active"}
Calmly(p) ==
    /\ pc[p] \in {"l_ver", "l_name", "l_again"} => S(p).len # 0
    /\ pc[p] \in {"l_name", "l_again"} => loc[p].slot.ver % 2 = 0
    /\ pc[p] = "l_again" => loc[p].slot.name = S(p).name
    /\ pc[p] \in Checked \cup {"l_now"} \cup Listing =>
            S(p).name = loc[p].group /\ S(p).array \in Arrays
    /\ pc[p] \in Checked /\ S(p).active => Firsts(p, loc[p].i)
    /\ pc[p] \in {"l_count", "l_active", "l_now"} \cup Listing =>
            loc[p].slot.array = S(p).array
    /\ pc[p] \in {"l_now"} \cup Listing => Firsts(p, loc[p].i)
    /\ pc[p] \in {"m_time", "m_first"} => A(p)[loc[p].j].first \in may[p]
    /\ pc[p] = "m_second" => loc[p].first \in may[p]
    /\ pc[p] \in Lookups => loc[p].out = {}
    /\ pc[p] \in Getting => \A x \in loc[p].out : x[1] \in may[p]

\* What a member that has to be given has ahead of it.
Ahead(p, c, k, j) ==
    /\ pc[p] \in Lookups => loc[p].i <= k
    /\ pc[p] = "l_ver" => S(p).len # 0
    /\ pc[p] = "l_name" /\ loc[p].i # k => S(p).name # loc[p].group
    /\ pc[p] = "l_again" =>
            (loc[p].slot.name = loc[p].group <=> loc[p].i = k)
    /\ pc[p] \in Checked \cup {"l_now"} \cup Listing => loc[p].i = k
    /\ pc[p] \in {"l_count", "l_active", "l_now"} \cup Listing =>
            loc[p].slot.array = slot[k].array
    /\ pc[p] = "l_active" => loc[p].slot.count # 0
    /\ pc[p] \in Listing =>
          /\ loc[p].now <= since[<<loc[p].group, c>>] + Expiry
          /\ <<c, c>> \in loc[p].out \/ loc[p].j <= j
    /\ pc[p] = "m_second" /\ loc[p].j = j => loc[p].first = c
    /\ pc[p] = "done" => <<c, c>> \in loc[p].out
Expects(p, c) ==
    \E k \in Slots, j \in Entries :
        Home(loc[p].group, c, k, j) /\ Ahead(p, c, k, j)
Reading(p) ==
    /\ calm[p] => Calmly(p)
    /\ pc[p] \in Getting /\ crashes = 0 /\ ~loc[p].skipped =>
            \A c \in must[p] : Expects(p, c)

IInv ==
    /\ Types /\ Desk /\ Index /\ Rolls
    /\ \A i \in Slots : Budget(i)
    /\ \A p \in Procs : Work(p) /\ Ghosts(p) /\ Reading(p)

-----------------------------------------------------------------------------
(* Types.                                                                   *)

Others(p) == \A q \in Procs \ {p} : pc'[q] = pc[q] /\ loc'[q] = loc[q]

LEMMA SlotOf ==
    ASSUME Types, NEW i \in Slots
    PROVE  /\ slot[i] \in SlotType
           /\ slot[i].ver \in Nat /\ slot[i].len \in {0, 1}
           /\ slot[i].name \in GroupNames \cup {None}
           /\ slot[i].array \in Arrays \cup {None}
           /\ slot[i].count \in Nat /\ slot[i].active \in BOOLEAN
<1>1. slot[i] \in SlotType
  BY DEF Types
<1> QED BY <1>1 DEF SlotType

LEMMA EntryOf ==
    ASSUME Types, NEW a \in Arrays, NEW j \in Entries
    PROVE  /\ mem[a][j] \in EntryType
           /\ mem[a][j].first \in Halves /\ mem[a][j].second \in Halves
           /\ mem[a][j].time \in 0 .. MaxTime /\ mem[a][j].active \in BOOLEAN
<1>1. mem[a][j] \in EntryType
  BY DEF Types
<1> QED BY <1>1 DEF EntryType, Halves

LEMMA LocOf ==
    ASSUME Types, NEW p \in Procs
    PROVE  /\ loc[p] \in LocType
           /\ loc[p].group \in GroupNames \cup {None}
           /\ loc[p].chan \in Channels \cup {None}
           /\ loc[p].i \in Slots /\ loc[p].j \in Entries /\ loc[p].k \in 0 .. 4
           /\ loc[p].now \in 0 .. MaxTime /\ loc[p].slot \in SlotType
           /\ loc[p].first \in Halves
           /\ loc[p].out \subseteq Halves \X Halves
           /\ loc[p].skipped \in BOOLEAN
<1>1. loc[p] \in LocType
  BY DEF Types
<1> QED BY <1>1 DEF LocType

LEMMA Bounds ==
    ASSUME Types
    PROVE  /\ NumSlots \in Nat \ {0} /\ NumMembers \in Nat \ {0}
           /\ MaxTime \in Nat /\ now \in Nat /\ now <= MaxTime
           /\ Expiry \in Nat /\ calls \in Nat /\ MaxCalls \in Nat
           /\ calls <= MaxCalls /\ crashes \in Nat
           /\ 1 \in Slots /\ 1 \in Entries
BY GroupsAssumption DEF Types, Slots, Entries

LEMMA UnusedType == Unused \in SlotType
BY DEF Unused, SlotType

LEMMA IdleType == Idle \in LocType
<1>1. 1 \in Slots /\ 1 \in Entries /\ 0 \in 0 .. MaxTime
  BY GroupsAssumption DEF Slots, Entries
<1> QED BY <1>1, UnusedType DEF Idle, LocType, Halves

\* A field set in the locals.
LEMMA LocSet ==
    ASSUME NEW l \in LocType
    PROVE  /\ \A g \in GroupNames \cup {None} :
                    [l EXCEPT !.group = g] \in LocType
           /\ \A i \in Slots : [l EXCEPT !.i = i] \in LocType
           /\ \A j \in Entries : [l EXCEPT !.j = j] \in LocType
           /\ \A k \in 0 .. 4 : [l EXCEPT !.k = k] \in LocType
           /\ \A t \in 0 .. MaxTime : [l EXCEPT !.now = t] \in LocType
           /\ \A s \in SlotType : [l EXCEPT !.slot = s] \in LocType
           /\ \A h \in Halves : [l EXCEPT !.first = h] \in LocType
           /\ \A X \in SUBSET (Halves \X Halves) :
                    [l EXCEPT !.out = X] \in LocType
           /\ \A b \in BOOLEAN : [l EXCEPT !.skipped = b] \in LocType
BY DEF LocType

\* A field set in a slot or in an entry.
LEMMA SlotSet ==
    ASSUME NEW s \in SlotType
    PROVE  /\ \A v \in Nat : [s EXCEPT !.ver = v] \in SlotType
           /\ \A n \in GroupNames \cup {None} :
                    [s EXCEPT !.name = n] \in SlotType
           /\ \A a \in Arrays \cup {None} : [s EXCEPT !.array = a] \in SlotType
           /\ \A c \in Nat : [s EXCEPT !.count = c] \in SlotType
           /\ \A b \in BOOLEAN : [s EXCEPT !.active = b] \in SlotType
BY DEF SlotType

LEMMA EntrySet ==
    ASSUME NEW e \in EntryType
    PROVE  /\ \A b \in BOOLEAN : [e EXCEPT !.active = b] \in EntryType
           /\ \A t \in 0 .. MaxTime : [e EXCEPT !.time = t] \in EntryType
BY DEF EntryType

LEMMA Stepped ==
    ASSUME Types, NEW p \in Procs, NEW at, NEW next, Step(p, at, next)
    PROVE  /\ pc[p] = at /\ pc'[p] = next
           /\ \A q \in Procs \ {p} : pc'[q] = pc[q]
           /\ next \in Labels => pc' \in [Procs -> Labels]
BY DEF Types, Step

LEMMA Moved ==
    ASSUME Types, NEW p \in Procs, NEW new, loc' = [loc EXCEPT ![p] = new]
    PROVE  /\ loc'[p] = new /\ \A q \in Procs \ {p} : loc'[q] = loc[q]
           /\ new \in LocType => loc' \in [Procs -> LocType]
BY DEF Types

LEMMA Known ==
    ASSUME Types, NEW new \in [GroupNames \X Channels -> Out .. MaxTime],
           Know(new)
    PROVE  /\ since' = new
           /\ Truths'
           /\ \A q \in Procs :
                 /\ must'[q] = {c \in must[q] : new[<<loc[q].group, c>>] >= 0}
                 /\ pc[q] # "idle" /\ loc[q].group # None =>
                       may'[q] = may[q] \cup
                          {c \in Channels : new[<<loc[q].group, c>>] # Out}
                 /\ may[q] \subseteq may'[q]
<1>1. must' \in [Procs -> SUBSET Channels]
  BY DEF Know, Types, Truths
<1>2. may' \in [Procs -> SUBSET Channels]
  BY DEF Know, Types, Truths
<1>3. ASSUME NEW q \in Procs
      PROVE  /\ must'[q] = {c \in must[q] : new[<<loc[q].group, c>>] >= 0}
             /\ pc[q] # "idle" /\ loc[q].group # None =>
                   may'[q] = may[q] \cup
                      {c \in Channels : new[<<loc[q].group, c>>] # Out}
             /\ may[q] \subseteq may'[q]
  BY DEF Know, Types, Truths
<1> QED BY <1>1, <1>2, <1>3 DEF Know, Truths

LEMMA SinceSet ==
    ASSUME Types, NEW g \in GroupNames, NEW c \in Channels,
           NEW v \in Out .. MaxTime
    PROVE  [since EXCEPT ![<<g, c>>] = v]
                \in [GroupNames \X Channels -> Out .. MaxTime]
BY DEF Types, Truths

LEMMA SinceOf ==
    ASSUME Types
    PROVE  /\ \A g \in GroupNames, c \in Channels :
                 since[<<g, c>>] \in Int /\ since[<<g, c>>] \in Out .. MaxTime
           /\ Out \in Out .. MaxTime /\ Unsure \in Out .. MaxTime
           /\ \A t \in 0 .. MaxTime : t \in Out .. MaxTime
<1>1. Out .. MaxTime \subseteq Int
  OBVIOUS
<1> QED BY <1>1, GroupsAssumption DEF Types, Truths, Out, Unsure

LEMMA NoteTypes ==
    ASSUME Types, NEW p \in Procs, loc[p].group \in GroupNames,
           loc[p].chan \in Channels, NEW v \in Out .. MaxTime, Note(p, v)
    PROVE  /\ Truths'
           /\ since' = [since EXCEPT ![<<loc[p].group, loc[p].chan>>] = v]
           /\ Know(since')
<1> DEFINE new == [since EXCEPT ![<<loc[p].group, loc[p].chan>>] = v]
<1>1. new \in [GroupNames \X Channels -> Out .. MaxTime]
  BY SinceSet
<1>2. Know(new)
  BY DEF Note
<1>3. since' = new
  BY <1>2 DEF Know
<1> HIDE DEF new
<1>4. Truths'
  BY <1>1, <1>2, Known
<1> QED BY <1>2, <1>3, <1>4 DEF new

\* A step that reads.
LEMMA ReadShape ==
    ASSUME Types, NEW p \in Procs, NEW at, NEW new, NEW next,
           Read(p, at, new, next)
    PROVE  /\ pc[p] = at /\ pc'[p] = next /\ loc'[p] = new /\ Others(p)
           /\ UNCHANGED <<slot, mem, free, flock, now, calls, since, must,
                          may, changing, calm, crashes>>
           /\ next \in Labels /\ new \in LocType => Types'
<1>1. Step(p, at, next) /\ loc' = [loc EXCEPT ![p] = new]
  BY DEF Read
<1>2. UNCHANGED <<slot, mem, free, flock, now, calls, since, must, may,
                  changing, calm, crashes>>
  BY DEF Read, shared, count, truth, ghost
<1>3. next \in Labels /\ new \in LocType => Types'
  BY <1>1, <1>2, Stepped, Moved DEF Types, Truths
<1>4. /\ pc[p] = at /\ pc'[p] = next
      /\ \A q \in Procs \ {p} : pc'[q] = pc[q]
  BY <1>1, Stepped
<1>5. loc'[p] = new /\ \A q \in Procs \ {p} : loc'[q] = loc[q]
  BY <1>1, Moved
<1> QED BY <1>2, <1>3, <1>4, <1>5 DEF Others

\* A store to the slot.
LEMMA SlotShape ==
    ASSUME Types, NEW p \in Procs, NEW at, NEW new, NEW next,
           WriteSlot(p, at, new, next)
    PROVE  /\ pc[p] = at /\ pc'[p] = next /\ Others(p) /\ loc' = loc
           /\ slot' = [slot EXCEPT ![loc[p].i] = new]
           /\ slot'[loc[p].i] = new
           /\ \A i \in Slots : i # loc[p].i => slot'[i] = slot[i]
           /\ UNCHANGED <<mem, free, flock, now, calls>>
           /\ next \in Labels /\ new \in SlotType /\ Truths'
                /\ changing' \in BOOLEAN /\ calm' \in [Procs -> BOOLEAN]
                /\ crashes' \in Nat => Types'
<1>1. /\ Step(p, at, next) /\ loc' = loc
      /\ slot' = [slot EXCEPT ![loc[p].i] = new]
      /\ UNCHANGED <<mem, free, flock, now, calls>>
  BY DEF WriteSlot, count
<1>2. /\ slot'[loc[p].i] = new
      /\ \A i \in Slots : i # loc[p].i => slot'[i] = slot[i]
      /\ new \in SlotType => slot' \in [Slots -> SlotType]
  BY <1>1, LocOf DEF Types
<1>3. /\ pc[p] = at /\ pc'[p] = next /\ Others(p)
      /\ next \in Labels => pc' \in [Procs -> Labels]
  BY <1>1, Stepped DEF Others
<1> QED BY <1>1, <1>2, <1>3 DEF Types

\* A store of the next field of a slot.
Stored(s, new, k) == [s EXCEPT ![Fields[k + 1]] = new[Fields[k + 1]]]

LEMMA FieldSet ==
    ASSUME NEW s \in SlotType, NEW new \in SlotType, NEW k \in 0 .. 4
    PROVE  /\ Stored(s, new, k) \in SlotType
           /\ Stored(s, new, k).ver = s.ver
           /\ Stored(s, new, k).len = IF k = 0 THEN new.len ELSE s.len
           /\ Stored(s, new, k).name = IF k = 1 THEN new.name ELSE s.name
           /\ Stored(s, new, k).array = IF k = 2 THEN new.array ELSE s.array
           /\ Stored(s, new, k).count = IF k = 3 THEN new.count ELSE s.count
           /\ Stored(s, new, k).active =
                    IF k = 4 THEN new.active ELSE s.active
<1>1. CASE k = 0
  <2>1. Fields[k + 1] = "len"
    BY <1>1 DEF Fields
  <2> QED BY <1>1, <2>1 DEF SlotType, Stored
<1>2. CASE k = 1
  <2>1. Fields[k + 1] = "name"
    BY <1>2 DEF Fields
  <2> QED BY <1>2, <2>1 DEF SlotType, Stored
<1>3. CASE k = 2
  <2>1. Fields[k + 1] = "array"
    BY <1>3 DEF Fields
  <2> QED BY <1>3, <2>1 DEF SlotType, Stored
<1>4. CASE k = 3
  <2>1. Fields[k + 1] = "count"
    BY <1>4 DEF Fields
  <2> QED BY <1>4, <2>1 DEF SlotType, Stored
<1>5. CASE k = 4
  <2>1. Fields[k + 1] = "active"
    BY <1>5 DEF Fields
  <2> QED BY <1>5, <2>1 DEF SlotType, Stored
<1> QED BY <1>1, <1>2, <1>3, <1>4, <1>5

PutEffect(p, at, new, next, y) ==
    /\ pc[p] = at /\ Others(p) /\ Types'
    /\ pc'[p] = IF loc[p].k < 4 THEN at ELSE next
    /\ loc'[p] = [loc[p] EXCEPT !.k = IF @ < 4 THEN @ + 1 ELSE 0]
    /\ slot'[y].ver = slot[y].ver
    /\ slot'[y].len = IF loc[p].k = 0 THEN new.len ELSE slot[y].len
    /\ slot'[y].name = IF loc[p].k = 1 THEN new.name ELSE slot[y].name
    /\ slot'[y].array = IF loc[p].k = 2 THEN new.array ELSE slot[y].array
    /\ slot'[y].count = IF loc[p].k = 3 THEN new.count ELSE slot[y].count
    /\ slot'[y].active = IF loc[p].k = 4 THEN new.active ELSE slot[y].active
    /\ \A i \in Slots : i # y => slot'[i] = slot[i]
    /\ UNCHANGED <<mem, free, flock, now, calls, since, must, may, changing,
                   calm, crashes>>

LEMMA PutShape ==
    ASSUME Types, NEW p \in Procs, NEW at \in Labels, NEW new \in SlotType,
           NEW next \in Labels, NEW y \in Slots, y = loc[p].i,
           Put(p, at, new, next)
    PROVE  PutEffect(p, at, new, next, y)
<1>1. loc[p].k \in 0 .. 4 /\ loc[p].i \in Slots /\ loc[p] \in LocType
  BY LocOf
<1>2. PICK t : t = Stored(S(p), new, loc[p].k)
  OBVIOUS
<1>3. slot' = [slot EXCEPT ![loc[p].i] = t]
  BY <1>1, <1>2 DEF Put, S, Stored
<1> DEFINE k == loc[p].k
<1>4. /\ t \in SlotType /\ t.ver = S(p).ver
      /\ t.len = IF k = 0 THEN new.len ELSE S(p).len
      /\ t.name = IF k = 1 THEN new.name ELSE S(p).name
      /\ t.array = IF k = 2 THEN new.array ELSE S(p).array
      /\ t.count = IF k = 3 THEN new.count ELSE S(p).count
      /\ t.active = IF k = 4 THEN new.active ELSE S(p).active
  <2>1. S(p) \in SlotType
    BY <1>1, SlotOf DEF S
  <2> QED BY <1>1, <1>2, <2>1, FieldSet
<1>13. /\ slot'[loc[p].i] = t /\ slot' \in [Slots -> SlotType]
       /\ \A i \in Slots : i # loc[p].i => slot'[i] = slot[i]
  BY <1>1, <1>3, <1>4 DEF Types
<1>5. Len(Fields) = 5
  BY DEF Fields
<1>6. Step(p, at, IF loc[p].k < 4 THEN at ELSE next)
  BY <1>1, <1>5 DEF Put
<1>7. loc' = [loc EXCEPT ![p] = [loc[p] EXCEPT !.k =
                                    IF @ < 4 THEN @ + 1 ELSE 0]]
  <2>1. (loc[p].k + 1) % 5 = IF loc[p].k < 4 THEN loc[p].k + 1 ELSE 0
    BY <1>1
  <2> QED BY <1>5, <2>1 DEF Put
<1>8. [loc[p] EXCEPT !.k = IF @ < 4 THEN @ + 1 ELSE 0] \in LocType
  <2>1. (IF k < 4 THEN k + 1 ELSE 0) \in 0 .. 4
    BY <1>1
  <2> QED BY <1>1, <2>1 DEF LocType
<1>9. UNCHANGED <<mem, free, flock, now, calls, since, must, may,
                  changing, calm, crashes>>
  BY DEF Put, count, truth, ghost
<1>10. pc' \in [Procs -> Labels] /\ loc' \in [Procs -> LocType] /\ Others(p)
  BY <1>6, <1>7, <1>8, Stepped, Moved DEF Others
<1>11. Types'
  BY <1>13, <1>9, <1>10 DEF Types, Truths
<1>12. /\ pc[p] = at
       /\ pc'[p] = IF loc[p].k < 4 THEN at ELSE next
       /\ loc'[p] = [loc[p] EXCEPT !.k = IF @ < 4 THEN @ + 1 ELSE 0]
  BY <1>6, <1>7, Stepped DEF Types
<1>14. S(p) = slot[y]
  BY DEF S
<1> QED BY <1>4, <1>9, <1>10, <1>11, <1>12, <1>13, <1>14 DEF PutEffect

\* A store to an entry.
LEMMA EntryShape ==
    ASSUME Types, NEW p \in Procs, NEW at, NEW j \in Entries, NEW new,
           NEW next, loc[p].slot.array \in Arrays,
           WriteEntry(p, at, j, new, next)
    PROVE  /\ pc[p] = at /\ pc'[p] = next /\ Others(p) /\ loc' = loc
           /\ mem'[loc[p].slot.array][j] = new
           /\ \A a \in Arrays, k \in Entries :
                 a # loc[p].slot.array \/ k # j => mem'[a][k] = mem[a][k]
           /\ UNCHANGED <<slot, free, flock, now, calls, changing, calm,
                          crashes>>
           /\ next \in Labels /\ new \in EntryType /\ Truths' => Types'
<1>1. /\ Step(p, at, next) /\ loc' = loc
      /\ mem' = [mem EXCEPT ![loc[p].slot.array][j] = new]
      /\ UNCHANGED <<slot, free, flock, now, calls, changing, calm, crashes>>
  BY DEF WriteEntry, count, ghost
<1>2. /\ mem'[loc[p].slot.array][j] = new
      /\ \A a \in Arrays, k \in Entries :
            a # loc[p].slot.array \/ k # j => mem'[a][k] = mem[a][k]
      /\ new \in EntryType => mem' \in [Arrays -> [Entries -> EntryType]]
  BY <1>1 DEF Types
<1>3. /\ pc[p] = at /\ pc'[p] = next /\ Others(p)
      /\ next \in Labels => pc' \in [Procs -> Labels]
  BY <1>1, Stepped DEF Others
<1>4. next \in Labels /\ new \in EntryType /\ Truths' => Types'
  BY <1>1, <1>2, <1>3 DEF Types
<1> QED BY <1>1, <1>2, <1>3, <1>4

\* A slot's version, stored; the slot begins or ends to change hands.
VerEffect(p, at, v, next, y) ==
    /\ pc[p] = at /\ pc'[p] = next /\ Others(p) /\ loc' = loc /\ Types'
    /\ slot'[y].ver = v
    /\ slot'[y].len = slot[y].len /\ slot'[y].name = slot[y].name
    /\ slot'[y].array = slot[y].array /\ slot'[y].count = slot[y].count
    /\ slot'[y].active = slot[y].active
    /\ \A i \in Slots : i # y => slot'[i] = slot[i]
    /\ UNCHANGED <<mem, free, flock, now, calls, since, must, may, crashes>>
    /\ changing' = ~changing /\ \A q \in Procs : ~calm'[q]

LEMMA VerShape ==
    ASSUME Types, NEW p \in Procs, NEW at, NEW v \in Nat, NEW next \in Labels,
           NEW y \in Slots, y = loc[p].i, GoEven(p, at, v, next)
    PROVE  VerEffect(p, at, v, next, y)
<1> DEFINE new == [S(p) EXCEPT !.ver = v]
<1>1. S(p) \in SlotType
  BY LocOf, SlotOf DEF S
<1>2. /\ new \in SlotType /\ new.ver = v /\ new.len = S(p).len
      /\ new.name = S(p).name /\ new.array = S(p).array
      /\ new.count = S(p).count /\ new.active = S(p).active
  BY <1>1 DEF SlotType
<1>3. WriteSlot(p, at, new, next) /\ Turn /\ UNCHANGED <<truth, crashes>>
  BY DEF GoEven
<1> HIDE DEF new
<1>4. /\ changing' = ~changing /\ changing' \in BOOLEAN
      /\ calm' \in [Procs -> BOOLEAN] /\ \A q \in Procs : calm'[q] = FALSE
      /\ UNCHANGED <<since, must, may, crashes>>
  BY <1>3 DEF Turn, truth, Types
<1>5. Truths' /\ crashes' \in Nat
  BY <1>4 DEF Types, Truths
<1>6. /\ pc[p] = at /\ pc'[p] = next /\ Others(p) /\ loc' = loc
      /\ slot'[loc[p].i] = new
      /\ \A i \in Slots : i # loc[p].i => slot'[i] = slot[i]
      /\ UNCHANGED <<mem, free, flock, now, calls>>
  BY <1>3, SlotShape
<1>7. Types'
  BY <1>2, <1>3, <1>4, <1>5, SlotShape
<1>8. S(p) = slot[y]
  BY DEF S
<1> QED BY <1>2, <1>4, <1>6, <1>7, <1>8 DEF VerEffect

LEMMA OddShape ==
    ASSUME NEW p, NEW at, NEW next, GoOdd(p, at, next)
    PROVE  GoEven(p, at, 1, next)
BY DEF GoOdd, GoEven

\* A store to a slot that does not change whose it is.
LEMMA StoreShape ==
    ASSUME Types, NEW p \in Procs, NEW at, NEW new \in SlotType,
           NEW next \in Labels, Store(p, at, new, next), Truths'
    PROVE  /\ pc[p] = at /\ pc'[p] = next /\ Others(p) /\ loc' = loc
           /\ slot'[loc[p].i] = new
           /\ \A i \in Slots : i # loc[p].i => slot'[i] = slot[i]
           /\ UNCHANGED <<mem, free, flock, now, calls, changing, calm,
                          crashes>>
           /\ Types'
<1>1. WriteSlot(p, at, new, next) /\ UNCHANGED <<changing, calm, crashes>>
  BY DEF Store, ghost
<1>2. /\ changing' \in BOOLEAN /\ calm' \in [Procs -> BOOLEAN]
      /\ crashes' \in Nat
  BY <1>1 DEF Types
<1>3. /\ pc[p] = at /\ pc'[p] = next /\ Others(p) /\ loc' = loc
      /\ slot'[loc[p].i] = new
      /\ \A i \in Slots : i # loc[p].i => slot'[i] = slot[i]
      /\ UNCHANGED <<mem, free, flock, now, calls>>
  BY <1>1, SlotShape
<1>4. Types'
  BY <1>1, <1>2, SlotShape
<1> QED BY <1>1, <1>3, <1>4

\* A call begins.
LEMMA BeginShape ==
    ASSUME Types, NEW p \in Procs, NEW g \in GroupNames, NEW c \in Halves,
           NEW next \in Labels, Begin(p, g, c, next)
    PROVE  /\ pc[p] = "idle" /\ pc'[p] = next /\ Others(p)
           /\ loc'[p] = [Idle EXCEPT !.group = g, !.chan = c]
           /\ loc'[p].group = g /\ loc'[p].chan = c /\ loc'[p].k = 0
           /\ loc'[p].i = 1 /\ loc'[p].j = 1 /\ loc'[p].out = {}
           /\ loc'[p].skipped = FALSE
           /\ pc' \in [Procs -> Labels] /\ loc' \in [Procs -> LocType]
<1> DEFINE new == [Idle EXCEPT !.group = g, !.chan = c]
<1>1. /\ new \in LocType /\ new.group = g /\ new.chan = c /\ new.k = 0
      /\ new.i = 1 /\ new.j = 1 /\ new.out = {} /\ new.skipped = FALSE
  <2>1. Idle \in LocType
    BY IdleType
  <2>2. /\ Idle.k = 0 /\ Idle.i = 1 /\ Idle.j = 1 /\ Idle.out = {}
        /\ Idle.skipped = FALSE
    BY DEF Idle
  <2> QED BY <2>1, <2>2 DEF LocType, Halves
<1>2. Step(p, "idle", next) /\ loc' = [loc EXCEPT ![p] = new]
  BY DEF Begin
<1> HIDE DEF new
<1>3. /\ pc[p] = "idle" /\ pc'[p] = next /\ pc' \in [Procs -> Labels]
      /\ \A q \in Procs \ {p} : pc'[q] = pc[q]
  BY <1>2, Stepped
<1>4. /\ loc'[p] = new /\ loc' \in [Procs -> LocType]
      /\ \A q \in Procs \ {p} : loc'[q] = loc[q]
  BY <1>1, <1>2, Moved
<1> QED BY <1>1, <1>3, <1>4 DEF Others, new

\* A call ends.
LEMMA EndShape ==
    ASSUME Types, NEW p \in Procs, NEW at, End(p, at), Truths'
    PROVE  /\ pc[p] = at /\ pc'[p] = "idle" /\ Others(p) /\ loc'[p] = Idle
           /\ flock' = IF flock = p THEN None ELSE flock
           /\ UNCHANGED <<slot, mem, free, now, calls, changing, crashes>>
           /\ calm'[p] = FALSE
           /\ \A q \in Procs \ {p} : calm'[q] = calm[q]
           /\ Types'
<1>1. /\ Step(p, at, "idle") /\ loc' = [loc EXCEPT ![p] = Idle]
      /\ flock' = IF flock = p THEN None ELSE flock
      /\ calm' = [calm EXCEPT ![p] = FALSE]
      /\ UNCHANGED <<slot, mem, free, now, calls, changing, crashes>>
  BY DEF End, shared, count
<1>2. /\ pc[p] = at /\ pc'[p] = "idle" /\ pc' \in [Procs -> Labels]
      /\ \A q \in Procs \ {p} : pc'[q] = pc[q]
  BY <1>1, Stepped DEF Labels
<1>3. /\ loc'[p] = Idle /\ loc' \in [Procs -> LocType]
      /\ \A q \in Procs \ {p} : loc'[q] = loc[q]
  BY <1>1, IdleType, Moved
<1>4. /\ calm' \in [Procs -> BOOLEAN] /\ calm'[p] = FALSE
      /\ \A q \in Procs \ {p} : calm'[q] = calm[q]
  BY <1>1 DEF Types
<1>5. Types'
  BY <1>1, <1>2, <1>3, <1>4 DEF Types
<1> QED BY <1>1, <1>2, <1>3, <1>4, <1>5 DEF Others

-----------------------------------------------------------------------------
(* First, and who holds the flock.                                          *)

Less == {ss \in Nat \X Nat : ss[1] < ss[2]}

LEMMA FirstOf ==
    ASSUME NEW X, X \subseteq Nat, X # {}
    PROVE  First(X) \in X /\ \A y \in X : First(X) <= y
<1>1. IsWellFoundedOn(Less, Nat)
  BY NatLessThanWellFounded DEF OpToRel, Less
<1>2. \E x \in X : \A y \in X : <<y, x>> \notin Less
  BY <1>1, WFMin
<1>3. PICK x \in X : \A y \in X : <<y, x>> \notin Less
  BY <1>2
<1>4. ASSUME NEW y \in X PROVE x <= y
  <2>1. x \in Nat /\ y \in Nat /\ ~(y < x)
    BY <1>3 DEF Less
  <2> QED BY <2>1
<1> QED BY <1>4 DEF First

LEMMA FirstSlot ==
    ASSUME NEW X \in SUBSET Slots, X # {}
    PROVE  First(X) \in X /\ First(X) \in Slots /\ \A y \in X : First(X) <= y
<1>1. X \subseteq Nat
  BY DEF Slots
<1> QED BY <1>1, FirstOf

LEMMA FirstEntry ==
    ASSUME NEW X \in SUBSET Entries, X # {}
    PROVE  First(X) \in X /\ First(X) \in Entries
<1>1. X \subseteq Nat
  BY DEF Entries
<1> QED BY <1>1, FirstOf

LEMMA Holder ==
    ASSUME NEW p \in Procs, flock = p
    PROVE  /\ flock # None
           /\ \A i, L : HolderAt(i, L) <=> pc[p] \in L /\ loc[p].i = i
BY GroupsAssumption DEF HolderAt, At

LEMMA HolderNext ==
    ASSUME NEW p \in Procs, flock' = p
    PROVE  /\ flock' # None
           /\ \A i, L : HolderAt(i, L)' <=> pc'[p] \in L /\ loc'[p].i = i
BY GroupsAssumption DEF HolderAt, At

LEMMA NoHolder ==
    ASSUME flock = None
    PROVE  \A i, L : ~HolderAt(i, L)
BY DEF HolderAt

LEMMA NoHolderNext ==
    ASSUME flock' = None
    PROVE  \A i, L : ~HolderAt(i, L)'
BY DEF HolderAt

\* The labels of the holder and the others.
LEMMA Busy ==
    ASSUME Types, Desk, NEW p \in Procs
    PROVE  /\ pc[p] \in Working => flock = p
           /\ \A q \in Procs \ {p} : flock = p => pc[q] \notin Working
           /\ flock = None => pc[p] \notin Working
BY GroupsAssumption DEF Desk

\* Desk, from what the process that moves does to itself.
LEMMA DeskKept ==
    ASSUME Types, Desk, NEW p \in Procs, Others(p),
           \/ flock' = flock /\ (pc'[p] \in Working <=> pc[p] \in Working)
           \/ flock = None /\ flock' = p /\ pc'[p] \in Working
           \/ flock = p /\ flock' = None /\ pc'[p] \notin Working,
           Local(p)',
           IF pc[p] \in Working \/ pc'[p] \in Working
             THEN changing' <=> pc'[p] \in Changing
             ELSE changing' = changing,
           \A q \in Procs : calm'[q] => ~changing'
    PROVE  Desk'
<1>1. \A q \in Procs \ {p} : pc'[q] = pc[q] /\ loc'[q] = loc[q]
  BY DEF Others
<1>2. \A q \in Procs : pc'[q] \in Working <=> flock' = q
  BY <1>1, GroupsAssumption DEF Desk
<1>3. \A q \in Procs : Local(q)'
  BY <1>1 DEF Desk, Local
<1>4. changing' <=> flock' # None /\ pc'[flock'] \in Changing
  <2>1. Changing \subseteq Working
    BY DEF Changing, Working, Adding, Repairing, Writing, Flushing
  <2>2. CASE pc[p] \in Working \/ pc'[p] \in Working
    <3>1. flock' \in {p, None} /\ (flock' = p <=> pc'[p] \in Working)
      BY <1>2, <2>2, GroupsAssumption DEF Desk
    <3> QED BY <2>1, <2>2, <3>1, GroupsAssumption
  <2>3. CASE ~(pc[p] \in Working \/ pc'[p] \in Working)
    <3>1. flock' = flock /\ flock # p /\ changing' = changing
      BY <2>3 DEF Desk
    <3>2. flock # None => flock \in Procs \ {p}
      BY <3>1 DEF Types
    <3> QED BY <1>1, <3>1, <3>2 DEF Desk
  <2> QED BY <2>2, <2>3
<1> QED BY <1>2, <1>3, <1>4 DEF Desk

-----------------------------------------------------------------------------
(* Steps of the processes that do not hold the flock, and the clock's.      *)

\* Nobody stores anything, the flock's holder does not move.
Still ==
    /\ UNCHANGED <<slot, mem, free, flock, calls, since, crashes, changing>>
    /\ now <= now'
    /\ \A q \in Procs : pc[q] \in Working \/ pc'[q] \in Working =>
            pc'[q] = pc[q] /\ loc'[q] = loc[q]

LEMMA StillHolder ==
    ASSUME Types, Desk, Still
    PROVE  /\ \A i \in Slots, L \in SUBSET Working :
                    HolderAt(i, L)' <=> HolderAt(i, L)
           /\ \A i \in Slots : Odd(i)' <=> Odd(i)
           /\ \A i \in Slots : Held(i)' <=> Held(i)
<1>1. flock # None => /\ flock \in Procs /\ pc[flock] \in Working
                      /\ pc'[flock] = pc[flock] /\ loc'[flock] = loc[flock]
  BY DEF Types, Desk, Still
<1>2. ASSUME NEW i \in Slots, NEW L \in SUBSET Working
      PROVE  HolderAt(i, L)' <=> HolderAt(i, L)
  BY <1>1 DEF HolderAt, At, Still
<1>3. Bumped \in SUBSET Working
  BY DEF Bumped, Working, Adding, Joining, Counted, Discarding, Leaving
<1>4. \A i \in Slots : Odd(i)' <=> Odd(i)
  BY DEF Still, Odd
<1>5. \A i \in Slots : Held(i)' <=> Held(i)
  BY <1>2, <1>3, <1>4 DEF Held, Still
<1> QED BY <1>2, <1>4, <1>5

LEMMA StillHome ==
    ASSUME Types, Desk, Still
    PROVE  \A g \in GroupNames, c \in Channels, k \in Slots, j \in Entries :
                Home(g, c, k, j)' <=> Home(g, c, k, j)
<1>1. \A k \in Slots : Held(k)' <=> Held(k)
  BY StillHolder
<1> QED BY <1>1 DEF Home, Still, In, Entry

LEMMA StillIndex ==
    ASSUME Types, Desk, Index, Still
    PROVE  Index'
<1>1. \A i \in Slots : (Odd(i)' <=> Odd(i)) /\ (Held(i)' <=> Held(i))
  BY StillHolder
<1>2. \A i \in Slots : Pointer(i)'
  BY <1>1 DEF Index, Pointer, Still
<1>3. \A i, k \in Slots : i # k => Apart(i, k)'
  BY <1>1 DEF Index, Apart, Still
<1>4. Bumped \cup {"w", "w_even"} \in SUBSET Working
  BY DEF Bumped, Working, Adding, Joining, Counted, Discarding, Leaving,
         Writing
<1>5. \A i \in Slots : HolderAt(i, Bumped \cup {"w", "w_even"}) =>
                            HolderAt(i, Bumped \cup {"w", "w_even"})'
  BY <1>4, StillHolder
<1> QED BY <1>1, <1>2, <1>3, <1>5 DEF Index, Still

LEMMA StillRolls ==
    ASSUME Types, Desk, Rolls, Still, Types'
    PROVE  Rolls'
<1>1. \A i \in Slots : Held(i)' <=> Held(i)
  BY StillHolder
<1>2. ASSUME NEW i \in Slots, Listed(i) PROVE Listed(i)'
  BY <1>2 DEF Listed, In, Entry, Still
<1>3. ASSUME NEW i \in Slots, Covered(i) PROVE Covered(i)'
  <2>1. /\ {"d_odd", "d_count"} \in SUBSET Working
        /\ {"e_odd", "e_count"} \in SUBSET Working
    BY DEF Working, Adding, Joining, Counted, Discarding, Leaving
  <2>2. /\ HolderAt(i, {"d_odd", "d_count"})' <=>
                HolderAt(i, {"d_odd", "d_count"})
        /\ HolderAt(i, {"e_odd", "e_count"})' <=>
                HolderAt(i, {"e_odd", "e_count"})
    BY <2>1, StillHolder
  <2>3. /\ One(HolderAt(i, {"d_odd", "d_count"}))' =
                One(HolderAt(i, {"d_odd", "d_count"}))
        /\ One(HolderAt(i, {"e_odd", "e_count"}))' =
                One(HolderAt(i, {"e_odd", "e_count"}))
    BY <2>2 DEF One
  <2>4. In(slot[i].array)' = In(slot[i].array) /\ crashes' = crashes
        /\ slot'[i].count = slot[i].count
    BY DEF Still, In
  <2> QED BY <1>3, <2>3, <2>4 DEF Covered
<1>4. \A g \in GroupNames, c \in Channels, k \in Slots, j \in Entries :
            Home(g, c, k, j)' <=> Home(g, c, k, j)
  BY StillHome
<1>5. \A a \in Arrays, j \in Entries : mem'[a][j].time <= now'
  <2> SUFFICES ASSUME NEW a \in Arrays, NEW j \in Entries
               PROVE  mem'[a][j].time <= now'
    OBVIOUS
  <2>1. mem'[a][j].time = mem[a][j].time /\ mem[a][j].time <= now
    BY DEF Rolls, Still
  <2>2. mem[a][j].time \in Int /\ now \in Int /\ now' \in Int
    <3>1. mem[a][j].time \in 0 .. MaxTime
      BY EntryOf
    <3> QED BY <3>1, GroupsAssumption DEF Types
  <2> QED BY <2>1, <2>2 DEF Still
<1> QED BY <1>1, <1>2, <1>3, <1>4, <1>5 DEF Rolls, Still

LEMMA StillBudget ==
    ASSUME Types, Desk, Still, NEW i \in Slots, Budget(i)
    PROVE  Budget(i)'
<1>1. flock # None => pc'[flock] = pc[flock]
  BY DEF Types, Desk, Still
<1>2. Due' = Due
  BY <1>1 DEF Due, Still
<1> QED BY <1>1, <1>2 DEF Budget, Still

LEMMA StillWork ==
    ASSUME Types, Types', Still, NEW q \in Procs, Work(q), Local(q),
           pc'[q] = pc[q] /\ loc'[q] = loc[q]
    PROVE  Work(q)'
<1>1. /\ S(q)' = S(q) /\ A(q)' = A(q) /\ Fresh(q)' = Fresh(q)
      /\ Active(q)' = Active(q) /\ Mine(q)' = Mine(q)
      /\ Stale(q)' = Stale(q) /\ Blank(q)' = Blank(q)
  BY DEF S, A, Fresh, Active, Mine, Stale, Blank, Still
<1>2. /\ \A i \in Slots : Odd(i)' <=> Odd(i)
      /\ \A i \in Slots : Hit(i, loc[q].group)' <=> Hit(i, loc[q].group)
      /\ \A a \in Arrays : In(a)' = In(a)
      /\ \A i \in Slots : Empty(i)' <=> Empty(i)
  BY DEF Odd, Hit, In, Empty, Still
<1>3. loc[q].i \in Slots
  BY LocOf
<1>4. Repairs(q)'
  BY <1>1, <1>2, <1>3 DEF Work, Repairs, Still
<1>5. Creates(q)'
  <2>1. CASE pc[q] \in Writing
    <3>1. Creates(q)
      BY DEF Work
    <3>2. Fresh(q) \in Arrays
      BY <2>1, <3>1 DEF Creates
    <3>3. In(Fresh(q))' = In(Fresh(q))
      BY DEF In, Still, Fresh
    <3>4. \A k \in Slots : slot'[k] = slot[k]
      BY DEF Still
    <3> QED BY <1>1, <1>2, <1>3, <2>1, <3>1, <3>3, <3>4 DEF Creates, Still
  <2>2. CASE pc[q] \notin Writing
    BY <2>2 DEF Creates
  <2> QED BY <2>1, <2>2
<1>6. Joins(q)'
  <2>1. Joins(q)
    BY DEF Work
  <2>2. loc[q].now \in Int /\ now \in Int /\ now' \in Int
    BY LocOf, GroupsAssumption DEF Types
  <2>3. \A a \in Arrays, j \in Entries : mem'[a][j].time = mem[a][j].time
    BY DEF Still
  <2>4. In(S(q).array)' = In(S(q).array)
    BY DEF In, S, Still
  <2>5. AtSlot(q)' <=> AtSlot(q)
    BY <1>1, <1>2, <1>3 DEF AtSlot
  <2>6. /\ pc[q] \in Joining => AtSlot(q)' /\ S(q)'.active
        /\ pc[q] \in {"a_entry"} \cup Counted =>
              /\ loc[q].now <= now'
              /\ \A a \in Arrays, j \in Entries : mem'[a][j].time <= loc[q].now
    BY <1>1, <2>1, <2>2, <2>3, <2>5 DEF Joins, Still
  <2>7. pc[q] = "a_entry" /\ loc[q].k > 0 =>
          /\ Stale(q) = {} /\ Mine(q) = {} /\ Active(q) # Entries
          /\ A(q)[Blank(q)].first = loc[q].chan
          /\ loc[q].k > 1 => A(q)[Blank(q)].second = loc[q].chan
          /\ loc[q].k > 2 => A(q)[Blank(q)].time = loc[q].now
    BY <2>1 DEF Joins
  <2>8. /\ pc[q] \in Counted => \E j \in In(S(q).array) :
              A(q)[j].first = loc[q].chan /\ A(q)[j].time = loc[q].now
        /\ pc[q] \in Counted /\ crashes' = 0 =>
              since'[<<loc[q].group, loc[q].chan>>] = Unsure
        /\ pc[q] \in Adding => since'[<<loc[q].group, loc[q].chan>>] # Out
    BY <2>1 DEF Joins, Still
  <2> QED BY <1>1, <2>4, <2>6, <2>7, <2>8 DEF Joins, Still
<1>7. Leaves(q)'
  <2>1. AtSlot(q)' <=> AtSlot(q)
    BY <1>1, <1>2, <1>3 DEF AtSlot
  <2>2. Named(loc[q].group)' = Named(loc[q].group)
    BY DEF Named, Odd, Still
  <2> QED BY <2>1, <2>2 DEF Work, Leaves, Still
<1>8. Flushes(q)'
  BY <1>1, <1>2 DEF Work, Flushes, Still
<1> QED BY <1>4, <1>5, <1>6, <1>7, <1>8 DEF Work

\* What the labels have in common.
LEMMA NotWorking ==
    ASSUME NEW x, x \notin Working
    PROVE  /\ x \notin Repairing /\ x \notin Writing /\ x \notin Joining
           /\ x \notin Counted /\ x \notin Adding /\ x \notin Leaving
           /\ x \notin Discarding /\ x \notin Flushing /\ x \notin Changing
           /\ x \notin Bumped /\ x # "a_entry" /\ x # "d_entry"
BY DEF Working, Adding, Repairing, Writing, Joining, Counted, Discarding,
       Leaving, Flushing, Changing, Bumped

LEMMA IdleWork ==
    ASSUME NEW q \in Procs, pc'[q] \notin Working
    PROVE  Work(q)'
BY NotWorking DEF Work, Repairs, Creates, Joins, Leaves, Flushes, Repairing,
              Writing

\* Nothing happens to the lock's holder: what a reader, or the clock, does.
LEMMA Quiet ==
    ASSUME IInv, Still, Types',
           \A q \in Procs : calm'[q] => ~changing,
           \A q \in Procs :
              \/ pc'[q] = pc[q] /\ loc'[q] = loc[q] /\ must'[q] = must[q]
                    /\ may'[q] = may[q] /\ calm'[q] = calm[q]
              \/ Local(q)' /\ Ghosts(q)' /\ Reading(q)'
    PROVE  IInv'
<1>1. Types /\ Desk /\ Index /\ Rolls
  BY DEF IInv
<1>2. Desk'
  <2>1. \A q \in Procs : pc'[q] \in Working <=> flock' = q
    BY <1>1 DEF Desk, Still
  <2>2. ASSUME NEW q \in Procs PROVE Local(q)'
    <3>1. CASE pc'[q] = pc[q] /\ loc'[q] = loc[q]
      BY <1>1, <3>1 DEF Desk, Local
    <3> QED BY <3>1
  <2>3. changing' <=> flock' # None /\ pc'[flock'] \in Changing
    <3>1. flock # None => pc'[flock] = pc[flock]
      BY <1>1 DEF Types, Desk, Still
    <3> QED BY <1>1, <3>1 DEF Desk, Still
  <2> QED BY <2>1, <2>2, <2>3 DEF Desk, Still
<1>3. Index' /\ Rolls'
  BY <1>1, StillIndex, StillRolls
<1>4. \A i \in Slots : Budget(i)'
  BY <1>1, StillBudget DEF IInv
<1>5. ASSUME NEW q \in Procs PROVE Work(q)'
  <2>1. CASE pc'[q] \notin Working
    BY <2>1, IdleWork
  <2>2. CASE pc'[q] \in Working
    <3>1. pc'[q] = pc[q] /\ loc'[q] = loc[q]
      BY <2>2 DEF Still
    <3> QED BY <1>1, <3>1, StillWork DEF IInv, Desk
  <2> QED BY <2>1, <2>2
<1>6. ASSUME NEW q \in Procs PROVE Ghosts(q)' /\ Reading(q)'
  <2>1. CASE pc'[q] = pc[q] /\ loc'[q] = loc[q] /\ must'[q] = must[q]
                /\ may'[q] = may[q] /\ calm'[q] = calm[q]
    <3>1. Ghosts(q) /\ Reading(q)
      BY DEF IInv
    <3>2. Ghosts(q)'
      BY <2>1, <3>1 DEF Ghosts, Still
    <3>3. S(q)' = S(q) /\ A(q)' = A(q)
      BY <2>1 DEF S, A, Still
    <3>4. Firsts(q, loc[q].i)' <=> Firsts(q, loc[q].i)
      BY <2>1 DEF Firsts, In, Entry, Still
    <3>5. calm'[q] => Calmly(q)'
      BY <2>1, <3>1, <3>3, <3>4 DEF Reading, Calmly
    <3>6. pc[q] \in Getting /\ crashes = 0 /\ ~loc[q].skipped =>
                \A c \in must[q] : Expects(q, c)'
      <4> SUFFICES ASSUME pc[q] \in Getting, crashes = 0, ~loc[q].skipped,
                          NEW c \in must[q]
                   PROVE  Expects(q, c)'
        OBVIOUS
      <4>1. PICK k \in Slots, j \in Entries :
                Home(loc[q].group, c, k, j) /\ Ahead(q, c, k, j)
        BY <3>1 DEF Reading, Expects
      <4>2. c \in Channels /\ loc[q].group \in GroupNames
        BY <1>1 DEF Types, Truths, Desk, Local
      <4>3. Home(loc[q].group, c, k, j)'
        <5>1. \A g \in GroupNames, d \in Channels, x \in Slots, y \in Entries :
                  Home(g, d, x, y)' <=> Home(g, d, x, y)
          BY <1>1, StillHome
        <5>2. PICK g \in GroupNames : g = loc[q].group
          BY <4>2
        <5>3. Home(g, c, k, j)'
          BY <4>1, <4>2, <5>1, <5>2
        <5> QED BY <2>1, <5>2, <5>3
      <4>4. Ahead(q, c, k, j)'
        BY <2>1, <3>3, <4>1 DEF Ahead, Still
      <4> QED BY <2>1, <4>3, <4>4 DEF Expects
    <3> QED BY <2>1, <3>2, <3>5, <3>6 DEF Reading, Still
  <2> QED BY <2>1
<1> QED BY <1>2, <1>3, <1>4, <1>5, <1>6 DEF IInv

LEMMA Getters ==
    /\ \A x \in Getting : /\ x \notin Working /\ x # "idle" /\ x \in Labels
                          /\ x \notin {"r", "w", "f", "a_entry"}
    /\ Lookups \subseteq Getting /\ Listing \subseteq Getting
    /\ "done" \in Getting /\ "done" \notin Lookups \cup Listing
    /\ \A x \in Lookups : x \notin Listing
BY DEF Getting, Lookups, Listing, Working, Labels, Adding, Repairing, Writing,
       Joining, Counted, Discarding, Leaving, Flushing

\* A step of a get_members that reads.
LEMMA ReadStep ==
    ASSUME IInv, NEW p \in Procs, NEW at \in Getting, NEW next \in Getting,
           NEW new \in LocType, Read(p, at, new, next),
           new.group = loc[p].group, new.k = 0, next \in Lookups => new.j = 1,
           next \in {"m_time", "m_first", "m_second"} =>
                new.slot.array \in Arrays,
           calm[p] => Calmly(p)', ~new.skipped => ~loc[p].skipped,
           \A c \in must[p], k \in Slots, j \in Entries :
              crashes = 0 /\ ~new.skipped /\ Home(loc[p].group, c, k, j)
                /\ Ahead(p, c, k, j) => Ahead(p, c, k, j)'
    PROVE  IInv'
<1>1. Types /\ Desk
  BY DEF IInv
<1>2. /\ pc[p] = at /\ pc'[p] = next /\ loc'[p] = new
      /\ \A q \in Procs \ {p} : pc'[q] = pc[q] /\ loc'[q] = loc[q]
      /\ UNCHANGED <<slot, mem, free, flock, now, calls, since, must, may,
                     changing, calm, crashes>>
      /\ Types'
  BY <1>1, ReadShape, Getters DEF Others
<1>3. Still
  <2>1. now <= now'
    BY <1>1, <1>2, GroupsAssumption DEF Types
  <2>2. pc[p] \notin Working /\ pc'[p] \notin Working
    BY <1>2, Getters
  <2> QED BY <1>2, <2>1, <2>2 DEF Still
<1>4. Local(p)'
  <2>1. loc[p].group \in GroupNames
    BY <1>1, <1>2 DEF Desk, Local
  <2>2. next \notin Adding \cup Discarding
    BY Getters DEF Working
  <2> QED BY <1>2, <2>1, <2>2, Getters DEF Local
<1>5. Ghosts(p)'
  BY <1>2 DEF IInv, Ghosts
<1>6. Reading(p)'
  <2>1. ASSUME crashes = 0, ~new.skipped, NEW c \in must[p]
        PROVE  Expects(p, c)'
    <3>1. PICK k \in Slots, j \in Entries :
              Home(loc[p].group, c, k, j) /\ Ahead(p, c, k, j)
      BY <1>2, <2>1 DEF IInv, Reading, Expects
    <3>2. Ahead(p, c, k, j)'
      BY <2>1, <3>1
    <3>3. Home(loc[p].group, c, k, j)'
      <4>1. PICK g \in GroupNames : g = loc[p].group
        BY <1>1, <1>2 DEF Desk, Local
      <4>2. c \in Channels
        BY <1>1 DEF Types, Truths
      <4>3. Home(g, c, k, j)'
        BY <1>1, <1>3, <3>1, <4>1, <4>2, StillHome
      <4> QED BY <1>2, <4>1, <4>3
    <3> QED BY <3>2, <3>3 DEF Expects
  <2> QED BY <1>2, <2>1 DEF Reading
<1>7. \A q \in Procs : calm'[q] => ~changing
  BY <1>1, <1>2 DEF Desk
<1> QED BY <1>2, <1>3, <1>4, <1>5, <1>6, <1>7, Quiet

\* The call has its answer.
LEMMA DoneStep ==
    ASSUME IInv, NEW p \in Procs, NEW at \in Getting,
           NEW out \in SUBSET (Halves \X Halves), NEW skipped \in BOOLEAN,
           Done(p, at, out, skipped), ~skipped => ~loc[p].skipped,
           calm[p] => \A x \in out : x[1] \in may[p],
           \A c \in must[p], k \in Slots, j \in Entries :
              crashes = 0 /\ ~skipped /\ Home(loc[p].group, c, k, j)
                /\ Ahead(p, c, k, j) => <<c, c>> \in out
    PROVE  IInv'
<1> DEFINE new == [Idle EXCEPT !.group = loc[p].group, !.out = out,
                               !.skipped = skipped]
<1>1. /\ new \in LocType /\ new.group = loc[p].group /\ new.k = 0
      /\ new.out = out /\ new.skipped = skipped
  <2>1. loc[p].group \in GroupNames \cup {None}
    BY LocOf DEF IInv
  <2>2. Idle \in LocType /\ Idle.k = 0
    BY IdleType DEF Idle
  <2> QED BY <2>1, <2>2 DEF LocType
<1>2. Read(p, at, new, "done")
  BY DEF Done
<1> HIDE DEF new
<1>3. pc'[p] = "done" /\ loc'[p] = new /\ UNCHANGED <<slot, mem, may>>
  BY <1>2, ReadShape DEF IInv
<1>4. calm[p] => Calmly(p)'
  BY <1>1, <1>3 DEF Calmly, Checked, Lookups, Listing
<1>5. \A c \in must[p], k \in Slots, j \in Entries :
         crashes = 0 /\ ~new.skipped /\ Home(loc[p].group, c, k, j)
            /\ Ahead(p, c, k, j) => Ahead(p, c, k, j)'
  BY <1>1, <1>3 DEF Ahead, Checked, Lookups, Listing
<1> QED BY <1>1, <1>2, <1>4, <1>5, Getters, ReadStep

\* The lookup goes on to the next slot.
LEMMA NextSlotStep ==
    ASSUME IInv, NEW p \in Procs, NEW at \in Lookups, NEW skipped \in BOOLEAN,
           NextSlot(p, at, skipped), ~skipped => ~loc[p].skipped,
           \A c \in must[p], k \in Slots, j \in Entries :
              crashes = 0 /\ ~skipped /\ Home(loc[p].group, c, k, j)
                /\ Ahead(p, c, k, j) => loc[p].i < k
    PROVE  IInv'
<1>1. at \in Getting
  BY Getters
<1>2. CASE loc[p].i < NumSlots
  <2> DEFINE new == [loc[p] EXCEPT !.i = @ + 1, !.slot = Unused,
                                   !.skipped = skipped]
  <2>1. Read(p, at, new, "l_len")
    BY <1>2 DEF NextSlot
  <2>2. pc[p] = at /\ loc[p].k = 0 /\ loc[p].j = 1
    <3>1. pc[p] = at
      BY <2>1, ReadShape DEF IInv
    <3> QED BY <1>1, <3>1, Getters DEF IInv, Desk, Local
  <2>3. /\ new \in LocType /\ new.group = loc[p].group /\ new.k = 0
        /\ new.j = 1 /\ new.i = loc[p].i + 1 /\ new.skipped = skipped
        /\ new.out = loc[p].out
    <3>1. loc[p] \in LocType /\ loc[p].i \in Slots
      BY LocOf DEF IInv
    <3>2. loc[p].i + 1 \in Slots
      BY <1>2, <3>1, GroupsAssumption DEF Slots
    <3> QED BY <2>2, <3>1, <3>2, UnusedType DEF LocType
  <2> HIDE DEF new
  <2>4. pc'[p] = "l_len" /\ loc'[p] = new /\ UNCHANGED <<slot, mem, may>>
    BY <2>1, ReadShape DEF IInv
  <2>5. calm[p] => Calmly(p)'
    <3>1. calm[p] => loc[p].out = {}
      BY <2>2 DEF IInv, Reading, Calmly
    <3> QED BY <2>3, <2>4, <3>1 DEF Calmly, Checked, Lookups, Listing
  <2>6. \A c \in must[p], k \in Slots, j \in Entries :
           crashes = 0 /\ ~new.skipped /\ Home(loc[p].group, c, k, j)
              /\ Ahead(p, c, k, j) => Ahead(p, c, k, j)'
    <3> SUFFICES ASSUME NEW c \in must[p], NEW k \in Slots, NEW j \in Entries,
                        loc[p].i < k
                 PROVE  Ahead(p, c, k, j)'
      BY <2>3
    <3>1. new.i <= k
      <4>1. loc[p].i \in Int /\ k \in Int
        BY LocOf DEF IInv, Slots
      <4> QED BY <2>3, <4>1
    <3> QED BY <2>4, <3>1 DEF Ahead, Checked, Lookups, Listing
  <2>7. "l_len" \in Getting
    BY DEF Getting, Lookups
  <2> QED BY <1>1, <2>1, <2>3, <2>5, <2>6, <2>7, ReadStep
<1>3. CASE ~(loc[p].i < NumSlots)
  <2>1. Done(p, at, {}, skipped)
    BY <1>3 DEF NextSlot
  <2>2. \A k \in Slots : ~(loc[p].i < k)
    BY <1>3, LocOf, GroupsAssumption DEF IInv, Slots
  <2> QED BY <1>1, <2>1, <2>2, DoneStep
<1> QED BY <1>2, <1>3

\* The listing goes on to the next entry.
LEMMA NextEntryStep ==
    ASSUME IInv, NEW p \in Procs, NEW at \in Listing,
           NEW out \in SUBSET (Halves \X Halves), NextEntry(p, at, out),
           calm[p] => \A x \in out : x[1] \in may[p],
           \A c \in must[p], k \in Slots, j \in Entries :
              crashes = 0 /\ ~loc[p].skipped /\ Home(loc[p].group, c, k, j)
                /\ Ahead(p, c, k, j) => <<c, c>> \in out \/ loc[p].j < j
    PROVE  IInv'
<1>1. at \in Getting
  BY Getters
<1>2. CASE loc[p].j < NumMembers
  <2> DEFINE new == [loc[p] EXCEPT !.j = @ + 1, !.out = out, !.first = None]
  <2>1. Read(p, at, new, "m_active")
    BY <1>2 DEF NextEntry
  <2>2. pc[p] = at /\ loc[p].k = 0
    <3>1. pc[p] = at
      BY <2>1, ReadShape DEF IInv
    <3> QED BY <1>1, <3>1, Getters DEF IInv, Desk, Local
  <2>3. /\ new \in LocType /\ new.group = loc[p].group /\ new.k = 0
        /\ new.j = loc[p].j + 1 /\ new.skipped = loc[p].skipped
        /\ new.out = out /\ new.i = loc[p].i /\ new.slot = loc[p].slot
        /\ new.now = loc[p].now
    <3>1. loc[p] \in LocType /\ loc[p].j \in Entries
      BY LocOf DEF IInv
    <3>2. loc[p].j + 1 \in Entries
      BY <1>2, <3>1, GroupsAssumption DEF Entries
    <3>3. None \in Halves
      BY DEF Halves
    <3> QED BY <2>2, <3>1, <3>2, <3>3 DEF LocType
  <2> HIDE DEF new
  <2>4. /\ pc'[p] = "m_active" /\ loc'[p] = new
        /\ UNCHANGED <<slot, mem, may, since>>
    BY <2>1, ReadShape DEF IInv
  <2>5. calm[p] => Calmly(p)'
    <3> SUFFICES ASSUME calm[p] PROVE Calmly(p)'
      OBVIOUS
    <3>1. Calmly(p)
      BY DEF IInv, Reading
    <3>2. S(p)' = S(p)
      BY <2>3, <2>4 DEF S
    <3>3. Firsts(p, loc[p].i)' <=> Firsts(p, loc[p].i)
      BY <2>3, <2>4 DEF Firsts, In, Entry
    <3>4. /\ S(p).name = loc[p].group /\ S(p).array \in Arrays
          /\ loc[p].slot.array = S(p).array /\ Firsts(p, loc[p].i)
      BY <2>2, <3>1 DEF Calmly
    <3> QED BY <2>3, <2>4, <3>2, <3>3, <3>4 DEF Calmly, Checked, Lookups
  <2>6. \A c \in must[p], k \in Slots, j \in Entries :
           crashes = 0 /\ ~new.skipped /\ Home(loc[p].group, c, k, j)
              /\ Ahead(p, c, k, j) => Ahead(p, c, k, j)'
    <3> SUFFICES ASSUME NEW c \in must[p], NEW k \in Slots, NEW j \in Entries,
                        Ahead(p, c, k, j), <<c, c>> \in out \/ loc[p].j < j
                 PROVE  Ahead(p, c, k, j)'
      BY <2>3
    <3>1. <<c, c>> \in new.out \/ new.j <= j
      <4>1. loc[p].j \in Int /\ j \in Int
        BY LocOf DEF IInv, Entries
      <4> QED BY <2>3, <4>1
    <3>2. /\ loc[p].i = k /\ loc[p].slot.array = slot[k].array
          /\ loc[p].now <= since[<<loc[p].group, c>>] + Expiry
      BY <2>2 DEF Ahead
    <3> QED BY <2>3, <2>4, <3>1, <3>2 DEF Ahead, Checked, Lookups
  <2>7. "m_active" \in Getting /\ "m_active" \notin Lookups
    BY DEF Getting, Lookups, Listing
  <2> QED BY <1>1, <2>1, <2>3, <2>5, <2>6, <2>7, ReadStep
<1>3. CASE ~(loc[p].j < NumMembers)
  <2>1. Done(p, at, out, loc[p].skipped)
    BY <1>3 DEF NextEntry
  <2>2. \A j \in Entries : ~(loc[p].j < j)
    BY <1>3, LocOf, GroupsAssumption DEF IInv, Entries
  <2>3. loc[p].skipped \in BOOLEAN
    BY LocOf DEF IInv
  <2> QED BY <1>1, <2>1, <2>2, <2>3, DoneStep
<1> QED BY <1>2, <1>3

\* A slot before the group's own does not lead to the group.
LEMMA NotBefore ==
    ASSUME Types, Index, NEW g, NEW c, NEW k \in Slots, NEW j,
           Home(g, c, k, j), NEW i \in Slots, i # k, i <= k, Held(i)
    PROVE  slot[i].name # g
<1>1. Apart(i, k)
  BY DEF Index
<1>2. i \in Int /\ k \in Int
  BY DEF Slots
<1> QED BY <1>1, <1>2 DEF Apart, Home

LEMMA EvenHeld ==
    ASSUME NEW i \in Slots, slot[i].len # 0, ~Odd(i)
    PROVE  Held(i)
BY DEF Held

LEMMA LookupLenStep ==
    ASSUME IInv, NEW p \in Procs, pc[p] = "l_len", LookupLen(p)
    PROVE  IInv'
<1>1. /\ loc[p] \in LocType /\ loc[p].skipped \in BOOLEAN
      /\ loc[p].k = 0 /\ loc[p].j = 1
  BY LocOf DEF IInv, Desk, Local, Lookups
<1>2. CASE S(p).len # 0
  <2>1. Read(p, "l_len", loc[p], "l_ver")
    BY <1>2 DEF LookupLen
  <2>2. pc'[p] = "l_ver" /\ loc'[p] = loc[p] /\ UNCHANGED <<slot, mem, may>>
    BY <2>1, ReadShape DEF IInv
  <2>3. calm[p] => Calmly(p)'
    <3>1. calm[p] => loc[p].out = {}
      BY DEF IInv, Reading, Calmly, Lookups
    <3> QED BY <1>2, <2>2, <3>1 DEF Calmly, Checked, Lookups, Listing, S
  <2>4. ASSUME NEW c \in must[p], NEW k \in Slots, NEW j \in Entries,
               Ahead(p, c, k, j)
        PROVE  Ahead(p, c, k, j)'
    <3>1. loc[p].i <= k
      BY <2>4 DEF Ahead, Lookups
    <3> QED BY <1>2, <2>2, <3>1 DEF Ahead, Checked, Lookups, Listing, S
  <2>5. "l_len" \in Getting /\ "l_ver" \in Getting
    BY DEF Getting, Lookups
  <2> QED BY <1>1, <2>1, <2>3, <2>4, <2>5, ReadStep
<1>3. CASE S(p).len = 0
  <2>1. NextSlot(p, "l_len", loc[p].skipped)
    BY <1>3 DEF LookupLen
  <2>2. ASSUME NEW c \in must[p], NEW k \in Slots, NEW j \in Entries,
               Home(loc[p].group, c, k, j), Ahead(p, c, k, j)
        PROVE  loc[p].i < k
    <3>1. loc[p].i <= k /\ loc[p].i # k
      BY <1>3, <2>2 DEF Ahead, Lookups, Home, Held, S
    <3> QED BY <3>1, LocOf DEF IInv, Slots
  <2>3. "l_len" \in Lookups
    BY DEF Lookups
  <2> QED BY <1>1, <2>1, <2>2, <2>3, NextSlotStep
<1> QED BY <1>2, <1>3

LEMMA LookupVersionStep ==
    ASSUME IInv, NEW p \in Procs, pc[p] = "l_ver", LookupVersion(p)
    PROVE  IInv'
<1>1. /\ loc[p] \in LocType /\ loc[p].skipped \in BOOLEAN /\ loc[p].i \in Slots
      /\ loc[p].k = 0 /\ loc[p].j = 1
  BY LocOf DEF IInv, Desk, Local, Lookups
<1>2. CASE ~Odd(loc[p].i)
  <2> DEFINE new == [loc[p] EXCEPT !.slot.ver = S(p).ver]
  <2>1. Read(p, "l_ver", new, "l_name")
    BY <1>2 DEF LookupVersion
  <2>2. /\ new \in LocType /\ new.group = loc[p].group /\ new.k = 0
        /\ new.j = 1 /\ new.skipped = loc[p].skipped /\ new.out = loc[p].out
        /\ new.i = loc[p].i /\ new.slot.ver = S(p).ver
    <3>1. loc[p].slot \in SlotType /\ S(p).ver \in Nat
      BY <1>1, LocOf, SlotOf DEF IInv, S
    <3>2. new = [loc[p] EXCEPT !.slot = [loc[p].slot EXCEPT !.ver = S(p).ver]]
      BY <1>1 DEF LocType
    <3>3. [loc[p].slot EXCEPT !.ver = S(p).ver] \in SlotType
      BY <3>1, SlotSet
    <3>4. [loc[p].slot EXCEPT !.ver = S(p).ver].ver = S(p).ver
      BY <3>1 DEF SlotType
    <3> QED BY <1>1, <3>2, <3>3, <3>4 DEF LocType
  <2> HIDE DEF new
  <2>3. pc'[p] = "l_name" /\ loc'[p] = new /\ UNCHANGED <<slot, mem, may>>
    BY <2>1, ReadShape DEF IInv
  <2>4. calm[p] => Calmly(p)'
    <3>1. calm[p] => loc[p].out = {} /\ S(p).len # 0
      BY DEF IInv, Reading, Calmly, Lookups
    <3>2. new.slot.ver % 2 = 0
      BY <1>1, <1>2, <2>2, SlotOf DEF Odd, S, IInv
    <3> QED BY <2>2, <2>3, <3>1, <3>2 DEF Calmly, Checked, Lookups, Listing, S
  <2>5. ASSUME NEW c \in must[p], NEW k \in Slots, NEW j \in Entries,
               Home(loc[p].group, c, k, j), Ahead(p, c, k, j)
        PROVE  Ahead(p, c, k, j)'
    <3>1. loc[p].i <= k /\ S(p).len # 0
      BY <2>5 DEF Ahead, Lookups
    <3>2. loc[p].i # k => S(p).name # loc[p].group
      BY <1>1, <1>2, <2>5, <3>1, NotBefore, EvenHeld DEF S, IInv
    <3> QED BY <2>2, <2>3, <3>1, <3>2 DEF Ahead, Checked, Lookups, Listing, S
  <2>6. "l_ver" \in Getting /\ "l_name" \in Getting
    BY DEF Getting, Lookups
  <2> QED BY <1>1, <2>1, <2>2, <2>4, <2>5, <2>6, ReadStep
<1>3. CASE Odd(loc[p].i)
  <2>1. NextSlot(p, "l_ver", TRUE)
    BY <1>3 DEF LookupVersion
  <2>2. "l_ver" \in Lookups
    BY DEF Lookups
  <2> QED BY <2>1, <2>2, NextSlotStep
<1> QED BY <1>2, <1>3

LEMMA LookupNameStep ==
    ASSUME IInv, NEW p \in Procs, pc[p] = "l_name", LookupName(p)
    PROVE  IInv'
<1> DEFINE new == [loc[p] EXCEPT !.slot.name = S(p).name]
<1>1. /\ loc[p] \in LocType /\ loc[p].skipped \in BOOLEAN /\ loc[p].i \in Slots
      /\ loc[p].k = 0 /\ loc[p].j = 1
  BY LocOf DEF IInv, Desk, Local, Lookups
<1>2. Read(p, "l_name", new, "l_again")
  BY DEF LookupName
<1>3. /\ new \in LocType /\ new.group = loc[p].group /\ new.k = 0
      /\ new.j = 1 /\ new.skipped = loc[p].skipped /\ new.out = loc[p].out
      /\ new.i = loc[p].i /\ new.slot.name = S(p).name
      /\ new.slot.ver = loc[p].slot.ver
  <2>1. loc[p].slot \in SlotType /\ S(p).name \in GroupNames \cup {None}
    BY <1>1, LocOf, SlotOf DEF IInv, S
  <2>2. new = [loc[p] EXCEPT !.slot = [loc[p].slot EXCEPT !.name = S(p).name]]
    BY <1>1 DEF LocType
  <2>3. [loc[p].slot EXCEPT !.name = S(p).name] \in SlotType
    BY <2>1, SlotSet
  <2>4. /\ [loc[p].slot EXCEPT !.name = S(p).name].name = S(p).name
        /\ [loc[p].slot EXCEPT !.name = S(p).name].ver = loc[p].slot.ver
    BY <2>1 DEF SlotType
  <2> QED BY <1>1, <2>2, <2>3, <2>4 DEF LocType
<1> HIDE DEF new
<1>4. pc'[p] = "l_again" /\ loc'[p] = new /\ UNCHANGED <<slot, mem, may>>
  BY <1>2, ReadShape DEF IInv
<1>5. calm[p] => Calmly(p)'
  <2>1. calm[p] => loc[p].out = {} /\ S(p).len # 0 /\ loc[p].slot.ver % 2 = 0
    BY DEF IInv, Reading, Calmly, Lookups
  <2> QED BY <1>3, <1>4, <2>1 DEF Calmly, Checked, Lookups, Listing, S
<1>6. ASSUME NEW c \in must[p], NEW k \in Slots, NEW j \in Entries,
             Home(loc[p].group, c, k, j), Ahead(p, c, k, j)
      PROVE  Ahead(p, c, k, j)'
  <2>1. /\ loc[p].i <= k
        /\ loc[p].i # k => S(p).name # loc[p].group
    BY <1>6 DEF Ahead, Lookups
  <2>2. loc[p].i = k => S(p).name = loc[p].group
    BY <1>6 DEF Home, S
  <2> QED BY <1>3, <1>4, <2>1, <2>2 DEF Ahead, Checked, Lookups, Listing, S
<1>7. "l_name" \in Getting /\ "l_again" \in Getting
  BY DEF Getting, Lookups
<1> QED BY <1>1, <1>2, <1>3, <1>5, <1>6, <1>7, ReadStep

LEMMA LookupAgainStep ==
    ASSUME IInv, NEW p \in Procs, pc[p] = "l_again", LookupAgain(p)
    PROVE  IInv'
<1>1. /\ loc[p] \in LocType /\ loc[p].skipped \in BOOLEAN /\ loc[p].i \in Slots
      /\ loc[p].k = 0 /\ loc[p].j = 1 /\ "l_again" \in Lookups
  BY LocOf DEF IInv, Desk, Local, Lookups
<1>2. CASE S(p).ver # loc[p].slot.ver
  <2>1. NextSlot(p, "l_again", TRUE)
    BY <1>2 DEF LookupAgain
  <2> QED BY <1>1, <2>1, NextSlotStep
<1>3. CASE S(p).ver = loc[p].slot.ver /\ loc[p].slot.name # loc[p].group
  <2>1. NextSlot(p, "l_again", loc[p].skipped)
    BY <1>3 DEF LookupAgain
  <2>2. ASSUME NEW c \in must[p], NEW k \in Slots, NEW j \in Entries,
               Ahead(p, c, k, j)
        PROVE  loc[p].i < k
    <3>1. loc[p].i <= k /\ loc[p].i # k
      BY <1>3, <2>2 DEF Ahead, Lookups
    <3> QED BY <1>1, <3>1 DEF Slots
  <2> QED BY <1>1, <2>1, <2>2, NextSlotStep
<1>4. CASE S(p).ver = loc[p].slot.ver /\ loc[p].slot.name = loc[p].group
  <2>1. Read(p, "l_again", loc[p], "l_array")
    BY <1>4 DEF LookupAgain
  <2>2. /\ pc'[p] = "l_array" /\ loc'[p] = loc[p]
        /\ UNCHANGED <<slot, mem, may>>
    BY <2>1, ReadShape DEF IInv
  <2>3. calm[p] => Calmly(p)'
    <3> SUFFICES ASSUME calm[p] PROVE Calmly(p)'
      OBVIOUS
    <3>1. /\ loc[p].out = {} /\ S(p).len # 0 /\ loc[p].slot.ver % 2 = 0
          /\ loc[p].slot.name = S(p).name
      BY DEF IInv, Reading, Calmly, Lookups
    <3>2. ~Odd(loc[p].i) /\ Held(loc[p].i)
      BY <1>1, <1>4, <3>1, EvenHeld DEF Odd, S
    <3>3. S(p).array \in Arrays /\ S(p).name = loc[p].group
      BY <1>1, <1>4, <3>1, <3>2 DEF IInv, Index, Pointer, S
    <3>4. S(p).active => Firsts(p, loc[p].i)
      <4> SUFFICES ASSUME S(p).active, NEW j \in In(slot[loc[p].i].array)
                   PROVE  Entry(loc[p].i, j).first \in may[p]
        BY DEF Firsts
      <4>1. Listed(loc[p].i)
        BY <1>1, <3>2 DEF IInv, Rolls
      <4>2. /\ Entry(loc[p].i, j).first \in Channels
            /\ since[<<loc[p].group, Entry(loc[p].i, j).first>>] # Out
        BY <3>3, <4>1 DEF Listed, S
      <4>3. pc[p] \in Getting
        BY DEF Getting, Lookups
      <4> QED BY <4>2, <4>3 DEF IInv, Ghosts
    <3>5. Firsts(p, loc[p].i)' <=> Firsts(p, loc[p].i)
      BY <2>2 DEF Firsts, In, Entry
    <3> QED BY <2>2, <3>1, <3>3, <3>4, <3>5 DEF Calmly, Checked, Lookups,
                                                Listing, S
  <2>4. ASSUME NEW c \in must[p], NEW k \in Slots, NEW j \in Entries,
               Ahead(p, c, k, j)
        PROVE  Ahead(p, c, k, j)'
    <3>1. loc[p].i <= k /\ loc[p].i = k
      BY <1>4, <2>4 DEF Ahead, Lookups
    <3> QED BY <2>2, <3>1 DEF Ahead, Checked, Lookups, Listing
  <2>5. "l_again" \in Getting /\ "l_array" \in Getting
    BY DEF Getting, Lookups
  <2> QED BY <1>1, <2>1, <2>3, <2>4, <2>5, ReadStep
<1> QED BY <1>2, <1>3, <1>4

LEMMA LookupArrayStep ==
    ASSUME IInv, NEW p \in Procs, pc[p] = "l_array", LookupArray(p)
    PROVE  IInv'
<1> DEFINE new == [loc[p] EXCEPT !.slot.array = S(p).array]
<1>1. /\ loc[p] \in LocType /\ loc[p].skipped \in BOOLEAN /\ loc[p].i \in Slots
      /\ loc[p].k = 0 /\ loc[p].j = 1
  BY LocOf DEF IInv, Desk, Local, Lookups
<1>2. Read(p, "l_array", new, "l_count")
  BY DEF LookupArray
<1>3. /\ new \in LocType /\ new.group = loc[p].group /\ new.k = 0
      /\ new.j = 1 /\ new.skipped = loc[p].skipped /\ new.out = loc[p].out
      /\ new.i = loc[p].i /\ new.slot.array = S(p).array
  <2>1. loc[p].slot \in SlotType /\ S(p).array \in Arrays \cup {None}
    BY <1>1, LocOf, SlotOf DEF IInv, S
  <2>2. new = [loc[p] EXCEPT !.slot =
                    [loc[p].slot EXCEPT !.array = S(p).array]]
    BY <1>1 DEF LocType
  <2>3. [loc[p].slot EXCEPT !.array = S(p).array] \in SlotType
    BY <2>1, SlotSet
  <2>4. [loc[p].slot EXCEPT !.array = S(p).array].array = S(p).array
    BY <2>1 DEF SlotType
  <2> QED BY <1>1, <2>2, <2>3, <2>4 DEF LocType
<1> HIDE DEF new
<1>4. pc'[p] = "l_count" /\ loc'[p] = new /\ UNCHANGED <<slot, mem, may>>
  BY <1>2, ReadShape DEF IInv
<1>5. calm[p] => Calmly(p)'
  <2>1. calm[p] => /\ loc[p].out = {} /\ S(p).name = loc[p].group
                   /\ S(p).array \in Arrays
                   /\ S(p).active => Firsts(p, loc[p].i)
    BY DEF IInv, Reading, Calmly, Lookups, Checked
  <2>2. Firsts(p, loc[p].i)' <=> Firsts(p, loc[p].i)
    BY <1>3, <1>4 DEF Firsts, In, Entry
  <2> QED BY <1>3, <1>4, <2>1, <2>2 DEF Calmly, Checked, Lookups, Listing, S
<1>6. ASSUME NEW c \in must[p], NEW k \in Slots, NEW j \in Entries,
             Ahead(p, c, k, j)
      PROVE  Ahead(p, c, k, j)'
  <2>1. loc[p].i <= k /\ loc[p].i = k
    BY <1>6 DEF Ahead, Lookups, Checked
  <2> QED BY <1>3, <1>4, <2>1 DEF Ahead, Checked, Lookups, Listing, S
<1>7. "l_array" \in Getting /\ "l_count" \in Getting
  BY DEF Getting, Lookups
<1> QED BY <1>1, <1>2, <1>3, <1>5, <1>6, <1>7, ReadStep

\* A member that counts: only an add that is not done yet is uncounted.
LEMMA CountedMember ==
    ASSUME IInv, crashes = 0, NEW g \in GroupNames, NEW c \in Channels,
           NEW k \in Slots, NEW j \in Entries, since[<<g, c>>] >= 0,
           Home(g, c, k, j)
    PROVE  slot[k].count # 0
<1>1. Types /\ Desk /\ Listed(k) /\ Covered(k) /\ Held(k)
  BY DEF IInv, Rolls, Home
<1>2. /\ In(slot[k].array) \subseteq Entries /\ j \in In(slot[k].array)
      /\ IsFiniteSet(In(slot[k].array))
      /\ Cardinality(In(slot[k].array)) \in Nat
      /\ Cardinality(In(slot[k].array)) >= 1
  <2>1. IsFiniteSet(Entries)
    BY FS_Interval, GroupsAssumption DEF Entries
  <2>2. In(slot[k].array) \subseteq Entries /\ j \in In(slot[k].array)
    BY DEF In, Home
  <2>3. IsFiniteSet(In(slot[k].array))
    BY <2>1, <2>2, FS_Subset
  <2> QED BY <2>2, <2>3, FS_CardinalityType, FS_EmptySet
<1>3. slot[k].count \in Nat
  BY <1>1, SlotOf
<1>4. CASE ~HolderAt(k, {"e_odd", "e_count"})
  BY <1>1, <1>2, <1>3, <1>4 DEF Covered, One
<1>5. CASE HolderAt(k, {"e_odd", "e_count"})
  <2>1. PICK p \in Procs : /\ flock = p /\ pc[p] \in {"e_odd", "e_count"}
                           /\ loc[p].i = k
    BY <1>1, <1>5 DEF Types, HolderAt, At
  <2>2. pc[p] \in Counted /\ pc[p] \in Joining /\ pc[p] \in Adding
    BY <2>1 DEF Counted, Joining, Adding
  <2>3. /\ slot[k].name = loc[p].group
        /\ since[<<loc[p].group, loc[p].chan>>] = Unsure
    BY <2>1, <2>2 DEF IInv, Work, Joins, AtSlot, S
  <2>4. PICK e \in In(slot[k].array) : A(p)[e].first = loc[p].chan
    BY <2>1, <2>2 DEF IInv, Work, Joins, S
  <2>5. A(p)[e] = Entry(k, e)
    BY <2>1, <2>2 DEF IInv, Work, Joins, AtSlot, S, A, Fresh, Entry
  <2>6. j # e
    <3>1. g = loc[p].group /\ Entry(k, j).first = c
      BY <2>3 DEF Home
    <3> QED BY <2>3, <2>4, <2>5, <3>1 DEF Unsure
  <2>7. Cardinality(In(slot[k].array)) >= 2
    <3> DEFINE X == In(slot[k].array)
    <3>1. IsFiniteSet(X) /\ j \in X /\ e \in X \ {j} /\ IsFiniteSet(X \ {j})
      BY <1>2, <2>4, <2>6, FS_RemoveElement
    <3> HIDE DEF X
    <3>2. Cardinality(X \ {j}) = Cardinality(X) - 1
      BY <3>1, FS_RemoveElement
    <3>3. Cardinality(X \ {j}) \in Nat /\ Cardinality(X \ {j}) # 0
      BY <3>1, FS_CardinalityType, FS_EmptySet
    <3>4. Cardinality(X) \in Nat
      BY <3>1, FS_CardinalityType
    <3>5. Cardinality(X) >= 2
      BY <3>2, <3>3, <3>4
    <3> QED BY <3>5 DEF X
  <2> QED BY <1>1, <1>2, <1>3, <2>7 DEF Covered, One
<1> QED BY <1>4, <1>5

LEMMA LookupCountStep ==
    ASSUME IInv, NEW p \in Procs, pc[p] = "l_count", LookupCount(p)
    PROVE  IInv'
<1> DEFINE new == [loc[p] EXCEPT !.slot.count = S(p).count]
<1>1. /\ loc[p] \in LocType /\ loc[p].skipped \in BOOLEAN /\ loc[p].i \in Slots
      /\ loc[p].k = 0 /\ loc[p].j = 1
  BY LocOf DEF IInv, Desk, Local, Lookups
<1>2. Read(p, "l_count", new, "l_active")
  BY DEF LookupCount
<1>3. /\ new \in LocType /\ new.group = loc[p].group /\ new.k = 0
      /\ new.j = 1 /\ new.skipped = loc[p].skipped /\ new.out = loc[p].out
      /\ new.i = loc[p].i /\ new.slot.count = S(p).count
      /\ new.slot.array = loc[p].slot.array
  <2>1. loc[p].slot \in SlotType /\ S(p).count \in Nat
    BY <1>1, LocOf, SlotOf DEF IInv, S
  <2>2. new = [loc[p] EXCEPT !.slot =
                    [loc[p].slot EXCEPT !.count = S(p).count]]
    BY <1>1 DEF LocType
  <2>3. [loc[p].slot EXCEPT !.count = S(p).count] \in SlotType
    BY <2>1, SlotSet
  <2>4. /\ [loc[p].slot EXCEPT !.count = S(p).count].count = S(p).count
        /\ [loc[p].slot EXCEPT !.count = S(p).count].array = loc[p].slot.array
    BY <2>1 DEF SlotType
  <2> QED BY <1>1, <2>2, <2>3, <2>4 DEF LocType
<1> HIDE DEF new
<1>4. pc'[p] = "l_active" /\ loc'[p] = new /\ UNCHANGED <<slot, mem, may>>
  BY <1>2, ReadShape DEF IInv
<1>5. calm[p] => Calmly(p)'
  <2>1. calm[p] => /\ loc[p].out = {} /\ S(p).name = loc[p].group
                   /\ S(p).array \in Arrays /\ loc[p].slot.array = S(p).array
                   /\ S(p).active => Firsts(p, loc[p].i)
    BY DEF IInv, Reading, Calmly, Lookups, Checked
  <2>2. Firsts(p, loc[p].i)' <=> Firsts(p, loc[p].i)
    BY <1>3, <1>4 DEF Firsts, In, Entry
  <2> QED BY <1>3, <1>4, <2>1, <2>2 DEF Calmly, Checked, Lookups, Listing, S
<1>6. ASSUME NEW c \in must[p], NEW k \in Slots, NEW j \in Entries,
             crashes = 0, Home(loc[p].group, c, k, j), Ahead(p, c, k, j)
      PROVE  Ahead(p, c, k, j)'
  <2>1. /\ loc[p].i <= k /\ loc[p].i = k
        /\ loc[p].slot.array = slot[k].array
    BY <1>6 DEF Ahead, Lookups, Checked
  <2>2. S(p).count # 0
    <3>1. pc[p] \in Getting
      BY DEF Getting, Lookups
    <3>2. /\ loc[p].group \in GroupNames /\ c \in Channels
          /\ since[<<loc[p].group, c>>] >= 0
      BY <3>1 DEF IInv, Desk, Local, Types, Truths, Ghosts
    <3> QED BY <1>6, <2>1, <3>2, CountedMember DEF S
  <2> QED BY <1>3, <1>4, <2>1, <2>2 DEF Ahead, Checked, Lookups, Listing, S
<1>7. "l_count" \in Getting /\ "l_active" \in Getting
  BY DEF Getting, Lookups
<1> QED BY <1>1, <1>2, <1>3, <1>5, <1>6, <1>7, ReadStep

LEMMA LookupActiveStep ==
    ASSUME IInv, NEW p \in Procs, pc[p] = "l_active", LookupActive(p)
    PROVE  IInv'
<1>1. /\ loc[p] \in LocType /\ loc[p].skipped \in BOOLEAN /\ loc[p].i \in Slots
      /\ loc[p].k = 0 /\ loc[p].j = 1 /\ "l_active" \in Getting
  BY LocOf DEF IInv, Desk, Local, Lookups, Getting
<1>2. CASE S(p).active /\ loc[p].slot.count # 0
  <2> DEFINE new == [loc[p] EXCEPT
                        !.slot = [Unused EXCEPT !.array = loc[p].slot.array]]
  <2>1. Read(p, "l_active", new, "l_now")
    BY <1>2 DEF LookupActive
  <2>2. /\ new \in LocType /\ new.group = loc[p].group /\ new.k = 0
        /\ new.j = 1 /\ new.skipped = loc[p].skipped /\ new.out = loc[p].out
        /\ new.i = loc[p].i /\ new.slot.array = loc[p].slot.array
    <3>1. loc[p].slot.array \in Arrays \cup {None}
      BY <1>1, LocOf DEF IInv, SlotType
    <3>2. /\ [Unused EXCEPT !.array = loc[p].slot.array] \in SlotType
          /\ [Unused EXCEPT !.array = loc[p].slot.array].array
                = loc[p].slot.array
      <4>1. Unused \in SlotType
        BY UnusedType
      <4> QED BY <3>1, <4>1, SlotSet DEF SlotType
    <3> QED BY <1>1, <3>2 DEF LocType
  <2> HIDE DEF new
  <2>3. pc'[p] = "l_now" /\ loc'[p] = new /\ UNCHANGED <<slot, mem, may>>
    BY <2>1, ReadShape DEF IInv
  <2>4. calm[p] => Calmly(p)'
    <3>1. calm[p] => /\ loc[p].out = {} /\ S(p).name = loc[p].group
                     /\ S(p).array \in Arrays /\ loc[p].slot.array = S(p).array
                     /\ Firsts(p, loc[p].i)
      BY <1>2 DEF IInv, Reading, Calmly, Lookups, Checked
    <3>2. Firsts(p, loc[p].i)' <=> Firsts(p, loc[p].i)
      BY <2>2, <2>3 DEF Firsts, In, Entry
    <3> QED BY <2>2, <2>3, <3>1, <3>2 DEF Calmly, Checked, Lookups, Listing, S
  <2>5. ASSUME NEW c \in must[p], NEW k \in Slots, NEW j \in Entries,
               Ahead(p, c, k, j)
        PROVE  Ahead(p, c, k, j)'
    <3>1. /\ loc[p].i <= k /\ loc[p].i = k
          /\ loc[p].slot.array = slot[k].array
      BY <2>5 DEF Ahead, Lookups, Checked
    <3> QED BY <2>2, <2>3, <3>1 DEF Ahead, Checked, Lookups, Listing, S
  <2>6. "l_now" \in Getting
    BY DEF Getting, Lookups
  <2> QED BY <1>1, <2>1, <2>2, <2>4, <2>5, <2>6, ReadStep
<1>3. CASE ~(S(p).active /\ loc[p].slot.count # 0)
  <2>1. Done(p, "l_active", {}, loc[p].skipped)
    BY <1>3 DEF LookupActive
  <2>2. ASSUME NEW c \in must[p], NEW k \in Slots, NEW j \in Entries,
               Home(loc[p].group, c, k, j), Ahead(p, c, k, j)
        PROVE  FALSE
    BY <1>3, <2>2 DEF Ahead, Checked, Home, S
  <2> QED BY <1>1, <2>1, <2>2, DoneStep
<1> QED BY <1>2, <1>3

LEMMA MemberActiveStep ==
    ASSUME IInv, NEW p \in Procs, MemberActive(p)
    PROVE  IInv'
<1>1. /\ pc[p] = "m_active" /\ loc[p].slot.array # None
      /\ loc[p].slot.array \in Arrays
  BY LocOf DEF MemberActive, IInv, SlotType
<1>2. /\ loc[p] \in LocType /\ loc[p].skipped \in BOOLEAN /\ loc[p].i \in Slots
      /\ loc[p].k = 0 /\ "m_active" \in Listing /\ "m_active" \in Getting
      /\ "m_active" \notin Lookups /\ loc[p].out \subseteq Halves \X Halves
  BY <1>1, LocOf DEF IInv, Desk, Local, Lookups, Getting, Listing
<1>3. calm[p] => \A x \in loc[p].out : x[1] \in may[p]
  BY <1>1, <1>2 DEF IInv, Reading, Calmly
<1>4. CASE A(p)[loc[p].j].active
  <2>1. Read(p, "m_active", loc[p], "m_time")
    BY <1>4 DEF MemberActive
  <2>2. /\ pc'[p] = "m_time" /\ loc'[p] = loc[p]
        /\ UNCHANGED <<slot, mem, may, since>>
    BY <2>1, ReadShape DEF IInv
  <2>3. calm[p] => Calmly(p)'
    <3> SUFFICES ASSUME calm[p] PROVE Calmly(p)'
      OBVIOUS
    <3>1. /\ S(p).name = loc[p].group /\ S(p).array \in Arrays
          /\ loc[p].slot.array = S(p).array /\ Firsts(p, loc[p].i)
      BY <1>1, <1>2 DEF IInv, Reading, Calmly
    <3>2. Firsts(p, loc[p].i)' <=> Firsts(p, loc[p].i)
      BY <2>2 DEF Firsts, In, Entry
    <3>3. A(p)[loc[p].j].first \in may[p]
      <4>1. loc[p].j \in Entries
        BY LocOf DEF IInv
      <4> QED BY <1>4, <3>1, <4>1 DEF Firsts, In, Entry, A, S
    <3> QED BY <1>3, <2>2, <3>1, <3>2, <3>3 DEF Calmly, Checked, Lookups,
                                                Listing, S, A
  <2>4. ASSUME NEW c \in must[p], NEW k \in Slots, NEW j \in Entries,
               Ahead(p, c, k, j)
        PROVE  Ahead(p, c, k, j)'
    <3>1. /\ loc[p].i = k /\ loc[p].slot.array = slot[k].array
          /\ loc[p].now <= since[<<loc[p].group, c>>] + Expiry
          /\ <<c, c>> \in loc[p].out \/ loc[p].j <= j
      BY <1>1, <1>2, <2>4 DEF Ahead
    <3> QED BY <2>2, <3>1 DEF Ahead, Checked, Lookups, Listing
  <2>5. "m_time" \in Getting /\ "m_time" \notin Lookups
    BY DEF Getting, Listing, Lookups
  <2> QED BY <1>1, <1>2, <2>1, <2>3, <2>4, <2>5, ReadStep
<1>5. CASE ~A(p)[loc[p].j].active
  <2>1. NextEntry(p, "m_active", loc[p].out)
    BY <1>5 DEF MemberActive
  <2>2. ASSUME NEW c \in must[p], NEW k \in Slots, NEW j \in Entries,
               Home(loc[p].group, c, k, j), Ahead(p, c, k, j)
        PROVE  <<c, c>> \in loc[p].out \/ loc[p].j < j
    <3>1. /\ loc[p].slot.array = slot[k].array
          /\ <<c, c>> \in loc[p].out \/ loc[p].j <= j
      BY <1>1, <1>2, <2>2 DEF Ahead
    <3>2. loc[p].j # j
      BY <1>5, <2>2, <3>1 DEF Home, In, A
    <3>3. loc[p].j \in Int /\ j \in Int
      BY LocOf DEF IInv, Entries
    <3> QED BY <3>1, <3>2, <3>3
  <2> QED BY <1>2, <1>3, <2>1, <2>2, NextEntryStep
<1> QED BY <1>4, <1>5

LEMMA MemberTimeStep ==
    ASSUME IInv, NEW p \in Procs, MemberTime(p)
    PROVE  IInv'
<1>1. pc[p] = "m_time"
  BY DEF MemberTime
<1>2. /\ loc[p] \in LocType /\ loc[p].skipped \in BOOLEAN /\ loc[p].i \in Slots
      /\ loc[p].k = 0 /\ "m_time" \in Listing /\ "m_time" \in Getting
      /\ "m_time" \notin Lookups /\ loc[p].out \subseteq Halves \X Halves
      /\ loc[p].slot.array \in Arrays
  BY <1>1, LocOf DEF IInv, Desk, Local, Lookups, Getting, Listing
<1>3. calm[p] => \A x \in loc[p].out : x[1] \in may[p]
  BY <1>1, <1>2 DEF IInv, Reading, Calmly
<1>4. CASE A(p)[loc[p].j].time + Expiry < loc[p].now
  <2>1. NextEntry(p, "m_time", loc[p].out)
    BY <1>1, <1>4 DEF MemberTime
  <2>2. ASSUME NEW c \in must[p], NEW k \in Slots, NEW j \in Entries,
               Home(loc[p].group, c, k, j), Ahead(p, c, k, j)
        PROVE  <<c, c>> \in loc[p].out \/ loc[p].j < j
    <3>1. /\ loc[p].slot.array = slot[k].array
          /\ loc[p].now <= since[<<loc[p].group, c>>] + Expiry
          /\ <<c, c>> \in loc[p].out \/ loc[p].j <= j
      BY <1>1, <1>2, <2>2 DEF Ahead
    <3>2. loc[p].j # j
      <4>1. loc[p].j = j => A(p)[loc[p].j].time = since[<<loc[p].group, c>>]
        BY <2>2, <3>1 DEF Home, A, Entry
      <4>2. loc[p].now \in Int /\ Expiry \in Int
            /\ since[<<loc[p].group, c>>] \in Int
        <5>1. loc[p].group \in GroupNames /\ c \in Channels
          BY <1>1, <1>2 DEF IInv, Desk, Local, Types, Truths
        <5> QED BY <5>1, LocOf, SinceOf, GroupsAssumption DEF IInv
      <4> QED BY <1>4, <3>1, <4>1, <4>2
    <3>3. loc[p].j \in Int /\ j \in Int
      BY LocOf DEF IInv, Entries
    <3> QED BY <3>1, <3>2, <3>3
  <2> QED BY <1>2, <1>3, <2>1, <2>2, NextEntryStep
<1>5. CASE ~(A(p)[loc[p].j].time + Expiry < loc[p].now)
  <2>1. Read(p, "m_time", loc[p], "m_first")
    BY <1>5 DEF MemberTime
  <2>2. /\ pc'[p] = "m_first" /\ loc'[p] = loc[p]
        /\ UNCHANGED <<slot, mem, may, since>>
    BY <2>1, ReadShape DEF IInv
  <2>3. calm[p] => Calmly(p)'
    <3> SUFFICES ASSUME calm[p] PROVE Calmly(p)'
      OBVIOUS
    <3>1. /\ S(p).name = loc[p].group /\ S(p).array \in Arrays
          /\ loc[p].slot.array = S(p).array /\ Firsts(p, loc[p].i)
          /\ A(p)[loc[p].j].first \in may[p]
      BY <1>1, <1>2 DEF IInv, Reading, Calmly
    <3>2. Firsts(p, loc[p].i)' <=> Firsts(p, loc[p].i)
      BY <2>2 DEF Firsts, In, Entry
    <3> QED BY <1>3, <2>2, <3>1, <3>2 DEF Calmly, Checked, Lookups,
                                          Listing, S, A
  <2>4. ASSUME NEW c \in must[p], NEW k \in Slots, NEW j \in Entries,
               Ahead(p, c, k, j)
        PROVE  Ahead(p, c, k, j)'
    <3>1. /\ loc[p].i = k /\ loc[p].slot.array = slot[k].array
          /\ loc[p].now <= since[<<loc[p].group, c>>] + Expiry
          /\ <<c, c>> \in loc[p].out \/ loc[p].j <= j
      BY <1>1, <1>2, <2>4 DEF Ahead
    <3> QED BY <2>2, <3>1 DEF Ahead, Checked, Lookups, Listing
  <2>5. "m_first" \in Getting /\ "m_first" \notin Lookups
    BY DEF Getting, Listing, Lookups
  <2> QED BY <1>2, <2>1, <2>3, <2>4, <2>5, ReadStep
<1> QED BY <1>4, <1>5

LEMMA MemberFirstStep ==
    ASSUME IInv, NEW p \in Procs, MemberFirst(p)
    PROVE  IInv'
<1> DEFINE new == [loc[p] EXCEPT !.first = A(p)[loc[p].j].first]
<1>1. pc[p] = "m_first" /\ Read(p, "m_first", new, "m_second")
  BY DEF MemberFirst
<1>2. /\ loc[p] \in LocType /\ loc[p].skipped \in BOOLEAN /\ loc[p].i \in Slots
      /\ loc[p].k = 0 /\ "m_first" \in Listing /\ "m_first" \in Getting
      /\ "m_first" \notin Lookups /\ loc[p].j \in Entries
      /\ "m_second" \in Getting /\ "m_second" \notin Lookups
      /\ loc[p].slot.array \in Arrays
  BY <1>1, LocOf DEF IInv, Desk, Local, Lookups, Getting, Listing
<1>3. /\ new \in LocType /\ new.group = loc[p].group /\ new.k = 0
      /\ new.j = loc[p].j /\ new.skipped = loc[p].skipped
      /\ new.out = loc[p].out /\ new.i = loc[p].i /\ new.slot = loc[p].slot
      /\ new.now = loc[p].now /\ new.first = A(p)[loc[p].j].first
  <2>1. A(p)[loc[p].j].first \in Halves
    BY <1>2, EntryOf DEF IInv, A
  <2> QED BY <1>2, <2>1 DEF LocType
<1> HIDE DEF new
<1>4. /\ pc'[p] = "m_second" /\ loc'[p] = new
      /\ UNCHANGED <<slot, mem, may, since>>
  BY <1>1, ReadShape DEF IInv
<1>5. calm[p] => Calmly(p)'
  <2> SUFFICES ASSUME calm[p] PROVE Calmly(p)'
    OBVIOUS
  <2>1. /\ S(p).name = loc[p].group /\ S(p).array \in Arrays
        /\ loc[p].slot.array = S(p).array /\ Firsts(p, loc[p].i)
        /\ A(p)[loc[p].j].first \in may[p]
        /\ \A x \in loc[p].out : x[1] \in may[p]
    BY <1>1, <1>2 DEF IInv, Reading, Calmly
  <2>2. Firsts(p, loc[p].i)' <=> Firsts(p, loc[p].i)
    BY <1>3, <1>4 DEF Firsts, In, Entry
  <2> QED BY <1>3, <1>4, <2>1, <2>2 DEF Calmly, Checked, Lookups,
                                        Listing, S, A
<1>6. ASSUME NEW c \in must[p], NEW k \in Slots, NEW j \in Entries,
             Home(loc[p].group, c, k, j), Ahead(p, c, k, j)
      PROVE  Ahead(p, c, k, j)'
  <2>1. /\ loc[p].i = k /\ loc[p].slot.array = slot[k].array
        /\ loc[p].now <= since[<<loc[p].group, c>>] + Expiry
        /\ <<c, c>> \in loc[p].out \/ loc[p].j <= j
    BY <1>1, <1>2, <1>6 DEF Ahead
  <2>2. loc[p].j = j => new.first = c
    BY <1>3, <1>6, <2>1 DEF Home, A, Entry
  <2> QED BY <1>3, <1>4, <2>1, <2>2 DEF Ahead, Checked, Lookups, Listing
<1> QED BY <1>1, <1>2, <1>3, <1>5, <1>6, ReadStep

LEMMA MemberSecondStep ==
    ASSUME IInv, NEW p \in Procs, MemberSecond(p)
    PROVE  IInv'
<1> DEFINE out == loc[p].out \cup {<<loc[p].first, A(p)[loc[p].j].second>>}
<1>1. pc[p] = "m_second" /\ NextEntry(p, "m_second", out)
  BY DEF MemberSecond
<1>2. /\ loc[p] \in LocType /\ "m_second" \in Listing /\ "m_second" \in Getting
      /\ "m_second" \notin Lookups /\ loc[p].j \in Entries
      /\ loc[p].slot.array \in Arrays /\ loc[p].out \subseteq Halves \X Halves
      /\ loc[p].first \in Halves
  BY <1>1, LocOf DEF IInv, Desk, Local, Lookups, Getting, Listing
<1>3. out \in SUBSET (Halves \X Halves)
  <2>1. A(p)[loc[p].j].second \in Halves
    BY <1>2, EntryOf DEF IInv, A
  <2> QED BY <1>2, <2>1
<1>4. calm[p] => \A x \in out : x[1] \in may[p]
  <2>1. calm[p] => /\ \A x \in loc[p].out : x[1] \in may[p]
                   /\ loc[p].first \in may[p]
    BY <1>1, <1>2 DEF IInv, Reading, Calmly
  <2> QED BY <2>1
<1>5. ASSUME NEW c \in must[p], NEW k \in Slots, NEW j \in Entries,
             Home(loc[p].group, c, k, j), Ahead(p, c, k, j)
      PROVE  <<c, c>> \in out \/ loc[p].j < j
  <2>1. /\ loc[p].slot.array = slot[k].array
        /\ <<c, c>> \in loc[p].out \/ loc[p].j <= j
        /\ loc[p].j = j => loc[p].first = c
    BY <1>1, <1>2, <1>5 DEF Ahead
  <2>2. loc[p].j = j => A(p)[loc[p].j].second = c
    <3>1. Listed(k)
      BY <1>5 DEF IInv, Rolls, Home
    <3> QED BY <1>5, <2>1, <3>1 DEF Home, Listed, A, Entry
  <2>3. loc[p].j \in Int /\ j \in Int
    BY <1>2 DEF Entries
  <2> QED BY <2>1, <2>2, <2>3
<1> HIDE DEF out
<1> QED BY <1>1, <1>2, <1>3, <1>4, <1>5, NextEntryStep

\* No member that has to be given is missed over an emptied slot.
LEMMA MemberWildStep ==
    ASSUME IInv, NEW p \in Procs, MemberWild(p)
    PROVE  IInv'
<1>1. pc[p] = "m_active" /\ loc[p].slot.array = None
  BY DEF MemberWild
<1>2. "m_active" \in Listing /\ "m_active" \in Getting /\ None \notin Arrays
  BY GroupsAssumption DEF Listing, Getting
<1>3. PICK X \in {{}, Channels \X Channels} :
          Done(p, "m_active", X, loc[p].skipped)
  BY DEF MemberWild
<1>4. X \in SUBSET (Halves \X Halves) /\ loc[p].skipped \in BOOLEAN
  BY LocOf DEF Halves, IInv
<1>5. ~calm[p]
  BY <1>1, <1>2 DEF IInv, Reading, Calmly
<1>6. ASSUME NEW c \in must[p], NEW k \in Slots, NEW j \in Entries,
             Home(loc[p].group, c, k, j), Ahead(p, c, k, j)
      PROVE  FALSE
  <2>1. slot[k].array = None /\ Held(k)
    BY <1>1, <1>2, <1>6 DEF Ahead, Home
  <2> QED BY <1>2, <2>1 DEF IInv, Index, Pointer
<1> QED BY <1>2, <1>3, <1>4, <1>5, <1>6, DoneStep

LEMMA LookupNowStep ==
    ASSUME IInv, NEW p \in Procs, LookupNow(p)
    PROVE  IInv'
<1>1. Types /\ Desk
  BY DEF IInv
<1>2. /\ Step(p, "l_now", "m_active")
      /\ loc' = [loc EXCEPT ![p] = [loc[p] EXCEPT !.now = now]]
      /\ must' = [must EXCEPT ![p] =
                     {c \in @ : since[<<loc[p].group, c>>] + Expiry >= now}]
      /\ UNCHANGED <<slot, mem, free, flock, now, calls, since, may,
                     changing, calm, crashes>>
  BY DEF LookupNow, shared, count, ghost
<1> DEFINE new == [loc[p] EXCEPT !.now = now]
<1>3. /\ new \in LocType /\ new.group = loc[p].group /\ new.k = loc[p].k
      /\ new.j = loc[p].j /\ new.skipped = loc[p].skipped
      /\ new.out = loc[p].out /\ new.i = loc[p].i /\ new.slot = loc[p].slot
      /\ new.now = now
  <2>1. loc[p] \in LocType /\ now \in 0 .. MaxTime
    BY <1>1, LocOf DEF Types
  <2> QED BY <2>1 DEF LocType
<1>4. loc' = [loc EXCEPT ![p] = new]
  BY <1>2
<1> HIDE DEF new
<1>5. /\ pc[p] = "l_now" /\ pc'[p] = "m_active" /\ loc'[p] = new
      /\ \A q \in Procs \ {p} : pc'[q] = pc[q] /\ loc'[q] = loc[q]
      /\ pc' \in [Procs -> Labels] /\ loc' \in [Procs -> LocType]
  <2>1. "m_active" \in Labels
    BY DEF Labels, Getting, Listing
  <2>2. /\ pc[p] = "l_now" /\ pc'[p] = "m_active"
        /\ \A q \in Procs \ {p} : pc'[q] = pc[q]
        /\ pc' \in [Procs -> Labels]
    BY <1>1, <1>2, <2>1, Stepped
  <2>3. /\ loc'[p] = new /\ loc' \in [Procs -> LocType]
        /\ \A q \in Procs \ {p} : loc'[q] = loc[q]
    BY <1>1, <1>3, <1>4, Moved
  <2> QED BY <2>2, <2>3
<1>6. /\ must'[p] =
             {c \in must[p] : since[<<loc[p].group, c>>] + Expiry >= now}
      /\ \A q \in Procs \ {p} : must'[q] = must[q]
      /\ must' \in [Procs -> SUBSET Channels]
  <2>1. must \in [Procs -> SUBSET Channels]
    BY <1>1 DEF Types, Truths
  <2> QED BY <1>2, <2>1
<1>7. Types'
  BY <1>1, <1>2, <1>5, <1>6 DEF Types, Truths
<1>8. /\ pc[p] \in Lookups /\ pc[p] \in Getting /\ pc[p] \notin Listing
      /\ pc'[p] \in Getting /\ pc'[p] \notin Lookups /\ pc'[p] \in Listing
  BY <1>5 DEF Lookups, Getting, Listing
<1>9. loc[p].k = 0 /\ loc[p].j = 1 /\ loc[p].group \in GroupNames
  BY <1>1, <1>5, <1>8 DEF Desk, Local
<1>10. Still
  <2>1. now <= now'
    BY <1>1, <1>2, GroupsAssumption DEF Types
  <2>2. pc[p] \notin Working /\ pc'[p] \notin Working
    BY <1>8, Getters
  <2> QED BY <1>2, <1>5, <2>1, <2>2 DEF Still
<1>11. Local(p)'
  <2>1. pc'[p] \notin Adding \cup Discarding
    BY <1>8, Getters DEF Working
  <2> QED BY <1>3, <1>5, <1>8, <1>9, <2>1 DEF Local
<1>12. Ghosts(p)'
  <2>1. Ghosts(p)
    BY DEF IInv
  <2> QED BY <1>2, <1>3, <1>5, <1>6, <1>8, <2>1 DEF Ghosts
<1>13. Reading(p)'
  <2>1. calm[p] => Calmly(p)'
    <3> SUFFICES ASSUME calm[p] PROVE Calmly(p)'
      OBVIOUS
    <3>1. /\ S(p).name = loc[p].group /\ S(p).array \in Arrays
          /\ loc[p].slot.array = S(p).array /\ Firsts(p, loc[p].i)
          /\ \A x \in loc[p].out : x[1] \in may[p]
      BY <1>5, <1>8 DEF IInv, Reading, Calmly
    <3>2. Firsts(p, loc[p].i)' <=> Firsts(p, loc[p].i)
      BY <1>2, <1>3, <1>5 DEF Firsts, In, Entry
    <3> QED BY <1>2, <1>3, <1>5, <1>8, <3>1, <3>2 DEF Calmly, Checked, S
  <2>2. ASSUME crashes = 0, ~new.skipped, NEW c \in must'[p]
        PROVE  Expects(p, c)'
    <3>1. c \in must[p] /\ since[<<loc[p].group, c>>] + Expiry >= now
      BY <1>6
    <3>2. PICK k \in Slots, j \in Entries :
              Home(loc[p].group, c, k, j) /\ Ahead(p, c, k, j)
      BY <1>3, <1>8, <2>2, <3>1 DEF IInv, Reading, Expects
    <3>3. c \in Channels
      BY <1>1, <3>1 DEF Types, Truths
    <3>4. Home(loc[p].group, c, k, j)'
      <4>1. PICK g \in GroupNames : g = loc[p].group
        BY <1>9
      <4>2. Home(g, c, k, j)'
        BY <1>1, <1>10, <3>2, <3>3, <4>1, StillHome
      <4> QED BY <1>3, <1>5, <4>1, <4>2
    <3>5. Ahead(p, c, k, j)'
      <4>1. loc[p].i = k /\ loc[p].slot.array = slot[k].array
        BY <1>5, <1>8, <3>2 DEF Ahead
      <4>2. 1 <= j
        BY DEF Entries
      <4>3. now <= since[<<loc[p].group, c>>] + Expiry
        <5>1. since[<<loc[p].group, c>>] \in Int /\ now \in Int
          BY <1>1, <1>9, <3>3, SinceOf DEF Types
        <5> QED BY <3>1, <5>1, GroupsAssumption
      <4> QED BY <1>2, <1>3, <1>5, <1>8, <1>9, <4>1, <4>2, <4>3
              DEF Ahead, Checked
    <3> QED BY <3>4, <3>5 DEF Expects
  <2> QED BY <1>2, <1>5, <2>1, <2>2 DEF Reading
<1>14. \A q \in Procs : calm'[q] => ~changing
  BY <1>1, <1>2 DEF Desk
<1>15. \A q \in Procs \ {p} :
          pc'[q] = pc[q] /\ loc'[q] = loc[q] /\ must'[q] = must[q]
             /\ may'[q] = may[q] /\ calm'[q] = calm[q]
  BY <1>2, <1>5, <1>6
<1> QED BY <1>7, <1>10, <1>11, <1>12, <1>13, <1>14, <1>15, Quiet

LEMMA AnswerStep ==
    ASSUME IInv, NEW p \in Procs, Answer(p)
    PROVE  IInv'
<1>1. Types /\ Desk
  BY DEF IInv
<1>2. /\ must' = [must EXCEPT ![p] = {}] /\ may' = [may EXCEPT ![p] = {}]
      /\ since' = since
  BY DEF Answer
<1>3. Truths'
  BY <1>1, <1>2 DEF Types, Truths
<1>4. /\ pc[p] = "done" /\ pc'[p] = "idle" /\ Others(p) /\ loc'[p] = Idle
      /\ flock' = IF flock = p THEN None ELSE flock
      /\ UNCHANGED <<slot, mem, free, now, calls, changing, crashes>>
      /\ calm'[p] = FALSE
      /\ \A q \in Procs \ {p} : calm'[q] = calm[q]
      /\ Types'
  BY <1>1, <1>3, EndShape DEF Answer
<1>5. /\ pc[p] \notin Working /\ pc'[p] \notin Working /\ pc'[p] \notin Getting
      /\ pc'[p] \notin Lookups
  BY <1>4 DEF Working, Adding, Repairing, Writing, Joining, Counted,
              Discarding, Leaving, Flushing, Getting, Lookups, Listing
<1>6. Still
  <2>1. flock # p
    BY <1>1, <1>5 DEF Desk
  <2>2. now <= now'
    BY <1>1, <1>4, GroupsAssumption DEF Types
  <2> QED BY <1>2, <1>4, <1>5, <2>1, <2>2 DEF Still, Others
<1>7. Local(p)' /\ Ghosts(p)' /\ Reading(p)'
  <2>1. Idle.k = 0 /\ Idle.i = 1
    BY DEF Idle
  <2>2. Local(p)'
    BY <1>4, <1>5, <2>1, NotWorking DEF Local
  <2>3. must'[p] = {} /\ may'[p] = {}
    BY <1>1, <1>2 DEF Types, Truths
  <2> QED BY <1>4, <1>5, <2>2, <2>3 DEF Ghosts, Reading
<1>8. \A q \in Procs : calm'[q] => ~changing
  BY <1>1, <1>4 DEF Desk
<1>9. \A q \in Procs \ {p} :
         pc'[q] = pc[q] /\ loc'[q] = loc[q] /\ must'[q] = must[q]
            /\ may'[q] = may[q] /\ calm'[q] = calm[q]
  BY <1>1, <1>2, <1>4 DEF Others, Types, Truths
<1> QED BY <1>4, <1>6, <1>7, <1>8, <1>9, Quiet

LEMMA GetMembersStep ==
    ASSUME IInv, NEW p \in Procs, NEW g \in GroupNames, GetMembers(p, g)
    PROVE  IInv'
<1>1. Types /\ Desk
  BY DEF IInv
<1>2. /\ must' = [must EXCEPT ![p] = {c \in Channels : since[<<g, c>>] >= 0}]
      /\ may' = [may EXCEPT ![p] = {c \in Channels : since[<<g, c>>] # Out}]
      /\ calm' = [calm EXCEPT ![p] = ~changing]
      /\ UNCHANGED <<slot, mem, free, calls, flock, now, since, changing,
                     crashes>>
      /\ Begin(p, g, None, "l_len")
  BY DEF GetMembers, shared
<1>3. /\ "l_len" \in Labels /\ "l_len" \in Getting /\ "l_len" \in Lookups
      /\ "l_len" \notin Listing /\ "l_len" \notin Working
      /\ "idle" \notin Working
  BY DEF Labels, Getting, Lookups, Listing, Working, Adding, Repairing,
         Writing, Joining, Counted, Discarding, Leaving, Flushing
<1>4. /\ pc[p] = "idle" /\ pc'[p] = "l_len" /\ Others(p)
      /\ loc'[p].group = g /\ loc'[p].k = 0
      /\ loc'[p].i = 1 /\ loc'[p].j = 1 /\ loc'[p].out = {}
      /\ pc' \in [Procs -> Labels] /\ loc' \in [Procs -> LocType]
  BY <1>1, <1>2, <1>3, BeginShape DEF Halves
<1>5. /\ must'[p] = {c \in Channels : since[<<g, c>>] >= 0}
      /\ may'[p] = {c \in Channels : since[<<g, c>>] # Out}
      /\ calm'[p] = ~changing
      /\ \A q \in Procs \ {p} : must'[q] = must[q] /\ may'[q] = may[q]
                                    /\ calm'[q] = calm[q]
      /\ must' \in [Procs -> SUBSET Channels]
      /\ may' \in [Procs -> SUBSET Channels]
      /\ calm' \in [Procs -> BOOLEAN]
  BY <1>1, <1>2 DEF Types, Truths
<1>6. Types'
  BY <1>1, <1>2, <1>4, <1>5 DEF Types, Truths
<1>7. Still
  <2>1. now <= now'
    BY <1>1, <1>2, GroupsAssumption DEF Types
  <2> QED BY <1>2, <1>3, <1>4, <2>1 DEF Still, Others
<1>8. Local(p)'
  <2>1. pc'[p] \notin Adding \cup Discarding
    BY <1>3, <1>4 DEF Working
  <2> QED BY <1>4, <2>1 DEF Local
<1>9. Ghosts(p)'
  <2>1. must'[p] \subseteq may'[p]
    BY <1>5 DEF Out
  <2> QED BY <1>2, <1>3, <1>4, <1>5, <2>1 DEF Ghosts
<1>10. Reading(p)'
  <2>1. Calmly(p)'
    BY <1>3, <1>4 DEF Calmly, Checked
  <2>2. ASSUME crashes = 0, NEW c \in must'[p]
        PROVE  Expects(p, c)'
    <3>1. c \in Channels /\ since[<<g, c>>] >= 0
      BY <1>5
    <3>2. PICK k \in Slots, j \in Entries : Home(g, c, k, j)
      BY <2>2, <3>1 DEF IInv, Rolls
    <3>3. Home(g, c, k, j)'
      BY <1>1, <1>7, <3>1, <3>2, StillHome
    <3>4. Ahead(p, c, k, j)'
      <4>1. 1 <= k
        BY DEF Slots
      <4> QED BY <1>3, <1>4, <4>1 DEF Ahead, Checked
    <3> QED BY <1>4, <3>3, <3>4 DEF Expects
  <2> QED BY <1>2, <2>1, <2>2 DEF Reading
<1>11. \A q \in Procs : calm'[q] => ~changing
  BY <1>1, <1>5 DEF Desk
<1> QED BY <1>4, <1>5, <1>6, <1>7, <1>8, <1>9, <1>10, <1>11, Quiet DEF Others

LEMMA TickStep ==
    ASSUME IInv, Tick
    PROVE  IInv'
<1>1. /\ now' = now + 1 /\ now < MaxTime
      /\ UNCHANGED <<slot, mem, free, flock, pc, loc, calls, since, must, may,
                     changing, calm, crashes>>
  BY DEF Tick, shared, count, truth, ghost
<1>2. now \in Nat /\ now' \in 0 .. MaxTime /\ now <= now'
  BY <1>1, GroupsAssumption DEF IInv, Types
<1>3. Types'
  BY <1>1, <1>2 DEF IInv, Types, Truths
<1>4. Still
  BY <1>1, <1>2 DEF Still
<1>5. \A q \in Procs : calm'[q] => ~changing
  BY <1>1 DEF IInv, Desk
<1> QED BY <1>1, <1>3, <1>4, <1>5, Quiet

LEMMA StutterStep ==
    ASSUME IInv, UNCHANGED vars
    PROVE  IInv'
<1>1. UNCHANGED <<slot, mem, free, flock, now, pc, loc, calls, since, must,
                  may, changing, calm, crashes>>
  BY DEF vars, shared, count, truth, ghost
<1>2. Types' /\ now <= now'
  BY <1>1, GroupsAssumption DEF IInv, Types, Truths
<1>3. Still
  BY <1>1, <1>2 DEF Still
<1>4. \A q \in Procs : calm'[q] => ~changing
  BY <1>1 DEF IInv, Desk
<1> QED BY <1>1, <1>2, <1>3, <1>4, Quiet

\* What a get_members does keeps everybody's invariant.
LEMMA GetStepKept ==
    ASSUME IInv, NEW p \in Procs, GetStep(p)
    PROVE  IInv'
<1>1. CASE LookupLen(p)
  <2>1. pc[p] = "l_len"
    BY <1>1 DEF LookupLen, NextSlot, Done, Read, Step
  <2> QED BY <1>1, <2>1, LookupLenStep
<1>2. CASE LookupVersion(p)
  <2>1. pc[p] = "l_ver"
    BY <1>2 DEF LookupVersion, NextSlot, Done, Read, Step
  <2> QED BY <1>2, <2>1, LookupVersionStep
<1>3. CASE LookupName(p)
  <2>1. pc[p] = "l_name"
    BY <1>3 DEF LookupName, Read, Step
  <2> QED BY <1>3, <2>1, LookupNameStep
<1>4. CASE LookupAgain(p)
  <2>1. pc[p] = "l_again"
    BY <1>4 DEF LookupAgain, NextSlot, Done, Read, Step
  <2> QED BY <1>4, <2>1, LookupAgainStep
<1>5. CASE LookupArray(p)
  <2>1. pc[p] = "l_array"
    BY <1>5 DEF LookupArray, Read, Step
  <2> QED BY <1>5, <2>1, LookupArrayStep
<1>6. CASE LookupCount(p)
  <2>1. pc[p] = "l_count"
    BY <1>6 DEF LookupCount, Read, Step
  <2> QED BY <1>6, <2>1, LookupCountStep
<1>7. CASE LookupActive(p)
  <2>1. pc[p] = "l_active"
    BY <1>7 DEF LookupActive, Done, Read, Step
  <2> QED BY <1>7, <2>1, LookupActiveStep
<1>8. CASE \/ LookupNow(p) \/ MemberActive(p) \/ MemberTime(p)
           \/ MemberFirst(p) \/ MemberSecond(p) \/ MemberWild(p) \/ Answer(p)
  BY <1>8, LookupNowStep, MemberActiveStep, MemberTimeStep, MemberFirstStep,
     MemberSecondStep, MemberWildStep, AnswerStep
<1> QED BY <1>1, <1>2, <1>3, <1>4, <1>5, <1>6, <1>7, <1>8 DEF GetStep

-----------------------------------------------------------------------------
(* What a step of the flock's holder may do to a get_members under way.     *)

\* A call no slot's change of hands disturbed sees the slots as they were;
\* an entry is filled with a channel that joins the group of the slot.
Gentle ==
    /\ \A q \in Procs : calm'[q] =>
          /\ calm[q]
          /\ \A i \in Slots :
                /\ slot'[i].len = slot[i].len /\ slot'[i].name = slot[i].name
                /\ slot'[i].array = slot[i].array
                /\ slot'[i].active => slot[i].active
    /\ \A a \in Arrays, j \in Entries :
          \/ /\ mem'[a][j].active => mem[a][j].active
             /\ mem'[a][j].first = mem[a][j].first
          \/ /\ mem'[a][j].first \in Channels
             /\ \E i \in Slots : slot[i].array = a
                    /\ since'[<<slot[i].name, mem'[a][j].first>>] # Out

\* Who is a member and stays one keeps its entry.
Steady ==
    crashes' = 0 =>
        \A g \in GroupNames, c \in Channels, k \in Slots, j \in Entries :
            since[<<g, c>>] >= 0 /\ since'[<<g, c>>] >= 0
                /\ Home(g, c, k, j) =>
               /\ Home(g, c, k, j)' /\ slot'[k].array = slot[k].array
               /\ since[<<g, c>>] <= since'[<<g, c>>]
               /\ \A i \in Slots :
                     /\ slot[i].len # 0 => slot'[i].len # 0
                     /\ i # k /\ slot'[i].name = g => slot[i].name = g

\* What has to, and may, be given is brought up to date.
Tells ==
    \A q \in Procs :
        /\ must'[q] \subseteq must[q] /\ may[q] \subseteq may'[q]
        /\ pc[q] \in Getting => \A c \in Channels :
              /\ since'[<<loc[q].group, c>>] # Out => c \in may'[q]
              /\ c \in must'[q] => since'[<<loc[q].group, c>>] >= 0

LEMMA TellsKnown ==
    ASSUME IInv, NEW new \in [GroupNames \X Channels -> Out .. MaxTime],
           Know(new)
    PROVE  Tells
<1>1. Types
  BY DEF IInv
<1>2. ASSUME NEW q \in Procs
      PROVE  /\ must'[q] \subseteq must[q] /\ may[q] \subseteq may'[q]
             /\ pc[q] \in Getting => \A c \in Channels :
                   /\ since'[<<loc[q].group, c>>] # Out => c \in may'[q]
                   /\ c \in must'[q] => since'[<<loc[q].group, c>>] >= 0
  <2>1. /\ since' = new
        /\ must'[q] = {c \in must[q] : new[<<loc[q].group, c>>] >= 0}
        /\ pc[q] # "idle" /\ loc[q].group # None =>
              may'[q] = may[q] \cup
                 {c \in Channels : new[<<loc[q].group, c>>] # Out}
        /\ may[q] \subseteq may'[q]
    BY <1>1, Known
  <2>2. pc[q] \in Getting => pc[q] # "idle" /\ loc[q].group # None
    BY Getters, GroupsAssumption DEF IInv, Desk, Local
  <2> QED BY <2>1, <2>2
<1> QED BY <1>2 DEF Tells

LEMMA TellsSame ==
    ASSUME IInv, UNCHANGED <<since, must, may>>
    PROVE  Tells
BY DEF IInv, Ghosts, Tells

LEMMA GhostsKept ==
    ASSUME IInv, Tells, NEW q \in Procs,
           \/ pc'[q] = pc[q] /\ loc'[q] = loc[q]
           \/ pc[q] \notin Getting /\ pc'[q] \notin Getting
    PROVE  Ghosts(q)'
<1>1. Ghosts(q)
  BY DEF IInv
<1>2. /\ must'[q] \subseteq must[q] /\ may[q] \subseteq may'[q]
      /\ pc[q] \in Getting => \A c \in Channels :
            /\ since'[<<loc[q].group, c>>] # Out => c \in may'[q]
            /\ c \in must'[q] => since'[<<loc[q].group, c>>] >= 0
  BY DEF Tells
<1>3. must'[q] \subseteq may'[q] /\ (pc[q] \notin Getting => must'[q] = {})
  BY <1>1, <1>2 DEF Ghosts
<1>4. CASE pc'[q] = pc[q] /\ loc'[q] = loc[q]
  BY <1>2, <1>3, <1>4 DEF Ghosts
<1>5. CASE pc[q] \notin Getting /\ pc'[q] \notin Getting
  BY <1>3, <1>5 DEF Ghosts
<1> QED BY <1>4, <1>5

LEMMA CalmKept ==
    ASSUME IInv, Types', Gentle, Tells, NEW q \in Procs,
           pc'[q] = pc[q], loc'[q] = loc[q], calm'[q]
    PROVE  Calmly(q)'
<1>1. Types /\ Index /\ Calmly(q) /\ loc[q].i \in Slots
  BY LocOf DEF IInv, Reading, Gentle
<1>2. /\ S(q)'.len = S(q).len /\ S(q)'.name = S(q).name
      /\ S(q)'.array = S(q).array /\ (S(q)'.active => S(q).active)
  BY <1>1 DEF Gentle, S
<1>3. may[q] \subseteq may'[q]
  BY DEF Tells
<1>4. ASSUME pc[q] \in Getting, S(q).array \in Arrays,
             S(q).name = loc[q].group, NEW j \in Entries,
             ~(/\ mem'[S(q).array][j].active => mem[S(q).array][j].active
               /\ mem'[S(q).array][j].first = mem[S(q).array][j].first)
      PROVE  mem'[S(q).array][j].first \in may'[q]
  <2>1. PICK a \in Arrays : a = S(q).array
    BY <1>4
  <2>2. PICK i \in Slots : /\ mem'[a][j].first \in Channels
                           /\ slot[i].array = a
                           /\ since'[<<slot[i].name, mem'[a][j].first>>] # Out
    BY <1>4, <2>1 DEF Gentle
  <2>3. i = loc[q].i
    BY <1>1, <2>1, <2>2, GroupsAssumption DEF Index, Apart, S
  <2> QED BY <1>4, <2>1, <2>2, <2>3 DEF Tells, S
<1>5. ASSUME pc[q] \in Getting, S(q).array \in Arrays,
             S(q).name = loc[q].group, Firsts(q, loc[q].i)
      PROVE  Firsts(q, loc[q].i)'
  <2> SUFFICES ASSUME NEW j \in Entries, mem'[S(q).array][j].active
               PROVE  mem'[S(q).array][j].first \in may'[q]
    BY <1>2 DEF Firsts, In, Entry, S
  <2>1. CASE mem[S(q).array][j].active
                /\ mem'[S(q).array][j].first = mem[S(q).array][j].first
    BY <1>3, <1>5, <2>1 DEF Firsts, In, Entry, S
  <2> QED BY <1>4, <1>5, <2>1
<1>6. Checked \cup {"l_now"} \cup Listing \subseteq Getting
  BY DEF Checked, Getting, Lookups, Listing
<1>7. pc[q] \in {"m_time", "m_first"} => A(q)'[loc[q].j].first \in may'[q]
  <2> SUFFICES ASSUME pc[q] \in {"m_time", "m_first"}
               PROVE  A(q)'[loc[q].j].first \in may'[q]
    OBVIOUS
  <2>1. pc[q] \in Getting /\ pc[q] \in Listing /\ loc[q].j \in Entries
    BY <1>1, LocOf DEF Getting, Listing
  <2>2. /\ S(q).array \in Arrays /\ S(q).name = loc[q].group
        /\ loc[q].slot.array = S(q).array
        /\ mem[S(q).array][loc[q].j].first \in may[q]
    BY <1>1, <2>1 DEF Calmly, A
  <2>3. mem'[S(q).array][loc[q].j].first \in may'[q]
    BY <1>3, <1>4, <2>1, <2>2
  <2> QED BY <2>2, <2>3 DEF A
<1>8. (S(q)'.active => S(q).active) /\ \A x \in may[q] : x \in may'[q]
  BY <1>2, <1>3
<1> QED BY <1>1, <1>2, <1>5, <1>6, <1>7, <1>8 DEF Calmly

LEMMA ExpectKept ==
    ASSUME IInv, Types', Steady, Tells, crashes <= crashes',
           NEW q \in Procs, pc'[q] = pc[q], loc'[q] = loc[q],
           pc[q] \in Getting, crashes' = 0, ~loc[q].skipped,
           NEW c \in must'[q]
    PROVE  Expects(q, c)'
<1>1. Types /\ Desk /\ crashes = 0
  <2>1. crashes \in Nat
    BY DEF IInv, Types
  <2> QED BY <2>1 DEF IInv
<1>2. /\ c \in must[q] /\ c \in Channels /\ loc[q].group \in GroupNames
      /\ since'[<<loc[q].group, c>>] >= 0
  BY <1>1 DEF Tells, Types, Truths, Desk, Local
<1>3. since[<<loc[q].group, c>>] >= 0
  BY <1>2 DEF IInv, Ghosts
<1>4. PICK k \in Slots, j \in Entries :
          Home(loc[q].group, c, k, j) /\ Ahead(q, c, k, j)
  BY <1>1, <1>2 DEF IInv, Reading, Expects
<1>5. PICK g \in GroupNames : g = loc[q].group
  BY <1>2
<1>6. /\ Home(g, c, k, j)' /\ slot'[k].array = slot[k].array
      /\ since[<<g, c>>] <= since'[<<g, c>>]
      /\ \A i \in Slots :
            /\ slot[i].len # 0 => slot'[i].len # 0
            /\ i # k /\ slot'[i].name = g => slot[i].name = g
  BY <1>2, <1>3, <1>4, <1>5 DEF Steady
<1>7. Ahead(q, c, k, j)'
  <2>1. loc[q].i \in Slots
    BY <1>1, LocOf
  <2>2. /\ pc[q] = "l_ver" => S(q)'.len # 0
        /\ pc[q] = "l_name" /\ loc[q].i # k => S(q)'.name # loc[q].group
    BY <1>4, <1>5, <1>6, <2>1 DEF Ahead, S
  <2>3. loc[q].now <= since[<<loc[q].group, c>>] + Expiry =>
            loc[q].now <= since'[<<loc[q].group, c>>] + Expiry
    <3>1. loc[q].now \in Int /\ since[<<g, c>>] \in Int /\ Expiry \in Int
      BY <1>1, <1>2, LocOf, SinceOf, GroupsAssumption
    <3>2. since'[<<g, c>>] \in Int
      <4>1. since'[<<g, c>>] \in Out .. MaxTime
        BY <1>2 DEF Types, Truths
      <4> QED BY <4>1, GroupsAssumption DEF Out
    <3> QED BY <1>5, <1>6, <3>1, <3>2
  <2> QED BY <1>4, <1>6, <2>2, <2>3 DEF Ahead
<1> QED BY <1>5, <1>6, <1>7 DEF Expects

LEMMA RollsKept ==
    ASSUME Types, Rolls, Steady, crashes <= crashes', crashes' \in Nat,
           \A i \in Slots : Held(i)' => Listed(i)' /\ Covered(i)',
           crashes' = 0 => \A g \in GroupNames, c \in Channels :
              ~(since[<<g, c>>] >= 0) /\ since'[<<g, c>>] >= 0 =>
                 \E k \in Slots, j \in Entries : Home(g, c, k, j)',
           \A a \in Arrays, j \in Entries : mem'[a][j].time <= now'
    PROVE  Rolls'
<1>1. ASSUME crashes' = 0, NEW g \in GroupNames, NEW c \in Channels,
             since'[<<g, c>>] >= 0
      PROVE  \E k \in Slots, j \in Entries : Home(g, c, k, j)'
  <2>1. CASE since[<<g, c>>] >= 0
    <3>1. crashes = 0
      BY <1>1 DEF Types
    <3>2. PICK k \in Slots, j \in Entries : Home(g, c, k, j)
      BY <2>1, <3>1 DEF Rolls
    <3> QED BY <1>1, <2>1, <3>2 DEF Steady
  <2>2. CASE ~(since[<<g, c>>] >= 0)
    BY <1>1, <2>2
  <2> QED BY <2>1, <2>2
<1> QED BY <1>1 DEF Rolls

\* The parts of a step of the flock's holder put together.
LEMMA Assemble ==
    ASSUME IInv, NEW p \in Procs, Others(p), flock' \in {p, None},
           pc[p] \notin Getting, pc'[p] \notin Getting, crashes <= crashes',
           Types', Desk', Index', Rolls', \A i \in Slots : Budget(i)',
           Work(p)', Tells, Gentle, Steady
    PROVE  IInv'
<1>1. ASSUME NEW q \in Procs PROVE Work(q)'
  <2>1. CASE q = p
    BY <2>1
  <2>2. CASE q # p
    <3>1. flock' # q
      BY <2>2, GroupsAssumption
    <3>2. pc'[q] \notin Working
      BY <3>1 DEF Desk
    <3> QED BY <3>2, IdleWork
  <2> QED BY <2>1, <2>2
<1>2. ASSUME NEW q \in Procs PROVE Ghosts(q)'
  BY GhostsKept DEF Others
<1>3. ASSUME NEW q \in Procs PROVE Reading(q)'
  <2>1. CASE q = p
    <3>1. pc'[q] \notin Getting
      BY <2>1
    <3>2. Calmly(q)'
      BY <3>1 DEF Calmly, Getting, Lookups, Listing, Checked
    <3> QED BY <3>1, <3>2 DEF Reading
  <2>2. CASE q # p
    <3>1. pc'[q] = pc[q] /\ loc'[q] = loc[q]
      BY <2>2 DEF Others
    <3>2. calm'[q] => Calmly(q)'
      BY <3>1, CalmKept
    <3>3. ASSUME pc[q] \in Getting, crashes' = 0, ~loc[q].skipped,
                 NEW c \in must'[q]
          PROVE  Expects(q, c)'
      BY <3>1, <3>3, ExpectKept
    <3> QED BY <3>1, <3>2, <3>3 DEF Reading
  <2> QED BY <2>1, <2>2
<1> QED BY <1>1, <1>2, <1>3 DEF IInv

LEMMA DueOf ==
    ASSUME NEW p \in Procs, flock = p
    PROVE  Due = IF pc[p] \in Unbumped THEN 2
                 ELSE IF pc[p] \in Bumped THEN 1 ELSE 0
BY GroupsAssumption DEF Due

LEMMA DueNext ==
    ASSUME NEW p \in Procs, flock' = p
    PROVE  Due' = IF pc'[p] \in Unbumped THEN 2
                  ELSE IF pc'[p] \in Bumped THEN 1 ELSE 0
BY GroupsAssumption DEF Due

LEMMA DueFree ==
    /\ flock = None => Due = 0
    /\ flock' = None => Due' = 0
BY DEF Due

LEMMA BudgetKept ==
    ASSUME Types, Types', calls' = calls, \A i \in Slots : Budget(i),
           Due \in {0, 1, 2}, Due' \in {0, 1, 2}, Due' > 0 => Due > 0,
           \A i \in Slots :
              /\ \/ slot'[i].ver + Due' <= slot[i].ver + Due
                 \/ slot'[i].ver + Due' <= 2
                 \/ Due > 0 /\ slot'[i].ver + Due' <= 4
              /\ \/ slot'[i].count <= slot[i].count
                 \/ slot'[i].count = slot[i].count + 1 /\ flock # None
                       /\ pc[flock] \in Adding \ {"e_even"},
           flock' # None /\ pc'[flock'] \in Adding \ {"e_even"} =>
              /\ flock # None /\ pc[flock] \in Adding \ {"e_even"}
              /\ \A i \in Slots : slot'[i].count <= slot[i].count
    PROVE  \A i \in Slots : Budget(i)'
<1> SUFFICES ASSUME NEW i \in Slots PROVE Budget(i)'
  OBVIOUS
<1>1. /\ slot[i].ver \in Nat /\ slot[i].count \in Nat
      /\ slot'[i].ver \in Nat /\ slot'[i].count \in Nat /\ calls \in Nat
  <2>1. slot'[i] \in SlotType
    BY DEF Types
  <2>2. calls \in Nat
    BY GroupsAssumption DEF Types
  <2> QED BY <2>1, <2>2, SlotOf DEF SlotType
<1>2. Budget(i)
  OBVIOUS
<1> QED BY <1>1, <1>2 DEF Budget

-----------------------------------------------------------------------------
(* Steps that leave the entries alone and every slot to its group.          *)

Excess(i) ==
    slot[i].count + crashes + One(HolderAt(i, {"e_odd", "e_count"}))
        - One(HolderAt(i, {"d_odd", "d_count"}))

LEMMA InFinite ==
    ASSUME Types, NEW a
    PROVE  /\ IsFiniteSet(In(a)) /\ Cardinality(In(a)) \in Nat
           /\ In(a) \in SUBSET Entries
<1>1. IsFiniteSet(Entries)
  BY FS_Interval, GroupsAssumption DEF Entries
<1>2. In(a) \in SUBSET Entries
  BY DEF In
<1> QED BY <1>1, <1>2, FS_Subset, FS_CardinalityType

LEMMA CoveredExcess ==
    ASSUME Types, NEW i \in Slots
    PROVE  /\ Covered(i) <=> Cardinality(In(slot[i].array)) <= Excess(i)
           /\ Excess(i) \in Int
<1>1. /\ slot[i].count \in Nat /\ crashes \in Nat
      /\ Cardinality(In(slot[i].array)) \in Nat
  BY SlotOf, InFinite DEF Types
<1> QED BY <1>1 DEF Covered, Excess, One

LEMMA CoveredNext ==
    ASSUME Types, Types', NEW i \in Slots, Covered(i),
           In(slot[i].array)' = In(slot[i].array), Excess(i) <= Excess(i)'
    PROVE  Covered(i)'
<1>1. /\ slot[i].count \in Nat /\ crashes \in Nat
      /\ Cardinality(In(slot[i].array)) \in Nat
  BY SlotOf, InFinite DEF Types
<1>2. slot'[i].count \in Nat /\ crashes' \in Nat
  BY DEF Types, SlotType
<1> QED BY <1>1, <1>2 DEF Covered, Excess, One

LEMMA ExcessKept ==
    ASSUME Types, Types', NEW i \in Slots, slot'[i].count = slot[i].count,
           crashes <= crashes',
           HolderAt(i, {"e_odd", "e_count"}) =>
              HolderAt(i, {"e_odd", "e_count"})' \/ crashes + 1 <= crashes',
           HolderAt(i, {"d_odd", "d_count"})' =>
              HolderAt(i, {"d_odd", "d_count"})
    PROVE  Excess(i) <= Excess(i)'
<1>1. slot[i].count \in Nat /\ crashes \in Nat /\ crashes' \in Nat
  BY SlotOf DEF Types
<1> QED BY <1>1 DEF Excess, One

Unlisted(g, c) ==
    \A i \in Slots : Held(i) /\ slot[i].active /\ slot[i].name = g =>
        \A j \in In(slot[i].array) : Entry(i, j).first # c

Tended ==
    /\ \A i \in Slots :
          /\ slot'[i].len = slot[i].len /\ slot'[i].name = slot[i].name
          /\ slot'[i].array = slot[i].array
          /\ slot'[i].active => slot[i].active
          /\ Held(i)' => Held(i)
          /\ crashes' = 0 =>
                /\ Held(i) => Held(i)'
                /\ slot[i].active /\ ~slot'[i].active /\ Held(i) =>
                        In(slot[i].array) = {}
                /\ Odd(i)' => HolderAt(i, Bumped \cup {"w", "w_even"})'
    /\ mem' = mem /\ free' = free /\ crashes <= crashes' /\ now <= now'
    /\ \A g \in GroupNames, c \in Channels :
          /\ since'[<<g, c>>] = Out => since[<<g, c>>] = Out \/ Unlisted(g, c)
          /\ crashes' = 0 /\ since[<<g, c>>] >= 0 /\ since'[<<g, c>>] >= 0 =>
                since'[<<g, c>>] = since[<<g, c>>]

LEMMA TendedIndex ==
    ASSUME Types, Types', Index, Tended
    PROVE  Index'
<1>1. \A i \in Slots : Pointer(i)'
  BY DEF Tended, Index, Pointer
<1>2. \A i, k \in Slots : i # k => Apart(i, k)'
  BY DEF Tended, Index, Apart
<1> QED BY <1>1, <1>2 DEF Tended, Index

LEMMA TendedSteady ==
    ASSUME Types, Types', Tended
    PROVE  Steady
<1> SUFFICES ASSUME crashes' = 0, NEW g \in GroupNames, NEW c \in Channels,
                    NEW k \in Slots, NEW j \in Entries,
                    since[<<g, c>>] >= 0, since'[<<g, c>>] >= 0,
                    Home(g, c, k, j)
             PROVE  /\ Home(g, c, k, j)' /\ slot'[k].array = slot[k].array
                    /\ since[<<g, c>>] <= since'[<<g, c>>]
                    /\ \A i \in Slots :
                          /\ slot[i].len # 0 => slot'[i].len # 0
                          /\ i # k /\ slot'[i].name = g => slot[i].name = g
  BY DEF Steady
<1>1. since'[<<g, c>>] = since[<<g, c>>] /\ since[<<g, c>>] \in Int
  BY SinceOf DEF Tended
<1>2. In(slot[k].array)' = In(slot[k].array) /\ Entry(k, j)' = Entry(k, j)
  BY DEF Tended, In, Entry
<1>3. Held(k)' /\ slot'[k].active /\ slot'[k].name = g
  <2>1. Held(k) /\ slot[k].active /\ slot[k].name = g
        /\ In(slot[k].array) # {}
    BY DEF Home
  <2> QED BY <2>1 DEF Tended
<1>4. Home(g, c, k, j)'
  BY <1>1, <1>2, <1>3 DEF Home
<1> QED BY <1>1, <1>4 DEF Tended

LEMMA TendedListed ==
    ASSUME Types, Index, Tended, NEW i \in Slots, Held(i)', Listed(i)
    PROVE  Listed(i)'
<1>1. In(slot[i].array)' = In(slot[i].array)
  BY DEF Tended, In
<1>2. \A j \in Entries : Entry(i, j)' = Entry(i, j)
  BY DEF Tended, Entry
<1>3. Held(i) /\ (slot'[i].active => slot[i].active)
      /\ slot'[i].name = slot[i].name
  BY DEF Tended
<1>4. slot[i].name \in GroupNames
  BY <1>3 DEF Index, Pointer
<1>5. ASSUME slot'[i].active, NEW j \in In(slot[i].array)
      PROVE  since'[<<slot[i].name, Entry(i, j).first>>] # Out
  <2>1. /\ Entry(i, j).first \in Channels
        /\ since[<<slot[i].name, Entry(i, j).first>>] # Out
    BY <1>3, <1>5 DEF Listed
  <2>2. ~Unlisted(slot[i].name, Entry(i, j).first)
    BY <1>3, <1>5 DEF Unlisted
  <2>3. PICK g \in GroupNames, c \in Channels :
            g = slot[i].name /\ c = Entry(i, j).first
    BY <1>4, <2>1
  <2> QED BY <2>1, <2>2, <2>3 DEF Tended
<1>6. \A j \in In(slot[i].array) : j \in Entries
  BY DEF In
<1> QED BY <1>1, <1>2, <1>3, <1>5, <1>6 DEF Listed

LEMMA TendedStep ==
    ASSUME IInv, NEW p \in Procs, Others(p), flock' \in {p, None},
           pc[p] \notin Getting, pc'[p] \notin Getting,
           Types', Desk', \A i \in Slots : Budget(i)', Work(p)', Tells, Tended,
           \A q \in Procs : calm'[q] => calm[q],
           \A i \in Slots : Excess(i) <= Excess(i)',
           crashes' = 0 => \A g \in GroupNames, c \in Channels :
              ~(since[<<g, c>>] >= 0) /\ since'[<<g, c>>] >= 0 =>
                 \E k \in Slots, j \in Entries : Home(g, c, k, j)'
    PROVE  IInv'
<1>1. Types /\ Index /\ Rolls
  BY DEF IInv
<1>2. Index' /\ Steady
  BY <1>1, TendedIndex, TendedSteady
<1>3. Gentle
  <2>1. \A a \in Arrays, j \in Entries : mem'[a][j] = mem[a][j]
    BY DEF Tended
  <2> QED BY <2>1 DEF Gentle, Tended
<1>4. Rolls'
  <2>1. ASSUME NEW i \in Slots, Held(i)' PROVE Listed(i)' /\ Covered(i)'
    <3>1. Held(i) /\ Listed(i) /\ Covered(i)
      BY <1>1, <2>1 DEF Tended, Rolls
    <3>2. Listed(i)'
      BY <1>1, <2>1, <3>1, TendedListed
    <3>3. In(slot[i].array)' = In(slot[i].array)
      BY DEF Tended, In
    <3>4. Covered(i)'
      BY <1>1, <3>1, <3>3, CoveredNext
    <3> QED BY <3>2, <3>4
  <2>2. ASSUME NEW a \in Arrays, NEW j \in Entries
        PROVE  mem'[a][j].time <= now'
    <3>1. mem'[a][j].time = mem[a][j].time /\ mem[a][j].time <= now
      BY <1>1 DEF Tended, Rolls
    <3>2. mem[a][j].time \in Int /\ now \in Int /\ now' \in Int
      <4>1. mem[a][j].time \in 0 .. MaxTime
        BY <1>1, EntryOf
      <4> QED BY <1>1, <4>1, GroupsAssumption DEF Types
    <3> QED BY <3>1, <3>2 DEF Tended
  <2>3. crashes <= crashes' /\ crashes' \in Nat
    BY DEF Tended, Types
  <2> QED BY <1>1, <1>2, <2>1, <2>2, <2>3, RollsKept
<1> QED BY <1>2, <1>3, <1>4, Assemble DEF Tended

-----------------------------------------------------------------------------
(* Steps of the flock's holder that store nothing.                          *)

Light == {"a_scan", "a_now", "a_entry", "d_slot", "d_entry", "f_next",
          "return"}
LightNext == {"a_scan", "r_odd", "a_now", "a_entry", "d_slot", "d_entry", "f"}

LEMMA LightLabels ==
    /\ \A x \in Light \cup LightNext \cup {"idle"} :
          /\ x \notin Bumped \cup {"w", "w_even"}
          /\ x \notin {"e_odd", "e_count"} /\ x \notin {"d_odd", "d_count"}
          /\ x \notin Getting /\ x # "e_even"
    /\ \A x \in Light \cup LightNext : x \in Working
    /\ "idle" \notin Working /\ "idle" \notin Unbumped /\ "idle" \notin Adding
    /\ Adding \subseteq Working /\ "idle" \notin Changing
BY DEF Light, LightNext, Bumped, Working, Adding, Repairing, Writing, Joining,
       Counted, Discarding, Leaving, Flushing, Getting, Lookups, Listing,
       Unbumped, Changing

LEMMA LightTended ==
    ASSUME IInv, NEW p \in Procs,
           UNCHANGED <<slot, mem, free, crashes, now>>,
           flock = None \/ (flock = p /\ pc[p] \in Light),
           flock' = None \/ (flock' = p /\ pc'[p] \in LightNext),
           \A g \in GroupNames, c \in Channels :
              /\ since'[<<g, c>>] = Out =>
                    since[<<g, c>>] = Out \/ Unlisted(g, c)
              /\ since[<<g, c>>] >= 0 /\ since'[<<g, c>>] >= 0 =>
                    since'[<<g, c>>] = since[<<g, c>>]
    PROVE  Tended /\ \A i \in Slots : Excess(i) <= Excess(i)'
<1>1. Types /\ Index /\ now \in Int /\ crashes \in Int
  BY GroupsAssumption DEF IInv, Types
<1>2. \A i, L : HolderAt(i, L) <=>
                    flock = p /\ pc[p] \in L /\ loc[p].i = i
  BY GroupsAssumption DEF HolderAt, At
<1>3. \A i, L : HolderAt(i, L)' <=>
                    flock' = p /\ pc'[p] \in L /\ loc'[p].i = i
  BY GroupsAssumption DEF HolderAt, At
<1>4. \A i \in Slots :
         /\ ~HolderAt(i, Bumped) /\ ~HolderAt(i, Bumped)'
         /\ ~HolderAt(i, Bumped \cup {"w", "w_even"})
         /\ ~HolderAt(i, {"e_odd", "e_count"})
         /\ ~HolderAt(i, {"d_odd", "d_count"})'
  BY <1>2, <1>3, LightLabels, GroupsAssumption
<1>5. \A i \in Slots : /\ Odd(i)' <=> Odd(i)
                       /\ Held(i)' <=> Held(i)
                       /\ crashes' = 0 => ~Odd(i)
  <2>1. \A i \in Slots : Odd(i)' <=> Odd(i)
    BY DEF Odd
  <2> QED BY <1>1, <1>4, <2>1 DEF Held, Index
<1>6. \A i \in Slots : Excess(i) <= Excess(i)'
  <2> SUFFICES ASSUME NEW i \in Slots PROVE Excess(i) <= Excess(i)'
    OBVIOUS
  <2>1. slot[i].count \in Nat
    BY <1>1, SlotOf
  <2> QED BY <1>1, <1>4, <2>1 DEF Excess, One
<1>7. Tended
  <2>1. crashes <= crashes' /\ now <= now'
    BY <1>1
  <2> QED BY <1>5, <2>1 DEF Tended
<1> QED BY <1>6, <1>7

LightFrom(p) ==
    \/ flock = p /\ pc[p] \in Light /\ calls' = calls
    \/ flock = None /\ pc[p] = "idle" /\ calls' = calls + 1
LightTo(p) ==
    \/ /\ flock' = p /\ pc'[p] \in LightNext
       /\ pc'[p] \in Adding => pc[p] \in Adding \cup {"idle"}
       /\ pc'[p] \in Unbumped => pc[p] \in Unbumped \cup {"idle"}
    \/ flock = p /\ flock' = None /\ pc'[p] = "idle"

LEMMA LightStep ==
    ASSUME IInv, NEW p \in Procs, Others(p), Types',
           UNCHANGED <<slot, mem, free, crashes, now>>,
           LightFrom(p), LightTo(p),
           changing' <=> pc'[p] \in Changing,
           \A q \in Procs : calm'[q] => calm[q] /\ ~changing',
           Local(p)', Work(p)', Tells,
           \A g \in GroupNames, c \in Channels :
              /\ since'[<<g, c>>] = Out =>
                    since[<<g, c>>] = Out \/ Unlisted(g, c)
              /\ since'[<<g, c>>] >= 0 => since'[<<g, c>>] = since[<<g, c>>]
    PROVE  IInv'
<1>1. Types /\ Desk /\ \A i \in Slots : Budget(i)
  BY DEF IInv
<1>2. Tended /\ \A i \in Slots : Excess(i) <= Excess(i)'
  BY LightTended DEF LightFrom, LightTo
<1>3. Desk'
  <2>1. \/ flock' = flock /\ (pc'[p] \in Working <=> pc[p] \in Working)
        \/ flock = None /\ flock' = p /\ pc'[p] \in Working
        \/ flock = p /\ flock' = None /\ pc'[p] \notin Working
    BY LightLabels, GroupsAssumption DEF LightFrom, LightTo
  <2>2. pc[p] \in Working \/ pc'[p] \in Working
    BY LightLabels, GroupsAssumption DEF LightFrom, LightTo
  <2> QED BY <1>1, <2>1, <2>2, DeskKept
<1>4. \A i \in Slots : Budget(i)'
  <2> SUFFICES ASSUME NEW i \in Slots PROVE Budget(i)'
    OBVIOUS
  <2>1. /\ Budget(i) /\ slot[i].ver \in Nat /\ slot[i].count \in Nat
        /\ calls \in Nat
    BY <1>1, SlotOf, GroupsAssumption DEF Types
  <2>2. CASE flock = p /\ pc[p] \in Light /\ calls' = calls
    <3>1. flock # None /\ Due \in {0, 1, 2}
      BY <2>2, GroupsAssumption DEF Due
    <3>2. CASE flock' = None
      <4>1. Due' = 0
        BY <3>2, DueFree
      <4> QED BY <2>1, <2>2, <3>1, <3>2, <4>1 DEF Budget
    <3>3. CASE flock' = p
      <4>1. /\ pc'[p] \in Adding => pc[p] \in Adding \ {"e_even"}
            /\ pc'[p] \in Unbumped => pc[p] \in Unbumped
            /\ pc'[p] \notin Bumped /\ flock' # None
        BY <2>2, <3>1, <3>3, LightLabels DEF LightTo
      <4>2. Due' \in {0, 2} /\ (Due' = 2 => Due = 2)
        BY <2>2, <3>3, <4>1, DueOf, DueNext
      <4> QED BY <2>1, <2>2, <3>1, <3>3, <4>1, <4>2 DEF Budget
    <3> QED BY <3>2, <3>3 DEF LightTo
  <2>3. CASE flock = None /\ calls' = calls + 1
    <3>1. Due = 0 /\ Due' \in {0, 1, 2}
      BY <2>3, DueFree DEF Due
    <3> QED BY <2>1, <2>3, <3>1 DEF Budget
  <2> QED BY <2>2, <2>3 DEF LightFrom
<1>5. \A g \in GroupNames, c \in Channels :
         ~(since[<<g, c>>] >= 0) => ~(since'[<<g, c>>] >= 0)
  OBVIOUS
<1>6. pc[p] \notin Getting /\ pc'[p] \notin Getting /\ flock' \in {p, None}
  BY LightLabels DEF LightFrom, LightTo
<1>7. \A q \in Procs : calm'[q] => calm[q]
  OBVIOUS
<1> QED BY <1>2, <1>3, <1>4, <1>5, <1>6, <1>7, TendedStep

LEMMA AddBegins ==
    ASSUME IInv, NEW p \in Procs, NEW g \in GroupNames, NEW c \in Channels,
           Add(p, g, c)
    PROVE  IInv'
<1> DEFINE new == [since EXCEPT ![<<g, c>>] = IF @ = Out THEN Unsure ELSE @]
<1>1. /\ Types /\ flock = None /\ flock' = p /\ calls' = calls + 1
      /\ calls < MaxCalls
      /\ Begin(p, g, c, "a_scan") /\ Know(new)
      /\ UNCHANGED <<slot, mem, free, now, crashes, changing, calm>>
  BY DEF IInv, Add, shared, ghost
<1>2. new \in [GroupNames \X Channels -> Out .. MaxTime]
  <2>1. (IF since[<<g, c>>] = Out THEN Unsure ELSE since[<<g, c>>])
            \in Out .. MaxTime
    BY <1>1, SinceOf
  <2>2. new = [since EXCEPT ![<<g, c>>] =
                  IF since[<<g, c>>] = Out THEN Unsure ELSE since[<<g, c>>]]
    OBVIOUS
  <2> QED BY <1>1, <2>1, <2>2, SinceSet
<1>3. /\ new[<<g, c>>] # Out /\ Unsure < 0
      /\ \A h \in GroupNames, d \in Channels :
            /\ new[<<h, d>>] = Out => since[<<h, d>>] = Out
            /\ new[<<h, d>>] >= 0 => new[<<h, d>>] = since[<<h, d>>]
  BY <1>1 DEF Types, Truths, Out, Unsure
<1> HIDE DEF new
<1>4. since' = new /\ Truths' /\ Tells
  BY <1>1, <1>2, Known, TellsKnown
<1>5. "a_scan" \in Labels /\ "a_scan" \in LightNext /\ "a_scan" \in Adding
      /\ "a_scan" \notin Changing \cup Lookups
      /\ "a_scan" \notin Repairing \cup Writing \cup Joining \cup Discarding
                            \cup Flushing \cup Counted \cup Leaving
      /\ "a_scan" \notin Getting
  <2>1. "a_scan" \in Labels /\ "a_scan" \in LightNext /\ "a_scan" \in Adding
    BY DEF Labels, Working, Adding, Discarding, LightNext
  <2>2. "a_scan" \notin Changing \cup Lookups /\ "a_scan" \notin Getting
    BY DEF Changing, Flushing, Lookups, Getting, Listing
  <2>3. /\ "a_scan" \notin Repairing /\ "a_scan" \notin Writing
        /\ "a_scan" \notin Joining /\ "a_scan" \notin Discarding
        /\ "a_scan" \notin Flushing /\ "a_scan" \notin Counted
        /\ "a_scan" \notin Leaving
    BY DEF Repairing, Writing, Joining, Counted, Leaving, Discarding, Adding,
           Flushing
  <2> QED BY <2>1, <2>2, <2>3
<1>6. /\ pc[p] = "idle" /\ pc'[p] = "a_scan" /\ Others(p)
      /\ loc'[p].group = g /\ loc'[p].chan = c /\ loc'[p].k = 0
      /\ pc' \in [Procs -> Labels] /\ loc' \in [Procs -> LocType]
  <2>1. PICK next \in Labels : next = "a_scan"
    BY <1>5
  <2>2. Begin(p, g, c, next) /\ c \in Halves
    BY <1>1, <2>1 DEF Halves
  <2>3. /\ pc[p] = "idle" /\ pc'[p] = next /\ Others(p)
        /\ loc'[p].group = g /\ loc'[p].chan = c /\ loc'[p].k = 0
        /\ pc' \in [Procs -> Labels] /\ loc' \in [Procs -> LocType]
    BY <1>1, <2>2, BeginShape
  <2> QED BY <2>1, <2>3
<1>7. Types'
  <2>1. calls' \in 0 .. MaxCalls
    BY <1>1, GroupsAssumption DEF Types
  <2> QED BY <1>1, <1>4, <1>6, <2>1 DEF Types
<1>8. Local(p)'
  BY <1>5, <1>6 DEF Local
<1>9. Work(p)'
  BY <1>3, <1>4, <1>5, <1>6 DEF Work, Repairs, Creates, Joins, Leaves, Flushes
<1>10. ~changing /\ (changing' <=> pc'[p] \in Changing)
  BY <1>1, <1>5, <1>6 DEF IInv, Desk
<1>11. LightFrom(p) /\ LightTo(p)
  BY <1>1, <1>5, <1>6 DEF LightFrom, LightTo
<1>12. \A q \in Procs : calm'[q] => calm[q] /\ ~changing'
  BY <1>1, <1>10
<1>13. \A h \in GroupNames, d \in Channels :
          /\ since'[<<h, d>>] = Out =>
                since[<<h, d>>] = Out \/ Unlisted(h, d)
          /\ since'[<<h, d>>] >= 0 => since'[<<h, d>>] = since[<<h, d>>]
  BY <1>3, <1>4
<1>14. UNCHANGED <<slot, mem, free, crashes, now>>
  BY <1>1
<1> QED BY <1>4, <1>6, <1>7, <1>8, <1>9, <1>10, <1>11, <1>12, <1>13, <1>14,
           LightStep

LEMMA DiscardBegins ==
    ASSUME IInv, NEW p \in Procs, NEW g \in GroupNames, NEW c \in Channels,
           Discard(p, g, c)
    PROVE  IInv'
<1> DEFINE new == [since EXCEPT ![<<g, c>>] = IF @ = Out THEN Out ELSE Unsure]
<1>1. /\ Types /\ flock = None /\ flock' = p /\ calls' = calls + 1
      /\ calls < MaxCalls
      /\ Begin(p, g, c, "d_slot") /\ Know(new)
      /\ UNCHANGED <<slot, mem, free, now, crashes, changing, calm>>
  BY DEF IInv, Discard, shared, ghost
<1>2. new \in [GroupNames \X Channels -> Out .. MaxTime]
  <2>1. (IF since[<<g, c>>] = Out THEN Out ELSE Unsure) \in Out .. MaxTime
    BY <1>1, SinceOf
  <2>2. new = [since EXCEPT ![<<g, c>>] =
                  IF since[<<g, c>>] = Out THEN Out ELSE Unsure]
    OBVIOUS
  <2> QED BY <1>1, <2>1, <2>2, SinceSet
<1>3. /\ new[<<g, c>>] < 0
      /\ \A h \in GroupNames, d \in Channels :
            /\ new[<<h, d>>] = Out => since[<<h, d>>] = Out
            /\ new[<<h, d>>] >= 0 => new[<<h, d>>] = since[<<h, d>>]
  <2>1. since \in [GroupNames \X Channels -> Out .. MaxTime]
    BY <1>1 DEF Types, Truths
  <2>2. \A h \in GroupNames, d \in Channels :
           new[<<h, d>>] = IF <<h, d>> = <<g, c>>
                             THEN IF since[<<g, c>>] = Out THEN Out ELSE Unsure
                             ELSE since[<<h, d>>]
    BY <2>1
  <2>3. Out < 0 /\ Unsure < 0 /\ Unsure # Out
    BY DEF Out, Unsure
  <2> HIDE DEF new
  <2>4. new[<<g, c>>] \in {Out, Unsure}
    BY <2>2
  <2>5. ASSUME NEW h \in GroupNames, NEW d \in Channels
        PROVE  /\ new[<<h, d>>] = Out => since[<<h, d>>] = Out
               /\ new[<<h, d>>] >= 0 => new[<<h, d>>] = since[<<h, d>>]
    <3>1. CASE h = g /\ d = c
      BY <2>2, <2>3, <3>1 DEF Out, Unsure
    <3>2. CASE ~(h = g /\ d = c)
      BY <2>2, <3>2
    <3> QED BY <3>1, <3>2
  <2> QED BY <2>3, <2>4, <2>5
<1> HIDE DEF new
<1>4. since' = new /\ Truths' /\ Tells
  BY <1>1, <1>2, Known, TellsKnown
<1>5. "d_slot" \in Labels /\ "d_slot" \in LightNext /\ "d_slot" \in Discarding
      /\ "d_slot" \notin Changing \cup Lookups
      /\ "d_slot" \notin Repairing \cup Writing \cup Joining \cup Adding
                            \cup Flushing \cup Counted \cup Leaving
      /\ "d_slot" \notin Getting
  <2>1. "d_slot" \in Labels /\ "d_slot" \in LightNext /\ "d_slot" \in Discarding
    BY DEF Labels, Working, Adding, Discarding, LightNext
  <2>2. "d_slot" \notin Changing \cup Lookups /\ "d_slot" \notin Getting
    BY DEF Changing, Flushing, Lookups, Getting, Listing
  <2>3. /\ "d_slot" \notin Repairing /\ "d_slot" \notin Writing
        /\ "d_slot" \notin Joining /\ "d_slot" \notin Adding
        /\ "d_slot" \notin Flushing /\ "d_slot" \notin Counted
        /\ "d_slot" \notin Leaving
    BY DEF Repairing, Writing, Joining, Counted, Leaving, Discarding, Adding,
           Flushing
  <2> QED BY <2>1, <2>2, <2>3
<1>6. /\ pc[p] = "idle" /\ pc'[p] = "d_slot" /\ Others(p)
      /\ loc'[p].group = g /\ loc'[p].chan = c /\ loc'[p].k = 0
      /\ pc' \in [Procs -> Labels] /\ loc' \in [Procs -> LocType]
  <2>1. PICK next \in Labels : next = "d_slot"
    BY <1>5
  <2>2. Begin(p, g, c, next) /\ c \in Halves
    BY <1>1, <2>1 DEF Halves
  <2>3. /\ pc[p] = "idle" /\ pc'[p] = next /\ Others(p)
        /\ loc'[p].group = g /\ loc'[p].chan = c /\ loc'[p].k = 0
        /\ pc' \in [Procs -> Labels] /\ loc' \in [Procs -> LocType]
    BY <1>1, <2>2, BeginShape
  <2> QED BY <2>1, <2>3
<1>7. Types'
  <2>1. calls' \in 0 .. MaxCalls
    BY <1>1, GroupsAssumption DEF Types
  <2> QED BY <1>1, <1>4, <1>6, <2>1 DEF Types
<1>8. Local(p)'
  BY <1>5, <1>6 DEF Local
<1>9. Work(p)'
  BY <1>3, <1>4, <1>5, <1>6 DEF Work, Repairs, Creates, Joins, Leaves, Flushes
<1>10. ~changing /\ (changing' <=> pc'[p] \in Changing)
  BY <1>1, <1>5, <1>6 DEF IInv, Desk
<1>11. LightFrom(p) /\ LightTo(p)
  BY <1>1, <1>5, <1>6 DEF LightFrom, LightTo
<1>12. \A q \in Procs : calm'[q] => calm[q] /\ ~changing'
  BY <1>1, <1>10
<1>13. \A h \in GroupNames, d \in Channels :
          /\ since'[<<h, d>>] = Out =>
                since[<<h, d>>] = Out \/ Unlisted(h, d)
          /\ since'[<<h, d>>] >= 0 => since'[<<h, d>>] = since[<<h, d>>]
  BY <1>3, <1>4
<1>14. UNCHANGED <<slot, mem, free, crashes, now>>
  BY <1>1
<1> QED BY <1>4, <1>6, <1>7, <1>8, <1>9, <1>10, <1>11, <1>12, <1>13, <1>14,
           LightStep

LEMMA FlushBegins ==
    ASSUME IInv, NEW p \in Procs, FlushBegin(p)
    PROVE  IInv'
<1> DEFINE new == [x \in DOMAIN since |->
                      IF since[x] = Out THEN Out ELSE Unsure]
<1>1. /\ Types /\ flock = None /\ flock' = p /\ calls' = calls + 1
      /\ calls < MaxCalls /\ Step(p, "idle", "f") /\ Know(new) /\ Turn
      /\ loc' = loc /\ UNCHANGED <<slot, mem, free, now, crashes>>
  BY DEF IInv, FlushBegin, shared
<1>2. new \in [GroupNames \X Channels -> Out .. MaxTime]
  <2>1. DOMAIN since = GroupNames \X Channels
    BY <1>1 DEF Types, Truths
  <2>2. Out \in Out .. MaxTime /\ Unsure \in Out .. MaxTime
    BY <1>1, SinceOf
  <2> QED BY <2>1, <2>2
<1>3. /\ \A x \in GroupNames \X Channels : new[x] < 0
      /\ \A h \in GroupNames, d \in Channels :
            /\ new[<<h, d>>] = Out => since[<<h, d>>] = Out
            /\ ~(new[<<h, d>>] >= 0)
  BY <1>1 DEF Types, Truths, Out, Unsure
<1> HIDE DEF new
<1>4. since' = new /\ Truths' /\ Tells
  BY <1>1, <1>2, Known, TellsKnown
<1>5. "f" \in Labels /\ "f" \in LightNext /\ "f" \in Flushing
      /\ "f" \in Changing /\ "f" \notin Lookups \cup Unbumped
      /\ "f" \notin Repairing \cup Writing \cup Joining \cup Adding
                            \cup Discarding \cup Counted \cup Leaving
      /\ "f" \notin Getting
  BY DEF Labels, Working, Adding, LightNext, Changing, Repairing, Writing,
     Joining,
         Counted, Leaving, Discarding, Flushing, Lookups, Getting, Listing,
         Unbumped
<1>6. /\ pc[p] = "idle" /\ pc'[p] = "f" /\ Others(p)
      /\ loc[p].k = 0 /\ loc[p].i = 1 /\ pc' \in [Procs -> Labels]
  <2>1. pc[p] = "idle"
    BY <1>1, Stepped
  <2> QED BY <1>1, <1>5, <2>1, Stepped DEF Others, IInv, Desk, Local
<1>7. /\ changing' = ~changing /\ \A q \in Procs : calm'[q] = FALSE
      /\ calm' \in [Procs -> BOOLEAN]
  BY <1>1 DEF Turn
<1>8. Types'
  <2>1. calls' \in 0 .. MaxCalls
    BY <1>1, GroupsAssumption DEF Types
  <2>2. changing' \in BOOLEAN
    BY <1>7
  <2> QED BY <1>1, <1>4, <1>6, <1>7, <2>1, <2>2 DEF Types
<1>9. Local(p)'
  BY <1>1, <1>5, <1>6 DEF Local
<1>10. Work(p)'
  <2>1. \A j \in Slots : ~(j < 1)
    BY DEF Slots
  <2> QED BY <1>1, <1>3, <1>4, <1>5, <1>6, <2>1
          DEF Work, Repairs, Creates, Joins, Leaves, Flushes
<1>11. ~changing /\ (changing' <=> pc'[p] \in Changing)
  BY <1>1, <1>5, <1>6, <1>7 DEF IInv, Desk
<1>12. LightFrom(p) /\ LightTo(p)
  BY <1>1, <1>5, <1>6 DEF LightFrom, LightTo
<1>13. \A q \in Procs : calm'[q] => calm[q] /\ ~changing'
  BY <1>7
<1>14. \A h \in GroupNames, d \in Channels :
          /\ since'[<<h, d>>] = Out =>
                since[<<h, d>>] = Out \/ Unlisted(h, d)
          /\ since'[<<h, d>>] >= 0 => since'[<<h, d>>] = since[<<h, d>>]
  BY <1>3, <1>4
<1>15. UNCHANGED <<slot, mem, free, crashes, now>>
  BY <1>1
<1> QED BY <1>4, <1>6, <1>8, <1>9, <1>10, <1>11, <1>12, <1>13, <1>14, <1>15,
           LightStep

LEMMA Ends ==
    ASSUME IInv, NEW p \in Procs, NEW at \in Light \ {"f_next"}, End(p, at),
           Truths', Tells,
           \A g \in GroupNames, c \in Channels :
              /\ since'[<<g, c>>] = Out =>
                    since[<<g, c>>] = Out \/ Unlisted(g, c)
              /\ since'[<<g, c>>] >= 0 => since'[<<g, c>>] = since[<<g, c>>]
    PROVE  IInv'
<1>1. Types /\ Desk
  BY DEF IInv
<1>2. /\ pc[p] = at /\ pc'[p] = "idle" /\ Others(p) /\ loc'[p] = Idle
      /\ flock' = IF flock = p THEN None ELSE flock
      /\ UNCHANGED <<slot, mem, free, now, calls, changing, crashes>>
      /\ calm'[p] = FALSE
      /\ \A q \in Procs \ {p} : calm'[q] = calm[q]
      /\ Types'
  BY <1>1, EndShape
<1>3. flock = p /\ flock' = None
  BY <1>1, <1>2, LightLabels DEF Desk
<1>4. at \notin Changing
  BY DEF Light, Changing, Flushing
<1>5. ~changing /\ (changing' <=> pc'[p] \in Changing)
  BY <1>1, <1>2, <1>3, <1>4, LightLabels, GroupsAssumption DEF Desk
<1>6. Local(p)'
  <2>1. Idle.k = 0 /\ Idle.i = 1
    BY DEF Idle
  <2>2. pc'[p] \notin Adding \cup Discarding \cup Getting
    BY <1>2 DEF Adding, Repairing, Writing, Joining, Counted, Discarding,
                Leaving, Getting, Lookups, Listing
  <2>3. pc'[p] \notin Lookups
    BY <2>2 DEF Getting
  <2> QED BY <1>2, <2>1, <2>2, <2>3 DEF Local
<1>7. Work(p)'
  BY <1>2, LightLabels, IdleWork
<1>8. LightFrom(p) /\ LightTo(p)
  BY <1>2, <1>3 DEF LightFrom, LightTo
<1>9. \A q \in Procs : calm'[q] => calm[q] /\ ~changing'
  BY <1>1, <1>2, <1>5
<1>10. UNCHANGED <<slot, mem, free, crashes, now>>
  BY <1>2
<1> QED BY <1>2, <1>5, <1>6, <1>7, <1>8, <1>9, <1>10, LightStep

LEMMA ReturnStep ==
    ASSUME IInv, NEW p \in Procs, Return(p)
    PROVE  IInv'
<1>1. End(p, "return") /\ UNCHANGED <<since, must, may>>
  BY DEF Return, truth
<1>2. Truths' /\ Tells
  BY <1>1, TellsSame DEF IInv, Types, Truths
<1>3. "return" \in Light \ {"f_next"}
  BY DEF Light
<1> QED BY <1>1, <1>2, <1>3, Ends

\* A slot that is active and leads to p's group is p's own.
LEMMA OwnSlot ==
    ASSUME IInv, NEW p \in Procs, NEW i \in Slots, Held(i), slot[i].active,
           Held(loc[p].i), slot[i].name = S(p).name,
           S(p).active \/ loc[p].i <= i
    PROVE  i = loc[p].i
<1>1. loc[p].i \in Slots /\ i \in Int /\ loc[p].i \in Int
  BY LocOf DEF IInv, Slots
<1>2. i # loc[p].i => Apart(i, loc[p].i) /\ Apart(loc[p].i, i)
  BY <1>1 DEF IInv, Index
<1> QED BY <1>1, <1>2 DEF Apart, S

\* The scan of the array did not meet the channel.
LEMMA NotListed ==
    ASSUME IInv, NEW p \in Procs, pc[p] \in {"a_entry", "d_entry"},
           Mine(p) = {}
    PROVE  Unlisted(loc[p].group, loc[p].chan)
<1> SUFFICES ASSUME NEW i \in Slots, Held(i), slot[i].active,
                    slot[i].name = loc[p].group,
                    NEW j \in In(slot[i].array),
                    Entry(i, j).first = loc[p].chan
             PROVE  FALSE
  BY DEF Unlisted
<1>1. loc[p].i \in Slots /\ flock = p
  <2>1. pc[p] \in Working
    BY DEF Working, Adding, Joining, Discarding, Leaving
  <2> QED BY <2>1, LocOf DEF IInv, Desk
<1>2. /\ S(p).len # 0 /\ S(p).name = loc[p].group /\ Fresh(p) = S(p).array
      /\ ~Odd(loc[p].i) /\ (pc[p] = "a_entry" => S(p).active)
      /\ pc[p] = "d_entry" => \A k \in Named(loc[p].group) : loc[p].i <= k
  BY DEF IInv, Work, Joins, Leaves, AtSlot, Joining, Leaving, Bumped
<1>3. Held(loc[p].i)
  BY <1>1, <1>2, EvenHeld DEF S
<1>4. pc[p] = "d_entry" => loc[p].i <= i
  <2>1. ~HolderAt(i, Bumped)
    BY <1>1, Holder DEF Bumped
  <2>2. ~Odd(i) /\ slot[i].len # 0
    BY <2>1 DEF Held
  <2> QED BY <1>2, <2>2 DEF Named
<1>5. i = loc[p].i
  BY <1>2, <1>3, <1>4, OwnSlot
<1>6. /\ Entry(i, j) = A(p)[j] /\ j \in Entries /\ A(p)[j].active
  BY <1>2, <1>5 DEF Entry, A, S, Fresh, In
<1>7. Whole(A(p)[j], loc[p].chan)
  <2>1. Listed(i)
    BY DEF IInv, Rolls
  <2> QED BY <1>6, <2>1 DEF Listed, Whole
<1> QED BY <1>6, <1>7 DEF Mine, Active

LEMMA FailStep ==
    ASSUME IInv, NEW p \in Procs, NEW at \in {"a_scan", "a_entry"},
           Fail(p, at), Unlisted(loc[p].group, loc[p].chan)
    PROVE  IInv'
<1> DEFINE g == loc[p].group
           c == loc[p].chan
           v == IF since[<<g, c>>] = Unsure THEN Out ELSE since[<<g, c>>]
<1>1. End(p, at) /\ Note(p, v) /\ Types
  BY DEF Fail, IInv
<1>2. g \in GroupNames /\ c \in Channels
  <2>1. pc[p] \in Adding
    BY <1>1 DEF End, Step, Adding, Joining
  <2> QED BY <2>1 DEF IInv, Desk, Local
<1>3. v \in Out .. MaxTime
  BY <1>1, <1>2, SinceOf
<1>4. /\ Truths' /\ since' = [since EXCEPT ![<<g, c>>] = v] /\ Know(since')
  BY <1>1, <1>2, <1>3, NoteTypes
<1>5. Tells
  BY <1>4, TellsKnown DEF Truths
<1>6. ASSUME NEW h \in GroupNames, NEW d \in Channels
      PROVE  /\ since'[<<h, d>>] = Out =>
                   since[<<h, d>>] = Out \/ Unlisted(h, d)
             /\ since'[<<h, d>>] >= 0 => since'[<<h, d>>] = since[<<h, d>>]
  <2>1. since \in [GroupNames \X Channels -> Out .. MaxTime]
    BY <1>1 DEF Types, Truths
  <2>2. CASE h = g /\ d = c
    <3>1. since'[<<h, d>>] = v
      BY <1>2, <1>4, <2>1, <2>2
    <3> QED BY <2>2, <3>1 DEF Out
  <2>3. CASE ~(h = g /\ d = c)
    <3>1. since'[<<h, d>>] = since[<<h, d>>]
      BY <1>4, <2>1, <2>3
    <3> QED BY <3>1
  <2> QED BY <2>2, <2>3
<1>7. at \in Light \ {"f_next"}
  BY DEF Light
<1> QED BY <1>1, <1>4, <1>5, <1>6, <1>7, Ends

LEMMA NoGroupStep ==
    ASSUME IInv, NEW p \in Procs, NoGroup(p)
    PROVE  IInv'
<1>1. pc[p] = "a_scan" /\ Stops(p) = {} /\ Fail(p, "a_scan")
  BY DEF NoGroup
<1>2. Unlisted(loc[p].group, loc[p].chan)
  BY <1>1 DEF Unlisted, Held, Stops, Hit
<1> QED BY <1>1, <1>2, FailStep

LEMMA GroupFullStep ==
    ASSUME IInv, NEW p \in Procs, GroupFull(p)
    PROVE  IInv'
<1>1. pc[p] = "a_entry" /\ Mine(p) = {} /\ Fail(p, "a_entry")
  BY DEF GroupFull
<1>2. Unlisted(loc[p].group, loc[p].chan)
  BY <1>1, NotListed
<1> QED BY <1>1, <1>2, FailStep

LEMMA NotInStep ==
    ASSUME IInv, NEW p \in Procs, NotIn(p)
    PROVE  IInv'
<1> DEFINE g == loc[p].group
           c == loc[p].chan
<1>1. /\ pc[p] \in {"d_slot", "d_entry"} /\ End(p, pc[p]) /\ Note(p, Out)
      /\ Types
      /\ pc[p] = "d_slot" => Named(g) = {}
      /\ pc[p] = "d_entry" => Mine(p) = {}
  BY DEF NotIn, IInv
<1>2. g \in GroupNames /\ c \in Channels /\ flock = p
  <2>1. pc[p] \in Discarding /\ pc[p] \in Working
    BY <1>1 DEF Discarding, Leaving, Working
  <2> QED BY <2>1 DEF IInv, Desk, Local
<1>3. /\ Truths' /\ since' = [since EXCEPT ![<<g, c>>] = Out] /\ Know(since')
  BY <1>1, <1>2, SinceOf, NoteTypes
<1>4. Tells
  BY <1>3, TellsKnown DEF Truths
<1>5. Unlisted(g, c)
  <2>1. CASE pc[p] = "d_entry"
    BY <1>1, <2>1, NotListed
  <2>2. CASE pc[p] = "d_slot"
    <3>1. \A i \in Slots : ~HolderAt(i, Bumped)
      BY <1>2, <2>2, Holder DEF Bumped
    <3> QED BY <1>1, <2>2, <3>1 DEF Unlisted, Held, Named
  <2> QED BY <1>1, <2>1, <2>2
<1>6. ASSUME NEW h \in GroupNames, NEW d \in Channels
      PROVE  /\ since'[<<h, d>>] = Out =>
                   since[<<h, d>>] = Out \/ Unlisted(h, d)
             /\ since'[<<h, d>>] >= 0 => since'[<<h, d>>] = since[<<h, d>>]
  <2>1. since \in [GroupNames \X Channels -> Out .. MaxTime]
    BY <1>1 DEF Types, Truths
  <2>2. CASE h = g /\ d = c
    <3>1. since'[<<h, d>>] = Out
      BY <1>2, <1>3, <2>1, <2>2
    <3> QED BY <1>5, <2>2, <3>1 DEF Out
  <2>3. CASE ~(h = g /\ d = c)
    <3>1. since'[<<h, d>>] = since[<<h, d>>]
      BY <1>3, <2>1, <2>3
    <3> QED BY <3>1
  <2> QED BY <2>2, <2>3
<1>7. pc[p] \in Light \ {"f_next"}
  BY <1>1 DEF Light
<1> QED BY <1>1, <1>3, <1>4, <1>6, <1>7, Ends

\* The flock's holder reads.
LEMMA LightRead ==
    ASSUME IInv, NEW p \in Procs, NEW at \in Light, NEW next \in LightNext,
           NEW new \in LocType, Read(p, at, new, next),
           next \in Adding => at \in Adding,
           next \in Unbumped => at \in Unbumped,
           next \in Changing <=> at \in Changing,
           Local(p)', Work(p)'
    PROVE  IInv'
<1>1. Types /\ Desk
  BY DEF IInv
<1>2. next \in Labels
  BY LightLabels DEF Labels
<1>3. /\ pc[p] = at /\ pc'[p] = next /\ loc'[p] = new /\ Others(p)
      /\ UNCHANGED <<slot, mem, free, flock, now, calls, since, must,
                     may, changing, calm, crashes>>
      /\ Types'
  BY <1>1, <1>2, ReadShape
<1>4. flock = p /\ flock' = p
  BY <1>1, <1>3, LightLabels DEF Desk
<1>5. changing' <=> pc'[p] \in Changing
  BY <1>1, <1>3, <1>4, GroupsAssumption DEF Desk
<1>6. \A q \in Procs : calm'[q] => calm[q] /\ ~changing'
  BY <1>1, <1>3 DEF Desk
<1>7. LightFrom(p) /\ LightTo(p)
  BY <1>3, <1>4 DEF LightFrom, LightTo
<1>8. Tells
  BY <1>3, TellsSame
<1>9. \A g \in GroupNames, c \in Channels :
         /\ since'[<<g, c>>] = Out =>
               since[<<g, c>>] = Out \/ Unlisted(g, c)
         /\ since'[<<g, c>>] >= 0 => since'[<<g, c>>] = since[<<g, c>>]
  BY <1>3
<1>10. UNCHANGED <<slot, mem, free, crashes, now>>
  BY <1>3
<1> QED BY <1>3, <1>5, <1>6, <1>7, <1>8, <1>9, <1>10, LightStep

LEMMA ScanStep ==
    ASSUME IInv, NEW p \in Procs, Scan(p)
    PROVE  IInv'
<1> DEFINE i == First(Stops(p))
           new == [loc[p] EXCEPT !.i = i, !.slot = slot[i]]
           next == IF Odd(i) THEN "r_odd" ELSE "a_now"
<1>1. pc[p] = "a_scan" /\ Stops(p) # {} /\ Read(p, "a_scan", new, next)
  BY DEF Scan
<1>2. Types /\ Desk /\ Index /\ Work(p)
  BY DEF IInv
<1>3. i \in Stops(p) /\ i \in Slots
  <2>1. Stops(p) \in SUBSET Slots
    BY DEF Stops
  <2> QED BY <1>1, <2>1, FirstSlot
<1>4. /\ new \in LocType /\ new.i = i /\ new.slot = slot[i]
      /\ new.group = loc[p].group /\ new.chan = loc[p].chan
      /\ new.k = loc[p].k
  <2>1. loc[p] \in LocType /\ slot[i] \in SlotType
    BY <1>2, <1>3, LocOf, SlotOf
  <2> QED BY <1>3, <2>1 DEF LocType
<1> HIDE DEF i, new
<1>5. /\ pc[p] \in Adding /\ pc[p] \in Working /\ next \in LightNext
      /\ next \in Adding /\ next \notin Changing
      /\ "a_scan" \in Light /\ "a_scan" \in Adding /\ "a_scan" \in Unbumped
      /\ "a_scan" \notin Changing
      /\ next \notin Getting \cup {"r", "w", "f", "a_entry", "idle"}
      /\ next \notin Lookups \cup {"m_time", "m_first", "m_second"}
  BY <1>1 DEF Adding, Working, LightNext, Changing, Light, Unbumped, Getting,
              Lookups, Listing, Repairing, Writing, Joining, Counted, Flushing
<1>6. flock = p /\ loc[p].group \in GroupNames /\ loc[p].chan \in Channels
      /\ loc[p].k = 0
  BY <1>1, <1>2, <1>5 DEF Desk, Local
<1>7. /\ pc'[p] = next /\ loc'[p] = new
      /\ UNCHANGED <<slot, mem, since, crashes>>
  BY <1>1, <1>2, ReadShape
<1>8. Local(p)'
  BY <1>4, <1>5, <1>6, <1>7 DEF Local
<1>9. since[<<loc[p].group, loc[p].chan>>] # Out
  BY <1>2, <1>5 DEF Work, Joins
<1>10. CASE Odd(i)
  <2>1. crashes # 0
    <3>1. ~HolderAt(i, Bumped \cup {"w", "w_even"})
      BY <1>1, <1>6, Holder DEF Bumped
    <3> QED BY <1>2, <1>3, <1>10, <3>1 DEF Index
  <2>2. crashes' > 0
    BY <1>2, <1>7, <2>1 DEF Types
  <2>3. next = "r_odd"
    BY <1>10
  <2>4. /\ "r_odd" \notin Writing \cup Joining \cup Counted \cup Discarding
                    \cup Leaving \cup Flushing
        /\ "r_odd" # "a_entry"
    BY DEF Writing, Joining, Counted, Discarding, Leaving, Flushing
  <2>5. Odd(loc[p].i)'
    BY <1>4, <1>7, <1>10 DEF Odd
  <2>6. Repairs(p)'
    BY <1>4, <1>7, <2>2, <2>3, <2>5 DEF Repairs
  <2>7. Joins(p)'
    BY <1>4, <1>7, <1>9, <2>3, <2>4 DEF Joins
  <2>8. Work(p)'
    BY <1>7, <2>3, <2>4, <2>6, <2>7 DEF Work, Creates, Leaves, Flushes
  <2> QED BY <1>1, <1>4, <1>5, <1>8, <2>8, LightRead
<1>11. CASE ~Odd(i)
  <2>1. /\ Hit(i, loc[p].group) /\ next = "a_now"
    BY <1>3, <1>11 DEF Stops
  <2>2. /\ "a_now" \notin Repairing \cup Writing \cup Counted \cup Discarding
                    \cup Leaving \cup Flushing \cup Bumped
        /\ "a_now" # "a_entry"
    BY DEF Repairing, Writing, Counted, Discarding, Leaving, Flushing, Bumped
  <2>3. AtSlot(p)' /\ S(p)'.active
    BY <1>4, <1>7, <1>11, <2>1, <2>2 DEF AtSlot, S, Fresh, Odd, Hit
  <2>4. Joins(p)'
    BY <1>4, <1>7, <1>9, <2>1, <2>2, <2>3 DEF Joins
  <2>5. Work(p)'
    BY <1>7, <2>1, <2>2, <2>4
       DEF Work, Repairs, Creates, Leaves, Flushes, Repairing
  <2> QED BY <1>1, <1>4, <1>5, <1>8, <2>5, LightRead
<1> QED BY <1>10, <1>11

LEMMA NowStep ==
    ASSUME IInv, NEW p \in Procs, Now(p)
    PROVE  IInv'
<1> DEFINE new == [loc[p] EXCEPT !.now = now]
<1>1. Read(p, "a_now", new, "a_entry")
  BY DEF Now
<1>2. Types /\ Desk /\ Work(p) /\ Rolls
  BY DEF IInv
<1>3. /\ new \in LocType /\ new.i = loc[p].i /\ new.slot = loc[p].slot
      /\ new.group = loc[p].group /\ new.chan = loc[p].chan
      /\ new.k = loc[p].k /\ new.now = now /\ loc[p].i \in Slots
  <2>1. loc[p] \in LocType /\ now \in 0 .. MaxTime
    BY <1>2, LocOf DEF Types
  <2> QED BY <2>1 DEF LocType
<1> HIDE DEF new
<1>4. /\ pc[p] = "a_now" /\ pc'[p] = "a_entry" /\ loc'[p] = new
      /\ UNCHANGED <<slot, mem, since, crashes, now>>
  BY <1>1, <1>2, ReadShape
<1>5. /\ "a_now" \in Adding /\ "a_entry" \in LightNext /\ "a_now" \in Joining
      /\ "a_entry" \in Adding /\ "a_entry" \notin Changing
      /\ "a_now" \in Light /\ "a_now" \in Unbumped
      /\ "a_now" \notin Changing \cup Bumped
      /\ "a_entry" \notin Getting \cup Lookups
  BY DEF Adding, LightNext, Changing, Light, Unbumped, Getting, Bumped,
              Lookups, Listing, Repairing, Writing, Joining, Counted, Flushing
<1>6. loc[p].group \in GroupNames /\ loc[p].chan \in Channels /\ loc[p].k = 0
  BY <1>2, <1>4, <1>5 DEF Desk, Local
<1>7. Local(p)'
  BY <1>3, <1>4, <1>5, <1>6 DEF Local
<1>8. Work(p)'
  <2>1. /\ "a_entry" \notin Repairing \cup Writing \cup Counted
                    \cup Discarding \cup Leaving \cup Flushing \cup Bumped
    BY DEF Repairing, Writing, Counted, Discarding, Leaving, Flushing, Bumped
  <2>2. /\ AtSlot(p) /\ S(p).active
        /\ since[<<loc[p].group, loc[p].chan>>] # Out
    BY <1>2, <1>4, <1>5 DEF Work, Joins
  <2>3. AtSlot(p)' /\ S(p)'.active
    BY <1>3, <1>4, <1>5, <2>1, <2>2 DEF AtSlot, S, Fresh, Odd
  <2>4. now <= now'
    BY <1>2, <1>4, GroupsAssumption DEF Types
  <2>5. \A a \in Arrays, j \in Entries : mem'[a][j].time <= now
    BY <1>2, <1>4 DEF Rolls
  <2>6. Joins(p)'
    BY <1>3, <1>4, <1>6, <2>1, <2>2, <2>3, <2>4, <2>5 DEF Joins
  <2> QED BY <1>4, <2>1, <2>6
          DEF Work, Repairs, Creates, Leaves, Flushes, Repairing
<1> QED BY <1>1, <1>3, <1>5, <1>7, <1>8, LightRead

LEMMA DiscardSlotStep ==
    ASSUME IInv, NEW p \in Procs, DiscardSlot(p)
    PROVE  IInv'
<1> DEFINE i == First(Named(loc[p].group))
           new == [loc[p] EXCEPT !.i = i, !.slot = slot[i]]
<1>1. Read(p, "d_slot", new, "d_entry") /\ Named(loc[p].group) # {}
  BY DEF DiscardSlot
<1>2. Types /\ Desk /\ Work(p)
  BY DEF IInv
<1>3. /\ i \in Named(loc[p].group) /\ i \in Slots
      /\ \A k \in Named(loc[p].group) : i <= k
  <2>1. Named(loc[p].group) \in SUBSET Slots
    BY DEF Named
  <2> QED BY <1>1, <2>1, FirstSlot
<1>4. /\ new \in LocType /\ new.i = i /\ new.slot = slot[i]
      /\ new.group = loc[p].group /\ new.chan = loc[p].chan
      /\ new.k = loc[p].k
  <2>1. loc[p] \in LocType /\ slot[i] \in SlotType
    BY <1>2, <1>3, LocOf, SlotOf
  <2> QED BY <1>3, <2>1 DEF LocType
<1> HIDE DEF i, new
<1>5. /\ pc[p] = "d_slot" /\ pc'[p] = "d_entry" /\ loc'[p] = new
      /\ UNCHANGED <<slot, mem, since, crashes>>
  BY <1>1, <1>2, ReadShape
<1>6. /\ "d_slot" \in Discarding /\ "d_entry" \in LightNext
      /\ "d_entry" \in Discarding /\ "d_entry" \in Leaving
      /\ "d_entry" \notin Changing \cup Adding \cup Lookups \cup Getting
      /\ "d_slot" \in Light /\ "d_slot" \in Unbumped
      /\ "d_slot" \notin Changing
      /\ "d_entry" \notin Repairing \cup Writing \cup Joining \cup Counted
                    \cup Flushing \cup Bumped
  BY DEF Adding, LightNext, Changing, Light, Unbumped, Getting, Bumped,
     Discarding,
         Leaving, Lookups, Listing, Repairing, Writing, Joining, Counted,
         Flushing
<1>7. loc[p].group \in GroupNames /\ loc[p].chan \in Channels /\ loc[p].k = 0
  BY <1>2, <1>5, <1>6 DEF Desk, Local
<1>8. Local(p)'
  BY <1>4, <1>5, <1>6, <1>7 DEF Local
<1>9. Work(p)'
  <2>1. ~Odd(i) /\ slot[i].len # 0 /\ slot[i].name = loc[p].group
    BY <1>3 DEF Named
  <2>2. AtSlot(p)'
    BY <1>4, <1>5, <1>6, <2>1 DEF AtSlot, S, Fresh, Odd
  <2>3. since[<<loc[p].group, loc[p].chan>>] < 0
    BY <1>2, <1>5, <1>6 DEF Work, Leaves
  <2>5. Named(loc[p].group)' = Named(loc[p].group)
    BY <1>4, <1>5 DEF Named, Odd
  <2>6. Leaves(p)'
    BY <1>3, <1>4, <1>5, <2>2, <2>3, <2>5 DEF Leaves
  <2> QED BY <1>5, <1>6, <2>6
          DEF Work, Repairs, Creates, Joins, Flushes, Repairing
<1> QED BY <1>1, <1>4, <1>6, <1>8, <1>9, LightRead

LEMMA FlushNextStep ==
    ASSUME IInv, NEW p \in Procs, loc[p].i < NumSlots,
           Read(p, "f_next", [loc[p] EXCEPT !.i = @ + 1], "f")
    PROVE  IInv'
<1> DEFINE new == [loc[p] EXCEPT !.i = @ + 1]
<1>1. Read(p, "f_next", new, "f")
  OBVIOUS
<1>2. Types /\ Desk /\ Work(p)
  BY DEF IInv
<1>3. /\ new \in LocType /\ new.i = loc[p].i + 1 /\ new.k = loc[p].k
      /\ loc[p].i \in Slots
  <2>1. loc[p] \in LocType /\ loc[p].i \in Slots
    BY <1>2, LocOf
  <2>2. loc[p].i + 1 \in Slots
    BY <2>1, GroupsAssumption DEF Slots
  <2> QED BY <2>1, <2>2 DEF LocType
<1> HIDE DEF new
<1>4. /\ pc[p] = "f_next" /\ pc'[p] = "f" /\ loc'[p] = new
      /\ UNCHANGED <<slot, mem, since, crashes>>
  BY <1>1, <1>2, ReadShape
<1>5. /\ "f_next" \in Flushing /\ "f" \in Flushing /\ "f" \in LightNext
      /\ "f" \in Changing /\ "f_next" \in Changing /\ "f_next" \in Light
      /\ "f" \notin Lookups \cup Unbumped \cup Adding \cup Discarding
                        \cup Getting
      /\ "f" \notin Repairing \cup Writing \cup Joining \cup Leaving
                    \cup Counted
  BY DEF Adding, LightNext, Changing, Light, Unbumped, Getting, Discarding,
         Leaving, Lookups, Listing, Repairing, Writing, Joining, Counted,
         Flushing
<1>6. loc[p].k = 0
  BY <1>2, <1>4 DEF Desk, Local
<1>7. Local(p)'
  BY <1>3, <1>4, <1>5, <1>6 DEF Local
<1>8. Work(p)'
  <2>1. /\ \A x \in GroupNames \X Channels : since[x] < 0
        /\ \A j \in Slots : j < loc[p].i => Empty(j)
        /\ Empty(loc[p].i)
    BY <1>2, <1>4, <1>5 DEF Work, Flushes, Empty, S
  <2>2. \A j \in Slots : j < loc[p].i + 1 => Empty(j)'
    <3> SUFFICES ASSUME NEW j \in Slots, j < loc[p].i + 1
                 PROVE  Empty(j)'
      OBVIOUS
    <3>1. j < loc[p].i \/ j = loc[p].i
      BY <1>3 DEF Slots
    <3> QED BY <1>4, <2>1, <3>1 DEF Empty
  <2>3. Flushes(p)'
    BY <1>3, <1>4, <1>6, <2>1, <2>2 DEF Flushes
  <2> QED BY <1>4, <1>5, <2>3 DEF Work, Repairs, Creates, Joins, Leaves
<1> QED BY <1>1, <1>3, <1>5, <1>7, <1>8, LightRead

\* The flock's holder dies: nothing but its half-done call is lost.
LEMMA CrashStep ==
    ASSUME IInv, NEW p \in Procs, Crash(p)
    PROVE  IInv'
<1>1. /\ Types /\ Desk /\ flock = p /\ flock' = None /\ crashes' = crashes + 1
      /\ pc' = [pc EXCEPT ![p] = "dead"] /\ loc' = [loc EXCEPT ![p] = Idle]
      /\ changing' = FALSE
      /\ calm' = [q \in Procs |-> calm[q] /\ ~changing]
      /\ UNCHANGED <<slot, mem, free, now, calls, since, must, may>>
  BY DEF IInv, Crash, shared, count, truth
<1>2. /\ "dead" \in Labels /\ "dead" \notin Working \cup Getting
      /\ "dead" \notin Lookups \cup Changing \cup Adding \cup Discarding
  BY DEF Labels, Working, Adding, Changing, Repairing, Writing, Joining,
         Counted, Leaving, Discarding, Flushing, Lookups, Getting, Listing
<1>3. /\ pc'[p] = "dead" /\ loc'[p] = Idle /\ Others(p)
      /\ pc' \in [Procs -> Labels] /\ loc' \in [Procs -> LocType]
  <2>1. pc \in [Procs -> Labels] /\ loc \in [Procs -> LocType]
    BY <1>1 DEF Types
  <2> QED BY <1>1, <1>2, <2>1, IdleType DEF Others
<1>4. /\ crashes \in Nat /\ crashes' \in Nat /\ crashes' # 0
      /\ crashes + 1 <= crashes' /\ crashes <= crashes' /\ now <= now'
  BY <1>1, GroupsAssumption DEF Types
<1>5. Types'
  BY <1>1, <1>3, <1>4 DEF Types, Truths
<1>6. pc[p] \in Working /\ pc[p] \notin Getting
  <2>1. pc[p] \in Working
    BY <1>1 DEF Desk
  <2> QED BY <2>1, Getters
<1>7. Desk'
  <2>1. Idle.k = 0 /\ Idle.i = 1
    BY DEF Idle
  <2>2. Local(p)'
    BY <1>2, <1>3, <2>1 DEF Local
  <2> QED BY <1>1, <1>2, <1>3, <1>6, <2>2, DeskKept
<1>8. \A i \in Slots : Budget(i)'
  <2> SUFFICES ASSUME NEW i \in Slots PROVE Budget(i)'
    OBVIOUS
  <2>1. Budget(i) /\ Due' = 0 /\ Due \in {0, 1, 2} /\ slot[i].ver \in Nat
        /\ calls \in Nat
    BY <1>1, DueFree, SlotOf, GroupsAssumption DEF IInv, Due, Types
  <2> QED BY <1>1, <2>1 DEF Budget
<1>9. Work(p)'
  BY <1>2, <1>3, IdleWork
<1>10. Tells
  BY <1>1, TellsSame
<1>11. \A i, L : ~HolderAt(i, L)'
  BY <1>1, NoHolderNext
<1>12. Tended
  <2>1. \A i \in Slots : Held(i)' => Held(i)
    BY <1>1, <1>11 DEF Held, Odd
  <2> QED BY <1>1, <1>4, <2>1 DEF Tended
<1>13. \A i \in Slots : Excess(i) <= Excess(i)'
  BY <1>1, <1>4, <1>5, <1>11, ExcessKept
<1>14. \A q \in Procs : calm'[q] => calm[q]
  BY <1>1
<1>15. pc'[p] \notin Getting
  BY <1>2, <1>3
<1> QED BY <1>1, <1>3, <1>4, <1>5, <1>6, <1>7, <1>8, <1>9, <1>10, <1>12, <1>13,
           <1>14, <1>15, TendedStep

-----------------------------------------------------------------------------
(* Stores to the slot of the holder's group.                                *)

Storing == {"e_odd", "e_count", "e_even", "d_odd", "d_count", "d_active",
            "d_even"}
AfterStore == {"e_count", "e_even", "d_count", "d_active", "d_even", "return"}

LEMMA StoringLabels ==
    /\ \A x \in Storing :
          /\ x \in Working /\ x \notin Getting /\ x \notin Changing
          /\ x \notin {"r", "w", "f", "a_entry"}
          /\ x \in Adding \cup Discarding
          /\ x \in Joining \cup Leaving
    /\ \A x \in AfterStore :
          /\ x \in Working /\ x \notin Getting /\ x \notin Changing
          /\ x \notin {"r", "w", "f", "a_entry", "idle", "d_entry"}
          /\ x \notin Lookups /\ x \notin {"m_time", "m_first", "m_second"}
          /\ x \in Labels
          /\ x \notin Repairing /\ x \notin Writing /\ x \notin Flushing
          /\ x \in Bumped \cup {"return"}
    /\ "return" \notin Bumped /\ "return" \notin Joining
    /\ "return" \notin Leaving /\ "return" \notin Adding
    /\ "return" \notin Discarding /\ "return" \notin Counted
BY DEF Storing, AfterStore, Working, Adding, Repairing, Writing, Joining,
   Counted,
       Leaving, Discarding, Flushing, Getting, Lookups, Listing, Bumped,
       Changing, Labels

\* What the holder stores: a version, a count or the active flag.
Slightly(p) ==
    /\ Others(p) /\ loc' = loc
    /\ pc[p] \in Storing /\ pc'[p] \in AfterStore
    /\ slot'[loc[p].i].len = S(p).len /\ slot'[loc[p].i].name = S(p).name
    /\ slot'[loc[p].i].array = S(p).array
    /\ slot'[loc[p].i].active => S(p).active
    /\ Odd(loc[p].i)' <=> pc'[p] \in Bumped
    /\ \A i \in Slots : i # loc[p].i => slot'[i] = slot[i]
    /\ UNCHANGED <<mem, free, flock, now, calls, changing, calm, crashes>>

LEMMA SlightHolder ==
    ASSUME IInv, NEW p \in Procs, Slightly(p)
    PROVE  /\ flock = p /\ flock' = p /\ loc[p].i \in Slots /\ AtSlot(p)
           /\ \A i, L : HolderAt(i, L) <=> pc[p] \in L /\ loc[p].i = i
           /\ \A i, L : HolderAt(i, L)' <=> pc'[p] \in L /\ loc[p].i = i
           /\ Held(loc[p].i) /\ Held(loc[p].i)'
           /\ \A i \in Slots : i # loc[p].i => (Held(i)' <=> Held(i))
<1>1. /\ pc[p] \in Working /\ flock = p /\ flock' = p /\ loc[p].i \in Slots
  BY StoringLabels, LocOf DEF Slightly, IInv, Desk
<1>2. AtSlot(p)
  BY StoringLabels DEF Slightly, IInv, Work, Joins, Leaves
<1>3. \A i, L : HolderAt(i, L) <=> pc[p] \in L /\ loc[p].i = i
  BY <1>1, Holder
<1>4. \A i, L : HolderAt(i, L)' <=> pc'[p] \in L /\ loc[p].i = i
  BY <1>1, GroupsAssumption DEF HolderAt, At, Slightly
<1>5. Held(loc[p].i)
  BY <1>1, <1>2, <1>3 DEF Held, AtSlot, S
<1>6. Held(loc[p].i)'
  <2>1. PICK x \in Slots : x = loc[p].i
    BY <1>1
  <2>2. slot'[x].len # 0 /\ (Odd(x)' => HolderAt(x, Bumped)')
    BY <1>2, <1>4, <2>1 DEF AtSlot, S, Slightly, Odd
  <2>3. Held(x)'
    BY <2>2 DEF Held
  <2> QED BY <2>1, <2>3 DEF Slightly, Held, Odd, HolderAt, At
<1>7. ASSUME NEW i \in Slots, i # loc[p].i
      PROVE  Held(i)' <=> Held(i)
  <2>1. slot'[i] = slot[i] /\ ~HolderAt(i, Bumped) /\ ~HolderAt(i, Bumped)'
    BY <1>3, <1>4, <1>7 DEF Slightly
  <2> QED BY <2>1 DEF Held, Odd
<1> QED BY <1>1, <1>2, <1>3, <1>4, <1>5, <1>6, <1>7

LEMMA SlightAt ==
    ASSUME IInv, NEW p \in Procs, Slightly(p)
    PROVE  AtSlot(p)'
<1>1. AtSlot(p) /\ loc[p].i \in Slots
  BY SlightHolder
<1>2. /\ S(p)'.len = S(p).len /\ S(p)'.name = S(p).name
      /\ S(p)'.array = S(p).array /\ loc'[p] = loc[p]
      /\ Odd(loc[p].i)' <=> pc'[p] \in Bumped
  BY DEF Slightly, S
<1> QED BY <1>1, <1>2 DEF AtSlot, Fresh

LEMMA SlightStep ==
    ASSUME IInv, Types', NEW p \in Procs, Slightly(p),
           \A i \in Slots : Budget(i)', Work(p)', Tells,
           \A g \in GroupNames, c \in Channels :
              /\ since'[<<g, c>>] = Out =>
                    since[<<g, c>>] = Out \/ Unlisted(g, c)
              /\ crashes = 0 /\ since[<<g, c>>] >= 0 /\ since'[<<g, c>>] >= 0
                    => since'[<<g, c>>] = since[<<g, c>>]
              /\ crashes = 0 /\ ~(since[<<g, c>>] >= 0)
                    /\ since'[<<g, c>>] >= 0 =>
                 \E k \in Slots, j \in Entries : Home(g, c, k, j)',
           crashes = 0 /\ S(p).active /\ ~slot'[loc[p].i].active =>
              In(S(p).array) = {},
           \A i \in Slots : Excess(i) <= Excess(i)'
    PROVE  IInv'
<1>1. Types /\ Desk /\ Index
  BY DEF IInv
<1>2. /\ flock = p /\ flock' = p /\ loc[p].i \in Slots
      /\ \A i, L : HolderAt(i, L) <=> pc[p] \in L /\ loc[p].i = i
      /\ \A i, L : HolderAt(i, L)' <=> pc'[p] \in L /\ loc[p].i = i
      /\ Held(loc[p].i) /\ Held(loc[p].i)'
      /\ \A i \in Slots : i # loc[p].i => (Held(i)' <=> Held(i))
  BY SlightHolder
<1>3. ASSUME NEW i \in Slots, crashes = 0, Odd(i)'
      PROVE  HolderAt(i, Bumped \cup {"w", "w_even"})'
  <2>1. CASE i = loc[p].i
    BY <1>2, <1>3, <2>1 DEF Slightly, Odd
  <2>2. CASE i # loc[p].i
    <3>1. Odd(i)
      BY <1>3, <2>2 DEF Slightly, Odd
    <3> QED BY <1>1, <1>2, <1>3, <2>2, <3>1 DEF Index
  <2> QED BY <2>1, <2>2
<1>4. Tended
  <2>1. crashes <= crashes' /\ now <= now'
    BY <1>1, GroupsAssumption DEF Slightly, Types
  <2>2. ASSUME NEW i \in Slots
        PROVE  /\ slot'[i].len = slot[i].len /\ slot'[i].name = slot[i].name
               /\ slot'[i].array = slot[i].array
               /\ slot'[i].active => slot[i].active
               /\ Held(i)' => Held(i)
               /\ crashes' = 0 =>
                     /\ Held(i) => Held(i)'
                     /\ slot[i].active /\ ~slot'[i].active /\ Held(i) =>
                             In(slot[i].array) = {}
                     /\ Odd(i)' => HolderAt(i, Bumped \cup {"w", "w_even"})'
    <3>1. crashes' = crashes
      BY DEF Slightly
    <3>2. CASE i = loc[p].i
      BY <1>2, <1>3, <3>1, <3>2 DEF Slightly, S
    <3>3. CASE i # loc[p].i
      BY <1>2, <1>3, <3>1, <3>3 DEF Slightly
    <3> QED BY <3>2, <3>3
  <2> QED BY <2>1, <2>2 DEF Tended, Slightly
<1>5. pc[p] \notin Getting /\ pc'[p] \notin Getting /\ pc[p] \in Working
      /\ pc'[p] \in Working /\ flock' \in {p, None} /\ Others(p)
  BY <1>2, StoringLabels DEF Slightly
<1>6. Desk'
  <2>1. Local(p)'
    BY <1>1, StoringLabels DEF Desk, Local, Slightly
  <2>2. changing' <=> pc'[p] \in Changing
    BY <1>1, <1>2, StoringLabels, GroupsAssumption DEF Desk, Slightly
  <2>3. \A q \in Procs : calm'[q] => ~changing'
    BY <1>1 DEF Desk, Slightly
  <2>4. flock' = flock
    BY DEF Slightly
  <2> QED BY <1>1, <1>5, <2>1, <2>2, <2>3, <2>4, DeskKept
<1>7. crashes' = 0 => \A g \in GroupNames, c \in Channels :
         ~(since[<<g, c>>] >= 0) /\ since'[<<g, c>>] >= 0 =>
            \E k \in Slots, j \in Entries : Home(g, c, k, j)'
  BY DEF Slightly
<1>8. \A q \in Procs : calm'[q] => calm[q]
  BY DEF Slightly
<1> QED BY <1>4, <1>5, <1>6, <1>7, <1>8, TendedStep

LEMMA SlightBudget ==
    ASSUME IInv, Types', NEW p \in Procs, Slightly(p),
           \/ /\ slot'[loc[p].i].ver = S(p).ver
              /\ pc[p] \in Bumped /\ pc'[p] \in Bumped
           \/ /\ slot'[loc[p].i].ver = S(p).ver + 1
              /\ \/ pc[p] \in Unbumped /\ pc'[p] \in Bumped
                 \/ pc[p] \in Bumped /\ pc'[p] = "return",
           \/ slot'[loc[p].i].count <= S(p).count
           \/ slot'[loc[p].i].count = S(p).count + 1 /\ pc[p] = "e_count"
                /\ pc'[p] = "e_even",
           pc'[p] = "e_count" => pc[p] = "e_odd" /\
                slot'[loc[p].i].count <= S(p).count
    PROVE  \A i \in Slots : Budget(i)'
<1>1. Types /\ flock = p /\ flock' = p /\ loc[p].i \in Slots /\ flock # None
      /\ calls' = calls
  BY SlightHolder, GroupsAssumption DEF IInv, Slightly
<1>2. /\ Due = IF pc[p] \in Unbumped THEN 2
               ELSE IF pc[p] \in Bumped THEN 1 ELSE 0
      /\ Due' = IF pc'[p] \in Unbumped THEN 2
                ELSE IF pc'[p] \in Bumped THEN 1 ELSE 0
  BY <1>1, DueOf, DueNext
<1>3. /\ \A x \in Bumped : x \notin Unbumped
      /\ "return" \notin Bumped \cup Unbumped
      /\ \A x \in AfterStore : x \in Adding \ {"e_even"} => x = "e_count"
      /\ "e_odd" \in Adding \ {"e_even"} /\ "e_count" \in Adding \ {"e_even"}
  BY DEF Bumped, Unbumped, AfterStore, Adding, Repairing, Writing, Joining,
         Counted
<1>4. /\ Due \in {0, 1, 2} /\ Due' \in {0, 1, 2}
      /\ \/ slot'[loc[p].i].ver = S(p).ver /\ Due = 1 /\ Due' = 1
         \/ slot'[loc[p].i].ver = S(p).ver + 1 /\ Due = 2 /\ Due' = 1
         \/ slot'[loc[p].i].ver = S(p).ver + 1 /\ Due = 1 /\ Due' = 0
  BY <1>2, <1>3
<1>9. Due' <= Due /\ (Due' > 0 => Due > 0)
  <2>1. CASE Due = 1 /\ Due' = 1
    BY <2>1
  <2>2. CASE Due = 2 /\ Due' = 1
    BY <2>2
  <2>3. CASE Due = 1 /\ Due' = 0
    BY <2>3
  <2> QED BY <1>4, <2>1, <2>2, <2>3
<1>5. ASSUME NEW i \in Slots
      PROVE  /\ slot'[i].ver + Due' <= slot[i].ver + Due
             /\ \/ slot'[i].count <= slot[i].count
                \/ slot'[i].count = slot[i].count + 1 /\ pc[p] = "e_count"
             /\ pc'[p] = "e_count" => slot'[i].count <= slot[i].count
  <2>1. slot[i].ver \in Nat /\ slot[i].count \in Nat
    BY <1>1, SlotOf
  <2>2. CASE i = loc[p].i
    <3>1. slot'[i].ver + Due' <= slot[i].ver + Due
      BY <1>4, <2>1, <2>2 DEF S
    <3> QED BY <2>2, <3>1 DEF S
  <2>3. CASE i # loc[p].i
    <3>1. slot'[i] = slot[i]
      BY <2>3 DEF Slightly
    <3>2. slot[i].ver + Due' <= slot[i].ver + Due
      BY <1>4, <1>9, <2>1
    <3> QED BY <2>1, <3>1, <3>2
  <2> QED BY <2>2, <2>3
<1>6. flock' # None /\ pc'[flock'] \in Adding \ {"e_even"} =>
         /\ flock # None /\ pc[flock] \in Adding \ {"e_even"}
         /\ \A i \in Slots : slot'[i].count <= slot[i].count
  BY <1>1, <1>3, <1>5 DEF Slightly
<1>8. \A i \in Slots : Budget(i)
  BY DEF IInv
<1>10. \A i \in Slots :
          /\ \/ slot'[i].ver + Due' <= slot[i].ver + Due
             \/ slot'[i].ver + Due' <= 2
             \/ Due > 0 /\ slot'[i].ver + Due' <= 4
          /\ \/ slot'[i].count <= slot[i].count
             \/ slot'[i].count = slot[i].count + 1 /\ flock # None
                   /\ pc[flock] \in Adding \ {"e_even"}
  BY <1>1, <1>3, <1>5
<1> QED BY <1>1, <1>4, <1>6, <1>8, <1>9, <1>10, BudgetKept

LEMMA BumpShape ==
    ASSUME IInv, NEW p \in Procs, NEW at \in Storing, NEW next \in AfterStore,
           at \in Bumped <=> next \notin Bumped,
           \/ Bump(p, at, next)
           \/ Store(p, at, [S(p) EXCEPT !.ver = @ + 1], next) /\ Truths'
    PROVE  /\ Slightly(p) /\ Types' /\ pc[p] = at /\ pc'[p] = next
           /\ slot'[loc[p].i].ver = S(p).ver + 1
           /\ slot'[loc[p].i].count = S(p).count
           /\ slot'[loc[p].i].active = S(p).active
<1> DEFINE new == [S(p) EXCEPT !.ver = @ + 1]
<1>1. Types /\ loc[p].i \in Slots
  BY LocOf DEF IInv
<1>2. /\ S(p) \in SlotType /\ S(p).ver \in Nat
  BY <1>1, SlotOf DEF S
<1>3. /\ new \in SlotType /\ new.ver = S(p).ver + 1 /\ new.len = S(p).len
      /\ new.name = S(p).name /\ new.array = S(p).array
      /\ new.count = S(p).count /\ new.active = S(p).active
  BY <1>2 DEF SlotType
<1>4. Store(p, at, new, next) /\ Truths'
  BY <1>1 DEF Bump, truth, Types, Truths
<1> HIDE DEF new
<1>5. /\ pc[p] = at /\ pc'[p] = next /\ Others(p) /\ loc' = loc
      /\ slot'[loc[p].i] = new
      /\ \A i \in Slots : i # loc[p].i => slot'[i] = slot[i]
      /\ UNCHANGED <<mem, free, flock, now, calls, changing, calm, crashes>>
      /\ Types'
  BY <1>1, <1>3, <1>4, StoringLabels, StoreShape
<1>6. Odd(loc[p].i) <=> at \in Bumped
  BY <1>5, StoringLabels DEF IInv, Work, Joins, Leaves, AtSlot
<1>7. Odd(loc[p].i)' <=> ~Odd(loc[p].i)
  <2>1. slot'[loc'[p].i].ver = slot[loc[p].i].ver + 1
    BY <1>3, <1>5 DEF S
  <2>2. slot[loc[p].i].ver \in Nat
    BY <1>2 DEF S
  <2> QED BY <2>1, <2>2 DEF Odd
<1> QED BY <1>3, <1>5, <1>6, <1>7 DEF Slightly

\* A bump leaves who is in as it is.
LEMMA BumpStep ==
    ASSUME IInv, NEW p \in Procs, NEW at \in Storing, NEW next \in AfterStore,
           at \in Bumped <=> next \notin Bumped, Bump(p, at, next),
           \/ at \in Unbumped /\ next \in Bumped
           \/ at \in Bumped /\ next = "return",
           next \in Adding => at = "e_odd" /\ next = "e_count",
           at = "e_odd" => next = "e_count", at # "e_count",
           next \in {"d_odd", "d_count"} => at \in {"d_odd", "d_count"},
           next \in Discarding => at \in Discarding
    PROVE  IInv'
<1>1. /\ Slightly(p) /\ Types' /\ pc[p] = at /\ pc'[p] = next
      /\ slot'[loc[p].i].ver = S(p).ver + 1
      /\ slot'[loc[p].i].count = S(p).count
      /\ slot'[loc[p].i].active = S(p).active
  BY BumpShape
<1>2. UNCHANGED <<since, must, may, mem, now, crashes>> /\ loc' = loc
  BY <1>1 DEF Bump, truth, Slightly
<1>3. Types /\ Work(p) /\ loc[p].i \in Slots
  BY LocOf DEF IInv
<1>4. slot[loc[p].i].count \in Nat /\ crashes \in Nat
  BY <1>3, SlotOf DEF Types
<1>5. \A i \in Slots : Budget(i)'
  <2>1. slot'[loc[p].i].count <= S(p).count
    BY <1>1, <1>4 DEF S
  <2>2. next = "e_count" => at = "e_odd"
    BY DEF Adding, Joining, Counted
  <2> QED BY <1>1, <2>1, <2>2, SlightBudget
<1>6. AtSlot(p)'
  BY <1>1, SlightAt
<1>7. Work(p)'
  <2>1. Joins(p)'
    <3>1. CASE next \in Adding
      <4>1. at = "e_odd" /\ next = "e_count" /\ "e_odd" \in Counted
            /\ "e_odd" \in Joining /\ "e_odd" \in Adding /\ next # "a_entry"
        BY <3>1 DEF Counted, Joining, Adding
      <4>2. /\ S(p).active /\ loc[p].now <= now
            /\ \A a \in Arrays, j \in Entries : mem[a][j].time <= loc[p].now
            /\ crashes = 0 => since[<<loc[p].group, loc[p].chan>>] = Unsure
            /\ since[<<loc[p].group, loc[p].chan>>] # Out
            /\ \E j \in In(S(p).array) : A(p)[j].first = loc[p].chan
                                         /\ A(p)[j].time = loc[p].now
        BY <1>1, <1>3, <4>1 DEF Work, Joins
      <4>3. /\ S(p)'.active /\ In(S(p).array)' = In(S(p).array)
            /\ A(p)' = A(p)
        BY <1>1, <1>2, <4>2 DEF S, In, A, Slightly
      <4> QED BY <1>1, <1>2, <1>6, <4>1, <4>2, <4>3 DEF Joins
    <3>2. CASE next \notin Adding
      BY <1>1, <3>2 DEF Joins, Adding, Joining
    <3> QED BY <3>1, <3>2
  <2>2. Leaves(p)'
    <3>1. next \in Discarding => since[<<loc[p].group, loc[p].chan>>] < 0
      BY <1>1, <1>3 DEF Work, Leaves
    <3>2. next # "d_entry"
      BY StoringLabels
    <3> QED BY <1>1, <1>2, <1>6, <3>1, <3>2 DEF Leaves
  <2> QED BY <1>1, <2>1, <2>2, StoringLabels
          DEF Work, Repairs, Creates, Flushes, Repairing, Writing
<1>8. Tells
  BY <1>2, TellsSame
<1>9. \A i \in Slots : Excess(i) <= Excess(i)'
  <2> SUFFICES ASSUME NEW i \in Slots PROVE Excess(i) <= Excess(i)'
    OBVIOUS
  <2>1. slot'[i].count = slot[i].count
    BY <1>1 DEF Slightly, S
  <2>2. /\ HolderAt(i, {"e_odd", "e_count"}) =>
               HolderAt(i, {"e_odd", "e_count"})'
        /\ HolderAt(i, {"d_odd", "d_count"})' =>
               HolderAt(i, {"d_odd", "d_count"})
    BY <1>1, SlightHolder
  <2>3. crashes <= crashes'
    BY <1>2, <1>4
  <2> QED BY <1>1, <1>3, <2>1, <2>2, <2>3, ExcessKept
<1> QED BY <1>1, <1>2, <1>5, <1>7, <1>8, <1>9, SlightStep

\* Another field of the holder's slot, while its version is odd.
LEMMA PatchStep ==
    ASSUME IInv, NEW p \in Procs, NEW at, NEW next, NEW new \in SlotType,
           Store(p, at, new, next), UNCHANGED <<since, must, may>>,
           new.ver = S(p).ver, new.len = S(p).len, new.name = S(p).name,
           new.array = S(p).array,
           \/ /\ at = "e_count" /\ next = "e_even"
              /\ new.count = S(p).count + 1 /\ new.active = S(p).active
           \/ /\ at = "d_count" /\ next = "d_active"
              /\ new.count <= S(p).count /\ S(p).count <= new.count + 1
              /\ new.active = S(p).active
           \/ /\ at = "d_active" /\ next = "d_even"
              /\ new.count = S(p).count /\ (new.active => S(p).active)
              /\ crashes = 0 /\ S(p).active /\ ~new.active =>
                    In(S(p).array) = {}
    PROVE  IInv'
<1>1. /\ at \in Storing /\ at \in Bumped /\ next \in AfterStore
      /\ next \in Bumped /\ next \in Labels
      /\ next \in Adding => next = "e_even" /\ at = "e_count"
      /\ next \in Discarding => at \in Discarding
  BY StoringLabels
     DEF Storing, Bumped, AfterStore, Adding, Repairing, Writing, Joining,
         Counted, Discarding, Leaving
<1>2. Types /\ Work(p) /\ Truths' /\ loc[p].i \in Slots
  BY LocOf DEF IInv, Types, Truths
<1>3. /\ pc[p] = at /\ pc'[p] = next /\ Others(p) /\ loc' = loc
      /\ slot'[loc[p].i] = new
      /\ \A i \in Slots : i # loc[p].i => slot'[i] = slot[i]
      /\ UNCHANGED <<mem, free, flock, now, calls, changing, calm, crashes>>
      /\ Types'
  BY <1>1, <1>2, StoreShape
<1>4. Odd(loc[p].i) /\ Odd(loc[p].i)'
  <2>1. Odd(loc[p].i)
    BY <1>1, <1>2, <1>3, StoringLabels DEF Work, Joins, Leaves, AtSlot
  <2> QED BY <1>3, <2>1 DEF Odd, S
<1>5. Slightly(p)
  BY <1>1, <1>3, <1>4 DEF Slightly
<1>6. S(p).count \in Nat /\ new.count \in Nat /\ crashes \in Nat
  BY <1>2, SlotOf DEF Types, S, SlotType
<1>7. \A i \in Slots : Budget(i)'
  <2>1. \/ slot'[loc[p].i].count <= S(p).count
        \/ slot'[loc[p].i].count = S(p).count + 1 /\ pc[p] = "e_count"
             /\ pc'[p] = "e_even"
    BY <1>3, <1>6
  <2>2. pc'[p] # "e_count"
    BY <1>3
  <2>3. slot'[loc[p].i].ver = S(p).ver /\ pc[p] \in Bumped
        /\ pc'[p] \in Bumped
    BY <1>1, <1>3
  <2> QED BY <1>3, <1>5, <2>1, <2>2, <2>3, SlightBudget
<1>8. AtSlot(p)'
  BY <1>5, SlightAt
<1>9. Work(p)'
  <2>1. Joins(p)'
    <3>1. CASE next \in Adding
      <4>1. /\ "e_count" \in Counted /\ "e_even" \in Counted
            /\ "e_count" \in Joining /\ "e_count" \in Adding
            /\ "e_even" # "a_entry" /\ at = "e_count" /\ next = "e_even"
        BY <1>1, <3>1 DEF Counted, Joining, Adding
      <4>2. /\ S(p).active /\ loc[p].now <= now
            /\ \A a \in Arrays, j \in Entries : mem[a][j].time <= loc[p].now
            /\ crashes = 0 => since[<<loc[p].group, loc[p].chan>>] = Unsure
            /\ since[<<loc[p].group, loc[p].chan>>] # Out
            /\ \E j \in In(S(p).array) : A(p)[j].first = loc[p].chan
                                         /\ A(p)[j].time = loc[p].now
        BY <1>2, <1>3, <4>1 DEF Work, Joins
      <4>3. /\ S(p)'.active /\ In(S(p).array)' = In(S(p).array)
            /\ A(p)' = A(p)
        BY <1>3, <4>1, <4>2 DEF S, In, A
      <4> QED BY <1>3, <1>8, <4>1, <4>2, <4>3 DEF Joins
    <3>2. CASE next \notin Adding
      BY <1>3, <3>2 DEF Joins, Adding, Joining
    <3> QED BY <3>1, <3>2
  <2>2. Leaves(p)'
    <3>1. next \in Discarding => since[<<loc[p].group, loc[p].chan>>] < 0
      BY <1>1, <1>2, <1>3 DEF Work, Leaves
    <3>2. next # "d_entry"
      BY <1>1, StoringLabels
    <3> QED BY <1>3, <1>8, <3>1, <3>2 DEF Leaves
  <2> QED BY <1>1, <1>3, <2>1, <2>2, StoringLabels
          DEF Work, Repairs, Creates, Flushes, Repairing, Writing
<1>10. Tells
  BY TellsSame
<1>11. \A i \in Slots : Excess(i) <= Excess(i)'
  <2> SUFFICES ASSUME NEW i \in Slots PROVE Excess(i) <= Excess(i)'
    OBVIOUS
  <2>1. /\ \A L : HolderAt(i, L) <=> at \in L /\ loc[p].i = i
        /\ \A L : HolderAt(i, L)' <=> next \in L /\ loc[p].i = i
    BY <1>3, <1>5, SlightHolder
  <2>2. slot[i].count \in Nat /\ slot'[i].count \in Nat /\ crashes' = crashes
    <3>1. slot'[i] \in SlotType
      BY <1>3 DEF Types
    <3> QED BY <1>2, <1>3, <3>1, SlotOf DEF SlotType
  <2>3. CASE i # loc[p].i
    BY <1>3, <1>6, <2>1, <2>2, <2>3 DEF Excess, One
  <2>4. CASE i = loc[p].i
    <3>1. slot'[i].count = new.count /\ slot[i].count = S(p).count
      BY <1>3, <2>4 DEF S
    <3>2. CASE at = "e_count"
      BY <1>6, <2>1, <2>2, <2>4, <3>1, <3>2 DEF Excess, One
    <3>3. CASE at = "d_count"
      BY <1>6, <2>1, <2>2, <2>4, <3>1, <3>3 DEF Excess, One
    <3>4. CASE at = "d_active"
      BY <1>6, <2>1, <2>2, <2>4, <3>1, <3>4 DEF Excess, One
    <3> QED BY <3>2, <3>3, <3>4
  <2> QED BY <2>3, <2>4
<1>12. crashes = 0 /\ S(p).active /\ ~slot'[loc[p].i].active =>
          In(S(p).array) = {}
  BY <1>3
<1>13. ASSUME NEW g \in GroupNames, NEW c \in Channels
       PROVE  /\ since'[<<g, c>>] = Out =>
                    since[<<g, c>>] = Out \/ Unlisted(g, c)
              /\ crashes = 0 /\ since[<<g, c>>] >= 0 /\ since'[<<g, c>>] >= 0
                    => since'[<<g, c>>] = since[<<g, c>>]
              /\ crashes = 0 /\ ~(since[<<g, c>>] >= 0)
                    /\ since'[<<g, c>>] >= 0 =>
                 \E k \in Slots, j \in Entries : Home(g, c, k, j)'
  OBVIOUS
<1> QED BY <1>3, <1>5, <1>7, <1>9, <1>10, <1>11, <1>12, <1>13, SlightStep

LEMMA CountUpStep ==
    ASSUME IInv, NEW p \in Procs, CountUp(p)
    PROVE  IInv'
<1> DEFINE new == [S(p) EXCEPT !.count = @ + 1]
<1>1. S(p) \in SlotType /\ S(p).count \in Nat
  BY LocOf, SlotOf DEF IInv, S
<1>2. /\ new \in SlotType /\ new.count = S(p).count + 1
      /\ new.ver = S(p).ver /\ new.len = S(p).len /\ new.name = S(p).name
      /\ new.array = S(p).array /\ new.active = S(p).active
  BY <1>1 DEF SlotType
<1>3. Store(p, "e_count", new, "e_even") /\ UNCHANGED <<since, must, may>>
  BY DEF CountUp, truth
<1> HIDE DEF new
<1> QED BY <1>2, <1>3, PatchStep

LEMMA CountDownStep ==
    ASSUME IInv, NEW p \in Procs, CountDown(p)
    PROVE  IInv'
<1> DEFINE n == IF S(p).count > 0 THEN S(p).count - 1 ELSE 0
           new == [S(p) EXCEPT !.count = IF @ > 0 THEN @ - 1 ELSE 0]
<1>1. S(p) \in SlotType /\ S(p).count \in Nat
  BY LocOf, SlotOf DEF IInv, S
<1>2. n \in Nat /\ n <= S(p).count /\ S(p).count <= n + 1
  BY <1>1
<1>3. /\ new \in SlotType /\ new.count = n
      /\ new.ver = S(p).ver /\ new.len = S(p).len /\ new.name = S(p).name
      /\ new.array = S(p).array /\ new.active = S(p).active
  BY <1>1, <1>2 DEF SlotType
<1>4. Store(p, "d_count", new, "d_active") /\ UNCHANGED <<since, must, may>>
  BY DEF CountDown, truth
<1> HIDE DEF new, n
<1> QED BY <1>2, <1>3, <1>4, PatchStep

\* The group that a departure leaves empty becomes inactive.
LEMMA DeactivateStep ==
    ASSUME IInv, NEW p \in Procs, Deactivate(p)
    PROVE  IInv'
<1> DEFINE new == [S(p) EXCEPT !.active = @ /\ S(p).count # 0]
<1>1. Types /\ S(p) \in SlotType /\ S(p).count \in Nat /\ loc[p].i \in Slots
  BY LocOf, SlotOf DEF IInv, S
<1>2. /\ new \in SlotType /\ (new.active <=> S(p).active /\ S(p).count # 0)
      /\ new.ver = S(p).ver /\ new.len = S(p).len /\ new.name = S(p).name
      /\ new.array = S(p).array /\ new.count = S(p).count
  BY <1>1 DEF SlotType
<1>3. Store(p, "d_active", new, "d_even") /\ UNCHANGED <<since, must, may>>
  BY DEF Deactivate, truth
<1> HIDE DEF new
<1>4. crashes = 0 /\ S(p).active /\ ~new.active => In(S(p).array) = {}
  <2> SUFFICES ASSUME crashes = 0, S(p).count = 0 PROVE In(S(p).array) = {}
    BY <1>2
  <2>1. pc[p] = "d_active"
    BY <1>3 DEF Store, WriteSlot, Step
  <2>2. flock = p /\ AtSlot(p) /\ "d_active" \in Bumped
    <3>1. pc[p] \in Working /\ pc[p] \in Leaving /\ "d_active" \in Bumped
      BY <2>1 DEF Working, Discarding, Leaving, Bumped
    <3> QED BY <3>1 DEF IInv, Desk, Work, Leaves
  <2>3. PICK i \in Slots : i = loc[p].i
    BY <1>1
  <2>4. Held(i)
    BY <2>1, <2>2, <2>3, Holder DEF Held, AtSlot, S
  <2>5. Covered(i) /\ ~HolderAt(i, {"e_odd", "e_count"})
    BY <2>1, <2>2, <2>4, Holder DEF IInv, Rolls
  <2>6. Cardinality(In(slot[i].array)) <= 0
    <3>1. Cardinality(In(slot[i].array)) \in Nat
      BY <1>1, InFinite
    <3> QED BY <2>3, <2>5, <3>1 DEF Covered, One, S
  <2> QED BY <1>1, <2>3, <2>6, InFinite, FS_EmptySet DEF S
<1> QED BY <1>2, <1>3, <1>4, PatchStep

LEMMA BumpsStep ==
    ASSUME IInv, NEW p \in Procs,
           \/ Bump(p, "e_odd", "e_count") \/ Bump(p, "d_odd", "d_count")
           \/ Bump(p, "d_even", "return")
    PROVE  IInv'
<1>1. CASE Bump(p, "e_odd", "e_count")
  <2>1. /\ "e_odd" \in Storing /\ "e_count" \in AfterStore
        /\ "e_odd" \notin Bumped /\ "e_count" \in Bumped
        /\ "e_odd" \in Unbumped /\ "e_count" \notin Discarding
    BY DEF Storing, AfterStore, Bumped, Unbumped, Adding, Joining, Counted,
           Discarding, Leaving
  <2> QED BY <1>1, <2>1, BumpStep
<1>2. CASE Bump(p, "d_odd", "d_count")
  <2>1. /\ "d_odd" \in Storing /\ "d_count" \in AfterStore
        /\ "d_odd" \notin Bumped /\ "d_count" \in Bumped
        /\ "d_odd" \in Unbumped /\ "d_odd" \in Discarding
        /\ "d_count" \notin Adding
    BY DEF Storing, AfterStore, Bumped, Unbumped, Adding, Repairing, Writing,
           Joining, Counted, Discarding, Leaving
  <2> QED BY <1>2, <2>1, BumpStep
<1>3. CASE Bump(p, "d_even", "return")
  <2>1. /\ "d_even" \in Storing /\ "return" \in AfterStore
        /\ "d_even" \in Bumped /\ "return" \notin Bumped
        /\ "return" \notin Adding /\ "return" \notin Discarding
    BY StoringLabels DEF Storing, AfterStore, Bumped
  <2> QED BY <1>3, <2>1, BumpStep
<1> QED BY <1>1, <1>2, <1>3

\* The version is even again: the channel is in from the time it joined.
LEMMA JoinedStep ==
    ASSUME IInv, NEW p \in Procs, Joined(p)
    PROVE  IInv'
<1> DEFINE g == loc[p].group
           c == loc[p].chan
<1>1. /\ Store(p, "e_even", [S(p) EXCEPT !.ver = @ + 1], "return")
      /\ Note(p, loc[p].now) /\ pc[p] = "e_even"
  BY DEF Joined, Store, WriteSlot, Step
<1>2. /\ Types /\ loc[p].i \in Slots /\ loc[p].now \in 0 .. MaxTime
      /\ g \in GroupNames /\ c \in Channels /\ loc[p].now \in Int
      /\ loc[p].now >= 0
  <2>1. pc[p] \in Adding
    BY <1>1 DEF Adding, Joining, Counted
  <2>2. Types /\ loc[p].i \in Slots /\ loc[p].now \in 0 .. MaxTime
    BY LocOf DEF IInv
  <2> QED BY <2>1, <2>2, GroupsAssumption DEF IInv, Desk, Local
<1>3. /\ Truths' /\ since' = [since EXCEPT ![<<g, c>>] = loc[p].now]
      /\ Know(since')
  BY <1>1, <1>2, SinceOf, NoteTypes
<1>4. Tells
  BY <1>3, TellsKnown DEF Truths
<1>5. /\ "e_even" \in Storing /\ "return" \in AfterStore
      /\ "e_even" \in Bumped /\ "return" \notin Bumped
      /\ "e_even" \in Counted /\ "e_even" \in Joining /\ "e_even" \in Adding
  BY StoringLabels DEF Storing, AfterStore, Bumped, Counted, Joining, Adding
<1>6. /\ Slightly(p) /\ Types' /\ pc'[p] = "return"
      /\ slot'[loc[p].i].ver = S(p).ver + 1
      /\ slot'[loc[p].i].count = S(p).count
      /\ slot'[loc[p].i].active = S(p).active
  BY <1>1, <1>3, <1>5, BumpShape
<1>7. /\ mem' = mem /\ crashes' = crashes /\ loc' = loc
      /\ \A i \in Slots : i # loc[p].i => slot'[i] = slot[i]
  BY <1>6 DEF Slightly
<1>8. /\ AtSlot(p)
      /\ \A i, L : HolderAt(i, L) <=> pc[p] \in L /\ loc[p].i = i
      /\ \A i, L : HolderAt(i, L)' <=> pc'[p] \in L /\ loc[p].i = i
  BY <1>6, SlightHolder
<1>9. /\ S(p).active /\ (crashes = 0 => since[<<g, c>>] = Unsure)
      /\ \E j \in In(S(p).array) : A(p)[j].first = c
                                   /\ A(p)[j].time = loc[p].now
  BY <1>1, <1>5 DEF IInv, Work, Joins
<1>10. ASSUME crashes = 0, NEW h \in GroupNames, NEW d \in Channels,
              h = g, d = c
       PROVE  \E k \in Slots, j \in Entries : Home(h, d, k, j)'
  <2>1. PICK j \in In(S(p).array) :
            A(p)[j].first = c /\ A(p)[j].time = loc[p].now
    BY <1>9
  <2>2. PICK k \in Slots : k = loc[p].i
    BY <1>2
  <2>3. /\ slot'[k].active /\ slot'[k].name = h /\ j \in Entries
        /\ j \in In(slot[k].array)' /\ slot'[k].array = loc[p].slot.array
    BY <1>6, <1>7, <1>8, <1>9, <1>10, <2>1, <2>2
       DEF S, AtSlot, Fresh, In, Slightly
  <2>4. Held(k)'
    <3>1. ~Odd(k)'
      BY <1>5, <1>6, <1>7, <2>2 DEF Slightly, Odd
    <3>2. slot'[k].len # 0
      <4>1. slot'[loc[p].i].len = S(p).len /\ S(p).len # 0
        BY <1>6, <1>8 DEF Slightly, AtSlot
      <4> QED BY <2>2, <4>1
    <3> QED BY <3>1, <3>2 DEF Held
  <2>5. Entry(k, j)' = A(p)[j]
    BY <1>7, <2>3 DEF Entry, A
  <2>6. since'[<<h, d>>] = loc[p].now
    BY <1>2, <1>3, <1>10 DEF Types, Truths
  <2>7. Home(h, d, k, j)'
    BY <1>7, <1>10, <2>1, <2>3, <2>4, <2>5, <2>6 DEF Home, In
  <2> QED BY <2>3, <2>7
<1>11. ASSUME NEW h \in GroupNames, NEW d \in Channels
       PROVE  /\ since'[<<h, d>>] = Out =>
                    since[<<h, d>>] = Out \/ Unlisted(h, d)
              /\ crashes = 0 /\ since[<<h, d>>] >= 0 /\ since'[<<h, d>>] >= 0
                    => since'[<<h, d>>] = since[<<h, d>>]
              /\ crashes = 0 /\ ~(since[<<h, d>>] >= 0)
                    /\ since'[<<h, d>>] >= 0 =>
                 \E k \in Slots, j \in Entries : Home(h, d, k, j)'
  <2>1. since \in [GroupNames \X Channels -> Out .. MaxTime]
    BY <1>2 DEF Types, Truths
  <2>2. CASE h = g /\ d = c
    <3>1. since'[<<h, d>>] = loc[p].now
      BY <1>2, <1>3, <2>1, <2>2
    <3>2. crashes = 0 => since[<<h, d>>] = -1
      BY <1>9, <2>2 DEF Unsure
    <3>3. crashes = 0 => \E k \in Slots, j \in Entries : Home(h, d, k, j)'
      BY <1>10, <2>2
    <3>4. since'[<<h, d>>] # Out
      BY <1>2, <3>1 DEF Out
    <3>5. crashes = 0 => ~(since[<<h, d>>] >= 0)
      BY <3>2
    <3> QED BY <3>3, <3>4, <3>5
  <2>3. CASE ~(h = g /\ d = c)
    <3>1. since'[<<h, d>>] = since[<<h, d>>]
      BY <1>3, <2>1, <2>3
    <3> QED BY <3>1
  <2> QED BY <2>2, <2>3
<1>12. \A i \in Slots : Budget(i)'
  <2>1. slot'[loc[p].i].count <= S(p).count
    <3>1. S(p).count \in Nat
      BY <1>2, SlotOf DEF S
    <3> QED BY <1>6, <3>1
  <2> QED BY <1>1, <1>5, <1>6, <2>1, SlightBudget
<1>13. Work(p)'
  <2>1. "return" # "d_entry" /\ "return" # "a_entry"
    OBVIOUS
  <2> QED BY <1>6, <2>1, StoringLabels, <1>5
          DEF Work, Repairs, Creates, Joins, Leaves, Flushes, Repairing,
              Writing
<1>14. \A i \in Slots : Excess(i) <= Excess(i)'
  <2> SUFFICES ASSUME NEW i \in Slots PROVE Excess(i) <= Excess(i)'
    OBVIOUS
  <2>1. slot'[i].count = slot[i].count
    BY <1>6, <1>7 DEF S
  <2>2. ~HolderAt(i, {"e_odd", "e_count"})
        /\ ~HolderAt(i, {"d_odd", "d_count"})'
    BY <1>1, <1>6, <1>8
  <2>3. crashes <= crashes'
    BY <1>2, <1>7 DEF Types
  <2> QED BY <1>2, <1>6, <2>1, <2>2, <2>3, ExcessKept
<1>15. crashes = 0 /\ S(p).active /\ ~slot'[loc[p].i].active =>
          In(S(p).array) = {}
  BY <1>6
<1> QED BY <1>4, <1>6, <1>11, <1>12, <1>13, <1>14, <1>15, SlightStep

-----------------------------------------------------------------------------
(* Stores to an entry of the group's array.                                 *)

\* Where the holder is when it looks through the entries.
LEMMA AtEntry ==
    ASSUME IInv, NEW p \in Procs, pc[p] \in {"a_entry", "d_entry"}
    PROVE  /\ flock = p /\ loc[p].i \in Slots /\ pc[p] \in Working
           /\ S(p).len # 0 /\ S(p).name = loc[p].group
           /\ loc[p].slot.array = S(p).array
           /\ ~Odd(loc[p].i) /\ Held(loc[p].i)
           /\ S(p).array \in Arrays /\ S(p).array # None
           /\ S(p).array \notin free
           /\ loc[p].group \in GroupNames /\ loc[p].chan \in Channels
           /\ pc[p] = "a_entry" => S(p).active
           /\ \A i \in Slots : Held(i) /\ slot[i].active
                  /\ slot[i].name = S(p).name => i = loc[p].i
           /\ \A i \in Slots : slot[i].array = S(p).array => i = loc[p].i
           /\ Listed(loc[p].i) /\ Covered(loc[p].i)
           /\ \A i, L : HolderAt(i, L) <=> pc[p] \in L /\ loc[p].i = i
<1>1. /\ pc[p] \in Working /\ pc[p] \in Adding \cup Discarding
      /\ pc[p] \in Joining \cup Leaving /\ pc[p] \notin Bumped
  BY DEF Working, Adding, Joining, Discarding, Leaving, Bumped, Counted
<1>2. /\ flock = p /\ loc[p].i \in Slots /\ Types
      /\ loc[p].group \in GroupNames /\ loc[p].chan \in Channels
  BY <1>1, LocOf DEF IInv, Desk, Local
<1>3. /\ AtSlot(p) /\ (pc[p] = "a_entry" => S(p).active)
      /\ pc[p] = "d_entry" => \A k \in Named(loc[p].group) : loc[p].i <= k
  BY <1>1 DEF IInv, Work, Joins, Leaves, Joining, Leaving
<1>4. /\ S(p).len # 0 /\ S(p).name = loc[p].group
      /\ loc[p].slot.array = S(p).array /\ ~Odd(loc[p].i)
  BY <1>1, <1>3 DEF AtSlot, Fresh
<1>5. Held(loc[p].i)
  BY <1>2, <1>4, EvenHeld DEF S
<1>6. S(p).array \in Arrays /\ S(p).array \notin free /\ S(p).array # None
  BY <1>2, <1>5, GroupsAssumption DEF IInv, Index, Pointer, S
<1>7. \A i, L : HolderAt(i, L) <=> pc[p] \in L /\ loc[p].i = i
  BY <1>2, Holder
<1>8. ASSUME NEW i \in Slots, Held(i), slot[i].active,
             slot[i].name = S(p).name
      PROVE  i = loc[p].i
  <2>1. pc[p] = "d_entry" => loc[p].i <= i
    <3>1. ~Odd(i) /\ slot[i].len # 0
      BY <1>1, <1>7, <1>8 DEF Held
    <3> QED BY <1>3, <1>4, <1>8, <3>1 DEF Named
  <2> QED BY <1>3, <1>5, <1>8, <2>1, OwnSlot
<1>9. \A i \in Slots : slot[i].array = S(p).array => i = loc[p].i
  BY <1>2, <1>6 DEF IInv, Index, Apart, S
<1>10. Listed(loc[p].i) /\ Covered(loc[p].i)
  BY <1>2, <1>5 DEF IInv, Rolls
<1> QED BY <1>1, <1>2, <1>3, <1>4, <1>5, <1>6, <1>7, <1>8, <1>9, <1>10

\* One entry of the holder's array is stored.
Enters(p, j) ==
    /\ Others(p)
    /\ UNCHANGED <<slot, free, flock, now, calls, changing, calm, crashes>>
    /\ pc[p] \in {"a_entry", "d_entry"}
    /\ pc'[p] \in {"a_entry", "return", "e_odd", "d_odd"}
    /\ pc'[p] \in {"a_entry", "e_odd"} => pc[p] = "a_entry"
    /\ loc'[p].i = loc[p].i
    /\ \A a \in Arrays, k \in Entries :
          a # S(p).array \/ k # j => mem'[a][k] = mem[a][k]
    /\ mem'[S(p).array][j].time <= now
    /\ \A g \in GroupNames, c \in Channels :
          g # S(p).name => since'[<<g, c>>] = since[<<g, c>>]

LEMMA EntersHeld ==
    ASSUME IInv, NEW p \in Procs, NEW j \in Entries, Enters(p, j)
    PROVE  /\ \A i, L : HolderAt(i, L)' <=> pc'[p] \in L /\ loc[p].i = i
           /\ \A i \in Slots : (Odd(i)' <=> Odd(i)) /\ (Held(i)' <=> Held(i))
<1>1. flock' = p /\ (\A i, L : HolderAt(i, L) <=> pc[p] \in L /\ loc[p].i = i)
  BY AtEntry DEF Enters
<1>2. \A i, L : HolderAt(i, L)' <=> pc'[p] \in L /\ loc[p].i = i
  BY <1>1, GroupsAssumption DEF HolderAt, At, Enters
<1>3. \A i \in Slots : ~HolderAt(i, Bumped) /\ ~HolderAt(i, Bumped)'
  BY <1>1, <1>2 DEF Enters, Bumped
<1>4. \A i \in Slots : Odd(i)' <=> Odd(i)
  BY DEF Enters, Odd
<1> QED BY <1>2, <1>3, <1>4 DEF Enters, Held

LEMMA EntersOthers ==
    ASSUME IInv, Types', NEW p \in Procs, NEW j \in Entries, Enters(p, j),
           NEW i \in Slots, i # loc[p].i, Held(i)
    PROVE  /\ In(slot[i].array)' = In(slot[i].array)
           /\ \A k \in Entries : Entry(i, k)' = Entry(i, k)
           /\ Listed(i)' /\ Covered(i)'
           /\ slot[i].active => slot[i].name # S(p).name
<1>1. /\ slot'[i] = slot[i] /\ slot[i].array \in Arrays
      /\ slot[i].name \in GroupNames
  BY DEF Enters, IInv, Index, Pointer
<1>2. slot[i].array # S(p).array
        /\ (slot[i].active => slot[i].name # S(p).name)
  BY AtEntry DEF Enters
<1>3. \A k \in Entries : mem'[slot[i].array][k] = mem[slot[i].array][k]
  BY <1>1, <1>2 DEF Enters
<1>4. In(slot[i].array)' = In(slot[i].array)
  BY <1>1, <1>3 DEF In
<1>5. \A k \in Entries : Entry(i, k)' = Entry(i, k)
  BY <1>1, <1>3 DEF Entry
<1>6. Listed(i) /\ Covered(i)
  BY DEF IInv, Rolls
<1>7. ASSUME slot[i].active, NEW k \in In(slot[i].array)
      PROVE  since'[<<slot[i].name, Entry(i, k).first>>] # Out
  <2>1. /\ Entry(i, k).first \in Channels
        /\ since[<<slot[i].name, Entry(i, k).first>>] # Out
    BY <1>6, <1>7 DEF Listed
  <2> QED BY <1>1, <1>2, <1>7, <2>1 DEF Enters
<1>8. Listed(i)'
  <2>1. \A k \in In(slot[i].array) : k \in Entries
    BY DEF In
  <2> QED BY <1>1, <1>4, <1>5, <1>6, <1>7, <2>1 DEF Listed
<1>9. Covered(i)'
  <2>1. /\ ~HolderAt(i, {"e_odd", "e_count"})
        /\ ~HolderAt(i, {"d_odd", "d_count"})
    BY AtEntry DEF Enters
  <2>2. /\ ~HolderAt(i, {"e_odd", "e_count"})'
        /\ ~HolderAt(i, {"d_odd", "d_count"})'
    BY EntersHeld
  <2>3. Excess(i) <= Excess(i)'
    <3>1. slot[i].count \in Nat /\ crashes \in Nat
      BY SlotOf DEF IInv, Types
    <3> QED BY <1>1, <2>1, <2>2, <3>1 DEF Excess, One, Enters
  <2> QED BY <1>4, <1>6, <2>3, CoveredNext DEF IInv
<1> QED BY <1>2, <1>4, <1>5, <1>8, <1>9

LEMMA EntryStep ==
    ASSUME IInv, Types', NEW p \in Procs, NEW j \in Entries, Enters(p, j),
           NEW y \in Slots, y = loc[p].i, NEW h \in GroupNames, h = S(p).name,
           Local(p)', Work(p)', Tells, Listed(loc[p].i)', Covered(loc[p].i)',
           LET old == mem[S(p).array][j]
               new == mem'[S(p).array][j]
           IN  \/ (new.active => old.active) /\ new.first = old.first
               \/ new.first \in Channels
                     /\ since'[<<S(p).name, new.first>>] # Out,
           \A c \in Channels :
              /\ crashes = 0 /\ since[<<h, c>>] >= 0 /\ since'[<<h, c>>] >= 0
                    =>
                 /\ since[<<h, c>>] <= since'[<<h, c>>]
                 /\ \A x \in Entries : Home(h, c, y, x) => Home(h, c, y, x)'
              /\ crashes = 0 /\ ~(since[<<h, c>>] >= 0)
                    /\ since'[<<h, c>>] >= 0 =>
                 \E x \in Entries : Home(h, c, y, x)'
    PROVE  IInv'
<1>1. /\ Types /\ Desk /\ Index /\ Rolls /\ \A i \in Slots : Budget(i)
      /\ now \in Int /\ crashes \in Nat
  BY GroupsAssumption DEF IInv, Types
<1>2. /\ pc[p] \in {"a_entry", "d_entry"} /\ flock = p /\ flock' = p
      /\ loc[p].i \in Slots /\ pc[p] \in Working /\ S(p).array \in Arrays
      /\ S(p).name \in GroupNames /\ Others(p)
      /\ Held(loc[p].i)
      /\ \A i, L : HolderAt(i, L) <=> pc[p] \in L /\ loc[p].i = i
  BY AtEntry DEF Enters
<1>3. \A i \in Slots : (Odd(i)' <=> Odd(i)) /\ (Held(i)' <=> Held(i))
  BY EntersHeld
<1>4. /\ pc'[p] \in Working /\ pc'[p] \notin Getting /\ pc[p] \notin Getting
      /\ pc[p] \notin Changing /\ pc'[p] \notin Changing
      /\ pc[p] \notin Bumped \cup {"w", "w_even"}
      /\ pc[p] \in Unbumped /\ pc'[p] \notin Bumped
      /\ pc'[p] \in Adding => pc[p] \in Adding \ {"e_even"}
  BY <1>2 DEF Enters, Working, Adding, Joining, Counted, Discarding, Leaving,
              Getting, Lookups, Listing, Changing, Flushing, Bumped, Unbumped,
              Repairing, Writing
<1>5. Desk'
  <2>1. flock' = flock
    BY <1>2
  <2>2. changing' <=> pc'[p] \in Changing
    BY <1>1, <1>2, <1>4, GroupsAssumption DEF Desk, Enters
  <2>3. \A q \in Procs : calm'[q] => ~changing'
    BY <1>1 DEF Desk, Enters
  <2> QED BY <1>1, <1>2, <1>4, <2>1, <2>2, <2>3, DeskKept
<1>6. Index'
  <2>1. \A i \in Slots : Pointer(i)'
    BY <1>1, <1>3 DEF Index, Pointer, Enters
  <2>2. \A i, k \in Slots : i # k => Apart(i, k)'
    BY <1>1, <1>3 DEF Index, Apart, Enters
  <2>3. crashes' = 0 => \A i \in Slots : ~Odd(i)'
    BY <1>1, <1>2, <1>3, <1>4 DEF Index, Enters
  <2> QED BY <2>1, <2>2, <2>3 DEF Index
<1>7. \A i \in Slots : Budget(i)'
  <2> SUFFICES ASSUME NEW i \in Slots PROVE Budget(i)'
    OBVIOUS
  <2>1. Due = 2 /\ Due' \in {0, 2}
    BY <1>2, <1>4, DueOf, DueNext
  <2>2. slot'[i] = slot[i] /\ calls' = calls
    BY DEF Enters
  <2>3. slot[i].ver \in Nat /\ slot[i].count \in Nat /\ calls \in Nat
    BY <1>1, SlotOf, GroupsAssumption DEF Types
  <2>4. flock # None /\ Budget(i)
    BY <1>1, <1>2, GroupsAssumption
  <2> QED BY <1>2, <1>4, <2>1, <2>2, <2>3, <2>4 DEF Budget
<1>8. Gentle
  <2> SUFFICES ASSUME NEW a \in Arrays, NEW k \in Entries
               PROVE  \/ /\ mem'[a][k].active => mem[a][k].active
                         /\ mem'[a][k].first = mem[a][k].first
                      \/ /\ mem'[a][k].first \in Channels
                         /\ \E i \in Slots : slot[i].array = a
                            /\ since'[<<slot[i].name, mem'[a][k].first>>] # Out
    BY DEF Gentle, Enters
  <2>1. CASE a = S(p).array /\ k = j
    BY <1>2, <2>1 DEF S
  <2>2. CASE ~(a = S(p).array /\ k = j)
    BY <2>2 DEF Enters
  <2> QED BY <2>1, <2>2
<1>9. Steady
  <2> SUFFICES ASSUME crashes' = 0, NEW g \in GroupNames, NEW c \in Channels,
                      NEW k \in Slots, NEW x \in Entries,
                      since[<<g, c>>] >= 0, since'[<<g, c>>] >= 0,
                      Home(g, c, k, x)
               PROVE  Home(g, c, k, x)' /\ since[<<g, c>>] <= since'[<<g, c>>]
    BY DEF Steady, Enters
  <2>1. Held(k) /\ slot[k].active /\ slot[k].name = g /\ crashes = 0
    BY DEF Home, Enters
  <2>2. CASE g = h
    <3>1. k = y
      BY <1>2, <2>1, <2>2, AtEntry
    <3> QED BY <2>1, <2>2, <3>1
  <2>3. CASE g # h
    <3>1. since'[<<g, c>>] = since[<<g, c>>] /\ since[<<g, c>>] \in Int
      BY <1>1, <2>3, SinceOf DEF Enters
    <3>2. k # loc[p].i
      BY <2>1, <2>3 DEF S
    <3>3. /\ In(slot[k].array)' = In(slot[k].array)
          /\ Entry(k, x)' = Entry(k, x)
      BY <2>1, <3>2, EntersOthers
    <3>4. Held(k)' /\ slot'[k] = slot[k]
      BY <1>3, <2>1 DEF Enters
    <3>5. /\ slot[k].active /\ slot[k].name = g /\ x \in In(slot[k].array)
          /\ Entry(k, x).first = c /\ Entry(k, x).time = since[<<g, c>>]
      BY DEF Home
    <3>6. /\ Held(k)' /\ slot'[k].active /\ slot'[k].name = g
          /\ x \in In(slot[k].array)' /\ Entry(k, x)'.first = c
          /\ Entry(k, x)'.time = since'[<<g, c>>]
      BY <3>1, <3>3, <3>4, <3>5
    <3>7. Home(g, c, k, x)'
      BY <3>6 DEF Home
    <3>8. since[<<g, c>>] <= since'[<<g, c>>]
      BY <3>1
    <3> QED BY <3>7, <3>8
  <2> QED BY <2>2, <2>3
<1>10. Rolls'
  <2>1. ASSUME NEW i \in Slots, Held(i)' PROVE Listed(i)' /\ Covered(i)'
    <3>1. CASE i = loc[p].i
      <4>1. PICK k \in Slots : k = loc[p].i /\ k = loc'[p].i
        BY <1>2 DEF Enters
      <4>2. Listed(k)' /\ Covered(k)'
        BY <4>1
      <4> QED BY <3>1, <4>1, <4>2
    <3>2. CASE i # loc[p].i
      BY <1>3, <2>1, <3>2, EntersOthers
    <3> QED BY <3>1, <3>2
  <2>2. ASSUME crashes' = 0, NEW g \in GroupNames, NEW c \in Channels,
               ~(since[<<g, c>>] >= 0), since'[<<g, c>>] >= 0
        PROVE  \E k \in Slots, x \in Entries : Home(g, c, k, x)'
    <3>1. g = h /\ crashes = 0
      BY <2>2 DEF Enters
    <3> QED BY <2>2, <3>1
  <2>3. ASSUME NEW a \in Arrays, NEW k \in Entries
        PROVE  mem'[a][k].time <= now'
    <3>1. CASE a = S(p).array /\ k = j
      BY <3>1 DEF Enters
    <3>2. CASE ~(a = S(p).array /\ k = j)
      BY <1>1, <3>2 DEF Enters, Rolls
    <3> QED BY <3>1, <3>2
  <2>4. crashes <= crashes' /\ crashes' \in Nat
    BY <1>1 DEF Enters
  <2> QED BY <1>1, <1>9, <2>1, <2>2, <2>3, <2>4, RollsKept
<1>11. crashes <= crashes'
  BY <1>1 DEF Enters
<1>12. flock' \in {p, None}
  BY <1>2
<1> QED BY <1>2, <1>4, <1>5, <1>6, <1>7, <1>8, <1>9, <1>10, <1>11, <1>12,
           Assemble

\* The holder's own entries, in the words of the invariant.
OwnEntries(p, a) ==
    /\ Active(p) = In(a)
    /\ \A j \in Entries :
          A(p)[j] = mem[a][j] /\ Entry(loc[p].i, j) = mem[a][j]
    /\ \A j \in In(a) : /\ j \in Entries
                        /\ mem[a][j].first \in Channels
                        /\ j \in Mine(p) <=> mem[a][j].first = loc[p].chan
    /\ \A j, k \in In(a) : j # k => mem[a][j].first # mem[a][k].first
    /\ S(p).active => \A j \in In(a) :
          since[<<loc[p].group, mem[a][j].first>>] # Out

LEMMA EntryWords ==
    ASSUME IInv, NEW p \in Procs, pc[p] \in {"a_entry", "d_entry"}
    PROVE  OwnEntries(p, S(p).array)
<1>1. /\ loc[p].slot.array = S(p).array /\ Listed(loc[p].i)
      /\ S(p).name = loc[p].group
  BY AtEntry
<1>2. /\ Active(p) = In(S(p).array)
      /\ \A j \in Entries : A(p)[j] = mem[S(p).array][j]
      /\ \A j \in Entries : Entry(loc[p].i, j) = mem[S(p).array][j]
  BY <1>1 DEF Active, A, In, Entry, S
<1>3. /\ \A j \in In(S(p).array) : /\ j \in Entries
            /\ mem[S(p).array][j].first \in Channels
            /\ mem[S(p).array][j].second = mem[S(p).array][j].first
      /\ \A j, k \in In(S(p).array) : j # k =>
            mem[S(p).array][j].first # mem[S(p).array][k].first
      /\ S(p).active => \A j \in In(S(p).array) :
            since[<<loc[p].group, mem[S(p).array][j].first>>] # Out
  BY <1>1 DEF Listed, In, Entry, S
<1>4. \A j \in In(S(p).array) :
         j \in Mine(p) <=> mem[S(p).array][j].first = loc[p].chan
  BY <1>2, <1>3 DEF Mine, Whole
<1> QED BY <1>2, <1>3, <1>4 DEF OwnEntries

\* Listed and Covered of the holder's slot after the store.
LEMMA OwnListed ==
    ASSUME IInv, Types', NEW p \in Procs, NEW j \in Entries, Enters(p, j),
           NEW a, a = S(p).array, NEW g, g = S(p).name,
           NEW X, X = {k \in Entries : mem'[a][k].active},
           \A k \in X : mem'[a][k].first \in Channels
                            /\ mem'[a][k].second = mem'[a][k].first,
           \A k, x \in X : k # x => mem'[a][k].first # mem'[a][x].first,
           S(p).active => \A k \in X : since'[<<g, mem'[a][k].first>>] # Out,
           Cardinality(X) + One(pc'[p] = "d_odd")
                <= S(p).count + crashes + One(pc'[p] = "e_odd")
    PROVE  Listed(loc[p].i)' /\ Covered(loc[p].i)'
<1>1. PICK i \in Slots : i = loc[p].i /\ i = loc'[p].i
  BY AtEntry DEF Enters
<1>2. /\ slot'[i] = S(p) /\ crashes' = crashes /\ slot'[i].array = a
      /\ slot'[i].name = g
  BY <1>1 DEF Enters, S
<1>3. In(slot[i].array)' = X
  BY <1>2 DEF In
<1>4. \A k \in X : Entry(i, k)' = mem'[a][k]
  BY <1>2 DEF Entry
<1>5. Listed(i)'
  BY <1>2, <1>3, <1>4 DEF Listed
<1>6. \A L : HolderAt(i, L)' <=> pc'[p] \in L
  BY <1>1, EntersHeld
<1>7. /\ HolderAt(i, {"d_odd", "d_count"})' <=> pc'[p] = "d_odd"
      /\ HolderAt(i, {"e_odd", "e_count"})' <=> pc'[p] = "e_odd"
  BY <1>6 DEF Enters
<1>8. Covered(i)'
  <2>1. /\ One(HolderAt(i, {"d_odd", "d_count"}))' = One(pc'[p] = "d_odd")
        /\ One(HolderAt(i, {"e_odd", "e_count"}))' = One(pc'[p] = "e_odd")
    BY <1>7 DEF One
  <2> QED BY <1>2, <1>3, <2>1 DEF Covered
<1> QED BY <1>1, <1>5, <1>8

\* An entry is cleared: its channel is out.
Cleared(p, at, j, next) ==
    /\ WriteEntry(p, at, j, [A(p)[j] EXCEPT !.active = FALSE], next)
    /\ Know([since EXCEPT ![<<loc[p].group, A(p)[j].first>>] = Out])

LEMMA ClearStep ==
    ASSUME IInv, NEW p \in Procs, NEW at, NEW next, NEW j \in Entries,
           j \in In(S(p).array), loc[p].k = 0,
           Cleared(p, at, j, next),
           \/ at = "a_entry" /\ next = "a_entry" /\ j \notin Mine(p)
           \/ at = "d_entry" /\ next = "d_odd" /\ j \in Mine(p)
    PROVE  IInv'
<1>1. /\ pc[p] = at /\ pc[p] \in {"a_entry", "d_entry"} /\ Types /\ Desk
      /\ Work(p) /\ Rolls /\ next \in Labels
  BY DEF Cleared, WriteEntry, Step, IInv, Labels, Working, Adding, Joining,
         Discarding, Leaving
<1>2. PICK i \in Slots, a \in Arrays, g \in GroupNames, d \in Channels :
          /\ i = loc[p].i /\ a = S(p).array /\ a = loc[p].slot.array
          /\ g = S(p).name /\ g = loc[p].group /\ d = loc[p].chan
  BY <1>1, AtEntry
<1>3. /\ Listed(i) /\ Covered(i) /\ slot[i] = S(p)
      /\ \A L : HolderAt(i, L) <=> pc[p] \in L
  BY <1>1, <1>2, AtEntry DEF S
<1>4. /\ A(p)[j] = mem[a][j] /\ j \in Entries /\ mem[a][j].first \in Channels
      /\ \A k \in In(a) : k \in Entries /\ mem[a][k].first \in Channels
      /\ \A k \in In(a) : k \in Mine(p) <=> mem[a][k].first = d
      /\ \A k, x \in In(a) : k # x => mem[a][k].first # mem[a][x].first
      /\ S(p).active => \A k \in In(a) : since[<<g, mem[a][k].first>>] # Out
  <2>1. OwnEntries(p, a)
    BY <1>1, <1>2, EntryWords
  <2> QED BY <1>2, <2>1 DEF OwnEntries
<1>5. PICK c \in Channels : c = A(p)[j].first /\ c = mem[a][j].first
  BY <1>4
<1>6. PICK new \in EntryType :
          /\ new.active = FALSE /\ new.first = c
          /\ new.second = mem[a][j].second /\ new.time = mem[a][j].time
          /\ WriteEntry(p, at, j, new, next)
  <2>1. mem[a][j] \in EntryType
    BY <1>1, <1>4, EntryOf
  <2>2. PICK e \in EntryType : e = [A(p)[j] EXCEPT !.active = FALSE]
    BY <1>4, <2>1, EntrySet
  <2>3. /\ e.active = FALSE /\ e.first = mem[a][j].first
        /\ e.second = mem[a][j].second /\ e.time = mem[a][j].time
    BY <1>4, <2>1, <2>2 DEF EntryType
  <2>4. WriteEntry(p, at, j, e, next)
    BY <2>2 DEF Cleared
  <2> QED BY <1>5, <2>3, <2>4
<1>7. /\ since' = [since EXCEPT ![<<g, c>>] = Out] /\ Truths' /\ Tells
  <2>1. [since EXCEPT ![<<g, c>>] = Out]
            \in [GroupNames \X Channels -> Out .. MaxTime]
    BY <1>1, SinceSet, SinceOf
  <2>2. Know([since EXCEPT ![<<g, c>>] = Out])
    BY <1>2, <1>5 DEF Cleared
  <2> QED BY <1>1, <2>1, <2>2, Known, TellsKnown
<1>8. \A h \in GroupNames, b \in Channels :
         /\ h = g /\ b = c => since'[<<h, b>>] = Out
         /\ ~(h = g /\ b = c) => since'[<<h, b>>] = since[<<h, b>>]
  BY <1>1, <1>7 DEF Types, Truths
<1>9. /\ pc'[p] = next /\ Others(p) /\ loc' = loc
      /\ UNCHANGED <<slot, free, flock, now, calls, changing, calm, crashes>>
      /\ Types'
      /\ mem'[a][j] = new
      /\ \A b \in Arrays, k \in Entries :
            b # a \/ k # j => mem'[b][k] = mem[b][k]
  <2>1. WriteEntry(p, at, j, new, next) /\ loc[p].slot.array \in Arrays
    BY <1>2, <1>6
  <2>2. /\ pc'[p] = next /\ Others(p) /\ loc' = loc
        /\ UNCHANGED <<slot, free, flock, now, calls, changing, calm, crashes>>
        /\ next \in Labels /\ new \in EntryType /\ Truths' => Types'
    <3>1. Types /\ j \in Entries
      BY <1>1, <1>4
    <3> QED BY <2>1, <3>1, EntryShape
  <2>3. /\ mem'[a][j] = new
        /\ \A b \in Arrays, k \in Entries :
              b # a \/ k # j => mem'[b][k] = mem[b][k]
    <3>1. mem' = [mem EXCEPT ![a][j] = new]
      BY <1>2, <2>1 DEF WriteEntry
    <3>2. mem \in [Arrays -> [Entries -> EntryType]] /\ j \in Entries
      BY <1>1, <1>4 DEF Types
    <3> QED BY <3>1, <3>2
  <2>4. Types'
    BY <1>1, <1>7, <2>2
  <2> QED BY <2>2, <2>3, <2>4
<1>10. Enters(p, j)
  <2>1. mem'[a][j].time <= now
    BY <1>1, <1>4, <1>6, <1>9 DEF Rolls
  <2> QED BY <1>1, <1>2, <1>8, <1>9, <2>1 DEF Enters
<1>11. PICK X : X = {k \in Entries : mem'[a][k].active} /\ X = In(a) \ {j}
  <2>1. \A k \in Entries :
            mem'[a][k].active <=> mem[a][k].active /\ k # j
    BY <1>4, <1>6, <1>9
  <2> QED BY <2>1 DEF In
<1>12. Listed(loc[p].i)' /\ Covered(loc[p].i)'
  <2>1. \A k \in X : k \in Entries /\ mem'[a][k] = mem[a][k]
                        /\ mem[a][k].second = mem[a][k].first
    <3>1. slot[i].array = a
      BY <1>2, <1>3
    <3>2. \A k \in In(a) : mem[a][k].second = mem[a][k].first
      BY <1>3, <3>1 DEF Listed, Entry
    <3>3. \A k \in X : k \in In(a) /\ k # j
      BY <1>11
    <3> QED BY <1>4, <1>9, <3>2, <3>3
  <2>2. /\ \A k \in X : mem'[a][k].first \in Channels
                /\ mem'[a][k].second = mem'[a][k].first
        /\ \A k, x \in X : k # x => mem'[a][k].first # mem'[a][x].first
    BY <1>4, <1>11, <2>1
  <2>3. S(p).active => \A k \in X : since'[<<g, mem'[a][k].first>>] # Out
    <3> SUFFICES ASSUME S(p).active, NEW k \in X
                 PROVE  since'[<<g, mem[a][k].first>>] # Out
      BY <2>1
    <3>1. mem[a][k].first # c /\ mem[a][k].first \in Channels
          /\ since[<<g, mem[a][k].first>>] # Out
      <4>1. k \in In(a) /\ j \in In(a) /\ k # j
        BY <1>2, <1>11
      <4>2. mem[a][k].first # c
        BY <1>4, <1>5, <4>1
      <4>3. mem[a][k].first \in Channels
        BY <1>4, <4>1
      <4>4. since[<<g, mem[a][k].first>>] # Out
        BY <1>4, <4>1
      <4> QED BY <4>2, <4>3, <4>4
    <3> QED BY <1>8, <3>1
  <2>4. Cardinality(X) + One(pc'[p] = "d_odd")
            <= S(p).count + crashes + One(pc'[p] = "e_odd")
    <3>1. /\ IsFiniteSet(In(a)) /\ Cardinality(In(a)) \in Nat
          /\ S(p).count \in Nat /\ crashes \in Nat
      BY <1>1, <1>2, <1>3, InFinite, SlotOf DEF Types
    <3>2. Cardinality(X) = Cardinality(In(a)) - 1
      <4>1. j \in In(a)
        BY <1>2
      <4>2. Cardinality(In(a) \ {j}) = Cardinality(In(a)) - 1
        BY <3>1, <4>1, FS_RemoveElement
      <4> QED BY <1>11, <4>2
    <3>3. Cardinality(In(a)) <= S(p).count + crashes
      <4>1. /\ ~HolderAt(i, {"d_odd", "d_count"})
            /\ ~HolderAt(i, {"e_odd", "e_count"})
        BY <1>1, <1>3
      <4>2. slot[i].array = a /\ slot[i].count = S(p).count
        BY <1>2, <1>3
      <4>3. Cardinality(In(a)) + 0 <= S(p).count + crashes + 0
        BY <1>3, <4>1, <4>2 DEF Covered, One
      <4> QED BY <3>1, <4>3
    <3>4. next # "e_odd"
      OBVIOUS
    <3> QED BY <1>9, <3>1, <3>2, <3>3, <3>4 DEF One
  <2>5. X = {k \in Entries : mem'[a][k].active} /\ a = S(p).array
        /\ g = S(p).name /\ Types' /\ j \in Entries
    BY <1>2, <1>4, <1>9, <1>11
  <2> QED BY <1>10, <2>2, <2>3, <2>4, <2>5, OwnListed
<1>13. Local(p)'
  BY <1>1, <1>9 DEF Desk, Local, Adding, Joining, Discarding, Leaving, Getting,
                    Lookups, Listing
<1>14. AtSlot(p)'
  <2>1. AtSlot(p)
    BY <1>1 DEF Work, Joins, Leaves, Joining, Leaving
  <2>2. S(p)' = S(p) /\ pc[p] \notin Bumped /\ pc'[p] \notin Bumped
    BY <1>1, <1>9 DEF S, Bumped
  <2>3. Odd(loc[p].i)' <=> Odd(loc[p].i)
    BY <1>9 DEF Odd
  <2> QED BY <1>9, <2>1, <2>2, <2>3 DEF AtSlot, Fresh
<1>15. Joins(p)'
  <2>1. CASE next = "a_entry"
    <3>1. /\ at = "a_entry" /\ j \notin Mine(p) /\ "a_entry" \in Joining
          /\ "a_entry" \notin Counted /\ "a_entry" \in Adding
      BY <2>1 DEF Joining, Counted, Adding
    <3>2. /\ S(p).active /\ loc[p].now <= now
          /\ \A b \in Arrays, k \in Entries : mem[b][k].time <= loc[p].now
          /\ since[<<g, d>>] # Out
      BY <1>1, <1>2, <3>1 DEF Work, Joins
    <3>3. \A b \in Arrays, k \in Entries : mem'[b][k].time <= loc[p].now
      BY <1>4, <1>6, <1>9, <3>2
    <3>4. since'[<<g, d>>] # Out
      BY <1>2, <1>4, <1>5, <1>8, <3>1, <3>2
    <3>5. S(p)'.active
      BY <1>9, <3>2 DEF S
    <3>6. since'[<<loc[p].group, loc[p].chan>>] # Out
      BY <1>2, <3>4
    <3> QED BY <1>9, <1>14, <2>1, <3>1, <3>2, <3>3, <3>5, <3>6 DEF Joins
  <2>2. CASE next = "d_odd"
    BY <1>9, <2>2 DEF Joins, Joining, Counted, Adding, Repairing, Writing
  <2> QED BY <2>1, <2>2
<1>16. Leaves(p)'
  <2>1. CASE next = "a_entry"
    BY <1>9, <2>1 DEF Leaves, Leaving, Discarding
  <2>2. CASE next = "d_odd"
    <3>1. since'[<<loc[p].group, loc[p].chan>>] = Out
      <4>1. j \in In(a) /\ j \in Mine(p)
        BY <1>2, <2>2
      <4>2. c = d
        BY <1>4, <1>5, <4>1
      <4>3. since'[<<g, d>>] = Out
        BY <1>8, <4>2
      <4> QED BY <1>2, <4>3
    <3> QED BY <1>9, <1>14, <2>2, <3>1 DEF Leaves, Out
  <2> QED BY <2>1, <2>2
<1>17. Work(p)'
  BY <1>9, <1>15, <1>16
     DEF Work, Repairs, Creates, Flushes, Repairing, Writing, Flushing
<1>18. ASSUME NEW b \in Channels
       PROVE  /\ crashes = 0 /\ since[<<g, b>>] >= 0
                    /\ since'[<<g, b>>] >= 0 =>
                 /\ since[<<g, b>>] <= since'[<<g, b>>]
                 /\ \A x \in Entries : Home(g, b, i, x) => Home(g, b, i, x)'
              /\ crashes = 0 /\ ~(since[<<g, b>>] >= 0)
                    /\ since'[<<g, b>>] >= 0 =>
                 \E x \in Entries : Home(g, b, i, x)'
  <2>1. CASE b = c
    BY <1>8, <2>1 DEF Out
  <2>2. CASE b # c
    <3>1. since'[<<g, b>>] = since[<<g, b>>] /\ since[<<g, b>>] \in Int
      BY <1>1, <1>8, <2>2, SinceOf
    <3>2. ASSUME NEW x \in Entries, Home(g, b, i, x)
          PROVE  Home(g, b, i, x)'
      <4>1. x # j
        BY <1>2, <1>3, <1>5, <2>2, <3>2 DEF Home, Entry
      <4>2. slot'[i] = slot[i] /\ slot[i].array = a
        BY <1>2, <1>3, <1>9
      <4>3. mem'[a][x] = mem[a][x]
        BY <1>9, <4>1
      <4>4. Held(i)'
        BY <1>4, <1>10, <3>2, EntersHeld DEF Home
      <4> QED BY <3>1, <3>2, <4>2, <4>3, <4>4 DEF Home, In, Entry
    <3> QED BY <3>1, <3>2
  <2> QED BY <2>1, <2>2
<1>19. LET old == mem[S(p).array][j]
           fresh == mem'[S(p).array][j]
       IN  (fresh.active => old.active) /\ fresh.first = old.first
  BY <1>2, <1>5, <1>6, <1>9
<1> QED BY <1>2, <1>4, <1>7, <1>9, <1>10, <1>12, <1>13, <1>17, <1>18, <1>19,
           EntryStep

LEMMA SweepStep ==
    ASSUME IInv, NEW p \in Procs, Sweep(p)
    PROVE  IInv'
<1> DEFINE j == First(Stale(p))
<1>1. /\ pc[p] = "a_entry" /\ Stale(p) # {}
      /\ WriteEntry(p, "a_entry", j, [A(p)[j] EXCEPT !.active = FALSE],
                    "a_entry")
      /\ Know([since EXCEPT ![<<loc[p].group, A(p)[j].first>>] = Out])
  BY DEF Sweep
<1>6. Cleared(p, "a_entry", j, "a_entry")
  BY <1>1 DEF Cleared
<1>2. Stale(p) \in SUBSET Entries
  BY DEF Stale, Active
<1>3. j \in Active(p) /\ j \notin Mine(p) /\ j \in Entries
  BY <1>1, <1>2, FirstEntry DEF Stale
<1>4. j \in In(S(p).array)
  BY <1>1, <1>3, EntryWords DEF OwnEntries
<1>5. loc[p].k = 0
  <2>1. ~(loc[p].k > 0) /\ loc[p].k \in 0 .. 4
    BY <1>1, LocOf DEF IInv, Work, Joins
  <2> QED BY <2>1
<1> HIDE DEF j
<1> QED BY <1>1, <1>3, <1>4, <1>5, <1>6, ClearStep

LEMMA RemoveStep ==
    ASSUME IInv, NEW p \in Procs, Remove(p)
    PROVE  IInv'
<1> DEFINE j == First(Mine(p))
<1>1. /\ pc[p] = "d_entry" /\ Mine(p) # {}
      /\ WriteEntry(p, "d_entry", j, [A(p)[j] EXCEPT !.active = FALSE],
                    "d_odd")
      /\ Note(p, Out)
  BY DEF Remove
<1>2. Mine(p) \in SUBSET Entries
  BY DEF Mine, Active
<1>3. j \in Mine(p) /\ j \in Active(p) /\ j \in Entries
        /\ A(p)[j].first = loc[p].chan
  BY <1>1, <1>2, FirstEntry DEF Mine, Whole
<1>4. j \in In(S(p).array)
  BY <1>1, <1>3, EntryWords DEF OwnEntries
<1>5. loc[p].k = 0
  BY <1>1 DEF IInv, Desk, Local
<1>6. Cleared(p, "d_entry", j, "d_odd")
  BY <1>1, <1>3 DEF Note, Cleared
<1> HIDE DEF j
<1> QED BY <1>1, <1>3, <1>4, <1>5, <1>6, ClearStep

\* The channel's entry gets the time of the call.
LEMMA RefreshStep ==
    ASSUME IInv, NEW p \in Procs, Refresh(p)
    PROVE  IInv'
<1>1. /\ pc[p] = "a_entry" /\ Types /\ Desk /\ Work(p) /\ Rolls
      /\ Mine(p) # {} /\ loc[p].now \in 0 .. MaxTime /\ loc[p].now \in Int
  BY LocOf DEF Refresh, IInv
<1>2. PICK i \in Slots, a \in Arrays, g \in GroupNames, d \in Channels,
           t \in 0 .. MaxTime :
          /\ i = loc[p].i /\ a = S(p).array /\ a = loc[p].slot.array
          /\ g = S(p).name /\ g = loc[p].group /\ d = loc[p].chan
          /\ t = loc[p].now
  BY <1>1, AtEntry
<1>3. /\ Listed(i) /\ Covered(i) /\ slot[i] = S(p) /\ Held(i)
      /\ \A L : HolderAt(i, L) <=> pc[p] \in L
      /\ \A k \in Slots : Held(k) /\ slot[k].active /\ slot[k].name = g
            => k = i
  BY <1>1, <1>2, AtEntry DEF S
<1>4. /\ \A k \in Entries : A(p)[k] = mem[a][k]
      /\ Active(p) = In(a)
      /\ \A k \in In(a) : k \in Entries /\ mem[a][k].first \in Channels
      /\ \A k \in In(a) : k \in Mine(p) <=> mem[a][k].first = d
      /\ \A k, x \in In(a) : k # x => mem[a][k].first # mem[a][x].first
      /\ S(p).active => \A k \in In(a) : since[<<g, mem[a][k].first>>] # Out
  <2>1. OwnEntries(p, a)
    BY <1>1, <1>2, EntryWords
  <2> QED BY <1>2, <2>1 DEF OwnEntries
<1>5. PICK j \in Entries : j = First(Mine(p)) /\ j \in In(a)
                                /\ mem[a][j].first = d
  <2>1. Mine(p) \in SUBSET Entries /\ Mine(p) \subseteq Active(p)
    BY DEF Mine, Active
  <2>2. First(Mine(p)) \in Mine(p)
    BY <1>1, <2>1, FirstEntry
  <2> QED BY <1>4, <2>1, <2>2
<1>6. PICK new \in EntryType :
          /\ new.active = TRUE /\ new.first = d
          /\ new.second = mem[a][j].second /\ new.time = t
          /\ WriteEntry(p, "a_entry", j, new, "return")
  <2>1. mem[a][j] \in EntryType /\ mem[a][j].active = TRUE
    <3>1. mem[a][j] \in EntryType /\ mem[a][j].active \in BOOLEAN
      BY <1>1, EntryOf
    <3> QED BY <1>5, <3>1 DEF In
  <2>2. PICK e \in EntryType : e = [A(p)[j] EXCEPT !.time = t]
    BY <1>4, <2>1, EntrySet
  <2>3. /\ e.active = TRUE /\ e.first = mem[a][j].first
        /\ e.second = mem[a][j].second /\ e.time = t
    BY <1>4, <2>1, <2>2 DEF EntryType
  <2>4. WriteEntry(p, "a_entry", j, e, "return")
    BY <1>2, <1>5, <2>2 DEF Refresh
  <2> QED BY <1>5, <2>3, <2>4
<1>7. /\ since' = [since EXCEPT ![<<g, d>>] = t] /\ Truths' /\ Tells
  <2>1. Note(p, t) /\ t \in Out .. MaxTime
    BY <1>1, <1>2, SinceOf DEF Refresh
  <2>2. /\ Truths' /\ Know(since')
        /\ since' = [since EXCEPT ![<<g, d>>] = t]
    BY <1>1, <1>2, <2>1, NoteTypes
  <2> QED BY <2>2, TellsKnown DEF Truths
<1>8. \A h \in GroupNames, b \in Channels :
         /\ h = g /\ b = d => since'[<<h, b>>] = t
         /\ ~(h = g /\ b = d) => since'[<<h, b>>] = since[<<h, b>>]
  BY <1>1, <1>7 DEF Types, Truths
<1>9. /\ pc'[p] = "return" /\ Others(p) /\ loc' = loc
      /\ UNCHANGED <<slot, free, flock, now, calls, changing, calm, crashes>>
      /\ Types'
      /\ mem'[a][j] = new
      /\ \A b \in Arrays, k \in Entries :
            b # a \/ k # j => mem'[b][k] = mem[b][k]
  <2>1. /\ WriteEntry(p, "a_entry", j, new, "return")
        /\ loc[p].slot.array \in Arrays /\ Types
    BY <1>1, <1>2, <1>6
  <2>2. /\ pc'[p] = "return" /\ Others(p) /\ loc' = loc
        /\ UNCHANGED <<slot, free, flock, now, calls, changing, calm, crashes>>
        /\ "return" \in Labels /\ new \in EntryType /\ Truths' => Types'
    <3>1. PICK at, next : at = "a_entry" /\ next = "return"
      OBVIOUS
    <3>2. WriteEntry(p, at, j, new, next)
      BY <2>1, <3>1
    <3>3. /\ pc'[p] = next /\ Others(p) /\ loc' = loc
          /\ UNCHANGED <<slot, free, flock, now, calls, changing, calm,
                         crashes>>
          /\ next \in Labels /\ new \in EntryType /\ Truths' => Types'
      BY <2>1, <3>2, EntryShape
    <3> QED BY <3>1, <3>3
  <2>3. /\ mem'[a][j] = new
        /\ \A b \in Arrays, k \in Entries :
              b # a \/ k # j => mem'[b][k] = mem[b][k]
    <3>1. mem' = [mem EXCEPT ![a][j] = new]
      BY <1>2, <2>1 DEF WriteEntry
    <3>2. mem \in [Arrays -> [Entries -> EntryType]]
      BY <1>1 DEF Types
    <3> QED BY <3>1, <3>2
  <2>4. Types'
    BY <1>7, <2>2 DEF Labels, Working
  <2> QED BY <2>2, <2>3, <2>4
<1>10. /\ S(p).active /\ t <= now /\ t \in Int
       /\ \A b \in Arrays, k \in Entries : mem[b][k].time <= t
       /\ loc[p].k = 0
  <2>1. "a_entry" \in Joining /\ loc[p].k \in 0 .. 4
    BY <1>1, LocOf DEF Joining
  <2>2. ~(loc[p].k > 0)
    BY <1>1 DEF Work, Joins
  <2>3. loc[p].k = 0
    BY <2>1, <2>2
  <2> QED BY <1>1, <1>2, <2>1, <2>3 DEF Work, Joins
<1>11. Enters(p, j)
  BY <1>1, <1>2, <1>6, <1>8, <1>9, <1>10 DEF Enters
<1>12. \A k \in Entries : mem'[a][k].active <=> mem[a][k].active
  BY <1>5, <1>6, <1>9 DEF In
<1>13. PICK X : X = {k \in Entries : mem'[a][k].active} /\ X = In(a)
  BY <1>12 DEF In
<1>14. \A k \in X : k \in In(a) /\ mem'[a][k].first = mem[a][k].first
                        /\ mem'[a][k].second = mem[a][k].second
  BY <1>4, <1>5, <1>6, <1>9, <1>13
<1>15. Listed(loc[p].i)' /\ Covered(loc[p].i)'
  <2>1. \A k \in X : mem'[a][k].first \in Channels
                        /\ mem'[a][k].second = mem'[a][k].first
    <3>1. \A k \in In(a) : mem[a][k].second = mem[a][k].first
      <4>1. slot[i].array = a
        BY <1>2, <1>3
      <4> QED BY <1>3, <4>1 DEF Listed, Entry
    <3> QED BY <1>4, <1>14, <3>1
  <2>2. \A k, x \in X : k # x => mem'[a][k].first # mem'[a][x].first
    BY <1>4, <1>14
  <2>3. S(p).active => \A k \in X : since'[<<g, mem'[a][k].first>>] # Out
    <3> SUFFICES ASSUME NEW k \in In(a)
                 PROVE  since'[<<g, mem[a][k].first>>] # Out
      BY <1>13, <1>14
    <3>1. mem[a][k].first \in Channels
          /\ since[<<g, mem[a][k].first>>] # Out /\ t # Out
      BY <1>4, <1>10 DEF Out
    <3> QED BY <1>8, <3>1
  <2>4. Cardinality(X) + One(pc'[p] = "d_odd")
            <= S(p).count + crashes + One(pc'[p] = "e_odd")
    <3>1. /\ ~HolderAt(i, {"d_odd", "d_count"})
          /\ ~HolderAt(i, {"e_odd", "e_count"})
      BY <1>1, <1>3
    <3>2. slot[i].array = a /\ slot[i].count = S(p).count
      BY <1>2, <1>3
    <3>3. Cardinality(In(a)) + 0 <= S(p).count + crashes + 0
      BY <1>3, <3>1, <3>2 DEF Covered, One
    <3> QED BY <1>9, <1>13, <3>3 DEF One
  <2>5. X = {k \in Entries : mem'[a][k].active} /\ a = S(p).array
        /\ g = S(p).name /\ Types'
    BY <1>2, <1>9, <1>13
  <2> QED BY <1>11, <2>1, <2>2, <2>3, <2>4, <2>5, OwnListed
<1>16. Local(p)'
  BY <1>9, <1>10
     DEF Local, Adding, Repairing, Writing, Joining, Counted, Discarding,
         Leaving, Getting, Lookups, Listing
<1>17. Work(p)'
  BY <1>9 DEF Work, Repairs, Creates, Joins, Leaves, Flushes, Adding,
              Repairing, Writing, Joining, Counted, Discarding, Leaving,
              Flushing
<1>18. Held(i)'
  <2>1. \A k \in Slots : Held(k)' <=> Held(k)
    BY <1>11, EntersHeld
  <2> QED BY <1>3, <2>1
<1>19. ASSUME crashes = 0, NEW x \in Entries, Home(g, d, i, x)
       PROVE  since[<<g, d>>] <= t /\ x = j
  <2>1. slot[i].array = a
    BY <1>2, <1>3
  <2>2. x \in In(a) /\ mem[a][x].first = d /\ mem[a][x].time = since[<<g, d>>]
    BY <1>19, <2>1 DEF Home, Entry
  <2> QED BY <1>4, <1>5, <1>10, <2>2
<1>20. Home(g, d, i, j)'
  <2>1. slot'[i] = slot[i] /\ slot[i].array = a
    BY <1>2, <1>3, <1>9
  <2> QED BY <1>2, <1>3, <1>5, <1>6, <1>8, <1>9, <1>10, <1>18, <2>1
          DEF Home, In, Entry
<1>21. ASSUME NEW b \in Channels
       PROVE  /\ crashes = 0 /\ since[<<g, b>>] >= 0
                    /\ since'[<<g, b>>] >= 0 =>
                 /\ since[<<g, b>>] <= since'[<<g, b>>]
                 /\ \A x \in Entries : Home(g, b, i, x) => Home(g, b, i, x)'
              /\ crashes = 0 /\ ~(since[<<g, b>>] >= 0)
                    /\ since'[<<g, b>>] >= 0 =>
                 \E x \in Entries : Home(g, b, i, x)'
  <2>1. CASE b = d
    <3>1. ASSUME crashes = 0, since[<<g, d>>] >= 0
          PROVE  since[<<g, d>>] <= t
      <4>1. PICK k \in Slots, x \in Entries : Home(g, d, k, x)
        BY <1>1, <3>1 DEF Rolls
      <4>2. k = i
        BY <1>3, <4>1 DEF Home
      <4> QED BY <1>19, <3>1, <4>1, <4>2
    <3>2. since'[<<g, b>>] = t
      BY <1>8, <2>1
    <3> QED BY <1>19, <1>20, <2>1, <3>1, <3>2
  <2>2. CASE b # d
    <3>1. since'[<<g, b>>] = since[<<g, b>>] /\ since[<<g, b>>] \in Int
      BY <1>1, <1>8, <2>2, SinceOf
    <3>2. ASSUME NEW x \in Entries, Home(g, b, i, x)
          PROVE  Home(g, b, i, x)'
      <4>1. x # j
        BY <1>2, <1>3, <1>5, <2>2, <3>2 DEF Home, Entry
      <4>2. slot'[i] = slot[i] /\ slot[i].array = a
        BY <1>2, <1>3, <1>9
      <4>3. mem'[a][x] = mem[a][x]
        BY <1>9, <4>1
      <4> QED BY <1>18, <3>1, <3>2, <4>2, <4>3 DEF Home, In, Entry
    <3> QED BY <3>1, <3>2
  <2> QED BY <2>1, <2>2
<1>22. LET old == mem[S(p).array][j]
           fresh == mem'[S(p).array][j]
       IN  (fresh.active => old.active) /\ fresh.first = old.first
  BY <1>2, <1>5, <1>6, <1>9 DEF In
<1>23. g = S(p).name /\ Types' /\ Tells
  BY <1>2, <1>7, <1>9
<1> QED BY <1>2, <1>11, <1>15, <1>16, <1>17, <1>21, <1>22, <1>23, EntryStep

\* A store of the next field of an entry.
Filled(e, new, k) ==
    [e EXCEPT ![EntryFields[k + 1]] = new[EntryFields[k + 1]]]

LEMMA EntryFieldSet ==
    ASSUME NEW e \in EntryType, NEW new \in EntryType, NEW k \in 0 .. 3
    PROVE  /\ Filled(e, new, k) \in EntryType
           /\ Filled(e, new, k).first = IF k = 0 THEN new.first ELSE e.first
           /\ Filled(e, new, k).second =
                    IF k = 1 THEN new.second ELSE e.second
           /\ Filled(e, new, k).time = IF k = 2 THEN new.time ELSE e.time
           /\ Filled(e, new, k).active =
                    IF k = 3 THEN new.active ELSE e.active
<1>1. CASE k = 0
  <2>1. EntryFields[k + 1] = "first"
    BY <1>1 DEF EntryFields
  <2> QED BY <1>1, <2>1 DEF EntryType, Filled
<1>2. CASE k = 1
  <2>1. EntryFields[k + 1] = "second"
    BY <1>2 DEF EntryFields
  <2> QED BY <1>2, <2>1 DEF EntryType, Filled
<1>3. CASE k = 2
  <2>1. EntryFields[k + 1] = "time"
    BY <1>3 DEF EntryFields
  <2> QED BY <1>3, <2>1 DEF EntryType, Filled
<1>4. CASE k = 3
  <2>1. EntryFields[k + 1] = "active"
    BY <1>4 DEF EntryFields
  <2> QED BY <1>4, <2>1 DEF EntryType, Filled
<1> QED BY <1>1, <1>2, <1>3, <1>4

FillEffect(p, a, d, j, k) ==
    /\ pc[p] = "a_entry" /\ Others(p)
    /\ pc'[p] = IF k < 3 THEN "a_entry" ELSE "e_odd"
    /\ loc'[p].k = IF k < 3 THEN k + 1 ELSE 0
    /\ loc'[p].i = loc[p].i /\ loc'[p].now = loc[p].now
    /\ loc'[p].group = loc[p].group /\ loc'[p].chan = loc[p].chan
    /\ loc'[p].slot = loc[p].slot
    /\ mem'[a][j].first = IF k = 0 THEN d ELSE mem[a][j].first
    /\ mem'[a][j].second = IF k = 1 THEN d ELSE mem[a][j].second
    /\ mem'[a][j].time = IF k = 2 THEN loc[p].now ELSE mem[a][j].time
    /\ mem'[a][j].active = IF k = 3 THEN TRUE ELSE mem[a][j].active
    /\ \A b \in Arrays, x \in Entries :
          b # a \/ x # j => mem'[b][x] = mem[b][x]
    /\ UNCHANGED <<slot, free, flock, now, calls, since, must, may,
                   changing, calm, crashes>>
    /\ Types'

LEMMA FillShape ==
    ASSUME Types, NEW p \in Procs, Fill(p), NEW a \in Arrays,
           a = loc[p].slot.array, NEW d \in Channels, d = loc[p].chan,
           NEW j \in Entries, j = Blank(p), NEW k \in 0 .. 3, k = loc[p].k
    PROVE  FillEffect(p, a, d, j, k)
<1> DEFINE new == [first |-> d, second |-> d, time |-> loc[p].now,
                   active |-> TRUE]
<1>1. /\ loc[p] \in LocType /\ loc[p].now \in 0 .. MaxTime
      /\ mem[a][j] \in EntryType
      /\ mem \in [Arrays -> [Entries -> EntryType]]
  BY LocOf, EntryOf DEF Types
<1>2. /\ new \in EntryType /\ new.first = d /\ new.second = d
      /\ new.time = loc[p].now /\ new.active = TRUE
  BY <1>1 DEF EntryType
<1>3. PICK e : e = Filled(mem[a][j], new, k)
  OBVIOUS
<1>4. mem' = [mem EXCEPT ![a][j] = e]
  BY <1>1, <1>3 DEF Fill, Filled, Blank
<1> HIDE DEF new
<1>5. /\ e \in EntryType
      /\ e.first = IF k = 0 THEN d ELSE mem[a][j].first
      /\ e.second = IF k = 1 THEN d ELSE mem[a][j].second
      /\ e.time = IF k = 2 THEN loc[p].now ELSE mem[a][j].time
      /\ e.active = IF k = 3 THEN TRUE ELSE mem[a][j].active
  <2>1. PICK old : old = mem[a][j]
    OBVIOUS
  <2>2. /\ e = Filled(old, new, k) /\ old \in EntryType
        /\ new \in EntryType
    BY <1>1, <1>2, <1>3, <2>1
  <2>3. /\ e \in EntryType
        /\ e.first = IF k = 0 THEN new.first ELSE old.first
        /\ e.second = IF k = 1 THEN new.second ELSE old.second
        /\ e.time = IF k = 2 THEN new.time ELSE old.time
        /\ e.active = IF k = 3 THEN new.active ELSE old.active
    BY <2>2, EntryFieldSet
  <2> QED BY <1>2, <2>1, <2>3
<1>6. /\ mem'[a][j] = e /\ mem' \in [Arrays -> [Entries -> EntryType]]
      /\ \A b \in Arrays, x \in Entries :
            b # a \/ x # j => mem'[b][x] = mem[b][x]
  BY <1>1, <1>4, <1>5
<1>7. PICK n \in 0 .. 4 : n = IF k < 3 THEN k + 1 ELSE 0
  OBVIOUS
<1>8. loc' = [loc EXCEPT ![p] = [loc[p] EXCEPT !.k = n]]
  <2>1. (loc[p].k + 1) % 4 = n
    BY <1>7
  <2>2. Len(EntryFields) = 4
    BY DEF EntryFields
  <2> QED BY <2>1, <2>2 DEF Fill
<1>9. PICK l \in LocType :
         /\ l = [loc[p] EXCEPT !.k = n]
         /\ l.k = n /\ l.i = loc[p].i /\ l.now = loc[p].now
         /\ l.group = loc[p].group /\ l.chan = loc[p].chan
         /\ l.slot = loc[p].slot
  <2>1. [loc[p] EXCEPT !.k = n] \in LocType
    BY <1>1, LocSet
  <2> QED BY <1>1, <2>1 DEF LocType
<1>10. /\ loc'[p] = l /\ loc' \in [Procs -> LocType]
       /\ \A q \in Procs \ {p} : loc'[q] = loc[q]
  BY <1>8, <1>9, Moved
<1>11. Step(p, "a_entry", IF n = 0 THEN "e_odd" ELSE "a_entry")
  BY <1>9, <1>10 DEF Fill
<1>12. /\ pc[p] = "a_entry" /\ pc' \in [Procs -> Labels]
       /\ pc'[p] = IF n = 0 THEN "e_odd" ELSE "a_entry"
       /\ \A q \in Procs \ {p} : pc'[q] = pc[q]
  <2>1. (IF n = 0 THEN "e_odd" ELSE "a_entry") \in Labels
    BY DEF Labels, Working, Adding, Joining, Counted
  <2> QED BY <1>11, <2>1, Stepped
<1>13. UNCHANGED <<slot, free, flock, now, calls, since, must, may, changing,
                   calm, crashes>>
  BY DEF Fill, count, truth, ghost
<1>14. Types'
  BY <1>6, <1>10, <1>12, <1>13 DEF Types, Truths
<1>15. pc'[p] = IF k < 3 THEN "a_entry" ELSE "e_odd"
  BY <1>7, <1>12
<1> QED BY <1>5, <1>6, <1>7, <1>9, <1>10, <1>12, <1>13, <1>14, <1>15
        DEF Others, FillEffect

\* The channel's name, its time and the mark go into the first free entry.
LEMMA FillStep ==
    ASSUME IInv, NEW p \in Procs, Fill(p)
    PROVE  IInv'
<1>1. /\ pc[p] = "a_entry" /\ Types /\ Desk /\ Work(p) /\ Rolls
      /\ Stale(p) = {} /\ Mine(p) = {} /\ Active(p) # Entries
      /\ loc[p].now \in 0 .. MaxTime
  BY LocOf DEF Fill, IInv
<1>2. PICK i \in Slots, a \in Arrays, g \in GroupNames, d \in Channels,
           t \in 0 .. MaxTime :
          /\ i = loc[p].i /\ a = S(p).array /\ a = loc[p].slot.array
          /\ g = S(p).name /\ g = loc[p].group /\ d = loc[p].chan
          /\ t = loc[p].now
  BY <1>1, AtEntry
<1>3. /\ Listed(i) /\ Covered(i) /\ slot[i] = S(p) /\ Held(i)
      /\ slot[i].array = a /\ slot[i].name = g
      /\ \A L : HolderAt(i, L) <=> pc[p] \in L
      /\ \A k \in Slots : Held(k) /\ slot[k].active /\ slot[k].name = g
            => k = i
  BY <1>1, <1>2, AtEntry DEF S
<1>4. /\ \A x \in Entries : A(p)[x] = mem[a][x]
      /\ Active(p) = In(a)
      /\ \A x \in In(a) : x \in Entries /\ mem[a][x].first \in Channels
                            /\ mem[a][x].second = mem[a][x].first
      /\ \A x \in In(a) : mem[a][x].first # d
      /\ \A x, y \in In(a) : x # y => mem[a][x].first # mem[a][y].first
      /\ S(p).active => \A x \in In(a) : since[<<g, mem[a][x].first>>] # Out
  <2>1. OwnEntries(p, a)
    BY <1>1, <1>2, EntryWords
  <2>2. \A x \in In(a) : mem[a][x].second = mem[a][x].first
    BY <1>3 DEF Listed, Entry
  <2> QED BY <1>1, <1>2, <2>1, <2>2 DEF OwnEntries
<1>5. PICK j \in Entries : j = Blank(p) /\ j \notin In(a)
  <2>1. Entries \ Active(p) \in SUBSET Entries /\ Entries \ Active(p) # {}
    BY <1>1 DEF Active
  <2>2. First(Entries \ Active(p)) \in Entries \ Active(p)
    BY <2>1, FirstEntry
  <2> QED BY <1>4, <2>2 DEF Blank
<1>6. /\ S(p).active /\ t <= now /\ t \in Int /\ AtSlot(p)
      /\ \A b \in Arrays, x \in Entries : mem[b][x].time <= t
      /\ since[<<g, d>>] # Out
      /\ loc[p].k > 0 => mem[a][j].first = d
      /\ loc[p].k > 1 => mem[a][j].second = d
      /\ loc[p].k > 2 => mem[a][j].time = t
  <2>1. /\ "a_entry" \in Joining /\ "a_entry" \in {"a_entry"} \cup Counted
        /\ "a_entry" \in Adding
    BY DEF Joining, Adding
  <2>2. Joins(p)
    BY <1>1 DEF Work
  <2>3. /\ loc[p].k > 0 => A(p)[Blank(p)].first = loc[p].chan
        /\ loc[p].k > 1 => A(p)[Blank(p)].second = loc[p].chan
        /\ loc[p].k > 2 => A(p)[Blank(p)].time = loc[p].now
    <3>1. loc[p].k \in 0 .. 4
      BY <1>1, LocOf
    <3> QED BY <1>1, <2>2, <3>1 DEF Joins
  <2>4. /\ S(p).active /\ AtSlot(p) /\ loc[p].now <= now
        /\ \A b \in Arrays, x \in Entries : mem[b][x].time <= loc[p].now
        /\ since[<<loc[p].group, loc[p].chan>>] # Out
    BY <1>1, <2>1, <2>2 DEF Joins
  <2>5. /\ A(p)[j] = mem[a][j] /\ t \in Int
    BY <1>4
  <2> QED BY <1>2, <1>5, <2>3, <2>4, <2>5
<1>7. PICK k \in 0 .. 3 : k = loc[p].k
  <2>1. loc[p].k \in 0 .. 4 /\ loc[p].k < 4
    BY <1>1, LocOf DEF Desk, Local
  <2> QED BY <2>1
<1>8. /\ Others(p) /\ pc'[p] = IF k < 3 THEN "a_entry" ELSE "e_odd"
      /\ loc'[p].k = IF k < 3 THEN k + 1 ELSE 0
      /\ loc'[p].i = i /\ loc'[p].now = t /\ loc'[p].group = g
      /\ loc'[p].chan = d /\ loc'[p].slot = loc[p].slot
      /\ mem'[a][j].first = d
      /\ mem'[a][j].second = IF k = 1 THEN d ELSE mem[a][j].second
      /\ mem'[a][j].time = IF k = 2 THEN t ELSE mem[a][j].time
      /\ mem'[a][j].active = IF k = 3 THEN TRUE ELSE mem[a][j].active
      /\ \A b \in Arrays, x \in Entries :
            b # a \/ x # j => mem'[b][x] = mem[b][x]
      /\ UNCHANGED <<slot, free, flock, now, calls, since, must, may,
                     changing, calm, crashes>>
      /\ Types'
  <2>3. /\ Types /\ a = loc[p].slot.array /\ d = loc[p].chan
        /\ j = Blank(p) /\ k = loc[p].k
        /\ a \in Arrays /\ d \in Channels /\ j \in Entries /\ k \in 0 .. 3
    BY <1>1, <1>2, <1>5, <1>7
  <2>4. /\ Others(p) /\ pc'[p] = IF k < 3 THEN "a_entry" ELSE "e_odd"
        /\ loc'[p].k = IF k < 3 THEN k + 1 ELSE 0
        /\ loc'[p].i = loc[p].i /\ loc'[p].now = loc[p].now
        /\ loc'[p].group = loc[p].group /\ loc'[p].chan = loc[p].chan
        /\ loc'[p].slot = loc[p].slot
        /\ mem'[a][j].first = IF k = 0 THEN d ELSE mem[a][j].first
        /\ mem'[a][j].second = IF k = 1 THEN d ELSE mem[a][j].second
        /\ mem'[a][j].time = IF k = 2 THEN loc[p].now ELSE mem[a][j].time
        /\ mem'[a][j].active = IF k = 3 THEN TRUE ELSE mem[a][j].active
        /\ \A b \in Arrays, x \in Entries :
              b # a \/ x # j => mem'[b][x] = mem[b][x]
        /\ UNCHANGED <<slot, free, flock, now, calls, since, must, may,
                       changing, calm, crashes>>
        /\ Types'
    <3>1. FillEffect(p, a, d, j, k)
      BY <2>3, FillShape
    <3> QED BY <3>1 DEF FillEffect
  <2>5. mem'[a][j].first = d
    <3>1. k = 0 \/ loc[p].k > 0
      BY <2>3
    <3> QED BY <1>6, <2>4, <3>1
  <2> QED BY <1>2, <2>4, <2>5
<1>9. Tells
  <2>1. UNCHANGED <<since, must, may>>
    BY <1>8
  <2> QED BY <1>1, <2>1, TellsSame
<1>10. Enters(p, j)
  <2>1. mem'[a][j].time <= now
    <3>1. mem[a][j].time <= now
      BY <1>1 DEF Rolls
    <3> QED BY <1>6, <1>8, <3>1
  <2>2. UNCHANGED <<slot, free, flock, now, calls, changing, calm, crashes>>
        /\ since' = since /\ Others(p)
    BY <1>8
  <2>3. /\ pc'[p] \in {"a_entry", "e_odd"} /\ loc'[p].i = loc[p].i
        /\ \A b \in Arrays, x \in Entries :
              b # a \/ x # j => mem'[b][x] = mem[b][x]
    BY <1>2, <1>8
  <2> QED BY <1>1, <1>2, <2>1, <2>2, <2>3 DEF Enters
<1>11. PICK X : X = {x \in Entries : mem'[a][x].active}
  OBVIOUS
<1>12. /\ k < 3 => X = In(a)
       /\ k = 3 => X = In(a) \cup {j}
       /\ \A x \in In(a) : mem'[a][x] = mem[a][x]
  <2>1. \A x \in Entries : x # j => mem'[a][x] = mem[a][x]
    BY <1>8
  <2>2. mem'[a][j].active <=> k = 3
    <3>1. mem[a][j].active = FALSE
      BY <1>1, <1>5, EntryOf DEF In
    <3> QED BY <1>8, <3>1
  <2>3. \A x \in In(a) : mem'[a][x] = mem[a][x]
    BY <1>4, <1>5, <2>1
  <2>4. \A x \in X : x \in In(a) \/ (x = j /\ k = 3)
    BY <1>11, <2>1, <2>2 DEF In
  <2>5. \A x \in In(a) : x \in X
    BY <1>4, <1>11, <2>3 DEF In
  <2>6. k = 3 => j \in X
    BY <1>11, <2>2
  <2> QED BY <2>3, <2>4, <2>5, <2>6
<1>13. /\ \A x \in X : /\ mem'[a][x].first \in Channels
                       /\ mem'[a][x].second = mem'[a][x].first
                       /\ since'[<<g, mem'[a][x].first>>] # Out
       /\ \A x, y \in X : x # y => mem'[a][x].first # mem'[a][y].first
       /\ \A x \in X : x \in In(a) \/ (x = j /\ k = 3)
  <2>1. \A x \in X : x \in In(a) \/ (x = j /\ k = 3)
    BY <1>7, <1>12
  <2>2. /\ mem'[a][j].first = d
        /\ k = 3 => mem'[a][j].second = d
    BY <1>6, <1>7, <1>8
  <2>3. \A x \in In(a) : /\ mem'[a][x].first = mem[a][x].first
                         /\ mem'[a][x].second = mem[a][x].second
    BY <1>12
  <2>4. since' = since
    BY <1>8
  <2>5. \A x \in In(a) : since[<<g, mem[a][x].first>>] # Out
    BY <1>4, <1>6
  <2>6. \A x \in X : /\ mem'[a][x].first \in Channels
                     /\ mem'[a][x].second = mem'[a][x].first
    BY <1>4, <2>1, <2>2, <2>3
  <2>7. \A x \in X : since'[<<g, mem'[a][x].first>>] # Out
    BY <1>6, <2>1, <2>2, <2>3, <2>4, <2>5
  <2>8. \A x, y \in X : x # y => mem'[a][x].first # mem'[a][y].first
    BY <1>4, <2>1, <2>2, <2>3
  <2> QED BY <2>1, <2>6, <2>7, <2>8
<1>14. Cardinality(X) + One(pc'[p] = "d_odd")
            <= S(p).count + crashes + One(pc'[p] = "e_odd")
  <2>1. /\ IsFiniteSet(In(a)) /\ Cardinality(In(a)) \in Nat
        /\ S(p).count \in Nat /\ crashes \in Nat
    BY <1>1, <1>2, <1>3, InFinite, SlotOf DEF Types
  <2>2. Cardinality(X) = Cardinality(In(a)) + (IF k < 3 THEN 0 ELSE 1)
    <3>1. CASE k < 3
      BY <1>12, <2>1, <3>1
    <3>2. CASE k = 3
      <4>1. Cardinality(In(a) \cup {j}) = Cardinality(In(a)) + 1
        <5>1. PICK Y : Y = In(a)
          OBVIOUS
        <5>2. IsFiniteSet(Y) /\ j \notin Y
          BY <1>5, <2>1, <5>1
        <5>3. Cardinality(Y \cup {j}) = Cardinality(Y) + 1
          BY <5>2, FS_AddElement
        <5> QED BY <5>1, <5>3
      <4>2. X = In(a) \cup {j}
        BY <1>12, <3>2
      <4>3. Cardinality(X) = Cardinality(In(a)) + 1
        BY <4>1, <4>2
      <4> QED BY <3>2, <4>3
    <3> QED BY <1>7, <3>1, <3>2
  <2>3. Cardinality(In(a)) <= S(p).count + crashes
    <3>1. /\ ~HolderAt(i, {"d_odd", "d_count"})
          /\ ~HolderAt(i, {"e_odd", "e_count"})
      BY <1>1, <1>3
    <3>2. slot[i].count = S(p).count
      BY <1>3
    <3>3. Cardinality(In(a)) + 0 <= S(p).count + crashes + 0
      BY <1>3, <3>1, <3>2 DEF Covered, One
    <3> QED BY <2>1, <3>3
  <2>4. CASE k < 3
    <3>1. pc'[p] = "a_entry"
      BY <1>8, <2>4
    <3> QED BY <2>1, <2>2, <2>3, <2>4, <3>1 DEF One
  <2>5. CASE k = 3
    <3>1. pc'[p] = "e_odd"
      BY <1>8, <2>5
    <3> QED BY <2>1, <2>2, <2>3, <2>5, <3>1 DEF One
  <2> QED BY <1>7, <2>4, <2>5
<1>15. Listed(loc[p].i)' /\ Covered(loc[p].i)'
  <2>1. X = {x \in Entries : mem'[a][x].active} /\ a = S(p).array
        /\ g = S(p).name /\ Types'
    BY <1>2, <1>8, <1>11
  <2>2. /\ \A x \in X : mem'[a][x].first \in Channels
                /\ mem'[a][x].second = mem'[a][x].first
        /\ \A x, y \in X : x # y => mem'[a][x].first # mem'[a][y].first
    BY <1>13
  <2>3. S(p).active => \A x \in X : since'[<<g, mem'[a][x].first>>] # Out
    BY <1>13
  <2> QED BY <1>10, <1>14, <2>1, <2>2, <2>3, OwnListed
<1>16. Local(p)'
  <2>1. /\ k < 3 => loc'[p].k < 4 /\ pc'[p] = "a_entry"
        /\ ~(k < 3) => loc'[p].k = 0 /\ pc'[p] = "e_odd"
    BY <1>8
  <2> QED BY <1>2, <1>8, <2>1
          DEF Local, Adding, Repairing, Writing, Joining, Counted,
              Discarding, Leaving, Getting, Lookups, Listing
<1>17. AtSlot(p)'
  <2>1. pc[p] \notin Bumped /\ pc'[p] \notin Bumped
    BY <1>1, <1>8 DEF Bumped
  <2>2. S(p)' = S(p) /\ Fresh(p)' = Fresh(p)
    BY <1>2, <1>8 DEF S, Fresh
  <2>3. Odd(loc[p].i)' <=> Odd(loc[p].i)
    BY <1>2, <1>8 DEF Odd
  <2>4. loc'[p].group = loc[p].group
    BY <1>2, <1>8
  <2> QED BY <1>6, <2>1, <2>2, <2>3, <2>4 DEF AtSlot
<1>18. k = 3 /\ crashes = 0 => since[<<g, d>>] = Unsure
  <2> SUFFICES ASSUME crashes = 0, since[<<g, d>>] >= 0 PROVE FALSE
    <3>1. since[<<g, d>>] \in Out .. MaxTime /\ MaxTime \in Nat
      BY <1>1, SinceOf, GroupsAssumption
    <3> QED BY <1>6, <3>1 DEF Out, Unsure
  <2>1. PICK m \in Slots, x \in Entries : Home(g, d, m, x)
    BY <1>1 DEF Rolls
  <2>2. m = i
    BY <1>3, <2>1 DEF Home
  <2>3. x \in In(a) /\ mem[a][x].first = d
    BY <1>3, <2>1, <2>2 DEF Home, Entry
  <2> QED BY <1>4, <2>3
<1>19. /\ S(p)'.active /\ S(p)'.array = a /\ t <= now'
       /\ \A b \in Arrays, x \in Entries : mem'[b][x].time <= t
       /\ \A x \in Entries : A(p)'[x] = mem'[a][x]
  <2>1. S(p)' = S(p)
    BY <1>2, <1>8 DEF S
  <2>2. A(p)' = mem'[a]
    BY <1>2, <1>8 DEF A
  <2>3. \A b \in Arrays, x \in Entries : mem'[b][x].time <= t
    <3>1. mem'[a][j].time <= t
      BY <1>6, <1>8
    <3> QED BY <1>6, <1>8, <3>1
  <2> QED BY <1>2, <1>6, <1>8, <2>1, <2>2, <2>3
<1>20. Joins(p)'
  <2>1. CASE k < 3
    <3>1. /\ pc'[p] = "a_entry" /\ "a_entry" \in Joining
          /\ "a_entry" \notin Counted
      BY <1>8, <2>1 DEF Joining, Counted
    <3>2. /\ Active(p)' = Active(p) /\ In(a)' = In(a)
      <4>1. \A x \in Entries : mem'[a][x].active <=> mem[a][x].active
        <5>1. mem'[a][j].active = mem[a][j].active
          <6>1. k # 3
            BY <1>7, <2>1
          <6> QED BY <1>8, <6>1
        <5>2. \A x \in Entries : x # j => mem'[a][x] = mem[a][x]
          BY <1>8
        <5> QED BY <5>1, <5>2
      <4>2. Active(p)' = {x \in Entries : mem'[a][x].active}
        BY <1>19 DEF Active
      <4>3. Active(p)' = Active(p)
        BY <1>4, <4>1, <4>2 DEF In
      <4> QED BY <4>1, <4>3 DEF In
    <3>3. \A x \in In(a) : A(p)'[x] = A(p)[x]
      BY <1>4, <1>12, <1>19
    <3>4. Mine(p)' = {}
      <4>1. Mine(p)' = {x \in Active(p)' : Whole(A(p)'[x], loc'[p].chan)}
        BY DEF Mine, Whole
      <4>2. Mine(p) = {x \in Active(p) : Whole(A(p)[x], d)}
        BY <1>2 DEF Mine
      <4> QED BY <1>1, <1>4, <1>8, <3>2, <3>3, <4>1, <4>2
    <3>5. Stale(p)' = {}
      <4>1. Stale(p) = {x \in In(a) : A(p)[x].time + Expiry < t}
        BY <1>1, <1>2, <1>4 DEF Stale
      <4>2. Stale(p)' = {x \in In(a) : A(p)'[x].time + Expiry < t}
        BY <1>4, <1>8, <3>2, <3>4 DEF Stale
      <4> QED BY <1>1, <3>3, <4>1, <4>2
    <3>6. Active(p)' # Entries /\ Blank(p)' = j
      BY <1>1, <1>5, <3>2 DEF Blank
    <3>7. loc'[p].k = k + 1 /\ k \in {0, 1, 2}
      BY <1>8, <2>1
    <3>8. /\ A(p)'[j].first = d
          /\ k > 0 => A(p)'[j].second = d
          /\ k > 1 => A(p)'[j].time = t
      BY <1>6, <1>7, <1>8, <1>19, <3>7
    <3>9. /\ A(p)'[Blank(p)'].first = loc'[p].chan
          /\ loc'[p].k > 1 => A(p)'[Blank(p)'].second = loc'[p].chan
          /\ loc'[p].k > 2 => A(p)'[Blank(p)'].time = loc'[p].now
      BY <1>8, <3>6, <3>7, <3>8
    <3>10. since'[<<loc'[p].group, loc'[p].chan>>] # Out
      BY <1>6, <1>8
    <3>11. /\ loc'[p].now <= now'
           /\ \A b \in Arrays, x \in Entries : mem'[b][x].time <= loc'[p].now
      BY <1>8, <1>19
    <3> QED BY <1>17, <1>19, <3>1, <3>4, <3>5, <3>6, <3>9, <3>10, <3>11
            DEF Joins
  <2>2. CASE k = 3
    <3>1. /\ pc'[p] = "e_odd" /\ "e_odd" \in Joining /\ "e_odd" \in Counted
      BY <1>8, <2>2 DEF Joining, Counted
    <3>2. /\ A(p)'[j].first = d /\ A(p)'[j].time = t
          /\ j \in In(a)'
      <4>1. mem'[a][j].first = d /\ mem'[a][j].active = TRUE
        BY <1>8, <2>2
      <4>2. mem'[a][j].time = t
        BY <1>6, <1>7, <1>8, <2>2
      <4>3. j \in In(a)'
        BY <4>1 DEF In
      <4> QED BY <1>19, <4>1, <4>2, <4>3
    <3>3. \E x \in In(a)' :
              A(p)'[x].first = loc'[p].chan /\ A(p)'[x].time = loc'[p].now
      BY <1>8, <3>2
    <3>4. since'[<<loc'[p].group, loc'[p].chan>>] # Out
      BY <1>6, <1>8
    <3>5. /\ loc'[p].now <= now'
          /\ \A b \in Arrays, x \in Entries : mem'[b][x].time <= loc'[p].now
      BY <1>8, <1>19
    <3>6. crashes' = 0 => since'[<<loc'[p].group, loc'[p].chan>>] = Unsure
      BY <1>8, <1>18, <2>2
    <3> QED BY <1>17, <1>19, <3>1, <3>3, <3>4, <3>5, <3>6 DEF Joins
  <2> QED BY <1>7, <2>1, <2>2
<1>21. Work(p)'
  <2>1. pc'[p] \in {"a_entry", "e_odd"}
    BY <1>8
  <2> QED BY <1>20, <2>1 DEF Work, Repairs, Creates, Leaves, Flushes,
             Repairing, Writing, Discarding, Leaving, Flushing
<1>22. Held(i)'
  <2>1. \A m \in Slots : Held(m)' <=> Held(m)
    BY <1>10, EntersHeld
  <2> QED BY <1>3, <2>1
<1>23. ASSUME NEW b \in Channels
       PROVE  /\ crashes = 0 /\ since[<<g, b>>] >= 0
                    /\ since'[<<g, b>>] >= 0 =>
                 /\ since[<<g, b>>] <= since'[<<g, b>>]
                 /\ \A x \in Entries : Home(g, b, i, x) => Home(g, b, i, x)'
              /\ crashes = 0 /\ ~(since[<<g, b>>] >= 0)
                    /\ since'[<<g, b>>] >= 0 =>
                 \E x \in Entries : Home(g, b, i, x)'
  <2>1. since' = since /\ since[<<g, b>>] \in Int
    BY <1>1, <1>8, SinceOf
  <2>2. ASSUME NEW x \in Entries, Home(g, b, i, x)
        PROVE  Home(g, b, i, x)'
    <3>1. x \in In(a)
      BY <1>3, <2>2 DEF Home
    <3>2. slot'[i] = slot[i] /\ mem'[a][x] = mem[a][x]
      BY <1>8, <1>12, <3>1
    <3> QED BY <1>3, <1>22, <2>1, <2>2, <3>1, <3>2 DEF Home, In, Entry
  <2> QED BY <2>1, <2>2
<1>24. /\ mem'[S(p).array][j].first \in Channels
       /\ since'[<<S(p).name, mem'[S(p).array][j].first>>] # Out
  BY <1>2, <1>6, <1>8
<1>25. i = loc[p].i /\ g = S(p).name /\ Types'
  BY <1>2, <1>8
<1> QED BY <1>9, <1>10, <1>15, <1>16, <1>21, <1>23, <1>24, <1>25, EntryStep

-----------------------------------------------------------------------------
(* A slot changes hands.                                                    *)

Handing == {"r_odd", "r", "r_even", "w_odd", "w", "w_even", "f", "f_even"}
Handed == {"r", "r_even", "a_scan", "w", "w_even", "a_now", "f", "f_even",
           "f_next"}

LEMMA HandLabels ==
    /\ \A x \in Handing \cup Handed :
          /\ x \in Working /\ x \notin Getting /\ x \notin Bumped
          /\ x \notin {"e_odd", "e_count"} /\ x \notin {"d_odd", "d_count"}
          /\ x \in Adding <=> x \in Unbumped
          /\ x # "e_even" /\ x \in Labels
    /\ \A x \in Handing : x \in Adding \/ x \in {"f", "f_even"}
BY DEF Handing, Handed, Working, Adding, Repairing, Writing, Joining, Counted,
       Discarding, Leaving, Flushing, Getting, Lookups, Listing, Bumped,
       Unbumped, Labels

\* The holder stores to slot y.
Hands(p, y) ==
    /\ Others(p) /\ y = loc[p].i /\ y = loc'[p].i
    /\ pc[p] \in Handing /\ pc'[p] \in Handed
    /\ pc'[p] \in Adding <=> pc[p] \in Adding
    /\ changing' <=> pc'[p] \in Changing
    /\ \A q \in Procs : ~calm'[q]
    /\ \A i \in Slots : i # y => slot'[i] = slot[i]
    /\ UNCHANGED <<mem, free, flock, now, calls, since, must, may, crashes>>
    /\ \/ slot'[y].ver = slot[y].ver \/ slot'[y].ver = 0
       \/ pc[p] \in Adding /\ slot'[y].ver <= 2
    /\ slot'[y].count <= slot[y].count
    /\ \/ slot'[y].array \in {slot[y].array, None}
       \/ /\ slot'[y].array \in Arrays \ free
          /\ \A k \in Slots : k # y => slot[k].array # slot'[y].array
    /\ crashes = 0 /\ Odd(y)' => pc'[p] \in {"w", "w_even"}

LEMMA HandHolder ==
    ASSUME IInv, NEW p \in Procs, NEW y \in Slots, Hands(p, y)
    PROVE  /\ flock = p /\ flock' = p
           /\ \A i, L : HolderAt(i, L) <=> pc[p] \in L /\ y = i
           /\ \A i, L : HolderAt(i, L)' <=> pc'[p] \in L /\ y = i
           /\ \A i \in Slots : i # y => (Held(i)' <=> Held(i))
           /\ Held(y)' <=> slot'[y].len # 0 /\ ~Odd(y)'
<1>1. pc[p] \in Working /\ flock = p /\ flock' = p
  BY HandLabels DEF Hands, IInv, Desk
<1>2. \A i, L : HolderAt(i, L) <=> pc[p] \in L /\ y = i
  BY <1>1, Holder DEF Hands
<1>3. \A i, L : HolderAt(i, L)' <=> pc'[p] \in L /\ y = i
  BY <1>1, HolderNext DEF Hands
<1>4. pc[p] \notin Bumped /\ pc'[p] \notin Bumped
  BY HandLabels DEF Hands
<1>5. \A i \in Slots : ~HolderAt(i, Bumped) /\ ~HolderAt(i, Bumped)'
  BY <1>2, <1>3, <1>4
<1>6. ASSUME NEW i \in Slots, i # y PROVE Held(i)' <=> Held(i)
  <2>1. slot'[i] = slot[i]
    BY <1>6 DEF Hands
  <2> QED BY <1>5, <2>1 DEF Held, Odd
<1>7. Held(y)' <=> slot'[y].len # 0 /\ ~Odd(y)'
  BY <1>5 DEF Held
<1> QED BY <1>1, <1>2, <1>3, <1>6, <1>7

LEMMA HandOthers ==
    ASSUME IInv, Types', NEW p \in Procs, NEW y \in Slots, Hands(p, y),
           NEW i \in Slots, i # y, Held(i)
    PROVE  Listed(i)' /\ Covered(i)'
<1>1. slot'[i] = slot[i] /\ Listed(i) /\ Covered(i) /\ Types
  BY DEF Hands, IInv, Rolls
<1>2. /\ In(slot[i].array)' = In(slot[i].array)
      /\ \A k \in Entries : Entry(i, k)' = Entry(i, k)
  BY <1>1 DEF In, Entry, Hands
<1>3. Listed(i)'
  <2>1. \A k \in In(slot[i].array) : k \in Entries
    BY DEF In
  <2>2. since' = since
    BY DEF Hands
  <2> QED BY <1>1, <1>2, <2>1, <2>2 DEF Listed
<1>4. Covered(i)'
  <2>1. /\ ~HolderAt(i, {"e_odd", "e_count"})
        /\ ~HolderAt(i, {"d_odd", "d_count"})'
    BY HandHolder
  <2>2. crashes <= crashes'
    BY <1>1 DEF Hands, Types
  <2>3. Excess(i) <= Excess(i)'
    BY <1>1, <2>1, <2>2, ExcessKept
  <2> QED BY <1>1, <1>2, <2>3, CoveredNext
<1> QED BY <1>3, <1>4

LEMMA HandBudget ==
    ASSUME IInv, Types', NEW p \in Procs, NEW y \in Slots, Hands(p, y)
    PROVE  \A i \in Slots : Budget(i)'
<1>1. /\ Types /\ flock = p /\ flock' = p /\ flock # None
      /\ calls' = calls /\ \A i \in Slots : Budget(i)
  <2>1. flock = p /\ flock' = p
    BY HandHolder
  <2> QED BY <2>1, GroupsAssumption DEF IInv, Hands
<1>2. /\ Due = IF pc[p] \in Adding THEN 2 ELSE 0
      /\ Due' = IF pc[p] \in Adding THEN 2 ELSE 0
  BY <1>1, HandLabels, DueOf, DueNext DEF Hands
<1>3. ASSUME NEW i \in Slots
      PROVE  /\ \/ slot'[i].ver + Due' <= slot[i].ver + Due
                \/ slot'[i].ver + Due' <= 2
                \/ Due > 0 /\ slot'[i].ver + Due' <= 4
             /\ slot'[i].count <= slot[i].count
  <2>1. slot[i].ver \in Nat /\ slot[i].count \in Nat
    BY <1>1, SlotOf
  <2>2. slot'[i].ver \in Nat /\ slot'[i].count \in Nat
    BY DEF Types, SlotType
  <2>3. CASE i = y
    <3>1. slot'[i].count <= slot[i].count
      BY <2>3 DEF Hands
    <3>2. \/ slot'[i].ver = slot[i].ver \/ slot'[i].ver = 0
          \/ pc[p] \in Adding /\ slot'[i].ver <= 2
      BY <2>3 DEF Hands
    <3> QED BY <1>2, <2>1, <2>2, <3>1, <3>2
  <2>4. CASE i # y
    <3>1. slot'[i] = slot[i]
      BY <2>4 DEF Hands
    <3> QED BY <1>2, <2>1, <3>1
  <2> QED BY <2>3, <2>4
<1>4. pc'[p] \in Adding \ {"e_even"} => pc[p] \in Adding \ {"e_even"}
  BY HandLabels DEF Hands
<1>5. Due \in {0, 1, 2} /\ Due' \in {0, 1, 2} /\ (Due' > 0 => Due > 0)
  BY <1>2
<1> QED BY <1>1, <1>3, <1>4, <1>5, BudgetKept

LEMMA HandIndex ==
    ASSUME IInv, Types', NEW p \in Procs, NEW y \in Slots, Hands(p, y),
           Held(y)' =>
              /\ slot'[y].name \in GroupNames /\ slot'[y].array \in Arrays
              /\ \A k \in Slots :
                    k # y /\ Held(k) /\ slot[k].name = slot'[y].name =>
                       ~slot[k].active /\ (slot'[y].active => y < k)
    PROVE  Index'
<1>1. Types /\ Index /\ None \notin Arrays
  BY GroupsAssumption DEF IInv
<1>2. /\ \A i, L : HolderAt(i, L) <=> pc[p] \in L /\ y = i
      /\ \A i, L : HolderAt(i, L)' <=> pc'[p] \in L /\ y = i
      /\ \A i \in Slots : i # y => (Held(i)' <=> Held(i))
  BY HandHolder
<1>3. /\ \A i \in Slots : i # y => slot'[i] = slot[i]
      /\ free' = free /\ crashes' = crashes
      /\ \/ slot'[y].array \in {slot[y].array, None}
         \/ /\ slot'[y].array \in Arrays \ free
            /\ \A k \in Slots : k # y => slot[k].array # slot'[y].array
  BY DEF Hands
<1>4. ASSUME NEW i \in Slots PROVE Pointer(i)'
  <2>1. CASE i = y
    <3>1. slot'[i].array # None => slot'[i].array \notin free
      BY <1>1, <1>3, <2>1 DEF Index, Pointer
    <3>2. Held(i)' => slot'[i].name \in GroupNames /\ slot'[i].array \in Arrays
      BY <2>1
    <3> QED BY <1>3, <3>1, <3>2 DEF Pointer
  <2>2. CASE i # y
    <3>1. slot'[i] = slot[i] /\ (Held(i)' <=> Held(i))
      BY <1>2, <1>3, <2>2
    <3> QED BY <1>1, <1>3, <3>1 DEF Index, Pointer
  <2> QED BY <2>1, <2>2
<1>5. ASSUME NEW i \in Slots, NEW k \in Slots, i # k PROVE Apart(i, k)'
  <2>1. Apart(i, k) /\ Apart(k, i)
    BY <1>1, <1>5 DEF Index
  <2>2. CASE i = y
    <3>1. slot'[k] = slot[k] /\ (Held(k)' <=> Held(k))
      BY <1>2, <1>3, <1>5, <2>2
    <3>2. slot'[i].array # None => slot'[i].array # slot'[k].array
      BY <1>1, <1>3, <1>5, <2>1, <2>2, <3>1 DEF Apart
    <3>3. ~(Held(i)' /\ Held(k)' /\ slot'[k].active
                /\ slot'[i].name = slot'[k].name)
      BY <1>5, <2>2, <3>1
    <3> QED BY <3>2, <3>3 DEF Apart
  <2>3. CASE k = y
    <3>1. slot'[i] = slot[i] /\ (Held(i)' <=> Held(i))
      BY <1>2, <1>3, <1>5, <2>3
    <3>2. slot'[i].array # None => slot'[i].array # slot'[k].array
      BY <1>1, <1>3, <1>5, <2>1, <2>3, <3>1 DEF Apart
    <3>3. Held(i)' /\ Held(k)' /\ slot'[k].active
                /\ slot'[i].name = slot'[k].name => k < i
      BY <1>5, <2>3, <3>1
    <3> QED BY <3>2, <3>3 DEF Apart
  <2>4. CASE i # y /\ k # y
    <3>1. /\ slot'[i] = slot[i] /\ (Held(i)' <=> Held(i))
          /\ slot'[k] = slot[k] /\ (Held(k)' <=> Held(k))
      BY <1>2, <1>3, <2>4
    <3> QED BY <2>1, <3>1 DEF Apart
  <2> QED BY <2>2, <2>3, <2>4
<1>6. ASSUME crashes' = 0, NEW i \in Slots, Odd(i)'
      PROVE  HolderAt(i, Bumped \cup {"w", "w_even"})'
  <2>1. CASE i = y
    <3>1. pc'[p] \in {"w", "w_even"}
      BY <1>3, <1>6, <2>1 DEF Hands
    <3> QED BY <1>2, <2>1, <3>1
  <2>2. CASE i # y
    <3>1. Odd(i)
      BY <1>3, <1>6, <2>2 DEF Odd
    <3> QED BY <1>1, <1>2, <1>3, <1>6, <2>2, <3>1 DEF Index
  <2> QED BY <2>1, <2>2
<1> QED BY <1>4, <1>5, <1>6 DEF Index

LEMMA HandStep ==
    ASSUME IInv, Types', NEW p \in Procs, NEW y \in Slots, Hands(p, y),
           Local(p)', Work(p)',
           Held(y)' =>
              /\ slot'[y].name \in GroupNames /\ slot'[y].array \in Arrays
              /\ \A k \in Slots :
                    k # y /\ Held(k) /\ slot[k].name = slot'[y].name =>
                       ~slot[k].active /\ (slot'[y].active => y < k),
           Held(y)' => Listed(y)' /\ Covered(y)',
           \A g \in GroupNames, c \in Channels, k \in Slots, j \in Entries :
              crashes = 0 /\ since[<<g, c>>] >= 0 /\ Home(g, c, k, j) =>
                 /\ k # y /\ (slot[y].len # 0 => slot'[y].len # 0)
                 /\ slot'[y].name = g => slot[y].name = g
    PROVE  IInv'
<1>1. /\ Types /\ Desk /\ Rolls /\ None \notin Arrays
      /\ crashes \in Nat /\ \A i \in Slots : Budget(i)
  BY GroupsAssumption DEF IInv, Types
<1>2. /\ flock = p /\ flock' = p
      /\ \A i \in Slots : i # y => (Held(i)' <=> Held(i))
  BY HandHolder
<1>3. /\ Others(p) /\ UNCHANGED <<mem, now, since, must, may, crashes>>
      /\ \A i \in Slots : i # y => slot'[i] = slot[i]
      /\ pc[p] \in Working /\ pc'[p] \in Working
      /\ pc[p] \notin Getting /\ pc'[p] \notin Getting
      /\ changing' <=> pc'[p] \in Changing
      /\ \A q \in Procs : ~calm'[q]
  BY HandLabels DEF Hands
<1>4. Desk'
  <2>1. flock' = flock
    BY <1>2
  <2> QED BY <1>1, <1>3, <2>1, DeskKept
<1>5. Tells
  BY <1>3, TellsSame
<1>6. Gentle
  <2>1. \A a \in Arrays, j \in Entries :
            /\ mem'[a][j].active => mem[a][j].active
            /\ mem'[a][j].first = mem[a][j].first
    BY <1>3
  <2> QED BY <1>3, <2>1 DEF Gentle
<1>7. Steady
  <2> SUFFICES ASSUME crashes' = 0, NEW g \in GroupNames, NEW c \in Channels,
                      NEW k \in Slots, NEW j \in Entries,
                      since[<<g, c>>] >= 0, since'[<<g, c>>] >= 0,
                      Home(g, c, k, j)
               PROVE  /\ Home(g, c, k, j)' /\ slot'[k].array = slot[k].array
                      /\ since[<<g, c>>] <= since'[<<g, c>>]
                      /\ \A i \in Slots :
                            /\ slot[i].len # 0 => slot'[i].len # 0
                            /\ i # k /\ slot'[i].name = g => slot[i].name = g
    BY DEF Steady
  <2>1. /\ k # y /\ (slot[y].len # 0 => slot'[y].len # 0)
        /\ slot'[y].name = g => slot[y].name = g
    BY <1>3
  <2>2. since'[<<g, c>>] = since[<<g, c>>] /\ since[<<g, c>>] \in Int
    BY <1>1, <1>3, SinceOf
  <2>3. slot'[k] = slot[k] /\ (Held(k)' <=> Held(k))
    BY <1>2, <1>3, <2>1
  <2>4. Home(g, c, k, j)'
    BY <1>3, <2>2, <2>3 DEF Home, In, Entry
  <2>5. \A i \in Slots :
            /\ slot[i].len # 0 => slot'[i].len # 0
            /\ i # k /\ slot'[i].name = g => slot[i].name = g
    BY <1>3, <2>1
  <2> QED BY <2>2, <2>3, <2>4, <2>5
<1>8. Index'
  BY HandIndex
<1>9. Rolls'
  <2>1. ASSUME NEW i \in Slots, Held(i)' PROVE Listed(i)' /\ Covered(i)'
    <3>1. CASE i = y
      BY <2>1, <3>1
    <3>2. CASE i # y
      BY <1>2, <2>1, <3>2, HandOthers
    <3> QED BY <3>1, <3>2
  <2>2. \A a \in Arrays, j \in Entries : mem'[a][j].time <= now'
    BY <1>1, <1>3 DEF Rolls
  <2>3. crashes <= crashes' /\ crashes' \in Nat
    BY <1>1, <1>3
  <2>4. \A g \in GroupNames, c \in Channels :
            since'[<<g, c>>] = since[<<g, c>>]
    BY <1>3
  <2> QED BY <1>1, <1>7, <2>1, <2>2, <2>3, <2>4, RollsKept
<1>10. \A i \in Slots : Budget(i)'
  BY HandBudget
<1>11. crashes <= crashes' /\ flock' \in {p, None}
  BY <1>1, <1>2, <1>3
<1> QED BY <1>3, <1>4, <1>5, <1>6, <1>7, <1>8, <1>9, <1>10, <1>11, Assemble

\* What a step of the holder has changed while a slot changes hands.
LEMMA HandAdding ==
    ASSUME IInv, NEW p \in Procs, pc[p] \in Handing \cap Adding
    PROVE  /\ Types /\ Desk /\ flock = p /\ loc[p].i \in Slots
           /\ loc[p].group \in GroupNames /\ loc[p].chan \in Channels
           /\ since[<<loc[p].group, loc[p].chan>>] # Out
           /\ changing <=> pc[p] \in Changing
           /\ pc[p] \notin {"r", "w"} => loc[p].k = 0
           /\ loc[p].k \in 0 .. 4 /\ Repairs(p) /\ Creates(p)
<1>1. Types /\ Desk /\ Work(p) /\ pc[p] \in Adding /\ pc[p] \in Working
  BY HandLabels DEF IInv
<1>2. /\ flock = p /\ loc[p].i \in Slots /\ loc[p].k \in 0 .. 4
      /\ Local(p) /\ (changing <=> pc[p] \in Changing)
  BY <1>1, LocOf, GroupsAssumption DEF Desk
<1>3. pc[p] \notin {"f", "a_entry"}
  BY DEF Handing, Adding, Repairing, Writing, Joining, Counted
<1> QED BY <1>1, <1>2, <1>3 DEF Local, Work, Joins

LEMMA RepairOddStep ==
    ASSUME IInv, NEW p \in Procs, GoOdd(p, "r_odd", "r")
    PROVE  IInv'
<1>1. GoEven(p, "r_odd", 1, "r")
  BY OddShape
<1>2. pc[p] = "r_odd" /\ "r_odd" \in Handing /\ "r_odd" \in Adding
      /\ "r" \in Handed /\ "r" \in Adding /\ "r" \in Labels
      /\ "r_odd" \in Repairing /\ "r" \in Repairing
      /\ "r" \in Changing /\ "r_odd" \notin Changing
  BY <1>1, HandLabels DEF GoEven, WriteSlot, Step, Handing, Handed, Adding,
        Repairing, Changing, Flushing
<1>3. /\ Types /\ Desk /\ changing = FALSE
      /\ since[<<loc[p].group, loc[p].chan>>] # Out
      /\ loc[p].group \in GroupNames /\ loc[p].chan \in Channels
      /\ loc[p].k = 0 /\ crashes > 0 /\ crashes \in Nat
  <2>1. pc[p] \in Handing \cap Adding
    BY <1>2
  <2>2. Repairs(p) /\ (changing <=> pc[p] \in Changing) /\ Types /\ Desk
        /\ since[<<loc[p].group, loc[p].chan>>] # Out
        /\ loc[p].group \in GroupNames /\ loc[p].chan \in Channels
        /\ loc[p].k = 0
    BY <1>2, <2>1, HandAdding
  <2> QED BY <1>2, <2>2 DEF Repairs, Types
<1>4. PICK y \in Slots : y = loc[p].i
  BY <1>3, LocOf
<1>5. VerEffect(p, "r_odd", 1, "r", y)
  BY <1>1, <1>2, <1>3, <1>4, VerShape
<1>6. Hands(p, y)
  <2>1. slot[y].count \in Nat
    BY <1>3, SlotOf
  <2>2. slot'[y].count <= slot[y].count /\ slot'[y].ver <= 2
        /\ slot'[y].array \in {slot[y].array, None}
    BY <1>5, <2>1 DEF VerEffect
  <2>3. /\ Others(p) /\ y = loc'[p].i /\ pc'[p] = "r" /\ changing' = TRUE
        /\ \A q \in Procs : ~calm'[q]
        /\ \A i \in Slots : i # y => slot'[i] = slot[i]
        /\ UNCHANGED <<mem, free, flock, now, calls, since, must, may,
                       crashes>>
    BY <1>3, <1>4, <1>5 DEF VerEffect
  <2> QED BY <1>2, <1>3, <1>4, <2>2, <2>3 DEF Hands
<1>7. Odd(y)'
  BY <1>5 DEF Odd, VerEffect
<1>8. ~Held(y)'
  BY <1>6, <1>7, HandHolder
<1>9. Local(p)'
  BY <1>2, <1>3, <1>5 DEF Local, Lookups, Getting, Listing, VerEffect
<1>10. Work(p)'
  <2>1. Repairs(p)'
    BY <1>3, <1>4, <1>5, <1>7 DEF Repairs, VerEffect
  <2>2. Joins(p)'
    BY <1>3, <1>5 DEF Joins, Joining, Counted, VerEffect
  <2> QED BY <1>5, <2>1, <2>2 DEF Work, Creates, Leaves, Flushes, Writing,
             Leaving, Discarding, Flushing, VerEffect
<1>11. Types'
  BY <1>5 DEF VerEffect
<1> QED BY <1>3, <1>6, <1>8, <1>9, <1>10, <1>11, HandStep

LEMMA ClearedSlot ==
    ASSUME NEW s \in SlotType
    PROVE  \E new \in SlotType :
              /\ new = [Unused EXCEPT !.name = s.name]
              /\ new.len = 0 /\ new.name = s.name /\ new.array = None
              /\ new.count = 0 /\ new.active = FALSE
<1>1. Unused \in SlotType /\ s.name \in GroupNames \cup {None}
  BY UnusedType DEF SlotType
<1>2. [Unused EXCEPT !.name = s.name] \in SlotType
  BY <1>1, SlotSet
<1> QED BY <1>1, <1>2 DEF Unused

LEMMA RepairPutStep ==
    ASSUME IInv, NEW p \in Procs, Clear(p, "r", "r_even")
    PROVE  IInv'
<1>1. pc[p] = "r" /\ "r" \in Handing /\ "r" \in Adding
      /\ "r_even" \in Handed /\ "r_even" \in Adding /\ "r_even" \in Labels
      /\ "r" \in Handed /\ "r" \in Labels
      /\ "r" \in Repairing /\ "r_even" \in Repairing
      /\ "r" \in Changing /\ "r_even" \in Changing
  BY HandLabels DEF Clear, Put, Step, Handing, Handed, Adding, Repairing,
        Changing, Flushing
<1>2. /\ Types /\ Desk /\ changing = TRUE /\ loc[p].i \in Slots
      /\ since[<<loc[p].group, loc[p].chan>>] # Out
      /\ loc[p].group \in GroupNames /\ loc[p].chan \in Channels
      /\ loc[p].k \in 0 .. 4 /\ Repairs(p)
  <2>1. pc[p] \in Handing \cap Adding
    BY <1>1
  <2>2. changing <=> pc[p] \in Changing
    BY <2>1, HandAdding
  <2>3. Types
    BY DEF IInv
  <2> QED BY <1>1, <2>1, <2>2, <2>3, HandAdding DEF Types
<1>3. PICK y \in Slots : y = loc[p].i
  BY <1>2
<1>4. PICK new \in SlotType :
          /\ new = [Unused EXCEPT !.name = S(p).name]
          /\ new.len = 0 /\ new.name = S(p).name /\ new.array = None
          /\ new.count = 0 /\ new.active = FALSE
  <2>1. S(p) \in SlotType
    BY <1>2, SlotOf DEF S
  <2> QED BY <2>1, ClearedSlot
<1>5. PutEffect(p, "r", new, "r_even", y)
  <2>1. Put(p, "r", new, "r_even")
    BY <1>4 DEF Clear
  <2> QED BY <1>1, <1>2, <1>3, <1>4, <2>1, PutShape
<1>6. /\ loc'[p].i = loc[p].i /\ loc'[p].group = loc[p].group
      /\ loc'[p].chan = loc[p].chan
      /\ loc'[p].k = IF loc[p].k < 4 THEN loc[p].k + 1 ELSE 0
  BY <1>2, <1>5, LocOf DEF LocType, PutEffect
<1>7. Repairs(p) /\ Odd(y) /\ crashes > 0 /\ crashes \in Nat
      /\ (loc[p].k > 0 => slot[y].len = 0)
  BY <1>1, <1>2, <1>3 DEF Repairs, Types, S
<1>8. slot'[y].len = 0 /\ Odd(y)'
  BY <1>2, <1>4, <1>5, <1>7 DEF Odd, PutEffect
<1>9. Hands(p, y)
  <2>1. slot[y].count \in Nat
    BY <1>2, SlotOf
  <2>2. slot'[y].count <= slot[y].count
        /\ slot'[y].array \in {slot[y].array, None}
    BY <1>4, <1>5, <2>1 DEF PutEffect
  <2>3. pc'[p] \in {"r", "r_even"}
    BY <1>5 DEF PutEffect
  <2>4. \A q \in Procs : ~calm'[q]
    BY <1>2, <1>5 DEF Desk, PutEffect
  <2>5. changing' <=> pc'[p] \in Changing
    BY <1>1, <1>2, <1>5, <2>3 DEF PutEffect
  <2> QED BY <1>1, <1>3, <1>5, <1>6, <1>7, <2>2, <2>3, <2>4, <2>5
         DEF Hands, PutEffect
<1>10. ~Held(y)'
  BY <1>8, <1>9, HandHolder
<1>11. Local(p)'
  BY <1>1, <1>2, <1>5, <1>6
     DEF Local, Lookups, Getting, Listing, PutEffect
<1>12. Work(p)'
  <2>1. Repairs(p)'
    <3>1. S(p)'.len = 0
      BY <1>3, <1>6, <1>8 DEF S
    <3>2. Odd(loc[p].i)'
      BY <1>3, <1>6, <1>8 DEF Odd
    <3> QED BY <1>5, <1>7, <3>1, <3>2 DEF Repairs, PutEffect
  <2>2. pc'[p] \in {"r", "r_even"}
    BY <1>5 DEF PutEffect
  <2>3. Joins(p)'
    BY <1>2, <1>5, <1>6, <2>2 DEF Joins, Joining, Counted, PutEffect
  <2> QED BY <2>1, <2>2, <2>3 DEF Work, Creates, Leaves, Flushes, Writing,
             Leaving, Discarding, Flushing
<1>13. Types'
  BY <1>5 DEF PutEffect
<1> QED BY <1>7, <1>9, <1>10, <1>11, <1>12, <1>13, HandStep

LEMMA RepairEvenStep ==
    ASSUME IInv, NEW p \in Procs, GoEven(p, "r_even", 0, "a_scan")
    PROVE  IInv'
<1>1. pc[p] = "r_even" /\ "r_even" \in Handing /\ "r_even" \in Adding
      /\ "a_scan" \in Handed /\ "a_scan" \in Adding /\ "a_scan" \in Labels
      /\ "r_even" \in Repairing /\ "r_even" \in Changing
      /\ "a_scan" \notin Changing
  BY HandLabels DEF GoEven, WriteSlot, Step, Handing, Handed, Adding,
        Repairing, Changing, Flushing
<1>2. PICK y \in Slots : y = loc[p].i
  BY LocOf DEF IInv
<1>3. /\ Types /\ changing = TRUE /\ loc[p].k = 0
      /\ since[<<loc[p].group, loc[p].chan>>] # Out
      /\ loc[p].group \in GroupNames /\ loc[p].chan \in Channels
      /\ crashes > 0 /\ crashes \in Nat /\ slot[y].len = 0
  <2>1. pc[p] \in Handing \cap Adding
    BY <1>1
  <2>2. Repairs(p) /\ (changing <=> pc[p] \in Changing) /\ Types
        /\ since[<<loc[p].group, loc[p].chan>>] # Out
        /\ loc[p].group \in GroupNames /\ loc[p].chan \in Channels
        /\ loc[p].k = 0
    BY <1>1, <2>1, HandAdding
  <2>3. changing \in BOOLEAN
    BY <2>2 DEF Types
  <2> QED BY <1>1, <1>2, <2>2, <2>3 DEF Repairs, Types, S
<1>4. VerEffect(p, "r_even", 0, "a_scan", y)
  BY <1>1, <1>2, <1>3, VerShape
<1>5. Hands(p, y)
  <2>1. slot[y].count \in Nat
    BY <1>3, SlotOf
  <2>2. slot'[y].count <= slot[y].count /\ slot'[y].ver = 0
        /\ slot'[y].array \in {slot[y].array, None}
    BY <1>4, <2>1 DEF VerEffect
  <2>3. /\ Others(p) /\ y = loc'[p].i /\ pc'[p] = "a_scan"
        /\ changing' = FALSE
        /\ \A q \in Procs : ~calm'[q]
        /\ \A i \in Slots : i # y => slot'[i] = slot[i]
        /\ UNCHANGED <<mem, free, flock, now, calls, since, must, may,
                       crashes>>
    BY <1>2, <1>3, <1>4 DEF VerEffect
  <2> QED BY <1>1, <1>2, <1>3, <2>2, <2>3 DEF Hands
<1>6. slot'[y].len = 0 /\ Types'
  BY <1>3, <1>4 DEF VerEffect
<1>7. ~Held(y)'
  BY <1>5, <1>6, HandHolder
<1>8. Local(p)'
  BY <1>1, <1>3, <1>4 DEF Local, Lookups, Getting, Listing, VerEffect
<1>9. Work(p)'
  <2>1. Joins(p)'
    BY <1>3, <1>4 DEF Joins, Joining, Counted, VerEffect
  <2> QED BY <1>4, <2>1 DEF Work, Repairs, Creates, Leaves, Flushes,
             Repairing, Writing, Leaving, Discarding, Flushing, VerEffect
<1> QED BY <1>3, <1>5, <1>6, <1>7, <1>8, <1>9, HandStep

LEMMA RepairStep ==
    ASSUME IInv, NEW p \in Procs, Repair(p)
    PROVE  IInv'
BY RepairOddStep, RepairPutStep, RepairEvenStep DEF Repair

\* A slot that is being written: no other slot is the group's.
LEMMA Writer ==
    ASSUME IInv, NEW p \in Procs, pc[p] \in Writing, NEW y \in Slots,
           y = loc[p].i
    PROVE  /\ Types /\ loc[p].group \in GroupNames /\ loc[p].chan \in Channels
           /\ since[<<loc[p].group, loc[p].chan>>] # Out
           /\ loc[p].slot.len = 1 /\ loc[p].slot.name = loc[p].group
           /\ loc[p].slot.count = 0 /\ loc[p].slot.active
           /\ Fresh(p) = loc[p].slot.array
           /\ Fresh(p) \in Arrays \ free /\ In(Fresh(p)) = {}
           /\ \A k \in Slots : k # y => slot[k].array # Fresh(p)
           /\ \A k \in Slots : k # y /\ ~slot[k].active => y < k
           /\ \A k \in Slots : k # y => ~Odd(k) /\ ~Hit(k, loc[p].group)
           /\ \A k \in Slots : k # y /\ Held(k)
                    /\ slot[k].name = loc[p].group => ~slot[k].active
           /\ changing <=> pc[p] # "w_odd"
           /\ \A g \in GroupNames, c \in Channels, k \in Slots, j \in Entries :
                 Home(g, c, k, j) => k # y /\ g # loc[p].group
<1>1. pc[p] \in Handing \cap Adding
  BY DEF Writing, Handing, Adding
<1>2. /\ Types /\ loc[p].group \in GroupNames /\ loc[p].chan \in Channels
      /\ since[<<loc[p].group, loc[p].chan>>] # Out
      /\ (changing <=> pc[p] \in Changing) /\ Creates(p) /\ flock = p
  BY <1>1, HandAdding
<1>3. pc[p] \in Changing <=> pc[p] # "w_odd"
  BY DEF Writing, Changing, Flushing
<1>4. /\ loc[p].slot.len = 1 /\ loc[p].slot.name = loc[p].group
      /\ loc[p].slot.count = 0 /\ loc[p].slot.active
      /\ Fresh(p) \in Arrays \ free /\ In(Fresh(p)) = {}
      /\ \A k \in Slots : k # y =>
            /\ ~Odd(k) /\ ~Hit(k, loc[p].group) /\ slot[k].array # Fresh(p)
            /\ ~slot[k].active => y < k
      /\ pc[p] = "w_odd" => ~S(p).active
      /\ pc[p] # "w_odd" => Odd(y)
  BY <1>2 DEF Creates
<1>5. ASSUME NEW k \in Slots, k # y, Held(k), slot[k].name = loc[p].group
      PROVE  ~slot[k].active
  BY <1>4, <1>5 DEF Hit, Held
<1>6. ~(Held(y) /\ slot[y].active)
  <2>1. ~HolderAt(y, Bumped)
    <3>1. pc[p] \notin Bumped
      BY <1>1, HandLabels
    <3> QED BY <1>2, <3>1, Holder
  <2> QED BY <1>4, <2>1 DEF Held, S
<1>7. ASSUME NEW g \in GroupNames, NEW c \in Channels, NEW k \in Slots,
             NEW j \in Entries, Home(g, c, k, j)
      PROVE  k # y /\ g # loc[p].group
  BY <1>5, <1>6, <1>7 DEF Home
<1> QED BY <1>2, <1>3, <1>4, <1>5, <1>7 DEF Fresh

LEMMA WriteOddStep ==
    ASSUME IInv, NEW p \in Procs, GoOdd(p, "w_odd", "w")
    PROVE  IInv'
<1>1. GoEven(p, "w_odd", 1, "w")
  BY OddShape
<1>2. pc[p] = "w_odd" /\ "w_odd" \in Handing /\ "w_odd" \in Adding
      /\ "w" \in Handed /\ "w" \in Adding /\ "w" \in Labels
      /\ "w_odd" \in Writing /\ "w" \in Writing /\ "w" \in Changing
  BY <1>1, HandLabels DEF GoEven, WriteSlot, Step, Handing, Handed, Adding,
        Writing, Changing
<1>3. PICK y \in Slots : y = loc[p].i
  BY LocOf DEF IInv
<1>4. /\ Types /\ loc[p].group \in GroupNames /\ loc[p].chan \in Channels
      /\ since[<<loc[p].group, loc[p].chan>>] # Out /\ changing = FALSE
      /\ \A g \in GroupNames, c \in Channels, k \in Slots, j \in Entries :
            Home(g, c, k, j) => k # y
      /\ Creates(p) /\ loc[p].k = 0
  <2>1. pc[p] \in Handing \cap Adding
    BY <1>2
  <2>2. Creates(p) /\ loc[p].k = 0
    BY <1>2, <2>1, HandAdding
  <2>3. /\ Types /\ loc[p].group \in GroupNames /\ loc[p].chan \in Channels
        /\ since[<<loc[p].group, loc[p].chan>>] # Out
        /\ changing <=> pc[p] # "w_odd"
        /\ \A g \in GroupNames, c \in Channels, k \in Slots, j \in Entries :
              Home(g, c, k, j) => k # y
    BY <1>2, <1>3, Writer
  <2> QED BY <1>2, <2>2, <2>3 DEF Types
<1>5. VerEffect(p, "w_odd", 1, "w", y)
  BY <1>1, <1>2, <1>3, <1>4, VerShape
<1>6. Hands(p, y)
  <2>1. slot[y].count \in Nat
    BY <1>4, SlotOf
  <2>2. slot'[y].count <= slot[y].count /\ slot'[y].ver <= 2
        /\ slot'[y].array \in {slot[y].array, None}
    BY <1>5, <2>1 DEF VerEffect
  <2>3. /\ Others(p) /\ y = loc'[p].i /\ pc'[p] = "w" /\ changing' = TRUE
        /\ \A q \in Procs : ~calm'[q]
        /\ \A i \in Slots : i # y => slot'[i] = slot[i]
        /\ UNCHANGED <<mem, free, flock, now, calls, since, must, may,
                       crashes>>
    BY <1>3, <1>4, <1>5 DEF VerEffect
  <2> QED BY <1>2, <1>3, <1>4, <2>2, <2>3 DEF Hands
<1>7. Odd(y)' /\ Types'
  BY <1>5 DEF Odd, VerEffect
<1>8. ~Held(y)'
  BY <1>6, <1>7, HandHolder
<1>9. Local(p)'
  BY <1>2, <1>4, <1>5 DEF Local, Lookups, Getting, Listing, VerEffect
<1>10. Creates(p)'
  <2>1. /\ pc'[p] = "w" /\ loc'[p] = loc[p] /\ mem' = mem /\ free' = free
        /\ \A i \in Slots : i # y => slot'[i] = slot[i]
        /\ slot'[y].array = slot[y].array
    BY <1>5 DEF VerEffect
  <2>2. /\ Fresh(p)' = Fresh(p) /\ In(Fresh(p))' = In(Fresh(p))
        /\ S(p)'.array = S(p).array
    BY <1>3, <2>1 DEF Fresh, In, S
  <2>3. \A k \in Slots : k # y =>
           /\ (Odd(k)' <=> Odd(k)) /\ slot'[k] = slot[k]
           /\ Hit(k, loc[p].group)' <=> Hit(k, loc[p].group)
    BY <2>1 DEF Odd, Hit
  <2>4. /\ loc[p].slot.len = 1 /\ loc[p].slot.name = loc[p].group
        /\ loc[p].slot.count = 0 /\ loc[p].slot.active
        /\ Fresh(p) \in Arrays \ free /\ In(Fresh(p)) = {}
        /\ \A k \in Slots : k # loc[p].i =>
              /\ ~Odd(k) /\ ~Hit(k, loc[p].group) /\ slot[k].array # Fresh(p)
              /\ ~slot[k].active => loc[p].i < k
        /\ S(p).array # Fresh(p)
    BY <1>2, <1>4 DEF Creates
  <2> QED BY <1>3, <1>4, <1>7, <2>1, <2>2, <2>3, <2>4 DEF Creates
<1>11. Work(p)'
  <2>1. Joins(p)'
    BY <1>4, <1>5 DEF Joins, Joining, Counted, VerEffect
  <2> QED BY <1>5, <1>10, <2>1 DEF Work, Repairs, Leaves, Flushes,
             Repairing, Leaving, Discarding, Flushing, VerEffect
<1>12. /\ slot[y].len # 0 => slot'[y].len # 0
       /\ slot'[y].name = slot[y].name
  BY <1>5 DEF VerEffect
<1> QED BY <1>4, <1>6, <1>7, <1>8, <1>9, <1>11, <1>12, HandStep

\* The fields the writer has stored so far.
Written(p, y, at, k) ==
    /\ at = "w_even" \/ k > 0 => slot[y].len = 1
    /\ at = "w_even" \/ k > 1 => slot[y].name = loc[p].group
    /\ at = "w_even" \/ k > 2 => slot[y].array = Fresh(p)
    /\ at = "w" /\ k <= 2 => slot[y].array # Fresh(p)
    /\ at = "w_even" \/ k > 3 => slot[y].count = 0
    /\ at = "w_even" => slot[y].active

LEMMA WritePutStep ==
    ASSUME IInv, NEW p \in Procs, Put(p, "w", loc[p].slot, "w_even")
    PROVE  IInv'
<1>1. pc[p] = "w" /\ "w" \in Handing /\ "w" \in Adding
      /\ "w" \in Handed /\ "w" \in Labels
      /\ "w_even" \in Handed /\ "w_even" \in Adding /\ "w_even" \in Labels
      /\ "w" \in Writing /\ "w_even" \in Writing /\ "w" \in Changing
      /\ "w_even" \in Changing
  BY HandLabels DEF Put, Step, Handing, Handed, Adding, Writing, Changing
<1>2. PICK y \in Slots : y = loc[p].i
  BY LocOf DEF IInv
<1>3. PICK g \in GroupNames, a \in Arrays, k \in 0 .. 4 :
          g = loc[p].group /\ a = Fresh(p) /\ k = loc[p].k
  BY <1>1, <1>2, Writer, LocOf DEF IInv
<1>4. /\ Types /\ loc[p].chan \in Channels
      /\ since[<<loc[p].group, loc[p].chan>>] # Out /\ changing = TRUE
      /\ \A h \in GroupNames, c \in Channels, m \in Slots, j \in Entries :
            Home(h, c, m, j) => m # y /\ h # g
      /\ loc[p].slot.len = 1 /\ loc[p].slot.name = g
      /\ loc[p].slot.array = a
      /\ loc[p].slot.count = 0 /\ loc[p].slot.active
      /\ a \in Arrays \ free /\ In(a) = {}
      /\ \A m \in Slots : m # y => slot[m].array # a
      /\ \A m \in Slots : m # y /\ ~slot[m].active => y < m
      /\ \A m \in Slots : m # y => ~Odd(m) /\ ~Hit(m, g)
      /\ loc[p].slot \in SlotType
  BY <1>1, <1>2, <1>3, Writer, LocOf DEF Types
<1>5. Odd(y) /\ Written(p, y, "w", k)
  <2>1. Creates(p)
    BY DEF IInv, Work
  <2>2. S(p) = slot[y]
    BY <1>2 DEF S
  <2>3. "w" # "w_odd" /\ "w" # "w_even"
    OBVIOUS
  <2> QED BY <1>1, <1>2, <1>3, <2>1, <2>2, <2>3 DEF Creates, Written
<1>6. PutEffect(p, "w", loc[p].slot, "w_even", y)
  BY <1>1, <1>2, <1>4, PutShape
<1>7. /\ pc'[p] = IF k < 4 THEN "w" ELSE "w_even"
      /\ loc'[p].k = IF k < 4 THEN k + 1 ELSE 0
      /\ loc'[p].i = y /\ loc'[p].group = g
      /\ loc'[p].chan = loc[p].chan /\ loc'[p].slot = loc[p].slot
      /\ slot'[y].ver = slot[y].ver
      /\ slot'[y].len = IF k = 0 THEN 1 ELSE slot[y].len
      /\ slot'[y].name = IF k = 1 THEN g ELSE slot[y].name
      /\ slot'[y].array = IF k = 2 THEN a ELSE slot[y].array
      /\ slot'[y].count = IF k = 3 THEN 0 ELSE slot[y].count
      /\ slot'[y].active = IF k = 4 THEN TRUE ELSE slot[y].active
  <2>1. /\ pc'[p] = IF k < 4 THEN "w" ELSE "w_even"
        /\ loc'[p] = [loc[p] EXCEPT !.k = IF k < 4 THEN k + 1 ELSE 0]
        /\ slot'[y].ver = slot[y].ver
        /\ slot'[y].len = IF k = 0 THEN 1 ELSE slot[y].len
        /\ slot'[y].name = IF k = 1 THEN g ELSE slot[y].name
        /\ slot'[y].array = IF k = 2 THEN a ELSE slot[y].array
        /\ slot'[y].count = IF k = 3 THEN 0 ELSE slot[y].count
        /\ slot'[y].active = IF k = 4 THEN loc[p].slot.active
                             ELSE slot[y].active
    BY <1>3, <1>4, <1>6 DEF PutEffect
  <2>2. loc[p] \in LocType /\ loc[p].slot.active = TRUE
    BY <1>4, LocOf DEF SlotType
  <2>3. /\ loc'[p].k = IF k < 4 THEN k + 1 ELSE 0
        /\ loc'[p].i = y /\ loc'[p].group = g
        /\ loc'[p].chan = loc[p].chan /\ loc'[p].slot = loc[p].slot
    BY <1>2, <1>3, <2>1, <2>2 DEF LocType
  <2> QED BY <2>1, <2>2, <2>3
<1>8. /\ Others(p) /\ Types' /\ \A i \in Slots : i # y => slot'[i] = slot[i]
      /\ UNCHANGED <<mem, free, flock, now, calls, since, must, may, changing,
                     calm, crashes>>
  BY <1>6 DEF PutEffect
<1>9. pc'[p] \in {"w", "w_even"} /\ (pc'[p] = "w" => loc'[p].k = k + 1)
      /\ (pc'[p] = "w_even" => loc'[p].k = 0)
  BY <1>7
<1>10. Hands(p, y)
  <2>1. slot[y].count \in Nat
    BY <1>4, SlotOf
  <2>2. slot'[y].count <= slot[y].count
    BY <1>7, <2>1
  <2>3. \/ slot'[y].array \in {slot[y].array, None}
        \/ /\ slot'[y].array \in Arrays \ free
           /\ \A m \in Slots : m # y => slot[m].array # slot'[y].array
    BY <1>4, <1>7
  <2>4. \A q \in Procs : ~calm'[q]
    BY <1>4, <1>8 DEF IInv, Desk
  <2>5. changing' <=> pc'[p] \in Changing
    BY <1>1, <1>4, <1>8, <1>9
  <2> QED BY <1>1, <1>2, <1>7, <1>8, <1>9, <2>2, <2>3, <2>4, <2>5 DEF Hands
<1>11. Odd(y)'
  BY <1>5, <1>7 DEF Odd
<1>12. ~Held(y)'
  BY <1>10, <1>11, HandHolder
<1>13. Local(p)'
  <2>1. loc'[p].group \in GroupNames /\ loc'[p].chan \in Channels
    BY <1>3, <1>4, <1>7
  <2> QED BY <1>9, <2>1 DEF Local, Lookups, Getting, Listing
<1>14. /\ pc'[p] = "w_even" \/ loc'[p].k > 0 => slot'[y].len = 1
       /\ pc'[p] = "w_even" \/ loc'[p].k > 1 => slot'[y].name = g
       /\ pc'[p] = "w_even" \/ loc'[p].k > 2 => slot'[y].array = a
       /\ pc'[p] = "w" /\ loc'[p].k <= 2 => slot'[y].array # a
       /\ pc'[p] = "w_even" \/ loc'[p].k > 3 => slot'[y].count = 0
       /\ pc'[p] = "w_even" => slot'[y].active
  <2>1. /\ k > 0 => slot[y].len = 1
        /\ k > 1 => slot[y].name = g
        /\ k > 2 => slot[y].array = a
        /\ k <= 2 => slot[y].array # a
        /\ k > 3 => slot[y].count = 0
    BY <1>3, <1>5 DEF Written
  <2>2. CASE k = 4
    <3>1. pc'[p] = "w_even" /\ loc'[p].k = 0 /\ slot'[y].active = TRUE
      BY <1>7, <2>2
    <3>2. /\ slot'[y].len = slot[y].len /\ slot'[y].name = slot[y].name
          /\ slot'[y].array = slot[y].array /\ slot'[y].count = slot[y].count
      BY <1>7, <2>2
    <3>3. pc'[p] # "w"
      BY <3>1
    <3> QED BY <2>1, <2>2, <3>1, <3>2, <3>3
  <2>3. CASE k \in {0, 1, 2, 3}
    <3>1. pc'[p] = "w" /\ loc'[p].k = k + 1 /\ pc'[p] # "w_even"
      BY <1>7, <2>3
    <3>2. CASE k = 0
      BY <1>7, <2>1, <3>1, <3>2
    <3>3. CASE k = 1
      BY <1>7, <2>1, <3>1, <3>3
    <3>4. CASE k = 2
      BY <1>7, <2>1, <3>1, <3>4
    <3>5. CASE k = 3
      BY <1>7, <2>1, <3>1, <3>5
    <3> QED BY <2>3, <3>2, <3>3, <3>4, <3>5
  <2> QED BY <2>2, <2>3
<1>15. Creates(p)'
  <2>1. /\ Fresh(p)' = a /\ In(a)' = In(a) /\ S(p)' = slot'[y]
        /\ free' = free /\ pc'[p] # "w_odd"
    <3>1. Fresh(p)' = loc'[p].slot.array /\ S(p)' = slot'[loc'[p].i]
      BY DEF Fresh, S
    <3>2. In(a)' = In(a)
      BY <1>8 DEF In
    <3> QED BY <1>4, <1>7, <1>8, <1>9, <3>1, <3>2
  <2>2. \A m \in Slots : m # y =>
           /\ (Odd(m)' <=> Odd(m)) /\ slot'[m] = slot[m]
           /\ Hit(m, g)' <=> Hit(m, g)
    BY <1>8 DEF Odd, Hit
  <2>3. /\ loc'[p].slot.len = 1 /\ loc'[p].slot.name = g
        /\ loc'[p].slot.count = 0 /\ loc'[p].slot.active
        /\ loc'[p].group = g /\ loc'[p].i = y
    BY <1>4, <1>7
  <2>4. a \in Arrays \ free' /\ In(a)' = {}
    BY <1>4, <2>1
  <2>5. \A m \in Slots : m # y =>
           /\ ~Odd(m)' /\ ~Hit(m, g)' /\ slot'[m].array # a
           /\ ~slot'[m].active => y < m
    BY <1>4, <2>2
  <2> QED BY <1>11, <1>14, <2>1, <2>3, <2>4, <2>5 DEF Creates
<1>16. Work(p)'
  <2>1. Joins(p)'
    <3>1. pc'[p] \notin Joining
      BY <1>9 DEF Joining, Counted
    <3>2. since'[<<loc'[p].group, loc'[p].chan>>] # Out
      BY <1>3, <1>4, <1>7, <1>8
    <3> QED BY <3>1, <3>2 DEF Joins, Joining
  <2>2. /\ pc'[p] \notin Repairing /\ pc'[p] \notin Discarding
        /\ pc'[p] \notin Flushing /\ pc'[p] \notin Leaving
        /\ pc'[p] # "d_entry" /\ pc'[p] # "r" /\ pc'[p] # "r_even"
    BY <1>9 DEF Repairing, Discarding, Leaving, Flushing
  <2> QED BY <1>15, <2>1, <2>2 DEF Work, Repairs, Leaves, Flushes
<1>17. \A h \in GroupNames, c \in Channels, m \in Slots, j \in Entries :
          crashes = 0 /\ since[<<h, c>>] >= 0 /\ Home(h, c, m, j) =>
             /\ m # y /\ (slot[y].len # 0 => slot'[y].len # 0)
             /\ slot'[y].name = h => slot[y].name = h
  BY <1>4, <1>7
<1>18. Types'
  BY <1>8
<1> QED BY <1>10, <1>12, <1>13, <1>16, <1>17, <1>18, HandStep

LEMMA WriteEvenStep ==
    ASSUME IInv, NEW p \in Procs, GoEven(p, "w_even", 2, "a_now")
    PROVE  IInv'
<1>1. pc[p] = "w_even" /\ "w_even" \in Handing /\ "w_even" \in Adding
      /\ "a_now" \in Handed /\ "a_now" \in Adding /\ "a_now" \in Labels
      /\ "w_even" \in Writing /\ "a_now" \notin Changing
      /\ "a_now" \notin Bumped /\ "a_now" \in Joining
  BY HandLabels DEF GoEven, WriteSlot, Step, Handing, Handed, Adding,
        Writing, Changing, Flushing, Bumped, Joining
<1>2. PICK y \in Slots : y = loc[p].i
  BY LocOf DEF IInv
<1>3. PICK g \in GroupNames, a \in Arrays :
          g = loc[p].group /\ a = loc[p].slot.array /\ a = Fresh(p)
  BY <1>1, <1>2, Writer DEF Fresh
<1>4. /\ Types /\ loc[p].chan \in Channels
      /\ since[<<loc[p].group, loc[p].chan>>] # Out /\ changing = TRUE
      /\ \A h \in GroupNames, c \in Channels, m \in Slots, j \in Entries :
            Home(h, c, m, j) => m # y
      /\ In(a) = {}
      /\ \A m \in Slots : m # y /\ ~slot[m].active => y < m
      /\ \A m \in Slots : m # y /\ Held(m) /\ slot[m].name = g =>
            ~slot[m].active
  BY <1>1, <1>2, <1>3, Writer DEF Types
<1>5. /\ slot[y].len = 1 /\ slot[y].name = g /\ slot[y].array = a
      /\ slot[y].active /\ loc[p].k = 0
  <2>1. Creates(p) /\ S(p) = slot[y] /\ Local(p)
    BY <1>2 DEF IInv, Work, S, Desk
  <2> QED BY <1>1, <1>3, <2>1 DEF Creates, Local
<1>6. VerEffect(p, "w_even", 2, "a_now", y)
  BY <1>1, <1>2, <1>4, VerShape
<1>7. /\ Others(p) /\ pc'[p] = "a_now" /\ loc' = loc /\ Types'
      /\ slot'[y].ver = 2 /\ slot'[y].len = 1 /\ slot'[y].name = g
      /\ slot'[y].array = a /\ slot'[y].active
      /\ slot'[y].count = slot[y].count
      /\ \A i \in Slots : i # y => slot'[i] = slot[i]
      /\ UNCHANGED <<mem, free, flock, now, calls, since, must, may, crashes>>
      /\ changing' = FALSE /\ \A q \in Procs : ~calm'[q]
  BY <1>4, <1>5, <1>6 DEF VerEffect
<1>8. ~Odd(y)'
  BY <1>7 DEF Odd
<1>9. Hands(p, y)
  <2>1. slot[y].count \in Nat
    BY <1>4, SlotOf
  <2>2. slot'[y].count <= slot[y].count /\ slot'[y].ver <= 2
        /\ slot'[y].array \in {slot[y].array, None}
    BY <1>5, <1>7, <2>1
  <2>3. y = loc'[p].i
    BY <1>2, <1>7
  <2> QED BY <1>1, <1>2, <1>7, <1>8, <2>2, <2>3 DEF Hands
<1>10. Local(p)'
  <2>1. loc'[p].group \in GroupNames /\ loc'[p].chan \in Channels
        /\ loc'[p].k = 0
    BY <1>3, <1>4, <1>5, <1>7
  <2> QED BY <1>7, <2>1 DEF Local, Lookups, Getting, Listing
<1>11. Work(p)'
  <2>1. AtSlot(p)' /\ S(p)'.active
    <3>1. Fresh(p)' = loc'[p].slot.array /\ S(p)' = slot'[loc'[p].i]
          /\ (Odd(loc[p].i)' <=> Odd(y)')
      BY <1>2, <1>7 DEF Fresh, S, Odd
    <3>2. /\ S(p)'.len = 1 /\ S(p)'.name = g /\ S(p)'.array = a
          /\ S(p)'.active /\ Fresh(p)' = a /\ loc'[p].group = g
          /\ ~Odd(loc[p].i)' /\ pc'[p] \notin Bumped
      BY <1>1, <1>2, <1>3, <1>7, <1>8, <3>1
    <3> QED BY <3>2 DEF AtSlot
  <2>2. since'[<<loc'[p].group, loc'[p].chan>>] # Out
    BY <1>4, <1>7
  <2>3. Joins(p)'
    BY <1>7, <2>1, <2>2 DEF Joins, Counted
  <2>4. /\ pc'[p] \notin Repairing /\ pc'[p] \notin Discarding
        /\ pc'[p] \notin Flushing /\ pc'[p] \notin Leaving
        /\ pc'[p] \notin Writing
        /\ pc'[p] # "d_entry" /\ pc'[p] # "r" /\ pc'[p] # "r_even"
    BY <1>7 DEF Repairing, Writing, Discarding, Leaving, Flushing
  <2> QED BY <2>3, <2>4 DEF Work, Repairs, Creates, Leaves, Flushes
<1>12. Listed(y)' /\ Covered(y)'
  <2>1. In(slot[y].array)' = {}
    BY <1>4, <1>5, <1>7 DEF In
  <2>2. Listed(y)'
    BY <2>1 DEF Listed
  <2>3. ~HolderAt(y, {"d_odd", "d_count"})'
    BY <1>7, <1>9, HandHolder
  <2>4. Cardinality({}) = 0 /\ crashes' \in Nat /\ slot'[y].count \in Nat
    BY <1>7, FS_EmptySet DEF Types, SlotType
  <2> QED BY <2>1, <2>2, <2>3, <2>4 DEF Covered, One
<1>13. /\ slot'[y].name \in GroupNames /\ slot'[y].array \in Arrays
       /\ \A k \in Slots :
             k # y /\ Held(k) /\ slot[k].name = slot'[y].name =>
                ~slot[k].active /\ (slot'[y].active => y < k)
  BY <1>3, <1>4, <1>7
<1>14. \A h \in GroupNames, c \in Channels, m \in Slots, j \in Entries :
          crashes = 0 /\ since[<<h, c>>] >= 0 /\ Home(h, c, m, j) =>
             /\ m # y /\ (slot[y].len # 0 => slot'[y].len # 0)
             /\ slot'[y].name = h => slot[y].name = h
  BY <1>4, <1>5, <1>7
<1> QED BY <1>7, <1>9, <1>10, <1>11, <1>12, <1>13, <1>14, HandStep

LEMMA WriteStep ==
    ASSUME IInv, NEW p \in Procs, Write(p)
    PROVE  IInv'
BY WriteOddStep, WritePutStep, WriteEvenStep DEF Write

\* The flush's steps on a slot.
LEMMA Flusher ==
    ASSUME IInv, NEW p \in Procs, pc[p] \in {"f", "f_even"}, NEW y \in Slots,
           y = loc[p].i
    PROVE  /\ Types /\ Flushes(p) /\ changing = TRUE
           /\ \A q \in Procs : ~calm[q]
           /\ \A x \in GroupNames \X Channels : since[x] < 0
           /\ \A j \in Slots : j < y => Empty(j)
           /\ crashes = 0 => ~Odd(y)
           /\ loc[p].k \in 0 .. 4 /\ (pc[p] = "f_even" => loc[p].k = 0)
           /\ pc[p] # "f" \/ loc[p].k > 0 => slot[y].len = 0
           /\ pc[p] # "f" \/ loc[p].k > 2 => slot[y].array = None
<1>1. pc[p] \in Flushing /\ pc[p] \in Working /\ pc[p] \in Changing
  BY DEF Flushing, Working, Changing
<1>2. Types /\ Desk /\ Index /\ Flushes(p) /\ Local(p)
  BY DEF IInv, Work, Desk
<1>3. flock = p /\ p # None
  BY <1>1, <1>2, GroupsAssumption DEF Desk
<1>4. changing = TRUE
  BY <1>1, <1>2, <1>3 DEF Desk, Types
<1>5. \A q \in Procs : ~calm[q]
  BY <1>2, <1>4 DEF Desk
<1>6. crashes = 0 => ~Odd(y)
  <2>1. ~HolderAt(y, Bumped \cup {"w", "w_even"})
    <3>1. pc[p] \notin Bumped \cup {"w", "w_even"}
      BY DEF Bumped
    <3> QED BY <1>3, <3>1 DEF HolderAt, At
  <2> QED BY <1>2, <2>1 DEF Index
<1>7. loc[p].k \in 0 .. 4 /\ (pc[p] = "f_even" => loc[p].k = 0)
  BY <1>2, LocOf DEF Local
<1> QED BY <1>1, <1>2, <1>4, <1>5, <1>6, <1>7 DEF Flushes, S

LEMMA FlushPutStep ==
    ASSUME IInv, NEW p \in Procs, Clear(p, "f", "f_even")
    PROVE  IInv'
<1>1. pc[p] = "f" /\ "f" \in Handing /\ "f" \notin Adding
      /\ "f_even" \in Handed /\ "f_even" \notin Adding /\ "f_even" \in Labels
      /\ "f" \in Handed /\ "f" \in Labels
      /\ "f" \in Changing /\ "f_even" \in Changing
  BY HandLabels DEF Clear, Put, Step, Handing, Handed, Adding, Repairing,
        Writing, Joining, Counted, Changing, Flushing
<1>2. PICK y \in Slots : y = loc[p].i
  BY LocOf DEF IInv
<1>3. PICK k \in 0 .. 4 : k = loc[p].k
  BY <1>1, <1>2, Flusher
<1>4. /\ Types /\ changing = TRUE /\ \A q \in Procs : ~calm[q]
      /\ \A x \in GroupNames \X Channels : since[x] < 0
      /\ \A j \in Slots : j < y => Empty(j)
      /\ crashes = 0 => ~Odd(y)
      /\ k > 0 => slot[y].len = 0
      /\ k > 2 => slot[y].array = None
  BY <1>1, <1>2, <1>3, Flusher
<1>5. PICK new \in SlotType :
          /\ new = [Unused EXCEPT !.name = S(p).name]
          /\ new.len = 0 /\ new.name = S(p).name /\ new.array = None
          /\ new.count = 0 /\ new.active = FALSE
  <2>1. S(p) \in SlotType
    BY <1>2, <1>4, SlotOf DEF S
  <2> QED BY <2>1, ClearedSlot
<1>6. PutEffect(p, "f", new, "f_even", y)
  <2>1. Put(p, "f", new, "f_even")
    BY <1>5 DEF Clear
  <2> QED BY <1>1, <1>2, <1>4, <1>5, <2>1, PutShape
<1>7. /\ loc'[p].i = y /\ loc'[p].k = IF k < 4 THEN k + 1 ELSE 0
      /\ pc'[p] = IF k < 4 THEN "f" ELSE "f_even"
      /\ slot'[y].ver = slot[y].ver
      /\ slot'[y].len = IF k = 0 THEN 0 ELSE slot[y].len
      /\ slot'[y].array = IF k = 2 THEN None ELSE slot[y].array
      /\ slot'[y].count = IF k = 3 THEN 0 ELSE slot[y].count
  BY <1>2, <1>3, <1>4, <1>5, <1>6, LocOf DEF LocType, PutEffect
<1>8. /\ Others(p) /\ Types' /\ \A i \in Slots : i # y => slot'[i] = slot[i]
      /\ UNCHANGED <<mem, free, flock, now, calls, since, must, may, changing,
                     calm, crashes>>
  BY <1>6 DEF PutEffect
<1>9. slot'[y].len = 0 /\ pc'[p] \in {"f", "f_even"}
      /\ (Odd(y)' <=> Odd(y))
  BY <1>4, <1>7 DEF Odd
<1>10. Hands(p, y)
  <2>1. slot[y].count \in Nat
    BY <1>4, SlotOf
  <2>2. slot'[y].count <= slot[y].count
        /\ slot'[y].array \in {slot[y].array, None}
    BY <1>7, <2>1
  <2>3. \A q \in Procs : ~calm'[q]
    BY <1>4, <1>8
  <2>4. changing' <=> pc'[p] \in Changing
    BY <1>1, <1>4, <1>8, <1>9
  <2>5. pc'[p] \in Handed /\ (pc'[p] \in Adding <=> pc[p] \in Adding)
    BY <1>1, <1>9
  <2> QED BY <1>1, <1>2, <1>4, <1>7, <1>8, <1>9, <2>2, <2>3, <2>4, <2>5
         DEF Hands
<1>11. ~Held(y)'
  BY <1>9, <1>10, HandHolder
<1>12. Local(p)'
  BY <1>3, <1>7, <1>9
     DEF Local, Lookups, Getting, Listing, Adding, Repairing, Writing, Joining,
         Counted, Discarding, Leaving
<1>13. Work(p)'
  <2>1. Flushes(p)'
    <3>1. S(p)' = slot'[y]
      BY <1>7 DEF S
    <3>2. \A j \in Slots : j < y => Empty(j)'
      <4>1. \A j \in Slots : j < y => j # y
        BY DEF Slots
      <4> QED BY <1>4, <1>8, <4>1 DEF Empty
    <3>3. pc'[p] # "f" \/ loc'[p].k > 2 => slot'[y].array = None
      BY <1>3, <1>4, <1>7
    <3>4. \A x \in GroupNames \X Channels : since'[x] < 0
      BY <1>4, <1>8
    <3> QED BY <1>7, <1>9, <3>1, <3>2, <3>3, <3>4 DEF Flushes
  <2> QED BY <1>9, <2>1 DEF Work, Repairs, Creates, Joins, Leaves, Repairing,
             Writing, Joining, Counted, Adding, Leaving, Discarding
<1>14. \A h \in GroupNames, c \in Channels, m \in Slots, j \in Entries :
          crashes = 0 /\ since[<<h, c>>] >= 0 /\ Home(h, c, m, j) =>
             /\ m # y /\ (slot[y].len # 0 => slot'[y].len # 0)
             /\ slot'[y].name = h => slot[y].name = h
  <2>1. \A h \in GroupNames, c \in Channels : since[<<h, c>>] < 0
    BY <1>4
  <2>2. ASSUME NEW h \in GroupNames, NEW c \in Channels
        PROVE  ~(since[<<h, c>>] >= 0)
    <3>1. since[<<h, c>>] < 0 /\ since[<<h, c>>] \in Int
      BY <1>4, <2>1, SinceOf
    <3> QED BY <3>1
  <2> QED BY <2>2
<1> QED BY <1>8, <1>10, <1>11, <1>12, <1>13, <1>14, HandStep

LEMMA FlushEvenStep ==
    ASSUME IInv, NEW p \in Procs,
           Store(p, "f_even", [S(p) EXCEPT !.ver = 0], "f_next"),
           UNCHANGED truth
    PROVE  IInv'
<1>1. pc[p] = "f_even" /\ "f_even" \in Handing /\ "f_even" \notin Adding
      /\ "f_next" \in Handed /\ "f_next" \notin Adding /\ "f_next" \in Labels
      /\ "f_next" \in Changing
  BY HandLabels DEF Store, WriteSlot, Step, Handing, Handed, Adding,
        Repairing, Writing, Joining, Counted, Changing, Flushing
<1>2. PICK y \in Slots : y = loc[p].i
  BY LocOf DEF IInv
<1>3. /\ Types /\ changing = TRUE /\ \A q \in Procs : ~calm[q]
      /\ \A x \in GroupNames \X Channels : since[x] < 0
      /\ \A j \in Slots : j < y => Empty(j)
      /\ loc[p].k = 0 /\ slot[y].len = 0 /\ slot[y].array = None
  BY <1>1, <1>2, Flusher
<1>4. PICK new \in SlotType :
          /\ new = [S(p) EXCEPT !.ver = 0] /\ new.ver = 0 /\ new.len = 0
          /\ new.array = None /\ new.count = slot[y].count
  <2>1. S(p) = slot[y] /\ slot[y] \in SlotType
    BY <1>2, <1>3, SlotOf DEF S
  <2>2. [slot[y] EXCEPT !.ver = 0] \in SlotType
    BY <2>1, SlotSet
  <2> QED BY <1>3, <2>1, <2>2 DEF SlotType
<1>5. /\ pc'[p] = "f_next" /\ Others(p) /\ loc' = loc
      /\ slot'[y] = new
      /\ \A i \in Slots : i # y => slot'[i] = slot[i]
      /\ UNCHANGED <<mem, free, flock, now, calls, since, must, may, changing,
                     calm, crashes>>
      /\ Types'
  <2>1. UNCHANGED <<since, must, may>>
    BY DEF truth
  <2>2. Truths'
    BY <1>3, <2>1 DEF Types, Truths
  <2>3. Store(p, "f_even", new, "f_next")
    BY <1>4
  <2>4. /\ pc'[p] = "f_next" /\ Others(p) /\ loc' = loc
        /\ slot'[loc[p].i] = new
        /\ \A i \in Slots : i # loc[p].i => slot'[i] = slot[i]
        /\ UNCHANGED <<mem, free, flock, now, calls, changing, calm, crashes>>
        /\ Types'
    <3>1. PICK at, next : at = "f_even" /\ next = "f_next"
      OBVIOUS
    <3>2. Store(p, at, new, next) /\ next \in Labels
      BY <1>1, <2>3, <3>1
    <3>3. /\ pc'[p] = next /\ Others(p) /\ loc' = loc
          /\ slot'[loc[p].i] = new
          /\ \A i \in Slots : i # loc[p].i => slot'[i] = slot[i]
          /\ UNCHANGED <<mem, free, flock, now, calls, changing, calm,
                         crashes>>
          /\ Types'
      <4>1. Types /\ Truths'
        BY <1>3, <2>2
      <4> QED BY <3>2, <4>1, StoreShape
    <3> QED BY <3>1, <3>3
  <2> QED BY <1>2, <2>1, <2>4
<1>6. slot'[y].len = 0 /\ slot'[y].ver = 0 /\ slot'[y].array = None /\ ~Odd(y)'
      /\ slot'[y].count = slot[y].count
  BY <1>4, <1>5 DEF Odd
<1>7. Hands(p, y)
  <2>1. slot[y].count \in Nat
    BY <1>3, SlotOf
  <2>2. slot'[y].count <= slot[y].count
        /\ slot'[y].array \in {slot[y].array, None}
    BY <1>6, <2>1
  <2>3. \A q \in Procs : ~calm'[q]
    BY <1>3, <1>5
  <2>4. changing' <=> pc'[p] \in Changing
    BY <1>1, <1>3, <1>5
  <2>5. pc'[p] \in Handed /\ (pc'[p] \in Adding <=> pc[p] \in Adding)
    BY <1>1, <1>5
  <2> QED BY <1>1, <1>2, <1>5, <1>6, <2>2, <2>3, <2>4, <2>5 DEF Hands
<1>8. ~Held(y)'
  BY <1>6, <1>7, HandHolder
<1>9. Local(p)'
  BY <1>3, <1>5
     DEF Local, Lookups, Getting, Listing, Adding, Repairing, Writing, Joining,
         Counted, Discarding, Leaving
<1>10. Work(p)'
  <2>1. Flushes(p)'
    <3>1. S(p)' = slot'[y]
      BY <1>2, <1>5 DEF S
    <3>2. \A j \in Slots : j < y => Empty(j)'
      <4>1. \A j \in Slots : j < y => j # y
        BY DEF Slots
      <4> QED BY <1>3, <1>5, <4>1 DEF Empty
    <3>3. \A x \in GroupNames \X Channels : since'[x] < 0
      BY <1>3, <1>5
    <3> QED BY <1>2, <1>5, <1>6, <3>1, <3>2, <3>3 DEF Flushes
  <2> QED BY <1>5, <2>1 DEF Work, Repairs, Creates, Joins, Leaves, Repairing,
             Writing, Joining, Counted, Adding, Leaving, Discarding
<1>11. \A h \in GroupNames, c \in Channels, m \in Slots, j \in Entries :
          crashes = 0 /\ since[<<h, c>>] >= 0 /\ Home(h, c, m, j) =>
             /\ m # y /\ (slot[y].len # 0 => slot'[y].len # 0)
             /\ slot'[y].name = h => slot[y].name = h
  <2>1. \A h \in GroupNames, c \in Channels : since[<<h, c>>] < 0
    BY <1>3
  <2>2. ASSUME NEW h \in GroupNames, NEW c \in Channels
        PROVE  ~(since[<<h, c>>] >= 0)
    <3>1. since[<<h, c>>] < 0 /\ since[<<h, c>>] \in Int
      BY <1>3, <2>1, SinceOf
    <3> QED BY <3>1
  <2> QED BY <2>2
<1> QED BY <1>5, <1>7, <1>8, <1>9, <1>10, <1>11, HandStep

LEMMA FlushSlotStep ==
    ASSUME IInv, NEW p \in Procs, FlushSlot(p)
    PROVE  IInv'
BY FlushPutStep, FlushEvenStep, FlushNextStep DEF FlushSlot

-----------------------------------------------------------------------------
(* A creation allocates its array, a flush frees them all.                  *)

AllocEffect(p, a, y) ==
    /\ pc[p] = "a_scan" /\ pc'[p] = "w_odd" /\ Others(p) /\ Types'
    /\ loc'[p].i = y /\ loc'[p].group = loc[p].group
    /\ loc'[p].chan = loc[p].chan /\ loc'[p].k = loc[p].k
    /\ loc'[p].slot.len = 1 /\ loc'[p].slot.name = loc[p].group
    /\ loc'[p].slot.array = a /\ loc'[p].slot.count = 0
    /\ loc'[p].slot.active
    /\ \A b \in Arrays : b # a => mem'[b] = mem[b]
    /\ \A j \in Entries : /\ mem'[a][j].active = FALSE
                          /\ mem'[a][j].time = 0
                          /\ mem'[a][j].first = mem[a][j].first
    /\ free' = free \ {a}
    /\ UNCHANGED <<slot, flock, now, calls, since, must, may, changing, calm,
                   crashes>>

LEMMA AllocShape ==
    ASSUME Types, NEW p \in Procs, Alloc(p), loc[p].group \in GroupNames
    PROVE  \E a \in free, y \in Slots :
              /\ AllocEffect(p, a, y) /\ y \in Inactive /\ Stops(p) = {}
              /\ \A k \in Inactive : y <= k
<1>1. /\ Step(p, "a_scan", "w_odd") /\ Stops(p) = {} /\ Inactive # {}
      /\ UNCHANGED <<slot, flock, now, calls, since, must, may, changing,
                     calm, crashes>>
  BY DEF Alloc, count, truth, ghost
<1>2. PICK a \in free :
          /\ free' = free \ {a}
          /\ mem' = [mem EXCEPT ![a] = [j \in Entries |->
                        [@[j] EXCEPT !.active = FALSE, !.time = 0]]]
          /\ loc' = [loc EXCEPT ![p].i = First(Inactive),
                                ![p].slot = [ver |-> 2, len |-> 1,
                                    name |-> loc[p].group, array |-> a,
                                    count |-> 0, active |-> TRUE]]
  BY DEF Alloc
<1>3. PICK y \in Slots :
          y = First(Inactive) /\ y \in Inactive /\ \A k \in Inactive : y <= k
  <2>1. Inactive \in SUBSET Slots
    BY DEF Inactive
  <2> QED BY <1>1, <2>1, FirstSlot
<1>4. a \in Arrays
  BY DEF Types
<1>5. PICK s : s = [ver |-> 2, len |-> 1, name |-> loc[p].group, array |-> a,
                    count |-> 0, active |-> TRUE]
  OBVIOUS
<1>6. /\ s \in SlotType /\ s.len = 1 /\ s.name = loc[p].group /\ s.array = a
      /\ s.count = 0 /\ s.active
  BY <1>4, <1>5 DEF SlotType
<1>7. /\ loc'[p] \in LocType /\ loc'[p].i = y /\ loc'[p].slot = s
      /\ loc'[p].group = loc[p].group /\ loc'[p].chan = loc[p].chan
      /\ loc'[p].k = loc[p].k
      /\ loc' \in [Procs -> LocType]
      /\ \A q \in Procs \ {p} : loc'[q] = loc[q]
  <2>1. PICK new : new = [[loc[p] EXCEPT !.i = y] EXCEPT !.slot = s]
    OBVIOUS
  <2>2. loc[p] \in LocType
    BY LocOf
  <2>3. /\ new \in LocType /\ new.i = y /\ new.slot = s
        /\ new.group = loc[p].group /\ new.chan = loc[p].chan
        /\ new.k = loc[p].k
    BY <1>6, <2>1, <2>2 DEF LocType
  <2>4. loc' = [loc EXCEPT ![p] = new]
    BY <1>2, <1>3, <1>5, <2>1 DEF Types
  <2> QED BY <2>3, <2>4, Moved
<1>8. /\ \A b \in Arrays : b # a => mem'[b] = mem[b]
      /\ \A j \in Entries : /\ mem'[a][j].active = FALSE
                            /\ mem'[a][j].time = 0
                            /\ mem'[a][j].first = mem[a][j].first
      /\ mem' \in [Arrays -> [Entries -> EntryType]]
  <2>1. \A b \in Arrays : b # a => mem'[b] = mem[b]
    BY <1>2, <1>4 DEF Types
  <2>2. mem'[a] = [j \in Entries |->
                      [mem[a][j] EXCEPT !.active = FALSE, !.time = 0]]
    BY <1>2, <1>4 DEF Types
  <2>3. ASSUME NEW j \in Entries
        PROVE  /\ mem'[a][j] \in EntryType /\ mem'[a][j].active = FALSE
               /\ mem'[a][j].time = 0
               /\ mem'[a][j].first = mem[a][j].first
    <3>1. mem'[a][j] = [mem[a][j] EXCEPT !.active = FALSE, !.time = 0]
      BY <2>2
    <3>2. mem[a][j] \in EntryType /\ 0 \in 0 .. MaxTime
      BY <1>4, EntryOf, GroupsAssumption
    <3> QED BY <3>1, <3>2 DEF EntryType
  <2>4. mem'[a] \in [Entries -> EntryType]
    BY <2>2, <2>3
  <2>5. mem' \in [Arrays -> [Entries -> EntryType]]
    <3> DEFINE f == [j \in Entries |->
                        [mem[a][j] EXCEPT !.active = FALSE, !.time = 0]]
    <3>1. mem' = [mem EXCEPT ![a] = f] /\ f \in [Entries -> EntryType]
      BY <1>2, <1>4, <2>2, <2>4 DEF Types
    <3> HIDE DEF f
    <3> QED BY <3>1 DEF Types
  <2> QED BY <2>1, <2>3, <2>5
<1>9. /\ pc[p] = "a_scan" /\ pc'[p] = "w_odd" /\ pc' \in [Procs -> Labels]
      /\ \A q \in Procs \ {p} : pc'[q] = pc[q]
  BY <1>1, Stepped DEF Labels, Working, Adding, Writing
<1>10. Types'
  BY <1>1, <1>2, <1>7, <1>8, <1>9 DEF Types, Truths
<1>11. AllocEffect(p, a, y)
  BY <1>1, <1>2, <1>6, <1>7, <1>8, <1>9, <1>10 DEF AllocEffect, Others
<1> QED BY <1>1, <1>3, <1>11

LEMMA AllocStep ==
    ASSUME IInv, NEW p \in Procs, Alloc(p)
    PROVE  IInv'
<1>1. pc[p] = "a_scan"
  BY DEF Alloc, Step
<1>2. /\ "a_scan" \in Adding /\ "w_odd" \in Adding /\ "a_scan" \in Working
      /\ "w_odd" \in Working /\ "a_scan" \notin Getting
      /\ "w_odd" \notin Getting /\ "a_scan" \notin Bumped
      /\ "w_odd" \notin Bumped /\ "a_scan" \in Unbumped
      /\ "w_odd" \in Unbumped /\ "w_odd" \notin Changing
      /\ "a_scan" \notin Changing
  BY DEF Adding, Working, Writing, Getting, Lookups, Listing, Bumped,
         Unbumped, Changing, Flushing
<1>3. /\ Types /\ Desk /\ Index /\ Rolls /\ flock = p
      /\ loc[p].group \in GroupNames /\ loc[p].chan \in Channels
      /\ loc[p].k = 0 /\ since[<<loc[p].group, loc[p].chan>>] # Out
  BY <1>1, <1>2 DEF IInv, Desk, Local, Work, Joins
<1>4. PICK a \in free, y \in Slots :
          /\ AllocEffect(p, a, y) /\ y \in Inactive /\ Stops(p) = {}
          /\ \A k \in Inactive : y <= k
  BY <1>3, AllocShape
<1>5. /\ pc'[p] = "w_odd" /\ Others(p) /\ Types'
      /\ loc'[p].i = y /\ loc'[p].group = loc[p].group
      /\ loc'[p].chan = loc[p].chan /\ loc'[p].k = 0
      /\ loc'[p].slot.len = 1 /\ loc'[p].slot.name = loc[p].group
      /\ loc'[p].slot.array = a /\ loc'[p].slot.count = 0
      /\ loc'[p].slot.active
      /\ \A b \in Arrays : b # a => mem'[b] = mem[b]
      /\ \A j \in Entries : /\ mem'[a][j].active = FALSE
                            /\ mem'[a][j].time = 0
                            /\ mem'[a][j].first = mem[a][j].first
      /\ free' = free \ {a}
      /\ UNCHANGED <<slot, flock, now, calls, since, must, may, changing,
                     calm, crashes>>
  BY <1>3, <1>4 DEF AllocEffect
<1>6. a \in Arrays /\ \A k \in Slots : slot[k].array # a
  BY <1>3, GroupsAssumption DEF Types, Index, Pointer
<1>7. \A k \in Slots :
         /\ ~Odd(k) /\ ~Hit(k, loc[p].group)
         /\ ~slot[k].active => y <= k
  BY <1>4 DEF Stops, Inactive
<1>8. /\ \A i, L : HolderAt(i, L) <=> pc[p] \in L /\ loc[p].i = i
      /\ \A i, L : HolderAt(i, L)' <=> pc'[p] \in L /\ loc'[p].i = i
  BY <1>3, <1>5, Holder, HolderNext
<1>9. \A i \in Slots : (Held(i)' <=> Held(i)) /\ (Odd(i)' <=> Odd(i))
  <2>1. \A i \in Slots : ~HolderAt(i, Bumped) /\ ~HolderAt(i, Bumped)'
    BY <1>1, <1>2, <1>5, <1>8
  <2> QED BY <1>5, <2>1 DEF Held, Odd
<1>10. ASSUME NEW i \in Slots, Held(i)
       PROVE  /\ In(slot[i].array)' = In(slot[i].array)
              /\ \A j \in Entries : Entry(i, j)' = Entry(i, j)
  <2>1. slot[i].array \in Arrays /\ slot[i].array # a
    BY <1>3, <1>6, <1>10 DEF Index, Pointer
  <2> QED BY <1>5, <2>1 DEF In, Entry
<1>11. Local(p)'
  BY <1>3, <1>5 DEF Local, Lookups, Getting, Listing
<1>12. Desk'
  <2>1. changing' <=> pc'[p] \in Changing
    BY <1>1, <1>2, <1>3, <1>5, GroupsAssumption DEF Desk
  <2>2. \A q \in Procs : calm'[q] => ~changing'
    BY <1>3, <1>5 DEF Desk
  <2>3. flock' = flock /\ (pc'[p] \in Working <=> pc[p] \in Working)
        /\ pc[p] \in Working
    BY <1>1, <1>2, <1>5
  <2> QED BY <1>3, <1>5, <1>11, <2>1, <2>2, <2>3, DeskKept
<1>13. Index'
  <2>1. \A i \in Slots : Pointer(i)'
    BY <1>3, <1>5, <1>9 DEF Index, Pointer
  <2>2. \A i, k \in Slots : i # k => Apart(i, k)'
    BY <1>3, <1>5, <1>9 DEF Index, Apart
  <2> QED BY <1>7, <1>9, <2>1, <2>2 DEF Index
<1>14. Steady
  <2> SUFFICES ASSUME crashes' = 0, NEW g \in GroupNames, NEW c \in Channels,
                      NEW k \in Slots, NEW j \in Entries,
                      since[<<g, c>>] >= 0, since'[<<g, c>>] >= 0,
                      Home(g, c, k, j)
               PROVE  /\ Home(g, c, k, j)' /\ slot'[k].array = slot[k].array
                      /\ since[<<g, c>>] <= since'[<<g, c>>]
                      /\ \A i \in Slots :
                            /\ slot[i].len # 0 => slot'[i].len # 0
                            /\ i # k /\ slot'[i].name = g => slot[i].name = g
    BY DEF Steady
  <2>1. since'[<<g, c>>] = since[<<g, c>>] /\ since[<<g, c>>] \in Int
    BY <1>3, <1>5, SinceOf
  <2>2. Held(k)
    BY DEF Home
  <2>3. Home(g, c, k, j)'
    BY <1>5, <1>9, <1>10, <2>1, <2>2 DEF Home
  <2> QED BY <1>5, <2>1, <2>3
<1>15. Rolls'
  <2>1. ASSUME NEW i \in Slots, Held(i)' PROVE Listed(i)' /\ Covered(i)'
    <3>1. Held(i) /\ Listed(i) /\ Covered(i)
      BY <1>3, <1>9, <2>1 DEF Rolls
    <3>2. /\ In(slot[i].array)' = In(slot[i].array)
          /\ \A j \in Entries : Entry(i, j)' = Entry(i, j)
          /\ \A j \in In(slot[i].array) : j \in Entries
      BY <1>10, <3>1 DEF In
    <3>3. slot' = slot /\ since' = since
      BY <1>5
    <3>4. Listed(i)'
      BY <3>1, <3>2, <3>3 DEF Listed
    <3>5. Excess(i) <= Excess(i)'
      <4>1. crashes <= crashes'
        BY <1>3, <1>5 DEF Types
      <4>2. ~HolderAt(i, {"e_odd", "e_count"})
            /\ ~HolderAt(i, {"d_odd", "d_count"})'
        BY <1>1, <1>5, <1>8
      <4> QED BY <1>3, <1>5, <3>3, <4>1, <4>2, ExcessKept
    <3> QED BY <1>3, <1>5, <3>1, <3>2, <3>4, <3>5, CoveredNext
  <2>2. ASSUME NEW b \in Arrays, NEW j \in Entries
        PROVE  mem'[b][j].time <= now'
    <3>1. now' = now /\ now \in Nat /\ mem[b][j].time <= now
      BY <1>3, <1>5, Bounds DEF Rolls
    <3> QED BY <1>5, <3>1
  <2>3. crashes <= crashes' /\ crashes' \in Nat
    BY <1>3, <1>5 DEF Types
  <2>4. \A g \in GroupNames, c \in Channels :
            since'[<<g, c>>] = since[<<g, c>>]
    BY <1>5
  <2> QED BY <1>3, <1>14, <2>1, <2>2, <2>3, <2>4, RollsKept
<1>16. \A i \in Slots : Budget(i)'
  <2>1. Due = 2 /\ Due' = 2
    BY <1>1, <1>2, <1>3, <1>5, DueOf, DueNext
  <2>2. \A i \in Slots : slot[i].ver \in Nat /\ slot[i].count \in Nat
    BY <1>3, SlotOf
  <2>3. pc[flock] \in Adding \ {"e_even"} /\ flock # None /\ slot' = slot
        /\ calls' = calls
    BY <1>1, <1>2, <1>3, <1>5, GroupsAssumption
  <2>4. \A i \in Slots : Budget(i)
    BY DEF IInv
  <2> QED BY <1>3, <1>5, <2>1, <2>2, <2>3, <2>4, BudgetKept
<1>17. Creates(p)'
  <2>1. /\ Fresh(p)' = a /\ S(p)' = slot[y]
    <3>1. Fresh(p)' = loc'[p].slot.array /\ S(p)' = slot'[loc'[p].i]
      BY DEF Fresh, S
    <3> QED BY <1>5, <3>1
  <2>2. a \in Arrays \ free' /\ In(a)' = {}
    BY <1>5, <1>6 DEF In
  <2>3. \A k \in Slots : k # y =>
           /\ ~Odd(k)' /\ ~Hit(k, loc[p].group)' /\ slot'[k].array # a
           /\ ~slot'[k].active => y < k
    <3>1. \A k \in Slots : Hit(k, loc[p].group)' <=> Hit(k, loc[p].group)
      BY <1>5, <1>9 DEF Hit
    <3>2. \A k \in Slots : k # y /\ y <= k => y < k
      BY DEF Slots
    <3> QED BY <1>5, <1>6, <1>7, <1>9, <3>1, <3>2
  <2>4. ~Odd(y)' /\ ~slot[y].active /\ slot[y].array # a
    BY <1>4, <1>6, <1>7, <1>9 DEF Inactive
  <2> QED BY <1>5, <2>1, <2>2, <2>3, <2>4 DEF Creates
<1>18. Work(p)'
  <2>1. Joins(p)'
    <3>1. pc'[p] \notin Joining
      BY <1>5 DEF Joining, Counted
    <3>2. since'[<<loc'[p].group, loc'[p].chan>>] # Out
      BY <1>3, <1>5
    <3> QED BY <3>1, <3>2 DEF Joins, Joining
  <2>2. /\ pc'[p] \notin Repairing /\ pc'[p] \notin Discarding
        /\ pc'[p] \notin Flushing /\ pc'[p] \notin Leaving
        /\ pc'[p] # "d_entry" /\ pc'[p] # "r" /\ pc'[p] # "r_even"
    BY <1>5 DEF Repairing, Discarding, Leaving, Flushing
  <2> QED BY <1>17, <2>1, <2>2 DEF Work, Repairs, Leaves, Flushes
<1>19. Tells
  BY <1>5, TellsSame
<1>20. Gentle
  <2>1. \A b \in Arrays, j \in Entries :
            /\ mem'[b][j].active => mem[b][j].active
            /\ mem'[b][j].first = mem[b][j].first
    BY <1>5
  <2> QED BY <1>5, <2>1 DEF Gentle
<1>21. crashes <= crashes' /\ flock' \in {p, None}
       /\ pc[p] \notin Getting /\ pc'[p] \notin Getting
  BY <1>1, <1>2, <1>3, <1>5 DEF Types
<1> QED BY <1>5, <1>12, <1>13, <1>14, <1>15, <1>16, <1>18, <1>19, <1>20,
           <1>21, Assemble

LEMMA FlushSlabStep ==
    ASSUME IInv, NEW p \in Procs, FlushSlab(p)
    PROVE  IInv'
<1> DEFINE new == [x \in DOMAIN since |-> Out]
<1>1. /\ pc[p] = "f_next" /\ loc[p].i = NumSlots
      /\ Step(p, "f_next", "return") /\ free' = Arrays /\ Turn /\ Know(new)
      /\ UNCHANGED <<slot, mem, flock, now, loc, calls, crashes>>
  BY DEF FlushSlab, Step, count
<1>2. /\ "f_next" \in Working /\ "return" \in Working /\ "f_next" \in Flushing
      /\ "f_next" \notin Getting /\ "return" \notin Getting
      /\ "f_next" \in Changing /\ "return" \notin Changing
      /\ "f_next" \notin Bumped \cup {"w", "w_even"} /\ "return" \notin Bumped
      /\ "f_next" \notin Unbumped /\ "return" \notin Unbumped
      /\ "return" \in Labels /\ "return" \notin Adding
  BY DEF Working, Flushing, Getting, Lookups, Listing, Changing, Bumped,
         Unbumped, Labels, Adding, Repairing, Writing, Joining, Counted
<1>3. /\ Types /\ Desk /\ Index /\ Rolls /\ Flushes(p) /\ flock = p
      /\ loc[p].k = 0 /\ p # None /\ \A i \in Slots : Budget(i)
  BY <1>1, <1>2, GroupsAssumption DEF IInv, Desk, Local, Work
<1>4. new \in [GroupNames \X Channels -> Out .. MaxTime]
  BY <1>3, SinceOf DEF Types, Truths
<1>5. /\ \A g \in GroupNames, c \in Channels : new[<<g, c>>] = Out
      /\ \A g \in GroupNames, c \in Channels : ~(new[<<g, c>>] >= 0)
  BY <1>3 DEF Types, Truths, Out
<1> HIDE DEF new
<1>6. since' = new /\ Truths' /\ Tells
  BY <1>1, <1>3, <1>4, Known, TellsKnown
<1>7. /\ pc'[p] = "return" /\ \A q \in Procs \ {p} : pc'[q] = pc[q]
      /\ pc' \in [Procs -> Labels]
  BY <1>1, <1>2, <1>3, Stepped
<1>8. /\ changing = TRUE /\ changing' = FALSE
      /\ calm' \in [Procs -> BOOLEAN] /\ \A q \in Procs : ~calm'[q]
  BY <1>1, <1>2, <1>3 DEF Turn, Desk, Types
<1>9. Types'
  BY <1>1, <1>3, <1>6, <1>7, <1>8 DEF Types
<1>10. Others(p)
  BY <1>1, <1>7 DEF Others
<1>11. \A i \in Slots : slot[i].len = 0 /\ slot[i].array = None
  <2>1. \A j \in Slots : j < NumSlots => Empty(j)
    BY <1>1, <1>2, <1>3 DEF Flushes
  <2>2. Empty(NumSlots)
    BY <1>1, <1>2, <1>3 DEF Flushes, Empty, S
  <2>3. \A j \in Slots : j < NumSlots \/ j = NumSlots
    BY GroupsAssumption DEF Slots
  <2> QED BY <2>1, <2>2, <2>3 DEF Empty
<1>12. \A i \in Slots : ~Held(i) /\ ~Held(i)'
  BY <1>1, <1>11 DEF Held
<1>13. Desk'
  <2>1. Local(p)'
    BY <1>1, <1>3, <1>7 DEF Local, Adding, Repairing, Writing, Joining,
       Counted, Discarding, Leaving, Getting, Lookups, Listing
  <2>2. /\ changing' <=> pc'[p] \in Changing
        /\ \A q \in Procs : calm'[q] => ~changing'
        /\ flock' = flock /\ (pc'[p] \in Working <=> pc[p] \in Working)
        /\ pc[p] \in Working
    BY <1>1, <1>2, <1>7, <1>8
  <2> QED BY <1>3, <1>10, <2>1, <2>2, DeskKept
<1>14. Index'
  <2>1. \A i \in Slots : Pointer(i)'
    BY <1>1, <1>11, <1>12 DEF Pointer
  <2>2. \A i, k \in Slots : i # k => Apart(i, k)'
    BY <1>1, <1>11, <1>12 DEF Apart
  <2>3. ASSUME crashes' = 0, NEW i \in Slots PROVE ~Odd(i)'
    <3>1. ~HolderAt(i, Bumped \cup {"w", "w_even"})
      BY <1>1, <1>2, <1>3, Holder
    <3> QED BY <1>1, <1>3, <2>3, <3>1 DEF Index, Odd
  <2> QED BY <2>1, <2>2, <2>3 DEF Index
<1>15. Rolls'
  BY <1>1, <1>3, <1>5, <1>6, <1>12 DEF Rolls
<1>16. Steady
  BY <1>5, <1>6 DEF Steady
<1>17. Gentle
  <2>1. \A a \in Arrays, j \in Entries :
            /\ mem'[a][j].active => mem[a][j].active
            /\ mem'[a][j].first = mem[a][j].first
    BY <1>1
  <2> QED BY <1>8, <2>1 DEF Gentle
<1>18. \A i \in Slots : Budget(i)'
  <2>1. Due = 0 /\ Due' = 0
    BY <1>1, <1>2, <1>3, <1>7, DueOf, DueNext
  <2>2. \A i \in Slots : slot[i].ver \in Nat /\ slot[i].count \in Nat
    BY <1>3, SlotOf
  <2>3. flock' = p /\ pc'[flock'] \notin Adding /\ slot' = slot
        /\ calls' = calls
    BY <1>1, <1>2, <1>3, <1>7
  <2> QED BY <1>3, <1>9, <2>1, <2>2, <2>3, BudgetKept
<1>19. Work(p)'
  BY <1>7 DEF Work, Repairs, Creates, Joins, Leaves, Flushes, Repairing,
     Writing, Joining, Counted, Adding, Leaving, Discarding, Flushing
<1>20. crashes <= crashes' /\ flock' \in {p, None}
       /\ pc[p] \notin Getting /\ pc'[p] \notin Getting
  BY <1>1, <1>2, <1>3, <1>7 DEF Types
<1> QED BY <1>6, <1>9, <1>10, <1>13, <1>14, <1>15, <1>16, <1>17, <1>18, <1>19,
           <1>20, Assemble

-----------------------------------------------------------------------------
(* The invariant.                                                           *)

LEMMA IInvInit ==
    ASSUME Init
    PROVE  IInv
<1>1. /\ 1 \in Slots /\ 1 \in Entries /\ 0 \in 0 .. MaxTime
      /\ 0 \in 0 .. MaxCalls
  BY GroupsAssumption DEF Slots, Entries
<1>2. /\ \A i \in Slots : slot[i] = Unused
      /\ \A a \in Arrays, j \in Entries : mem[a][j] = Vacant
      /\ \A p \in Procs : /\ pc[p] = "idle" /\ loc[p] = Idle
                          /\ must[p] = {} /\ may[p] = {} /\ calm[p] = FALSE
      /\ \A x \in GroupNames \X Channels : since[x] = Out
      /\ flock = None /\ now = 0 /\ calls = 0 /\ crashes = 0
      /\ changing = FALSE
  BY DEF Init
<1>3. Types
  <2>1. slot \in [Slots -> SlotType]
    BY UnusedType DEF Init
  <2>2. Vacant \in EntryType
    BY <1>1 DEF Vacant, EntryType
  <2>3. mem \in [Arrays -> [Entries -> EntryType]]
    BY <2>2 DEF Init
  <2>4. pc \in [Procs -> Labels] /\ loc \in [Procs -> LocType]
    BY IdleType DEF Init, Labels
  <2>5. since \in [GroupNames \X Channels -> Out .. MaxTime]
    BY GroupsAssumption DEF Init, Out
  <2>6. must \in [Procs -> SUBSET Channels]
          /\ may \in [Procs -> SUBSET Channels]
        /\ calm \in [Procs -> BOOLEAN] /\ free = Arrays
    BY DEF Init
  <2>7. Truths
    BY <2>5, <2>6 DEF Truths
  <2> QED BY <1>1, <1>2, <2>1, <2>3, <2>4, <2>6, <2>7 DEF Types
<1>4. /\ "idle" \notin Working /\ "idle" \notin Getting
      /\ "idle" \notin Checked /\ "idle" \notin Listing
      /\ "idle" \notin Lookups
  BY DEF Working, Adding, Repairing, Writing, Joining, Counted, Discarding,
         Leaving, Flushing, Getting, Lookups, Listing, Checked
<1>5. Desk
  <2>1. \A p \in Procs : Local(p)
    BY <1>2 DEF Local, Idle, Adding, Repairing, Writing, Joining, Counted,
       Discarding, Leaving, Getting, Lookups, Listing
  <2> QED BY <1>2, <1>4, <2>1, GroupsAssumption DEF Desk
<1>6. \A i \in Slots : /\ slot[i].ver = 0 /\ slot[i].len = 0
                       /\ slot[i].array = None /\ slot[i].count = 0
                       /\ ~Odd(i) /\ ~Held(i)
  BY <1>2 DEF Unused, Odd, Held
<1>7. Index
  BY <1>6 DEF Index, Pointer, Apart
<1>8. Rolls
  <2>1. \A g \in GroupNames, c \in Channels : ~(since[<<g, c>>] >= 0)
    BY <1>2 DEF Out
  <2>2. \A a \in Arrays, j \in Entries : mem[a][j].time <= now
    BY <1>2 DEF Vacant
  <2> QED BY <1>6, <2>1, <2>2 DEF Rolls
<1>9. \A i \in Slots : Budget(i)
  <2>1. Due = 0
    BY <1>2 DEF Due
  <2> QED BY <1>2, <1>6, <2>1 DEF Budget
<1>10. ASSUME NEW p \in Procs PROVE Work(p) /\ Ghosts(p) /\ Reading(p)
  <2>1. Work(p)
    BY <1>2, <1>4, NotWorking DEF Work, Repairs, Creates, Joins, Leaves,
       Flushes,
       Repairing, Writing
  <2>2. Ghosts(p) /\ Reading(p)
    BY <1>2, <1>4 DEF Ghosts, Reading
  <2> QED BY <2>1, <2>2
<1> QED BY <1>3, <1>5, <1>7, <1>8, <1>9, <1>10 DEF IInv

LEMMA AddKept ==
    ASSUME IInv, NEW p \in Procs, AddStep(p)
    PROVE  IInv'
BY ScanStep, RepairStep, AllocStep, WriteStep, NoGroupStep, NowStep, SweepStep,
   RefreshStep, GroupFullStep, FillStep, BumpsStep, CountUpStep, JoinedStep
   DEF AddStep

LEMMA DiscardKept ==
    ASSUME IInv, NEW p \in Procs, DiscardStep(p)
    PROVE  IInv'
BY DiscardSlotStep, NotInStep, RemoveStep, BumpsStep, CountDownStep,
   DeactivateStep DEF DiscardStep

LEMMA IInvStep ==
    ASSUME IInv, [Next]_vars
    PROVE  IInv'
<1>1. CASE Tick
  BY <1>1, TickStep
<1>2. CASE UNCHANGED vars
  BY <1>2, StutterStep
<1>3. ASSUME NEW p \in Procs, NEW g \in GroupNames, GetMembers(p, g)
      PROVE  IInv'
  BY <1>3, GetMembersStep
<1>4. ASSUME NEW p \in Procs, NEW g \in GroupNames, NEW c \in Channels,
             Add(p, g, c) \/ Discard(p, g, c)
      PROVE  IInv'
  BY <1>4, AddBegins, DiscardBegins
<1>5. ASSUME NEW p \in Procs, AddStep(p) \/ DiscardStep(p) \/ GetStep(p)
      PROVE  IInv'
  BY <1>5, AddKept, DiscardKept, GetStepKept
<1>6. ASSUME NEW p \in Procs, FlushBegin(p) \/ FlushSlot(p) \/ FlushSlab(p)
      PROVE  IInv'
  BY <1>6, FlushBegins, FlushSlotStep, FlushSlabStep
<1>7. ASSUME NEW p \in Procs, Return(p) \/ Crash(p)
      PROVE  IInv'
  BY <1>7, ReturnStep, CrashStep
<1> QED BY <1>1, <1>2, <1>3, <1>4, <1>5, <1>6, <1>7 DEF Next

LEMMA GroupsInvariant == Spec => []IInv
<1>1. Init => IInv
  BY IInvInit
<1>2. IInv /\ [Next]_vars => IInv'
  BY IInvStep
<1> QED BY <1>1, <1>2, PTL DEF Spec

-----------------------------------------------------------------------------
(* What it gives.                                                           *)

\* Every variable has its type, however many joins, departures, flushes and
\* deaths: the version a slot's seqlock counts stays within two bumps a call,
\* its member count within the calls, and what a get_members has to give is
\* among what it may (index.rs, member.rs, group/manager.py).
THEOREM GroupTypeCorrect == Spec => []TypeOK
<1>1. IInv => TypeOK
  <2> SUFFICES ASSUME IInv PROVE TypeOK
    OBVIOUS
  <2>1. Types /\ calls \in Nat /\ MaxCalls \in Nat /\ calls <= MaxCalls
    BY Bounds DEF IInv
  <2>2. ASSUME NEW i \in Slots
        PROVE  slot[i] \in [ver : 0 .. 2 * MaxCalls + 2, len : {0, 1},
                            name : GroupNames \cup {None},
                            array : Arrays \cup {None}, count : 0 .. MaxCalls,
                            active : BOOLEAN]
    <3>1. slot[i] \in SlotType /\ slot[i].ver \in Nat /\ slot[i].count \in Nat
      BY <2>1, SlotOf
    <3>2. slot[i].ver + Due <= 2 * calls + 2 /\ slot[i].count <= calls
      BY DEF IInv, Budget
    <3>3. Due \in Nat
      BY DEF Due
    <3>4. slot[i].ver \in 0 .. 2 * MaxCalls + 2
            /\ slot[i].count \in 0 .. MaxCalls
      BY <2>1, <3>1, <3>2, <3>3
    <3> QED BY <3>1, <3>4 DEF SlotType
  <2>3. \A a \in Arrays, j \in Entries :
          mem[a][j] \in [first : Channels \cup {None}, time : 0 .. MaxTime,
                         second : Channels \cup {None}, active : BOOLEAN]
    BY <2>1, EntryOf DEF EntryType
  <2>4. \A p \in Procs : loc[p].i \in Slots /\ loc[p].j \in Entries
    BY <2>1, LocOf
  <2>5. \A p \in Procs : must[p] \subseteq may[p]
    BY DEF IInv, Ghosts
  <2>6. slot \in [Slots -> [ver : 0 .. 2 * MaxCalls + 2, len : {0, 1},
                            name : GroupNames \cup {None},
                            array : Arrays \cup {None}, count : 0 .. MaxCalls,
                            active : BOOLEAN]]
    BY <2>1, <2>2 DEF Types
  <2> QED BY <2>1, <2>3, <2>4, <2>5, <2>6 DEF TypeOK, Types, Truths
<1> QED BY <1>1, GroupsInvariant, PTL

\* An active group's slot is the first of its name, and two active groups
\* never share a member array, whichever flushes, repairs and creations
\* processes died in: the lookup of group_index_lookup, blind to "active",
\* finds the group, and what group_member_add writes stays the group's.
THEOREM ActiveGroupsApart == Spec => []GroupsApart
<1>1. IInv => GroupsApart
  <2> SUFFICES ASSUME IInv, NEW i \in Slots, NEW k \in Slots,
                      ~Odd(i), slot[i].len # 0, ~Odd(k), slot[k].len # 0,
                      i # k, slot[k].active
               PROVE  /\ slot[i].name = slot[k].name => k < i
                      /\ slot[i].active => slot[i].array # slot[k].array
    BY DEF GroupsApart
  <2>1. Held(i) /\ Held(k)
    BY DEF Held
  <2>2. slot[i].array # None
    BY <2>1, GroupsAssumption DEF IInv, Index, Pointer
  <2> QED BY <2>1, <2>2 DEF IInv, Index, Apart
<1> QED BY <1>1, GroupsInvariant, PTL

\* The count by which a reader skips a group (group_members_read_all) covers
\* the active members of its array, but for the adds that are between the
\* entry and the count, or whose process died there.
THEOREM CountIsEnough == Spec => []CountCovers
<1>1. IInv => CountCovers
  <2> SUFFICES ASSUME IInv, NEW i \in Slots, slot[i].len # 0, slot[i].active,
                      ~Odd(i)
               PROVE  Cardinality({j \in Entries :
                                     mem[slot[i].array][j].active})
                        <= slot[i].count + crashes
                            + Cardinality({p \in Procs :
                                     pc[p] = "e_odd" /\ loc[p].i = i})
    BY DEF CountCovers
  <2>1. Types /\ Desk /\ Held(i) /\ Covered(i)
    BY DEF IInv, Rolls, Held
  <2> DEFINE X == {p \in Procs : pc[p] = "e_odd" /\ loc[p].i = i}
  <2>2. /\ Cardinality(In(slot[i].array)) \in Nat
        /\ slot[i].count \in Nat /\ crashes \in Nat
    BY <2>1, InFinite, SlotOf DEF Types
  <2>3. CASE HolderAt(i, {"e_odd", "e_count"})
    <3>1. flock \in Procs /\ loc[flock].i = i
            /\ pc[flock] \in {"e_odd", "e_count"}
      BY <2>1, <2>3 DEF HolderAt, At, Types
    <3>2. pc[flock] = "e_odd"
      <4>1. S(flock) = slot[i] /\ (pc[flock] \in Counted => AtSlot(flock))
        BY <3>1 DEF S, IInv, Work, Joins, Joining
      <4>2. pc[flock] \in Counted
        BY <3>1 DEF Counted
      <4>3. pc[flock] \notin Bumped
        BY <3>1, <4>1, <4>2 DEF AtSlot
      <4> QED BY <3>1, <4>3 DEF Bumped
    <3>3. X = {flock}
      <4>1. \A p \in Procs : pc[p] = "e_odd" => p = flock
        BY <2>1, <3>1, Busy DEF Working, Adding, Joining, Counted
      <4> QED BY <3>1, <3>2, <4>1
    <3>4. Cardinality(X) = 1
      BY <3>3, FS_Singleton
    <3> QED BY <2>1, <2>2, <2>3, <3>4 DEF Covered, One, In
  <2>4. CASE ~HolderAt(i, {"e_odd", "e_count"})
    <3>1. X = {}
      <4> SUFFICES ASSUME NEW p \in Procs, pc[p] = "e_odd", loc[p].i = i
                   PROVE  FALSE
        OBVIOUS
      <4>1. pc[p] \in Working
        BY DEF Working, Adding, Joining, Counted
      <4>2. flock = p
        BY <2>1, <4>1, Busy
      <4> QED BY <2>4, <4>2, Holder
    <3>2. Cardinality(X) = 0
      BY <3>1, FS_EmptySet
    <3> QED BY <2>1, <2>2, <2>4, <3>2 DEF Covered, One, In
  <2> QED BY <2>3, <2>4
<1> QED BY <1>1, GroupsInvariant, PTL

\* A snapshot that no flush, no death and no slot's change of hands disturbed
\* names no channel that was not in the group, or about to be, while
\* get_members took it without a lock.
THEOREM SnapshotOnlyMembers == Spec => []OnlyMembers
<1>1. IInv => OnlyMembers
  <2> SUFFICES ASSUME IInv, NEW p \in Procs, NEW c \in Channels,
                      pc[p] = "done", calm[p], <<c, c>> \in loc[p].out
               PROVE  c \in may[p]
    BY DEF OnlyMembers, Undisturbed
  <2>1. Calmly(p)
    BY DEF IInv, Reading
  <2>2. \A x \in loc[p].out : x[1] \in may[p]
    BY <2>1 DEF Calmly, Getting
  <2> QED BY <2>2
<1> QED BY <1>1, GroupsInvariant, PTL

\* A group_send reaches every channel that was a member all the while its
\* snapshot was taken and had not expired, whatever joins, departures, sweeps,
\* creations and flushes of other processes came between its reads, if no
\* process died and the lookup skipped no slot for its version.
THEOREM SnapshotReachesMembers == Spec => []MembersReached
<1>1. IInv => MembersReached
  <2> SUFFICES ASSUME IInv, NEW p \in Procs, NEW c \in Channels,
                      pc[p] = "done", ~loc[p].skipped, crashes = 0,
                      c \in must[p]
               PROVE  <<c, c>> \in loc[p].out
    BY DEF MembersReached
  <2>1. Expects(p, c)
    BY DEF IInv, Reading, Getting
  <2> QED BY <2>1 DEF Expects, Ahead
<1> QED BY <1>1, GroupsInvariant, PTL
=============================================================================
