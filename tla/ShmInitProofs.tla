---------------------------- MODULE ShmInitProofs ----------------------------
(* The layout, for every configuration: the areas compute_offsets lays out,  *)
(* and every access to a slot of a table.  Then, for any number of processes *)
(* of any configurations, started at any time and killed anywhere: types,    *)
(* that a region which says it is ready is laid out soundly and, when one    *)
(* starts at a time, complete, and that live processes meet.                 *)
EXTENDS ShmInit, FiniteSetTheorems, TLAPS

----------------------------------------------------------------------------
(* The layout.                                                              *)

\* The slots of the three tables are well laid: no field shares a byte with
\* another, lies off its alignment or beyond the slot.
LEMMA ChannelSlot == WellLaid(CH_SLOT, CH_SLOT_SIZE)
BY DEF WellLaid, CH_SLOT, CH_SLOT_SIZE, Aligned, InBounds, Apart, At

LEMMA GroupSlot == WellLaid(GRP_SLOT, GRP_SLOT_SIZE)
BY DEF WellLaid, GRP_SLOT, GRP_SLOT_SIZE, Aligned, InBounds, Apart, At

LEMMA RegistrySlot == WellLaid(REG, REG_SLOT_SIZE)
BY DEF WellLaid, REG, REG_SLOT_SIZE, Aligned, InBounds, Apart, At

\* The header, the group members, the rings, their slots and the counters.
LEMMA OtherStructures ==
    /\ WellLaid(HDR, HDR_SIZE)
    /\ WellLaid(MEMBER, MEMBER_ENTRY_SIZE)
    /\ WellLaid(RING, RING_HEADER_SIZE)
    /\ WellLaid(SLOT, SLOT_SIZE)
    /\ WellLaid([n \in Counters |-> CounterAt(n)], METRICS_REGION_SIZE)
<1>1. WellLaid(HDR, HDR_SIZE)
  BY DEF WellLaid, HDR, HDR_SIZE, Aligned, InBounds, Apart, At
<1>2. WellLaid(MEMBER, MEMBER_ENTRY_SIZE)
  BY DEF WellLaid, MEMBER, MEMBER_ENTRY_SIZE, Aligned, InBounds, Apart, At
<1>3. WellLaid(RING, RING_HEADER_SIZE)
  BY DEF WellLaid, RING, RING_HEADER_SIZE, Aligned, InBounds, Apart, At
<1>4. WellLaid(SLOT, SLOT_SIZE)
  BY DEF WellLaid, SLOT, SLOT_SIZE, Aligned, InBounds, Apart, At
<1>5. WellLaid([n \in Counters |-> CounterAt(n)], METRICS_REGION_SIZE)
  BY DEF WellLaid, Counters, CounterAt, METRICS_REGION_SIZE, Aligned,
         InBounds, Apart, At
<1> QED BY <1>1, <1>2, <1>3, <1>4, <1>5

THEOREM StructuresAreWellLaid == StructuresWellLaid
BY ChannelSlot, GroupSlot, RegistrySlot, OtherStructures
   DEF StructuresWellLaid

\* A table that starts on a word, with slots that are well laid, ends where
\* its last slot ends.
LEMMA TableLegal ==
    ASSUME NEW base \in Nat, NEW size \in Nat, NEW n \in Nat, NEW fields,
           base % 8 = 0, size % 8 = 0,
           \A f \in DOMAIN fields :
               fields[f].off \in Nat /\ fields[f].width \in Nat,
           WellLaid(fields, size)
    PROVE  LegalTable(base, size, fields, n, base + n * size)
<1> SUFFICES ASSUME NEW i \in 0 .. n - 1, NEW f \in DOMAIN fields
             PROVE  LET at == SlotAt(base, size, i) + fields[f].off
                    IN  /\ Aligned(at, fields[f].width)
                        /\ InBounds(at, fields[f].width, base + n * size)
  BY DEF LegalTable
<1> DEFINE off == fields[f].off
           w == fields[f].width
<1>1. off \in Nat /\ w \in Nat /\ off + w <= size /\ Aligned(off, w)
  BY DEF WellLaid, InBounds
<1>2. PICK b \in Int : base = 8 * b
  BY SMT
<1>3. PICK s \in Int : size = 8 * s
  BY SMT
<1>4. i * size \in Nat /\ i * size + size <= n * size
  <2>1. i + 1 <= n /\ i \in Nat
    OBVIOUS
  <2>2. (i + 1) * size <= n * size
    BY <2>1
  <2>3. (i + 1) * size = i * size + size /\ i * size \in Nat
    BY <2>1
  <2> QED BY <2>2, <2>3
<1>5. base + i * size = 8 * (b + i * s)
  BY <1>2, <1>3
<1>6. (base + i * size + off) % 8 = off % 8
  <2> DEFINE m == b + i * s
  <2>1. m \in Int
    OBVIOUS
  <2> HIDE DEF m
  <2>2. (8 * m + off) % 8 = off % 8
    BY <2>1, <1>1
  <2> QED BY <2>2, <1>5 DEF m
<1>7. Aligned(base + i * size + off, w)
  BY <1>1, <1>4, <1>6 DEF Aligned
<1>8. InBounds(base + i * size + off, w, base + n * size)
  BY <1>1, <1>4 DEF InBounds
<1> QED BY <1>7, <1>8 DEF SlotAt

\* Whatever the limits are, compute_offsets keeps the areas apart and on
\* words, and no access to a slot of a table leaves its table or its
\* alignment: region.rs's debug assertions hold on all of them.
THEOREM LayoutAlwaysSound ==
    ASSUME NEW c, HasLimits(c)
    PROVE  LayoutSound(c)
<1>1. /\ c.max_channels \in Nat /\ c.max_groups \in Nat
      /\ c.max_processes \in Nat
  BY DEF HasLimits
<1> DEFINE o == ch_off(c)
           g == grp_off(c)
           r == reg_off(c)
           m == metrics_off(c)
           q == pool_off(c)
<1>2. /\ o = 4096 /\ g = o + c.max_channels * 168
      /\ r = g + c.max_groups * 176 /\ m = r + c.max_processes * 168
      /\ q = m + 512
  BY DEF ch_off, grp_off, reg_off, metrics_off, pool_off, HDR_SIZE,
         CH_SLOT_SIZE, GRP_SLOT_SIZE, REG_SLOT_SIZE, METRICS_REGION_SIZE
<1>3. /\ o \in Nat /\ g \in Nat /\ r \in Nat /\ m \in Nat /\ q \in Nat
      /\ o % 8 = 0 /\ g % 8 = 0 /\ r % 8 = 0 /\ m % 8 = 0 /\ q % 8 = 0
  BY <1>1, <1>2
<1> HIDE DEF o, g, r, m, q
<1>4. AreasApart(c)
  <2> DEFINE A == Areas(c)
  <2>1. DOMAIN A = {"header", "channels", "groups", "registry", "metrics",
                    "slab"}
    BY DEF Areas
  <2>2. /\ A["header"].off = 0 /\ A["header"].width = o
        /\ A["channels"].off = o /\ A["channels"].width = g - o
        /\ A["groups"].off = g /\ A["groups"].width = r - g
        /\ A["registry"].off = r /\ A["registry"].width = m - r
        /\ A["metrics"].off = m /\ A["metrics"].width = q - m
        /\ A["slab"].off = q /\ A["slab"].width = 200
    BY <1>1, <1>2, <1>3
       DEF Areas, At, HDR_SIZE, CH_SLOT_SIZE, GRP_SLOT_SIZE, REG_SLOT_SIZE,
           METRICS_REGION_SIZE, SlabWords, o, g, r, m, q
  <2> HIDE DEF A
  <2>3. 0 <= o /\ o <= g /\ g <= r /\ r <= m /\ m <= q
    BY <1>1, <1>2, <1>3
  <2>4. \A x \in DOMAIN A : A[x].off \in Nat /\ A[x].width \in Nat
    BY <1>3, <2>1, <2>2, <2>3
  <2>5. /\ A["header"].off + A["header"].width = A["channels"].off
        /\ A["channels"].off + A["channels"].width = A["groups"].off
        /\ A["groups"].off + A["groups"].width = A["registry"].off
        /\ A["registry"].off + A["registry"].width = A["metrics"].off
        /\ A["metrics"].off + A["metrics"].width = A["slab"].off
    BY <1>3, <2>2
  <2>6. /\ A["header"].off <= A["channels"].off
        /\ A["channels"].off <= A["groups"].off
        /\ A["groups"].off <= A["registry"].off
        /\ A["registry"].off <= A["metrics"].off
        /\ A["metrics"].off <= A["slab"].off
    BY <1>3, <2>2, <2>3
  <2> DEFINE Before(x, y) == A[x].off + A[x].width <= A[y].off
  <2>7. \A y \in DOMAIN A \ {"header"} : Before("header", y)
    BY <2>1, <2>4, <2>5, <2>6
  <2>8. \A y \in {"groups", "registry", "metrics", "slab"} :
            Before("channels", y)
    BY <2>1, <2>4, <2>5, <2>6
  <2>9. \A y \in {"registry", "metrics", "slab"} : Before("groups", y)
    BY <2>1, <2>4, <2>5, <2>6
  <2>10. \A y \in {"metrics", "slab"} : Before("registry", y)
    BY <2>1, <2>4, <2>5, <2>6
  <2>11. Before("metrics", "slab")
    BY <2>1, <2>4, <2>5, <2>6
  <2> HIDE DEF Before
  <2>12. ASSUME NEW a \in DOMAIN A, NEW b \in DOMAIN A, a # b
         PROVE  Before(a, b) \/ Before(b, a)
    <3>1. /\ a \in {"header", "channels", "groups", "registry", "metrics",
                   "slab"}
          /\ b \in {"header", "channels", "groups", "registry", "metrics",
                   "slab"}
      BY <2>1
    <3>2. CASE a = "header" \/ b = "header"
      BY <2>1, <2>7, <2>12, <3>2
    <3>3. CASE a # "header" /\ b # "header" /\ (a = "channels" \/ b = "channels")
      BY <2>8, <2>12, <3>1, <3>3
    <3>4. CASE /\ a \in {"groups", "registry", "metrics", "slab"}
               /\ b \in {"groups", "registry", "metrics", "slab"}
      BY <2>9, <2>10, <2>11, <2>12, <3>4
    <3> QED BY <3>1, <3>2, <3>3, <3>4
  <2> QED BY <2>12 DEF AreasApart, Apart, A, Before
<1>5. AreasAligned(c)
  BY <1>3 DEF AreasAligned, Areas, At, o, g, r, m, q
<1>6. LegalTable(o, CH_SLOT_SIZE, CH_SLOT, c.max_channels, g)
  <2>1. \A f \in DOMAIN CH_SLOT :
            CH_SLOT[f].off \in Nat /\ CH_SLOT[f].width \in Nat
    BY DEF CH_SLOT, At
  <2>2. g = o + c.max_channels * CH_SLOT_SIZE /\ CH_SLOT_SIZE \in Nat
        /\ CH_SLOT_SIZE % 8 = 0
    BY <1>2 DEF CH_SLOT_SIZE
  <2> QED BY <1>1, <1>3, <2>1, <2>2, ChannelSlot, TableLegal
<1>7. LegalTable(g, GRP_SLOT_SIZE, GRP_SLOT, c.max_groups, r)
  <2>1. \A f \in DOMAIN GRP_SLOT :
            GRP_SLOT[f].off \in Nat /\ GRP_SLOT[f].width \in Nat
    BY DEF GRP_SLOT, At
  <2>2. r = g + c.max_groups * GRP_SLOT_SIZE /\ GRP_SLOT_SIZE \in Nat
        /\ GRP_SLOT_SIZE % 8 = 0
    BY <1>2 DEF GRP_SLOT_SIZE
  <2> QED BY <1>1, <1>3, <2>1, <2>2, GroupSlot, TableLegal
<1>8. LegalTable(r, REG_SLOT_SIZE, REG, c.max_processes, m)
  <2>1. \A f \in DOMAIN REG : REG[f].off \in Nat /\ REG[f].width \in Nat
    BY DEF REG, At
  <2>2. m = r + c.max_processes * REG_SLOT_SIZE /\ REG_SLOT_SIZE \in Nat
        /\ REG_SLOT_SIZE % 8 = 0
    BY <1>2 DEF REG_SLOT_SIZE
  <2> QED BY <1>1, <1>3, <2>1, <2>2, RegistrySlot, TableLegal
<1> QED BY <1>4, <1>5, <1>6, <1>7, <1>8 DEF LayoutSound, o, g, r, m

----------------------------------------------------------------------------
(* Opening and building: types.                                             *)

Contents == [size : Nat, magic : {0, MAGIC}, version : 0 .. VERSION,
             config : Configs \cup {None},
             built : [Parts -> Configs \cup {None}], reg : SUBSET Procs]

Labels == {"off", "stat", "judge", "unlink", "reopen", "truncate", "lock",
           "init", "register", "live", "gone"}
Closed == {"off", "reopen", "gone"}

Types ==
    /\ path \in Inodes \cup {None}
    /\ file \in [Inodes -> Contents]
    /\ flock \in [Inodes -> Procs \cup {None}]
    /\ pc \in [Procs -> Labels]
    /\ fd \in [Procs -> Inodes \cup {None}]
    /\ \A p \in Procs : (fd[p] = None) <=> (pc[p] \in Closed)
    /\ mapped \in [Procs -> Nat]
    /\ k \in [Procs -> 1 .. Len(Order)]
    /\ crashes \in 0 .. MaxCrashes

\* Order's first part is the configuration, so a builder that has got further
\* has left one; it may have been written over, but never taken away.
Configured ==
    /\ \A i \in Inodes : file[i].magic = MAGIC => file[i].config \in Configs
    /\ \A p \in Procs :
        pc[p] = "init" /\ k[p] > 1 => file[fd[p]].config \in Configs

Inv == Types /\ Configured

LEMMA OrderFacts ==
    /\ Len(Order) = 8 /\ Order[1] = "config"
    /\ \A n \in 1 .. 8 : Order[n] \in Parts
    /\ \A n \in 1 .. 8 : Order[n] = "magic" => n > 1
<1>1. Len(Order) = 8 /\ Order[1] = "config"
  BY DEF Order
<1>2. \A n \in 1 .. 8 : Order[n] \in Parts
  BY <1>1 DEF Parts
<1> QED BY <1>1, <1>2

LEMMA WishOK == \A p \in Procs : Wish[p] \in Configs /\ Wish[p].shm_size \in Nat
BY ShmAssumption DEF Configs

LEMMA CrashBound == MaxCrashes \in Nat
BY ShmAssumption

LEMMA OneOfOK == ASSUME NEW S, S # {} PROVE OneOf(S) \in S
BY DEF OneOf

LEMMA BlankOK == Blank \in Contents
BY DEF Blank, Contents, MAGIC, VERSION

\* Each field may be set on its own.
LEMMA FieldSet ==
    ASSUME NEW f \in Contents
    PROVE  /\ \A x \in [Parts -> Configs \cup {None}] :
                [f EXCEPT !.built = x] \in Contents
           /\ \A x \in Configs \cup {None} : [f EXCEPT !.config = x] \in Contents
           /\ \A x \in SUBSET Procs : [f EXCEPT !.reg = x] \in Contents
           /\ \A x \in {0, MAGIC} : [f EXCEPT !.magic = x] \in Contents
           /\ \A x \in 0 .. VERSION : [f EXCEPT !.version = x] \in Contents
           /\ \A x \in Nat : [f EXCEPT !.size = x] \in Contents
BY DEF Contents

LEMMA FieldsApart ==
    ASSUME NEW f \in Contents, NEW x
    PROVE  /\ [f EXCEPT !.reg = x].config = f.config
           /\ [f EXCEPT !.reg = x].magic = f.magic
           /\ [f EXCEPT !.size = x].config = f.config
           /\ [f EXCEPT !.size = x].magic = f.magic
           /\ [f EXCEPT !.version = x].config = f.config
           /\ [f EXCEPT !.magic = x].config = f.config
BY DEF Contents

LEMMA ContentsFields ==
    ASSUME NEW f \in Contents
    PROVE  /\ f.built \in [Parts -> Configs \cup {None}]
           /\ f.config \in Configs \cup {None} /\ f.reg \in SUBSET Procs
           /\ f.magic \in {0, MAGIC} /\ f.version \in 0 .. VERSION
           /\ f.size \in Nat
BY DEF Contents

\* Whatever the name leads to at first has a type, and a configuration if it
\* has the magic.
LEMMA FoundOK ==
    ASSUME NEW what \in Found, what # "nothing", NEW c \in Configs
    PROVE  /\ AsFound(what, c) \in Contents
           /\ AsFound(what, c).magic = MAGIC =>
                  AsFound(what, c).config \in Configs
<1> DEFINE d == [c EXCEPT !.sizes = 0]
<1>1. c.shm_size \in Nat /\ d \in Configs /\ d.shm_size \in Nat
  BY DEF Configs
<1>2. \A e \in Configs : e.shm_size \in Nat =>
        /\ Complete(e) \in Contents /\ Complete(e).config \in Configs
        /\ Complete(e).magic = MAGIC
  BY DEF Complete, Contents, MAGIC, VERSION
<1>3. what \in {"empty", "old layout", "other", "garbage"}
  BY ShmAssumption
<1>4. CASE what = "empty"
  BY <1>4, BlankOK DEF AsFound, Blank, MAGIC
<1>5. CASE what = "old layout"
  <2>1. AsFound(what, c)
          = [Complete(c) EXCEPT !.version = 1, !.built = Blank.built]
    BY <1>5 DEF AsFound
  <2>2. Blank.built \in [Parts -> Configs \cup {None}]
    BY DEF Blank
  <2>3. Complete(c) \in Contents /\ Complete(c).config \in Configs
    BY <1>1, <1>2
  <2> DEFINE one == [Complete(c) EXCEPT !.version = 1]
             two == [one EXCEPT !.built = Blank.built]
  <2>4. 1 \in 0 .. VERSION
    BY DEF VERSION
  <2>5. two \in Contents
    BY <2>2, <2>3, <2>4, FieldSet
  <2>6. AsFound(what, c) = two
    BY <2>1
  <2>7. two.config = Complete(c).config
    BY DEF Complete
  <2> QED BY <2>3, <2>5, <2>6, <2>7
<1>6. CASE what = "other"
  BY <1>1, <1>2, <1>6 DEF AsFound
<1>7. CASE what = "garbage"
  BY <1>1, <1>7 DEF AsFound, Blank, Contents, MAGIC, VERSION
<1> QED BY <1>3, <1>4, <1>5, <1>6, <1>7

LEMMA InvInit == Init => Inv
<1> SUFFICES ASSUME Init PROVE Inv
  OBVIOUS
<1>1. PICK what \in Found, p \in Procs :
        IF what = "nothing"
        THEN path = None /\ file = [i \in Inodes |-> Blank]
        ELSE /\ path = OneOf(Inodes)
             /\ file = [[i \in Inodes |-> Blank] EXCEPT
                            ![OneOf(Inodes)] = AsFound(what, Wish[p])]
  BY DEF Init
<1>2. OneOf(Inodes) \in Inodes
  BY OneOfOK, ShmAssumption
<1>3. /\ path \in Inodes \cup {None}
      /\ file \in [Inodes -> Contents]
      /\ \A i \in Inodes : file[i].magic = MAGIC => file[i].config \in Configs
  <2>1. Blank.magic # MAGIC
    BY DEF Blank, MAGIC
  <2>2. CASE what = "nothing"
    BY <1>1, <2>1, <2>2, BlankOK
  <2>3. CASE what # "nothing"
    <3>1. /\ AsFound(what, Wish[p]) \in Contents
          /\ AsFound(what, Wish[p]).magic = MAGIC =>
                 AsFound(what, Wish[p]).config \in Configs
      BY <2>3, FoundOK, WishOK
    <3> QED BY <1>1, <1>2, <2>1, <2>3, <3>1, BlankOK
  <2> QED BY <2>2, <2>3
<1>4. 1 \in 1 .. Len(Order)
  BY OrderFacts
<1>5. 0 \in 0 .. MaxCrashes
  BY CrashBound
<1>6. Types
  BY <1>3, <1>4, <1>5 DEF Init, Types, Labels, Closed
<1>7. Configured
  BY <1>3 DEF Init, Configured
<1> QED BY <1>6, <1>7 DEF Inv

\* A step that leaves the files alone, and puts nobody behind the first part.
LEMMA FilesKept ==
    ASSUME Inv, UNCHANGED file, Types',
           \A p \in Procs : pc'[p] = "init" /\ k'[p] > 1 =>
               pc[p] = "init" /\ k'[p] = k[p] /\ fd'[p] = fd[p]
    PROVE  Inv'
BY DEF Inv, Configured

\* A step that changes one file, keeping the configuration it may have.
LEMMA FileChanged ==
    ASSUME Inv, NEW i \in Inodes, NEW f \in Contents, Types', UNCHANGED fd,
           file' = [file EXCEPT ![i] = f],
           f.magic = MAGIC => f.config \in Configs,
           file[i].config \in Configs => f.config \in Configs,
           \A p \in Procs : pc'[p] = "init" /\ k'[p] > 1 =>
               \/ pc[p] = "init" /\ k'[p] = k[p]
               \/ fd[p] = i /\ f.config \in Configs
    PROVE  Inv'
<1>1. \A j \in Inodes : file'[j] = IF j = i THEN f ELSE file[j]
  BY DEF Inv, Types
<1>2. \A p \in Procs : pc[p] = "init" => fd[p] \in Inodes
  BY DEF Inv, Types, Closed
<1>3. \A j \in Inodes : file[j].config \in Configs => file'[j].config \in Configs
  BY <1>1
<1>4. \A j \in Inodes : file'[j].magic = MAGIC => file'[j].config \in Configs
  BY <1>1 DEF Inv, Configured
<1>5. ASSUME NEW p \in Procs, pc'[p] = "init", k'[p] > 1
      PROVE  file'[fd'[p]].config \in Configs
  <2>1. CASE pc[p] = "init" /\ k'[p] = k[p]
    BY <1>2, <1>3, <1>5, <2>1 DEF Inv, Configured
  <2>2. CASE fd[p] = i /\ f.config \in Configs
    BY <1>1, <2>2
  <2> QED BY <1>5, <2>1, <2>2
<1> QED BY <1>4, <1>5 DEF Inv, Configured

LEMMA OpenKeeps ==
    ASSUME Inv, NEW p \in Procs, NEW at \in Closed, NEW next \in Labels \ Closed,
           OpenAt(p, at, next), next # "init"
    PROVE  Inv'
<1>1. Unused \subseteq Inodes
  BY DEF Unused
<1>2. path' \in Inodes /\ fd' = [fd EXCEPT ![p] = path']
  BY <1>1, OneOfOK DEF OpenAt, Inv, Types
<1>3. Types'
  BY <1>2, ShmAssumption DEF OpenAt, Goto, Inv, Types
<1> QED BY <1>3, FilesKept DEF OpenAt, Goto, Inv, Types

LEMMA WriteOK ==
    ASSUME NEW f \in Contents, NEW n \in 1 .. 8, NEW c \in Configs,
           n > 1 => f.config \in Configs
    PROVE  /\ Write(f, Order[n], c) \in Contents
           /\ Write(f, Order[n], c).config \in Configs
<1>1. Built(f.built, Order[n], c) \in [Parts -> Configs \cup {None}]
  BY DEF Built, Contents
<1>2. Order[n] # "config" => n > 1
  BY OrderFacts
<1> DEFINE part == Order[n]
           w1 == [f EXCEPT !.built = Built(f.built, part, c)]
           w2 == [w1 EXCEPT !.config = IF part = "config" THEN c ELSE @]
           w3 == [w2 EXCEPT !.reg = IF part = "registry" THEN {} ELSE @]
           w4 == [w3 EXCEPT !.magic = IF part = "magic" THEN MAGIC ELSE @]
           v == IF part = "version" THEN VERSION ELSE w4.version
           w5 == [w4 EXCEPT !.version = v]
<1>3. Write(f, part, c) = w5
  BY DEF Write
<1>4. w1 \in Contents /\ w1.config = f.config
  BY <1>1, FieldSet DEF Contents
<1>5. w2 \in Contents /\ w2.config \in Configs
  BY <1>2, <1>4, FieldSet DEF Contents
<1>6. w3 \in Contents /\ w3.config = w2.config
  <2> DEFINE r == IF part = "registry" THEN {} ELSE w2.reg
  <2>1. r \in SUBSET Procs BY <1>5, ContentsFields
  <2>2. w3 = [w2 EXCEPT !.reg = r] OBVIOUS
  <2> HIDE DEF w2, w3, r
  <2> QED BY <1>5, <2>1, <2>2, FieldSet, FieldsApart
<1>7. w4 \in Contents /\ w4.config = w3.config
  <2> DEFINE m == IF part = "magic" THEN MAGIC ELSE w3.magic
  <2>1. m \in {0, MAGIC} BY <1>6, ContentsFields
  <2>2. w4 = [w3 EXCEPT !.magic = m] OBVIOUS
  <2> HIDE DEF w3, w4, m
  <2> QED BY <1>6, <2>1, <2>2, FieldSet, FieldsApart
<1>8. VERSION \in 0 .. VERSION
  BY DEF VERSION
<1>9. v \in 0 .. VERSION
  BY <1>7, <1>8, ContentsFields
<1>10. w5 \in Contents /\ w5.config = w4.config
  <2> HIDE DEF w4, v
  <2> QED BY <1>7, <1>9, FieldSet, FieldsApart
<1> QED BY <1>3, <1>5, <1>6, <1>7, <1>10

LEMMA InvStep == Inv /\ [Next]_vars => Inv'
<1> SUFFICES ASSUME Inv, [Next]_vars PROVE Inv'
  OBVIOUS
<1> USE DEF Goto
<1>1. CASE UNCHANGED vars
  BY <1>1 DEF vars, Inv, Types, Configured
<1> SUFFICES ASSUME NEW p \in Procs,
                    Open(p) \/ Step(p) \/ Close(p) \/ Crash(p)
             PROVE  Inv'
  BY <1>1 DEF Next
<1>2. CASE Open(p)
  BY <1>2, OpenKeeps DEF Open, Closed, Labels
<1>3. CASE Stat(p)
  <2>1. file[fd[p]].size \in Nat
    BY <1>3, ContentsFields DEF Stat, Inv, Types, Closed
  <2>2. Types'
    BY <1>3, <2>1 DEF Stat, Inv, Types, Labels, Closed
  <2> QED BY <1>3, <2>2, FilesKept DEF Stat, Inv, Types
<1>4. CASE Judge(p)
  <2>1. Verdict(p) \in {"register", "unlink", "truncate"}
    BY DEF Verdict
  <2>2. Types'
    BY <1>4, <2>1 DEF Judge, Inv, Types, Labels, Closed
  <2> QED BY <1>4, <2>1, <2>2, FilesKept DEF Judge, Inv, Types
<1>5. CASE Unlink(p)
  <2>1. Types'
    BY <1>5 DEF Unlink, Inv, Types, Labels, Closed
  <2> QED BY <1>5, <2>1, FilesKept DEF Unlink, Inv, Types
<1>6. CASE Reopen(p)
  BY <1>6, OpenKeeps DEF Reopen, Closed, Labels
<1>7. CASE Truncate(p)
  <2> DEFINE i == fd[p]
             f == [file[i] EXCEPT !.size = Wish[p].shm_size]
  <2>1. i \in Inodes
    BY <1>7 DEF Truncate, Inv, Types, Closed
  <2>2. f \in Contents /\ f.config = file[i].config /\ f.magic = file[i].magic
    BY <2>1, FieldSet, FieldsApart, WishOK DEF Inv, Types
  <2>3. file' = [file EXCEPT ![i] = f]
    BY <1>7 DEF Truncate
  <2>4. Types'
    BY <1>7, <2>2, <2>3, WishOK DEF Truncate, Inv, Types, Labels, Closed
  <2> QED BY <1>7, <2>1, <2>2, <2>3, <2>4, FileChanged
          DEF Truncate, Inv, Types, Configured
<1>8. CASE LockInit(p)
  <2>1. Types'
    BY <1>8, OrderFacts DEF LockInit, Inv, Types, Labels, Closed
  <2> QED BY <1>8, <2>1, FilesKept DEF LockInit, Inv, Types
<1>9. CASE InitPart(p)
  <2> DEFINE i == fd[p]
             f == Write(file[i], Order[k[p]], Wish[p])
  <2>1. i \in Inodes /\ k[p] \in 1 .. 8
    BY <1>9, OrderFacts DEF InitPart, Inv, Types, Closed
  <2>2. f \in Contents /\ f.config \in Configs
    BY <1>9, <2>1, WriteOK, WishOK DEF InitPart, Inv, Types, Configured
  <2>3. file' = [file EXCEPT ![i] = f]
    BY <1>9 DEF InitPart
  <2>4. /\ pc' \in [Procs -> Labels] /\ k' \in [Procs -> 1 .. Len(Order)]
        /\ flock' \in [Inodes -> Procs \cup {None}]
        /\ \A q \in Procs : (fd[q] = None) <=> (pc'[q] \in Closed)
    BY <1>9, <2>1, OrderFacts DEF InitPart, Inv, Types, Labels, Closed
  <2>5. Types'
    BY <1>9, <2>2, <2>3, <2>4 DEF InitPart, Inv, Types
  <2>6. \A q \in Procs \ {p} : pc'[q] = pc[q] /\ k'[q] = k[q]
    BY <1>9 DEF InitPart, Inv, Types
  <2>7. UNCHANGED fd
    BY <1>9 DEF InitPart
  <2> QED BY <2>1, <2>2, <2>3, <2>5, <2>6, <2>7, FileChanged
<1>10. CASE Register(p)
  <2> DEFINE i == fd[p]
             reg == IF Cardinality(file[i].reg) < Wish[p].max_processes
                    THEN file[i].reg \cup {p} ELSE file[i].reg
             f == [file[i] EXCEPT !.reg = reg]
  <2>1. i \in Inodes
    BY <1>10 DEF Register, Inv, Types, Closed
  <2>2. f \in Contents /\ f.config = file[i].config /\ f.magic = file[i].magic
    <3>1. file[i] \in Contents /\ reg \in SUBSET Procs
      BY <2>1, ContentsFields DEF Inv, Types
    <3> HIDE DEF reg
    <3> QED BY <3>1, FieldSet, FieldsApart
  <2>3. file' = [file EXCEPT ![i] = f]
    BY <1>10 DEF Register
  <2>4. Types'
    BY <1>10, <2>2, <2>3 DEF Register, Inv, Types, Labels, Closed
  <2> QED BY <1>10, <2>1, <2>2, <2>3, <2>4, FileChanged
          DEF Register, Inv, Types, Configured
<1>11. CASE Close(p)
  <2> DEFINE i == fd[p]
             reg == file[i].reg \ {p}
             f == [file[i] EXCEPT !.reg = reg]
  <2>1. i \in Inodes
    BY <1>11 DEF Close, Inv, Types, Closed
  <2>2. f \in Contents /\ f.config = file[i].config /\ f.magic = file[i].magic
    <3>1. file[i] \in Contents /\ reg \in SUBSET Procs
      BY <2>1, ContentsFields DEF Inv, Types
    <3> HIDE DEF reg
    <3> QED BY <3>1, FieldSet, FieldsApart
  <2>3. file' = [file EXCEPT ![i] = f]
    BY <1>11 DEF Close
  <2>4. Types'
    BY <1>11, <2>2, <2>3 DEF Close, Inv, Types, Labels, Closed
  <2>5. file'[i].config = file[i].config
    BY <2>1, <2>2, <2>3 DEF Inv, Types
  <2>6. \A j \in Inodes : /\ file'[j].config = file[j].config
                          /\ file'[j].magic = file[j].magic
    BY <2>1, <2>2, <2>3 DEF Inv, Types
  <2>7. \A q \in Procs : pc'[q] = "init" =>
            pc[q] = "init" /\ k'[q] = k[q] /\ fd'[q] = fd[q] /\ fd[q] \in Inodes
    BY <1>11 DEF Close, Inv, Types, Closed
  <2> QED BY <2>4, <2>6, <2>7 DEF Inv, Configured
<1>12. CASE Crash(p)
  <2>1. crashes' \in 0 .. MaxCrashes
    BY <1>12, CrashBound DEF Crash, Inv, Types
  <2>2. Types'
    BY <1>12, <2>1 DEF Crash, Inv, Types, Labels, Closed
  <2> QED BY <1>12, <2>2, FilesKept DEF Crash, Inv, Types
<1> QED BY <1>2, <1>3, <1>4, <1>5, <1>6, <1>7, <1>8, <1>9, <1>10, <1>11, <1>12
        DEF Step

LEMMA InvHolds == Spec => []Inv
BY InvInit, InvStep, PTL DEF Spec

\* Every variable keeps its type: in particular a process has a file open
\* exactly between opening it and closing it, and no builder runs past the
\* last part (layer.py _do_initialize, _init_shm).
THEOREM StartTypeCorrect == Spec => []TypeOK
<1>1. Inv => TypeOK
  <2> SUFFICES ASSUME Inv PROVE TypeOK
    OBVIOUS
  <2>1. \A i \in Inodes :
          /\ file[i].size \in Nat /\ file[i].magic \in {0, MAGIC}
          /\ file[i].version \in 0 .. VERSION /\ file[i].reg \subseteq Procs
          /\ DOMAIN file[i].built = Parts
    BY ContentsFields DEF Inv, Types
  <2> QED BY <2>1 DEF Inv, Types, TypeOK, Labels, Closed
<1> QED BY <1>1, InvHolds, PTL

\* Whatever the files held before, whoever builds over whom and whoever is
\* killed half-way: the limits in a header that says ready are ones whose
\* tables compute_offsets lays out soundly (lib.rs shm_init).
THEOREM ReadyIsLaidOut == Spec => []RegionLaidOut
<1>1. Inv => RegionLaidOut
  <2> SUFFICES ASSUME Inv, NEW i \in Inodes, Ready(file[i])
               PROVE  LayoutSound(file[i].config)
    BY DEF RegionLaidOut
  <2>1. file[i].config \in Configs
    BY DEF Inv, Configured, Ready
  <2>2. HasLimits(file[i].config)
    BY <2>1 DEF Configs, HasLimits
  <2> QED BY <2>2, LayoutAlwaysSound
<1> QED BY <1>1, InvHolds, PTL

-----------------------------------------------------------------------------
(* A region that says it is ready is complete, if one process starts at a   *)
(* time: then a file somebody builds in is not one others take for ready.    *)

Header == {"config", "offsets", "magic", "version"}
Tables == {"channels", "groups", "registry", "slab"}

LEMMA PartsAre == Parts = Header \cup Tables
<1>1. \A x : x \in Parts <=> \E n \in 1 .. 8 : x = Order[n]
  BY OrderFacts DEF Parts
<1> QED BY <1>1 DEF Order, Header, Tables

\* No two parts share a byte.
LEMMA ExtentsApart ==
    ASSUME NEW c \in Configs, NEW x \in Parts, NEW y \in Parts, x # y
    PROVE  Apart(Extent(x, c).off, Extent(x, c).width,
                 Extent(y, c).off, Extent(y, c).width)
<1>1. HasLimits(c)
  BY DEF Configs, HasLimits
<1>2. AreasApart(c)
  BY <1>1, LayoutAlwaysSound DEF LayoutSound
<1>3. \A t \in Tables : Extent(t, c) = Areas(c)[t] /\ t \in DOMAIN Areas(c)
  BY DEF Extent, Areas, Tables
<1>4. \A t \in Tables : t \in DOMAIN Areas(c) /\ t # "header"
  BY DEF Areas, Tables
<1>5. \A t \in Tables : Apart(Areas(c)["header"].off, Areas(c)["header"].width,
                              Areas(c)[t].off, Areas(c)[t].width)
  BY <1>2, <1>4 DEF AreasApart, Areas
<1>6. Areas(c)["header"].off = 0 /\ Areas(c)["header"].width = 4096
  BY DEF Areas, At, HDR_SIZE
<1>7. \A h \in Header :
        Extent(h, c).off \in Nat /\ Extent(h, c).width \in Nat
          /\ Extent(h, c).width > 0
          /\ Extent(h, c).off + Extent(h, c).width <= 4096
  BY DEF Extent, Header, At, HDR
<1>8. \A t \in Tables :
        Areas(c)[t].off \in Nat /\ Areas(c)[t].width \in Nat
          /\ Areas(c)[t].off >= 4096
  <2>1. /\ c.max_channels * CH_SLOT_SIZE \in Nat
        /\ c.max_groups * GRP_SLOT_SIZE \in Nat
        /\ c.max_processes * REG_SLOT_SIZE \in Nat
    BY <1>1 DEF HasLimits, CH_SLOT_SIZE, GRP_SLOT_SIZE, REG_SLOT_SIZE
  <2>2. /\ ch_off(c) = 4096 /\ grp_off(c) \in Nat /\ grp_off(c) >= 4096
        /\ reg_off(c) \in Nat /\ reg_off(c) >= 4096
        /\ pool_off(c) \in Nat /\ pool_off(c) >= 4096
    BY <2>1 DEF ch_off, grp_off, reg_off, metrics_off, pool_off, HDR_SIZE,
                METRICS_REGION_SIZE
  <2> QED BY <2>1, <2>2 DEF Areas, Tables, At, SlabWords
<1>9. CASE x \in Header /\ y \in Header
  BY <1>9 DEF Extent, Header, At, HDR, Apart
<1>10. CASE x \in Header /\ y \in Tables
  BY <1>3, <1>7, <1>8, <1>10 DEF Apart
<1>11. CASE x \in Tables /\ y \in Header
  BY <1>3, <1>7, <1>8, <1>11 DEF Apart
<1>12. CASE x \in Tables /\ y \in Tables
  BY <1>2, <1>3, <1>12 DEF AreasApart
<1> QED BY <1>9, <1>10, <1>11, <1>12, PartsAre

Building == {"truncate", "lock", "init"}

\* What has been built of the region p builds.
Part(p) == file[fd[p]].built
BuiltSoFar(p) ==
    /\ \A n \in 1 .. k[p] - 1 : Part(p)[Order[n]] = Wish[p]
    /\ k[p] > 1 => file[fd[p]].config = Wish[p]
    /\ k[p] > 7 => file[fd[p]].magic = MAGIC

\* The version comes last, so only a finished region has it, and nobody
\* builds over one that does.
Orderly ==
    /\ \A p, q \in Procs : Starting(p) /\ Starting(q) => p = q
    /\ \A i \in Inodes : file[i].version = VERSION =>
          file[i].magic = MAGIC /\ file[i].size > 0
    /\ \A p \in Procs :
          /\ pc[p] = "judge" /\ file[fd[p]].version = VERSION => mapped[p] > 0
          /\ pc[p] = "reopen" => path = None
          /\ pc[p] \in Building => file[fd[p]].version # VERSION
          /\ pc[p] \in {"lock", "init"} => file[fd[p]].size > 0
          /\ pc[p] = "init" => BuiltSoFar(p)

CInv == Inv /\ Orderly /\ MagicComplete

LEMMA RegionHasSize == \A p \in Procs : Wish[p].shm_size > 0
<1> SUFFICES ASSUME NEW p \in Procs PROVE Wish[p].shm_size > 0
  OBVIOUS
<1> DEFINE c == Wish[p]
<1>1. HasLimits(c) /\ c.shm_size \in Nat
  BY WishOK DEF Configs, HasLimits
<1>2. pool_off(c) \in Nat
  <2>1. /\ c.max_channels * CH_SLOT_SIZE \in Nat
        /\ c.max_groups * GRP_SLOT_SIZE \in Nat
        /\ c.max_processes * REG_SLOT_SIZE \in Nat
    BY <1>1 DEF HasLimits, CH_SLOT_SIZE, GRP_SLOT_SIZE, REG_SLOT_SIZE
  <2> QED BY <2>1 DEF ch_off, grp_off, reg_off, metrics_off, pool_off,
                      HDR_SIZE, METRICS_REGION_SIZE
<1>3. c.shm_size >= pool_off(c) + 8 * SlabWords
  BY ShmAssumption
<1> QED BY <1>1, <1>2, <1>3 DEF SlabWords

LEMMA OrderDistinct ==
    /\ Order[7] = "magic" /\ Order[8] = "version"
    /\ \A m, n \in 1 .. 8 : Order[m] = Order[n] => m = n
    /\ \A x \in Parts : \E n \in 1 .. 8 : x = Order[n]
<1>1. \A x \in Parts : \E n \in 1 .. 8 : x = Order[n]
  BY OrderFacts DEF Parts
<1> QED BY <1>1 DEF Order

LEMMA WriteFields ==
    ASSUME NEW f \in Contents, NEW n \in 1 .. 8, NEW c \in Configs
    PROVE  LET w == Write(f, Order[n], c) IN
           /\ w.size = f.size
           /\ w.version = IF n = 8 THEN VERSION ELSE f.version
           /\ w.magic = IF n = 7 THEN MAGIC ELSE f.magic
           /\ w.config = IF n = 1 THEN c ELSE f.config
           /\ \A x \in Parts :
                w.built[x] = IF x = Order[n] THEN c ELSE f.built[x]
<1> DEFINE w == Write(f, Order[n], c)
<1>1. /\ Order[n] = "version" <=> n = 8
      /\ Order[n] = "magic" <=> n = 7
      /\ Order[n] = "config" <=> n = 1
  BY DEF Order
<1>2. /\ w.size = f.size
      /\ w.built = Built(f.built, Order[n], c)
      /\ w.config = IF Order[n] = "config" THEN c ELSE f.config
      /\ w.magic = IF Order[n] = "magic" THEN MAGIC ELSE f.magic
      /\ w.version = IF Order[n] = "version" THEN VERSION ELSE f.version
  BY DEF Write, Contents
<1>3. \A x \in Parts :
        Built(f.built, Order[n], c)[x] = IF x = Order[n] THEN c ELSE f.built[x]
  BY ExtentsApart, OrderFacts DEF Built
<1> QED BY <1>1, <1>2, <1>3

\* A step of p alone, while nobody else is starting.
LEMMA OneStarts ==
    ASSUME NEW p \in Procs,
           \A q \in Procs \ {p} : ~Starting(q) /\ pc'[q] = pc[q],
           \A i \in Inodes : file'[i].version = VERSION =>
               file'[i].magic = MAGIC /\ file'[i].size > 0,
           pc'[p] = "judge" /\ file'[fd'[p]].version = VERSION => mapped'[p] > 0,
           pc'[p] = "reopen" => path' = None,
           pc'[p] \in Building => file'[fd'[p]].version # VERSION,
           pc'[p] \in {"lock", "init"} => file'[fd'[p]].size > 0,
           pc'[p] = "init" => BuiltSoFar(p)'
    PROVE  Orderly'
<1>1. \A q \in Procs \ {p} : pc'[q] \in {"off", "live", "gone"}
  BY DEF Starting
<1> QED BY <1>1 DEF Orderly, Starting, Building

\* A step that starts nobody and changes at most the registry of a region.
LEMMA NothingBuilt ==
    ASSUME Orderly, MagicComplete, UNCHANGED path,
           \A q \in Procs : \/ pc'[q] \in {"live", "gone"}
                            \/ /\ pc'[q] = pc[q] /\ fd'[q] = fd[q]
                               /\ mapped'[q] = mapped[q] /\ k'[q] = k[q]
                               /\ fd[q] \in Inodes \/ pc[q] \in Closed,
           \A i \in Inodes :
               /\ file'[i].version = file[i].version
               /\ file'[i].magic = file[i].magic
               /\ file'[i].size = file[i].size
               /\ file'[i].config = file[i].config
               /\ file'[i].built = file[i].built
    PROVE  Orderly' /\ MagicComplete'
<1>1. \A q \in Procs : Starting(q)' =>
        /\ Starting(q) /\ pc'[q] = pc[q] /\ fd'[q] = fd[q]
        /\ mapped'[q] = mapped[q] /\ k'[q] = k[q]
        /\ fd[q] \in Inodes \/ pc[q] = "reopen"
  BY DEF Starting, Closed
<1>2. MagicComplete'
  BY DEF MagicComplete, Ready
<1>3. \A q \in Procs : pc'[q] = "init" => BuiltSoFar(q)'
  BY <1>1 DEF Orderly, BuiltSoFar, Part, Starting
<1>4. Orderly'
  BY <1>1, <1>3 DEF Orderly, Starting, Building
<1> QED BY <1>2, <1>4

LEMMA FoundComplete ==
    ASSUME NEW what \in Found, what # "nothing", NEW c \in Configs,
           c.shm_size > 0
    PROVE  LET f == AsFound(what, c) IN
           /\ f.version = VERSION => f.magic = MAGIC /\ f.size > 0
           /\ Ready(f) => \A x \in Parts : f.built[x] = f.config
<1>1. what \in {"empty", "old layout", "other", "garbage"}
  BY ShmAssumption
<1>2. CASE what \in {"empty", "garbage"}
  <2>1. AsFound(what, c).version = 0
    BY <1>2 DEF AsFound, Blank
  <2> QED BY <2>1 DEF Ready, VERSION
<1>3. CASE what = "old layout"
  <2>1. AsFound(what, c).version = 1
    BY <1>3 DEF AsFound, Complete
  <2> QED BY <2>1 DEF Ready, VERSION
<1>4. CASE what = "other"
  BY <1>4 DEF AsFound, Complete, Configs
<1> QED BY <1>1, <1>2, <1>3, <1>4

LEMMA CInvInit == Init => CInv
<1> SUFFICES ASSUME Init PROVE Orderly /\ MagicComplete
  BY InvInit DEF CInv
<1>1. PICK what \in Found, p \in Procs :
        IF what = "nothing"
        THEN path = None /\ file = [i \in Inodes |-> Blank]
        ELSE /\ path = OneOf(Inodes)
             /\ file = [[i \in Inodes |-> Blank] EXCEPT
                            ![OneOf(Inodes)] = AsFound(what, Wish[p])]
  BY DEF Init
<1>2. \A i \in Inodes : \/ file[i] = Blank
                        \/ what # "nothing" /\ file[i] = AsFound(what, Wish[p])
  BY <1>1
<1>3. Blank.version # VERSION
  BY DEF Blank, VERSION
<1>4. \A i \in Inodes :
        /\ file[i].version = VERSION => file[i].magic = MAGIC /\ file[i].size > 0
        /\ Ready(file[i]) => \A x \in Parts : file[i].built[x] = file[i].config
  BY <1>2, <1>3, FoundComplete, RegionHasSize, WishOK DEF Ready
<1>5. \A q \in Procs : pc[q] = "off"
  BY DEF Init
<1> QED BY <1>4, <1>5 DEF Orderly, MagicComplete, Starting, Building

\* A step that leaves the files alone leaves the finished regions complete.
LEMMA FilesComplete == MagicComplete /\ UNCHANGED file => MagicComplete'
BY DEF MagicComplete, Ready

LEMMA CInvStep == Staggered /\ CInv /\ [Next]_vars => CInv'
<1> SUFFICES ASSUME Staggered, CInv, [Next]_vars PROVE Orderly' /\ MagicComplete'
  BY InvStep DEF CInv
<1> USE DEF Goto
<1>1. CASE UNCHANGED vars
  BY <1>1 DEF vars, CInv, Orderly, MagicComplete, Ready, Starting, Building,
              BuiltSoFar, Part
<1> SUFFICES ASSUME NEW p \in Procs,
                    Open(p) \/ Step(p) \/ Close(p) \/ Crash(p)
             PROVE  Orderly' /\ MagicComplete'
  BY <1>1 DEF Next
<1>2. /\ Inv /\ Orderly /\ MagicComplete
      /\ \A i \in Inodes : file[i].version = VERSION =>
            file[i].magic = MAGIC /\ file[i].size > 0
  BY DEF CInv, Orderly
<1>3. Starting(p) => \A q \in Procs \ {p} : ~Starting(q)
  BY <1>2 DEF Orderly
<1>4. CASE Open(p)
  <2>1. \A q \in Procs : ~Starting(q)
    BY <1>4 DEF Open
  <2>2. UNCHANGED file /\ pc' = [pc EXCEPT ![p] = "stat"]
    BY <1>4 DEF Open, OpenAt
  <2>3. Orderly'
    BY <1>2, <2>1, <2>2, OneStarts DEF Inv, Types, Building
  <2> QED BY <1>2, <2>2, <2>3, FilesComplete
<1>5. CASE Stat(p)
  <2>1. \A q \in Procs \ {p} : ~Starting(q)
    BY <1>3, <1>5 DEF Stat, Starting
  <2>2. UNCHANGED <<file, fd>> /\ pc' = [pc EXCEPT ![p] = "judge"]
        /\ mapped' = [mapped EXCEPT ![p] = file[fd[p]].size]
        /\ fd[p] \in Inodes
    BY <1>2, <1>5 DEF Stat, Inv, Types, Closed
  <2>3. Orderly'
    BY <1>2, <2>1, <2>2, OneStarts DEF Inv, Types, Building
  <2> QED BY <1>2, <2>2, <2>3, FilesComplete
<1>6. CASE Judge(p)
  <2>1. \A q \in Procs \ {p} : ~Starting(q)
    BY <1>3, <1>6 DEF Judge, Starting
  <2>2. UNCHANGED <<file, fd>> /\ pc' = [pc EXCEPT ![p] = Verdict(p)]
        /\ fd[p] \in Inodes
    BY <1>2, <1>6 DEF Judge, Inv, Types, Closed
  <2>3. Verdict(p) \in {"register", "unlink", "truncate"}
    BY DEF Verdict
  <2>4. Verdict(p) = "truncate" => file[fd[p]].version # VERSION
    BY <1>2, <1>6, <2>2 DEF Judge, Verdict, Ready, Orderly
  <2>5. Orderly'
    BY <1>2, <2>1, <2>2, <2>3, <2>4, OneStarts DEF Inv, Types, Building
  <2> QED BY <1>2, <2>2, <2>5, FilesComplete
<1>7. CASE Unlink(p)
  <2>1. \A q \in Procs \ {p} : ~Starting(q)
    BY <1>3, <1>7 DEF Unlink, Starting
  <2>2. UNCHANGED file /\ pc' = [pc EXCEPT ![p] = "reopen"] /\ path' = None
    BY <1>7 DEF Unlink
  <2>3. Orderly'
    BY <1>2, <2>1, <2>2, OneStarts DEF Inv, Types, Building
  <2> QED BY <1>2, <2>2, <2>3, FilesComplete
<1>8. CASE Reopen(p)
  <2>1. \A q \in Procs \ {p} : ~Starting(q)
    BY <1>3, <1>8 DEF Reopen, OpenAt, Starting
  <2>2. path = None
    BY <1>2, <1>8 DEF Reopen, OpenAt, Orderly
  <2>3. UNCHANGED file /\ pc' = [pc EXCEPT ![p] = "truncate"]
        /\ Unused # {} /\ fd' = [fd EXCEPT ![p] = OneOf(Unused)]
    BY <1>8, <2>2 DEF Reopen, OpenAt
  <2>4. fd'[p] \in Unused
    BY <1>2, <2>3, OneOfOK DEF Inv, Types
  <2>5. file[fd'[p]].version # VERSION
    BY <2>4 DEF Unused, Blank, VERSION
  <2>6. Orderly'
    BY <1>2, <2>1, <2>3, <2>5, OneStarts DEF Inv, Types, Building
  <2> QED BY <1>2, <2>3, <2>6, FilesComplete
<1>9. CASE Truncate(p)
  <2> DEFINE i == fd[p]
             n == Wish[p].shm_size
  <2>1. \A q \in Procs \ {p} : ~Starting(q)
    BY <1>3, <1>9 DEF Truncate, Starting
  <2>2. i \in Inodes /\ file[i] \in Contents /\ file[i].version # VERSION
    BY <1>2, <1>9 DEF Truncate, Inv, Types, Closed, Orderly, Building
  <2>3. n \in Nat /\ n > 0
    BY WishOK, RegionHasSize
  <2>4. /\ file' = [file EXCEPT ![i] = [file[i] EXCEPT !.size = n]]
        /\ pc' = [pc EXCEPT ![p] = "lock"] /\ UNCHANGED fd
    BY <1>9 DEF Truncate
  <2>5. file'[i].version = file[i].version /\ file'[i].size = n
        /\ \A j \in Inodes \ {i} : file'[j] = file[j]
    BY <1>2, <2>2, <2>4 DEF Inv, Types, Contents
  <2>6. Orderly'
    BY <1>2, <2>1, <2>2, <2>3, <2>4, <2>5, OneStarts DEF Inv, Types, Building
  <2>7. MagicComplete'
    BY <1>2, <2>2, <2>5 DEF MagicComplete, Ready
  <2> QED BY <2>6, <2>7
<1>10. CASE LockInit(p)
  <2>1. \A q \in Procs \ {p} : ~Starting(q)
    BY <1>3, <1>10 DEF LockInit, Starting
  <2>2. /\ UNCHANGED <<file, fd>> /\ pc' = [pc EXCEPT ![p] = "init"]
        /\ k' = [k EXCEPT ![p] = 1]
        /\ file[fd[p]].version # VERSION /\ file[fd[p]].size > 0
    BY <1>2, <1>10 DEF LockInit, Orderly, Building
  <2>3. BuiltSoFar(p)'
    BY <1>2, <2>2 DEF BuiltSoFar, Inv, Types
  <2>4. Orderly'
    BY <1>2, <2>1, <2>2, <2>3, OneStarts DEF Inv, Types, Building
  <2> QED BY <1>2, <2>2, <2>4, FilesComplete
<1>11. CASE InitPart(p)
  <2> DEFINE i == fd[p]
             n == k[p]
             c == Wish[p]
             f == file[i]
             w == Write(f, Order[n], c)
  <2>1. \A q \in Procs \ {p} : ~Starting(q)
    BY <1>3, <1>11 DEF InitPart, Starting
  <2>2. i \in Inodes /\ f \in Contents /\ n \in 1 .. 8 /\ c \in Configs
    BY <1>2, <1>11, OrderFacts, WishOK DEF InitPart, Inv, Types, Closed
  <2>3. f.version # VERSION /\ f.size > 0 /\ BuiltSoFar(p)
    BY <1>2, <1>11 DEF InitPart, Orderly, Building
  <2>4. file' = [file EXCEPT ![i] = w] /\ UNCHANGED fd
    BY <1>11 DEF InitPart
  <2>5. file'[i] = w /\ \A j \in Inodes \ {i} : file'[j] = file[j]
    BY <1>2, <2>2, <2>4 DEF Inv, Types
  <2>6. /\ w.size = f.size
        /\ w.version = IF n = 8 THEN VERSION ELSE f.version
        /\ w.magic = IF n = 7 THEN MAGIC ELSE f.magic
        /\ w.config = IF n = 1 THEN c ELSE f.config
        /\ \A x \in Parts :
             w.built[x] = IF x = Order[n] THEN c ELSE f.built[x]
    <3> HIDE DEF i, n, c, f
    <3> QED BY <2>2, WriteFields
  <2> HIDE DEF w
  <2>7. \A m \in 1 .. n : w.built[Order[m]] = c
    <3> SUFFICES ASSUME NEW m \in 1 .. n PROVE w.built[Order[m]] = c
      OBVIOUS
    <3>1. m \in 1 .. 8 /\ Order[m] \in Parts
      BY <2>2, OrderFacts
    <3>2. m # n => f.built[Order[m]] = c
      BY <2>2, <2>3 DEF BuiltSoFar, Part
    <3>3. CASE m = n
      BY <2>6, <3>1, <3>3
    <3>4. CASE m # n
      BY <2>6, <3>1, <3>2, <3>4
    <3> QED BY <3>3, <3>4
  <2>8. w.config = c
    BY <2>2, <2>3, <2>6 DEF BuiltSoFar
  <2>9. n >= 7 => w.magic = MAGIC
    BY <2>2, <2>3, <2>6 DEF BuiltSoFar
  <2>10. CASE n < 8
    <3>1. pc' = pc /\ k' = [k EXCEPT ![p] = n + 1] /\ pc[p] = "init"
      BY <1>11, <2>10, OrderFacts DEF InitPart
    <3>2. BuiltSoFar(p)'
      <4>1. k'[p] = n + 1 /\ fd'[p] = i /\ file'[fd'[p]] = w
        BY <1>2, <2>4, <2>5, <3>1 DEF Inv, Types
      <4> QED BY <2>2, <2>7, <2>8, <2>9, <4>1 DEF BuiltSoFar, Part
    <3>3. w.version # VERSION
      BY <2>3, <2>6, <2>10
    <3>4. Orderly'
      BY <1>2, <2>1, <2>3, <2>4, <2>5, <2>6, <3>1, <3>2, <3>3, OneStarts
         DEF Building
    <3>5. MagicComplete'
      BY <1>2, <2>5, <3>3 DEF MagicComplete, Ready
    <3> QED BY <3>4, <3>5
  <2>11. CASE n = 8
    <3>1. pc' = [pc EXCEPT ![p] = "register"]
      BY <1>11, <2>11, OrderFacts DEF InitPart
    <3>2. w.magic = MAGIC /\ w.size > 0
      BY <2>3, <2>6, <2>9, <2>11
    <3>3. Orderly'
      BY <1>2, <2>1, <2>5, <3>1, <3>2, OneStarts DEF Inv, Types, Building
    <3>4. \A x \in Parts : w.built[x] = w.config
      BY <2>7, <2>8, <2>11, OrderDistinct
    <3>5. MagicComplete'
      BY <1>2, <2>5, <3>4 DEF MagicComplete, Ready
    <3> QED BY <3>3, <3>5
  <2> QED BY <2>2, <2>10, <2>11
<1>12. ASSUME Register(p) \/ Close(p) \/ Crash(p)
       PROVE  Orderly' /\ MagicComplete'
  <2>1. UNCHANGED <<path, k>> /\ pc'[p] \in {"live", "gone"}
    BY <1>2, <1>12 DEF Register, Close, Crash, Inv, Types
  <2>2. \A q \in Procs \ {p} :
          /\ pc'[q] = pc[q] /\ fd'[q] = fd[q] /\ mapped'[q] = mapped[q]
          /\ k'[q] = k[q] /\ (fd[q] \in Inodes \/ pc[q] \in Closed)
    BY <1>2, <1>12 DEF Register, Close, Crash, Inv, Types
  <2>3. \A i \in Inodes : \/ file'[i] = file[i]
                          \/ \E r : file'[i] = [file[i] EXCEPT !.reg = r]
    <3> DEFINE j == fd[p]
               To(r) == file' = [file EXCEPT ![j] = [file[j] EXCEPT !.reg = r]]
    <3>1. \/ UNCHANGED file
          \/ To(IF Cardinality(file[j].reg) < Wish[p].max_processes
                THEN file[j].reg \cup {p} ELSE file[j].reg)
          \/ To(file[j].reg \ {p})
      BY <1>12 DEF Register, Close, Crash
    <3>2. UNCHANGED file \/ \E r : To(r)
      BY <3>1
    <3>3. \A r : To(r) => \A i \in Inodes :
            file'[i] = file[i] \/ file'[i] = [file[i] EXCEPT !.reg = r]
      BY <1>2 DEF Inv, Types
    <3> HIDE DEF To
    <3> QED BY <3>2, <3>3
  <2>4. \A i \in Inodes : file[i] \in Contents
    BY <1>2 DEF Inv, Types
  <2>5. \A i \in Inodes :
          /\ file'[i].version = file[i].version
          /\ file'[i].magic = file[i].magic
          /\ file'[i].size = file[i].size
          /\ file'[i].config = file[i].config
          /\ file'[i].built = file[i].built
    <3> SUFFICES ASSUME NEW i \in Inodes
                 PROVE  /\ file'[i].version = file[i].version
                        /\ file'[i].magic = file[i].magic
                        /\ file'[i].size = file[i].size
                        /\ file'[i].config = file[i].config
                        /\ file'[i].built = file[i].built
      OBVIOUS
    <3>1. \A f \in Contents : \A r :
            LET g == [f EXCEPT !.reg = r] IN
            /\ g.version = f.version /\ g.magic = f.magic
            /\ g.size = f.size /\ g.config = f.config /\ g.built = f.built
      BY DEF Contents
    <3>2. CASE file'[i] = file[i]
      BY <3>2
    <3>3. CASE \E r : file'[i] = [file[i] EXCEPT !.reg = r]
      BY <2>4, <3>1, <3>3
    <3> QED BY <2>3, <3>2, <3>3
  <2> QED BY <1>2, <2>1, <2>2, <2>5, NothingBuilt
<1> QED BY <1>4, <1>5, <1>6, <1>7, <1>8, <1>9, <1>10, <1>11, <1>12 DEF Step

\* While one process at a time is starting: a header that says ready stands
\* on tables that were all written, for the configuration it holds, and that
\* lie apart; however many builders died half-way and whatever the file held
\* (lib.rs shm_init writes magic and version last).
THEOREM ReadyIsComplete == Staggered => (Spec => []MagicComplete)
<1> SUFFICES ASSUME Staggered PROVE Spec => []MagicComplete
  OBVIOUS
<1>1. CInv /\ [Next]_vars => CInv'
  BY CInvStep
<1>2. CInv => MagicComplete
  BY DEF CInv
<1> QED BY <1>1, <1>2, CInvInit, PTL DEF Spec

-----------------------------------------------------------------------------
(* Where the live processes are.                                            *)

\* Who has joined a region has joined one of its configuration; who takes the
\* name away has met one of another; who has a file open while it starts has
\* the one the name leads to.
Settled(p) ==
    /\ pc[p] \in {"register", "live"} =>
          Ready(file[fd[p]]) /\ Same(file[fd[p]].config, Wish[p])
    /\ pc[p] = "unlink" =>
          Ready(file[fd[p]]) /\ ~Same(file[fd[p]].config, Wish[p])
    /\ Starting(p) /\ pc[p] # "reopen" => fd[p] = path

Alike(p) == \A q \in Procs : pc[q] # "off" => Same(Wish[q], Wish[p])
Meets(p) == pc[p] = "live" /\ Alike(p) => fd[p] = path

MInv == CInv /\ \A p \in Procs : Settled(p) /\ Meets(p)

LEMMA SameIs ==
    /\ \A c, d : Same(c, d) => Same(d, c)
    /\ \A c, d, e : Same(c, d) /\ Same(d, e) => Same(c, e)
BY DEF Same

LEMMA MInvInit == Init => MInv
<1> SUFFICES ASSUME Init PROVE MInv
  OBVIOUS
<1>1. \A p \in Procs : pc[p] = "off"
  BY DEF Init
<1> QED BY <1>1, CInvInit DEF MInv, Settled, Meets, Starting

\* What a step does beside moving p: nobody writes to a finished region but
\* its registry, and the name changes only while nobody else is starting.
Elsewhere(p) ==
    /\ \A q \in Procs \ {p} : pc'[q] = pc[q] /\ fd'[q] = fd[q]
    /\ pc'[p] # "off"
    /\ \A i \in Inodes : Ready(file[i]) =>
          Ready(file'[i]) /\ file'[i].config = file[i].config
    /\ \/ path' = path
       \/ /\ \A q \in Procs \ {p} : ~Starting(q)
          /\ path = None \/ (pc[p] = "unlink" /\ path' = None)

LEMMA StepElsewhere ==
    ASSUME Staggered, CInv, NEW p \in Procs,
           Open(p) \/ Step(p) \/ Close(p) \/ Crash(p)
    PROVE  Elsewhere(p)
<1> USE DEF Goto
<1>1. /\ Types /\ Orderly
      /\ \A i \in Inodes : file[i] \in Contents
      /\ Starting(p) => \A q \in Procs \ {p} : ~Starting(q)
  BY DEF CInv, Inv, Types, Orderly
<1>2. pc[p] \notin Closed => fd[p] \in Inodes
  BY <1>1 DEF Types
<1>3. CASE Open(p) \/ Reopen(p)
  <2>1. /\ UNCHANGED file /\ (path' = path \/ path = None)
        /\ pc' = [pc EXCEPT ![p] = pc'[p]] /\ pc'[p] \in {"stat", "truncate"}
        /\ \A q \in Procs \ {p} : fd'[q] = fd[q]
    BY <1>1, <1>3 DEF Open, Reopen, OpenAt, Types
  <2>2. \A q \in Procs \ {p} : ~Starting(q)
    BY <1>1, <1>3 DEF Open, Reopen, OpenAt, Starting
  <2> QED BY <1>1, <2>1, <2>2 DEF Elsewhere, Types, Ready
<1>4. CASE Stat(p) \/ Judge(p) \/ LockInit(p)
  <2>1. UNCHANGED <<file, path, fd>>
    BY <1>4 DEF Stat, Judge, LockInit
  <2>2. /\ \A q \in Procs \ {p} : pc'[q] = pc[q]
        /\ pc'[p] # "off"
    BY <1>1, <1>4 DEF Stat, Judge, LockInit, Types, Verdict
  <2> QED BY <2>1, <2>2 DEF Elsewhere, Ready
<1>5. CASE Unlink(p)
  <2>1. /\ \A q \in Procs \ {p} : ~Starting(q) /\ pc'[q] = pc[q] /\ fd'[q] = fd[q]
        /\ pc'[p] # "off" /\ UNCHANGED file /\ path' = None /\ pc[p] = "unlink"
    BY <1>1, <1>5 DEF Unlink, Types, Starting
  <2> QED BY <2>1 DEF Elsewhere, Ready
<1>6. CASE Truncate(p) \/ InitPart(p)
  <2>1. /\ fd[p] \in Inodes /\ file[fd[p]].version # VERSION
        /\ UNCHANGED <<path, fd>>
    BY <1>1, <1>2, <1>6 DEF Truncate, InitPart, Closed, Orderly, Building
  <2>2. \A i \in Inodes \ {fd[p]} : file'[i] = file[i]
    BY <1>1, <1>6, <2>1 DEF Truncate, InitPart, Types
  <2>3. /\ \A q \in Procs \ {p} : pc'[q] = pc[q]
        /\ pc'[p] # "off"
    BY <1>1, <1>6 DEF Truncate, InitPart, Types
  <2> QED BY <2>1, <2>2, <2>3 DEF Elsewhere, Ready
<1>7. CASE Register(p) \/ Close(p) \/ Crash(p)
  <2>1. /\ \A q \in Procs \ {p} : pc'[q] = pc[q] /\ fd'[q] = fd[q]
        /\ pc'[p] # "off" /\ UNCHANGED path
    BY <1>1, <1>7 DEF Register, Close, Crash, Types
  <2>2. \A i \in Inodes : Ready(file[i]) =>
            Ready(file'[i]) /\ file'[i].config = file[i].config
    <3> DEFINE j == fd[p]
               To(r) == file' = [file EXCEPT ![j] = [file[j] EXCEPT !.reg = r]]
    <3>1. \/ UNCHANGED file
          \/ To(IF Cardinality(file[j].reg) < Wish[p].max_processes
                THEN file[j].reg \cup {p} ELSE file[j].reg)
          \/ To(file[j].reg \ {p})
      BY <1>7 DEF Register, Close, Crash
    <3>2. \A f \in Contents : \A r :
            LET g == [f EXCEPT !.reg = r] IN
            g.version = f.version /\ g.magic = f.magic /\ g.config = f.config
      BY DEF Contents
    <3>3. ASSUME NEW r, To(r)
          PROVE  \A i \in Inodes : /\ file'[i].version = file[i].version
                                   /\ file'[i].magic = file[i].magic
                                   /\ file'[i].config = file[i].config
      <4>1. \A i \in Inodes :
              file'[i] = file[i] \/ file'[i] = [file[i] EXCEPT !.reg = r]
        BY <1>1, <3>3 DEF Types
      <4> TAKE i \in Inodes
      <4>2. CASE file'[i] = file[i]
        BY <4>2
      <4>3. CASE file'[i] = [file[i] EXCEPT !.reg = r]
        BY <1>1, <3>2, <4>3
      <4> QED BY <4>1, <4>2, <4>3
    <3> HIDE DEF To
    <3> QED BY <3>1, <3>3 DEF Ready
  <2> QED BY <2>1, <2>2 DEF Elsewhere
<1> QED BY <1>3, <1>4, <1>5, <1>6, <1>7 DEF Step

LEMMA MeetsStep ==
    ASSUME Staggered, MInv, NEW p \in Procs,
           Open(p) \/ Step(p) \/ Close(p) \/ Crash(p)
    PROVE  \A q \in Procs : Settled(q)' /\ Meets(q)'
<1> USE DEF Goto
<1>1. /\ Types /\ Orderly /\ Settled(p) /\ Meets(p)
      /\ \A q \in Procs : pc[q] \notin Closed => fd[q] \in Inodes
      /\ None \notin Inodes
  BY ShmAssumption DEF MInv, CInv, Inv, Types
<1>2. Elsewhere(p)
  BY StepElsewhere DEF MInv
<1>3. \A q \in Procs : Alike(q)' => Alike(q)
  BY <1>2 DEF Alike, Elsewhere
<1>4. ASSUME NEW q \in Procs \ {p} PROVE Settled(q)' /\ Meets(q)'
  <2>1. pc'[q] = pc[q] /\ fd'[q] = fd[q] /\ Settled(q) /\ Meets(q)
    BY <1>2 DEF Elsewhere, MInv
  <2>2. pc[q] \in {"register", "live", "unlink"} => fd[q] \in Inodes
    BY <1>1 DEF Closed
  <2>3. Settled(q)'
    BY <1>2, <2>1, <2>2 DEF Elsewhere, Settled, Starting
  <2>4. ASSUME pc[q] = "live", Alike(q)', path' # path PROVE FALSE
    <3>1. fd[q] = path /\ path \in Inodes /\ Alike(q)
      BY <1>3, <2>1, <2>2, <2>4 DEF Meets
    <3>2. pc[p] = "unlink" /\ fd[p] = path
      BY <1>1, <1>2, <2>4, <3>1 DEF Elsewhere, Settled, Starting
    <3>3. Same(file[path].config, Wish[q])
      BY <2>1, <2>4, <3>1 DEF Settled
    <3>4. Same(Wish[p], Wish[q])
      BY <3>1, <3>2 DEF Alike
    <3>5. ~Same(file[path].config, Wish[p])
      BY <1>1, <3>2 DEF Settled
    <3> QED BY <3>3, <3>4, <3>5, SameIs
  <2>5. Meets(q)'
    BY <1>3, <2>1, <2>4 DEF Meets
  <2> QED BY <2>3, <2>5
<1>5. Settled(p)' /\ Meets(p)'
  <2>1. CASE Open(p) \/ Reopen(p)
    <3>1. pc'[p] \in {"stat", "truncate"} /\ fd'[p] = path'
      BY <1>1, <2>1 DEF Open, Reopen, OpenAt, Types
    <3> QED BY <3>1 DEF Settled, Meets
  <2>2. CASE Stat(p) \/ LockInit(p) \/ Truncate(p)
    <3>1. /\ pc'[p] \in {"judge", "init", "lock"}
          /\ UNCHANGED <<fd, path>> /\ Starting(p) /\ pc[p] # "reopen"
      BY <1>1, <2>2 DEF Stat, LockInit, Truncate, Types, Starting
    <3> QED BY <1>1, <3>1 DEF Settled, Meets
  <2>3. CASE Judge(p)
    <3>1. /\ pc'[p] = Verdict(p) /\ UNCHANGED <<fd, path, file>>
          /\ Starting(p) /\ pc[p] # "reopen"
      BY <1>1, <2>3 DEF Judge, Types, Starting
    <3>2. /\ Verdict(p) = "register" =>
                Ready(file[fd[p]]) /\ Same(file[fd[p]].config, Wish[p])
          /\ Verdict(p) = "unlink" =>
                Ready(file[fd[p]]) /\ ~Same(file[fd[p]].config, Wish[p])
          /\ Verdict(p) \in {"register", "unlink", "truncate"}
      BY DEF Verdict
    <3> QED BY <1>1, <3>1, <3>2 DEF Settled, Meets, Ready
  <2>4. CASE Unlink(p)
    <3>1. pc'[p] = "reopen"
      BY <1>1, <2>4 DEF Unlink, Types
    <3> QED BY <3>1 DEF Settled, Meets
  <2>5. CASE InitPart(p)
    <3>1. /\ pc[p] = "init" /\ UNCHANGED <<fd, path>> /\ fd[p] = path
          /\ pc'[p] \in {"init", "register"} /\ fd[p] \in Inodes
      BY <1>1, <2>5 DEF InitPart, Types, Settled, Starting, Closed
    <3>2. ASSUME pc'[p] = "register"
          PROVE  /\ Ready(file'[fd[p]])
                 /\ Same(file'[fd[p]].config, Wish[p])
      <4> DEFINE f == file[fd[p]]
                 n == k[p]
      <4>1. n = 8 /\ f \in Contents /\ Wish[p] \in Configs
        BY <1>1, <2>5, <3>1, <3>2, OrderFacts, WishOK DEF InitPart, Types
      <4>2. f.config = Wish[p] /\ f.magic = MAGIC
        BY <1>1, <3>1, <4>1 DEF Orderly, BuiltSoFar
      <4>3. file'[fd[p]] = Write(f, Order[n], Wish[p])
        BY <1>1, <2>5, <3>1 DEF InitPart, Types
      <4> HIDE DEF f, n
      <4>4. LET w == Write(f, Order[n], Wish[p]) IN
            w.version = VERSION /\ w.magic = MAGIC /\ w.config = Wish[p]
        BY <4>1, <4>2, WriteFields
      <4> QED BY <4>3, <4>4 DEF Ready, Same
    <3> QED BY <3>1, <3>2 DEF Settled, Meets
  <2>6. CASE Register(p)
    <3>1. /\ pc[p] = "register" /\ pc'[p] = "live" /\ UNCHANGED <<fd, path>>
          /\ fd[p] = path /\ fd[p] \in Inodes
      BY <1>1, <2>6 DEF Register, Types, Settled, Starting, Closed
    <3> QED BY <1>1, <1>2, <3>1 DEF Settled, Meets, Elsewhere, Starting
  <2>7. CASE Close(p) \/ Crash(p)
    <3>1. pc'[p] = "gone"
      BY <1>1, <2>7 DEF Close, Crash, Types
    <3> QED BY <3>1 DEF Settled, Meets, Starting
  <2> QED BY <2>1, <2>2, <2>3, <2>4, <2>5, <2>6, <2>7 DEF Step
<1> QED BY <1>4, <1>5

LEMMA MInvStep == Staggered /\ MInv /\ [Next]_vars => MInv'
<1> SUFFICES ASSUME Staggered, MInv, [Next]_vars PROVE MInv'
  OBVIOUS
<1>1. CInv'
  BY CInvStep DEF MInv
<1>2. CASE UNCHANGED vars
  <2>1. \A p \in Procs : Settled(p)' /\ Meets(p)'
    BY <1>2 DEF vars, MInv, Settled, Meets, Alike, Starting, Ready
  <2> QED BY <1>1, <2>1 DEF MInv
<1>3. CASE Next
  BY <1>1, <1>3, MeetsStep DEF MInv, Next
<1> QED BY <1>2, <1>3

\* While one process at a time is starting: processes of one configuration
\* are in one region, the one the name leads to, unless one of another was
\* started; whoever was killed, with the region half-built or with the name
\* taken away (layer.py _do_initialize).
THEOREM AlikeMeet == Staggered => (Spec => []LiveTogether)
<1> SUFFICES ASSUME Staggered PROVE Spec => []LiveTogether
  OBVIOUS
<1>1. MInv /\ [Next]_vars => MInv'
  BY MInvStep
<1>2. MInv => LiveTogether
  BY DEF MInv, Meets, Alike, LiveTogether
<1> QED BY <1>1, <1>2, MInvInit, PTL DEF Spec

-----------------------------------------------------------------------------
(* What a live process works in.                                            *)

\* validate_config does not compare shm_size: whoever joins a region maps all
\* of the file, but hands its own shm_size to the slab allocator.
OneSize ==
    \A p, q \in Procs : \A c \in {Wish[p], [Wish[p] EXCEPT !.sizes = 0]} :
        Same(c, Wish[q]) => c.shm_size = Wish[q].shm_size

\* A ready region is as large as its configuration says, and what is mapped
\* of it is all of it.
Known(c) == \E p \in Procs : c \in {Wish[p], [Wish[p] EXCEPT !.sizes = 0]}
Sized ==
    \A i \in Inodes : Ready(file[i]) =>
        file[i].size = file[i].config.shm_size /\ Known(file[i].config)
MapsAll(p) ==
    /\ pc[p] \in {"judge", "lock", "init", "register", "live"} =>
           mapped[p] = file[fd[p]].size
    /\ pc[p] \in {"lock", "init"} => mapped[p] = Wish[p].shm_size

\* Only processes of its configuration are entered in a region, so there is a
\* slot for each of them; only the process itself gives its slot back.
Rolls == \A i \in Inodes : \A q \in file[i].reg :
            Ready(file[i]) /\ Same(file[i].config, Wish[q])
Enrolled(p) == pc[p] = "live" /\ Roomy(p) => p \in file[fd[p]].reg

LInv == MInv /\ Sized /\ Rolls /\ \A p \in Procs : MapsAll(p) /\ Enrolled(p)

LEMMA LInvInit == Init => LInv
<1> SUFFICES ASSUME Init PROVE LInv
  OBVIOUS
<1>1. PICK what \in Found, p \in Procs :
        IF what = "nothing"
        THEN path = None /\ file = [i \in Inodes |-> Blank]
        ELSE /\ path = OneOf(Inodes)
             /\ file = [[i \in Inodes |-> Blank] EXCEPT
                            ![OneOf(Inodes)] = AsFound(what, Wish[p])]
  BY DEF Init
<1> DEFINE c == Wish[p]
<1>2. \A i \in Inodes : \/ file[i] = Blank
                        \/ what # "nothing" /\ file[i] = AsFound(what, c)
  BY <1>1
<1>3. ~Ready(Blank) /\ Blank.reg = {}
  BY DEF Blank, Ready, VERSION
<1>4. ASSUME what # "nothing"
      PROVE  LET f == AsFound(what, c) IN
             /\ f.reg = {}
             /\ Ready(f) => f.size = f.config.shm_size /\ Known(f.config)
  <2>1. what \in {"empty", "old layout", "other", "garbage"}
    BY <1>4, ShmAssumption
  <2>2. CASE what \in {"empty", "garbage"}
    <3>1. AsFound(what, c).version = 0 /\ AsFound(what, c).reg = {}
      BY <2>2 DEF AsFound, Blank
    <3> QED BY <3>1 DEF Ready, VERSION
  <2>3. CASE what = "old layout"
    <3>1. AsFound(what, c).version = 1 /\ AsFound(what, c).reg = {}
      BY <2>3 DEF AsFound, Complete
    <3> QED BY <3>1 DEF Ready, VERSION
  <2>4. CASE what = "other"
    BY <2>4 DEF AsFound, Complete, Known
  <2> QED BY <2>1, <2>2, <2>3, <2>4
<1>5. Sized /\ Rolls
  <2> HIDE DEF c
  <2> QED BY <1>2, <1>3, <1>4 DEF Sized, Rolls
<1>6. \A q \in Procs : pc[q] = "off"
  BY DEF Init
<1> QED BY <1>5, <1>6, MInvInit DEF LInv, MapsAll, Enrolled

\* What a step of p does to a file: it changes no ready one but for its own
\* slot, and makes a region ready only by finishing it.
LEMMA RegistryOnly ==
    ASSUME NEW f \in Contents, NEW r
    PROVE  LET g == [f EXCEPT !.reg = r] IN
           /\ g.reg = r /\ g.version = f.version /\ g.magic = f.magic
           /\ g.size = f.size /\ g.config = f.config
BY DEF Contents

Touches(p, i) ==
    /\ Ready(file[i]) =>
          /\ Ready(file'[i]) /\ file'[i].size = file[i].size
          /\ file'[i].config = file[i].config
          /\ file'[i].reg \ {p} = file[i].reg \ {p}
    /\ ~Ready(file[i]) => file'[i].reg = {}
    /\ Ready(file'[i]) /\ ~Ready(file[i]) =>
          /\ file'[i].config = Wish[p]
          /\ file'[i].size = Wish[p].shm_size
    /\ p \in file'[i].reg =>
          p \in file[i].reg \/ (pc[p] = "register" /\ i = fd[p])

LEMMA StepTouches ==
    ASSUME Staggered, LInv, NEW p \in Procs,
           Open(p) \/ Step(p) \/ Close(p) \/ Crash(p)
    PROVE  \A i \in Inodes : Touches(p, i)
<1>1. /\ Types /\ Orderly /\ Settled(p) /\ MapsAll(p) /\ Rolls
      /\ \A i \in Inodes : file[i] \in Contents
      /\ pc[p] \notin Closed => fd[p] \in Inodes
      /\ \A i \in Inodes : ~Ready(file[i]) => file[i].reg = {}
  BY DEF LInv, MInv, CInv, Inv, Types, Rolls
<1>2. ASSUME UNCHANGED file PROVE \A i \in Inodes : Touches(p, i)
  BY <1>1, <1>2 DEF Touches, Ready
<1>3. CASE Open(p) \/ Stat(p) \/ Judge(p) \/ Unlink(p) \/ Reopen(p)
             \/ LockInit(p) \/ Crash(p)
  <2>1. UNCHANGED file
    BY <1>3 DEF Open, Stat, Judge, Unlink, Reopen, OpenAt, LockInit, Crash
  <2> QED BY <1>2, <2>1
<1>4. CASE Truncate(p)
  <2> DEFINE j == fd[p]
             g == [file[j] EXCEPT !.size = Wish[p].shm_size]
  <2>1. j \in Inodes /\ file[j].version # VERSION
    BY <1>1, <1>4 DEF Truncate, Closed, Orderly, Building
  <2>2. file' = [file EXCEPT ![j] = g]
    BY <1>4 DEF Truncate
  <2>3. file'[j] = g /\ \A i \in Inodes \ {j} : file'[i] = file[i]
    BY <1>1, <2>1, <2>2 DEF Types
  <2>4. g.version = file[j].version /\ g.reg = file[j].reg
    BY <1>1, <2>1 DEF Contents
  <2> HIDE DEF g, j
  <2>5. Touches(p, j)
    BY <1>1, <2>1, <2>3, <2>4 DEF Touches, Ready
  <2>6. \A i \in Inodes \ {j} : Touches(p, i)
    BY <1>1, <2>3 DEF Touches, Ready
  <2> QED BY <2>5, <2>6
<1>5. CASE InitPart(p)
  <2> DEFINE j == fd[p]
             n == k[p]
             f == file[j]
             w == Write(f, Order[n], Wish[p])
  <2>1. /\ j \in Inodes /\ f \in Contents /\ n \in 1 .. 8
        /\ Wish[p] \in Configs /\ pc[p] = "init"
    BY <1>1, <1>5, OrderFacts, WishOK DEF InitPart, Types, Closed
  <2>2. /\ f.version # VERSION /\ BuiltSoFar(p)
        /\ f.size = Wish[p].shm_size /\ f.reg = {}
    BY <1>1, <2>1 DEF Orderly, Building, MapsAll, Ready
  <2>3. file' = [file EXCEPT ![j] = w]
    BY <1>5 DEF InitPart
  <2>4. file'[j] = w /\ \A i \in Inodes \ {j} : file'[i] = file[i]
    BY <1>1, <2>1, <2>3 DEF Types
  <2>5. /\ w.size = f.size
        /\ w.version = IF n = 8 THEN VERSION ELSE f.version
        /\ w.config = IF n = 1 THEN Wish[p] ELSE f.config
    <3> HIDE DEF n, f
    <3> QED BY <2>1, WriteFields
  <2>6. w.reg = {}
    <3> HIDE DEF n, f
    <3> QED BY <2>1, <2>2 DEF Write, Contents
  <2>7. n = 8 => w.config = Wish[p]
    BY <2>2, <2>5 DEF BuiltSoFar
  <2> HIDE DEF w
  <2>8. Touches(p, j)
    BY <2>2, <2>4, <2>5, <2>6, <2>7 DEF Touches, Ready
  <2>9. \A i \in Inodes \ {j} : Touches(p, i)
    <3> HIDE DEF j
    <3> QED BY <1>1, <2>4 DEF Touches, Ready
  <2> QED BY <2>8, <2>9
<1>6. CASE Register(p) \/ Close(p)
  <2> DEFINE j == fd[p]
             To(r) == file' = [file EXCEPT ![j] = [file[j] EXCEPT !.reg = r]]
  <2>1. j \in Inodes /\ Ready(file[j]) /\ file[j] \in Contents
    BY <1>1, <1>6 DEF Register, Close, Closed, Settled
  <2>2. PICK r :
          /\ To(r) /\ r \ {p} = file[j].reg \ {p}
          /\ p \in r => p \in file[j].reg \/ pc[p] = "register"
    <3>1. CASE Register(p)
      <4> DEFINE r == IF Cardinality(file[j].reg) < Wish[p].max_processes
                      THEN file[j].reg \cup {p} ELSE file[j].reg
      <4>1. To(r) /\ pc[p] = "register"
        BY <3>1 DEF Register
      <4>2. r \ {p} = file[j].reg \ {p}
        OBVIOUS
      <4> HIDE DEF To, r
      <4> QED BY <4>1, <4>2
    <3>2. CASE Close(p)
      <4> DEFINE r == file[j].reg \ {p}
      <4>1. To(r)
        BY <3>2 DEF Close
      <4>2. r \ {p} = file[j].reg \ {p} /\ p \notin r
        OBVIOUS
      <4> HIDE DEF To, r
      <4> QED BY <4>1, <4>2
    <3> QED BY <1>6, <3>1, <3>2
  <2> DEFINE g == [file[j] EXCEPT !.reg = r]
  <2>3. file'[j] = g /\ \A i \in Inodes \ {j} : file'[i] = file[i]
    BY <1>1, <2>1, <2>2 DEF Types
  <2>4. /\ g.reg = r /\ g.version = file[j].version
        /\ g.magic = file[j].magic /\ g.size = file[j].size
        /\ g.config = file[j].config
    BY <2>1, RegistryOnly
  <2> HIDE DEF g, To
  <2>5. Touches(p, j)
    BY <2>1, <2>2, <2>3, <2>4 DEF Touches, Ready
  <2>6. \A i \in Inodes \ {j} : Touches(p, i)
    <3> HIDE DEF j
    <3> QED BY <1>1, <2>3 DEF Touches, Ready
  <2> QED BY <2>5, <2>6
<1> QED BY <1>3, <1>4, <1>5, <1>6 DEF Step

\* A step leaves the files of those who are starting beside p as they are.
LEMMA OthersMap ==
    ASSUME Staggered, LInv, NEW p \in Procs,
           Open(p) \/ Step(p) \/ Close(p) \/ Crash(p),
           NEW q \in Procs \ {p}
    PROVE  MapsAll(q)'
<1>1. /\ Types /\ MapsAll(q) /\ Settled(q)
      /\ \A i \in Inodes : file[i] \in Contents
      /\ Starting(p) /\ Starting(q) => p = q
  BY DEF LInv, MInv, CInv, Inv, Types, Orderly
<1>2. Elsewhere(p) /\ \A i \in Inodes : Touches(p, i)
  BY StepElsewhere, StepTouches DEF LInv, MInv
<1>3. pc'[q] = pc[q] /\ fd'[q] = fd[q] /\ mapped'[q] = mapped[q]
  <2>1. pc'[q] = pc[q] /\ fd'[q] = fd[q]
    BY <1>2 DEF Elsewhere
  <2>2. \/ UNCHANGED mapped
        \/ \E v : mapped' = [mapped EXCEPT ![p] = v]
    BY DEF Open, OpenAt, Step, Stat, Judge, Unlink, Reopen, Truncate, LockInit,
           InitPart, Register, Close, Crash
  <2>3. mapped'[q] = mapped[q]
    BY <1>1, <2>2 DEF Types
  <2> QED BY <2>1, <2>3
<1>4. CASE Starting(q)
  <2>1. ~Starting(p)
    BY <1>1, <1>4
  <2>2. Close(p) \/ Crash(p)
    BY <1>4, <2>1 DEF Open, Step, Starting, Stat, Judge, Unlink, Reopen, OpenAt,
                      Truncate, LockInit, InitPart, Register
  <2>3. \A i \in Inodes : file'[i].size = file[i].size
    <3>1. CASE Crash(p)
      BY <3>1 DEF Crash
    <3>2. CASE Close(p)
      <4> DEFINE j == fd[p]
                 r == file[j].reg \ {p}
                 g == [file[j] EXCEPT !.reg = r]
      <4>1. file' = [file EXCEPT ![j] = g] /\ j \in Inodes
        BY <1>1, <3>2 DEF Close, Types, Closed
      <4>2. g.size = file[j].size
        BY <1>1, <4>1, RegistryOnly
      <4> HIDE DEF g
      <4> QED BY <1>1, <4>1, <4>2 DEF Types
    <3> QED BY <2>2, <3>1, <3>2
  <2>4. pc[q] \in {"judge", "lock", "init", "register"} => fd[q] \in Inodes
    BY <1>1 DEF Types, Closed
  <2> QED BY <1>1, <1>3, <1>4, <2>3, <2>4 DEF MapsAll, Starting
<1>5. CASE pc[q] = "live"
  <2>1. fd[q] \in Inodes /\ Ready(file[fd[q]])
    BY <1>1, <1>5 DEF Types, Closed, Settled
  <2> QED BY <1>1, <1>2, <1>3, <1>5, <2>1 DEF MapsAll, Touches
<1>6. CASE ~Starting(q) /\ pc[q] # "live"
  <2>1. pc[q] \in {"off", "gone"}
    BY <1>6 DEF Starting
  <2> QED BY <1>3, <2>1 DEF MapsAll
<1> QED BY <1>4, <1>5, <1>6

LEMMA OwnMap ==
    ASSUME Staggered, LInv, NEW p \in Procs,
           Open(p) \/ Step(p) \/ Close(p) \/ Crash(p)
    PROVE  MapsAll(p)'
<1> USE DEF Goto
<1>1. /\ Types /\ MapsAll(p)
      /\ \A i \in Inodes : file[i] \in Contents
      /\ pc[p] \notin Closed => fd[p] \in Inodes
  BY DEF LInv, MInv, CInv, Inv, Types
<1>2. CASE Open(p) \/ Unlink(p) \/ Reopen(p) \/ Close(p) \/ Crash(p)
  <2>1. pc'[p] \in {"stat", "reopen", "truncate", "gone"}
    BY <1>1, <1>2 DEF Open, Unlink, Reopen, OpenAt, Close, Crash, Types
  <2> QED BY <2>1 DEF MapsAll
<1>3. CASE Stat(p)
  BY <1>1, <1>3 DEF Stat, MapsAll, Types
<1>4. CASE Judge(p)
  <2>1. /\ pc'[p] \in {"register", "unlink", "truncate"}
        /\ UNCHANGED <<file, fd, mapped>> /\ pc[p] = "judge"
    BY <1>1, <1>4 DEF Judge, Verdict, Types
  <2> QED BY <1>1, <2>1 DEF MapsAll
<1>5. CASE Truncate(p)
  <2> DEFINE j == fd[p]
             n == Wish[p].shm_size
             g == [file[j] EXCEPT !.size = n]
  <2>1. j \in Inodes /\ g.size = n
    BY <1>1, <1>5 DEF Truncate, Closed, Contents
  <2>2. /\ file' = [file EXCEPT ![j] = g] /\ UNCHANGED fd
        /\ mapped' = [mapped EXCEPT ![p] = n] /\ pc'[p] = "lock"
    BY <1>1, <1>5 DEF Truncate, Types
  <2> HIDE DEF g, n
  <2>3. file'[j].size = n /\ mapped'[p] = n /\ fd'[p] = j
    BY <1>1, <2>1, <2>2 DEF Types
  <2> QED BY <2>2, <2>3 DEF MapsAll, n
<1>6. CASE LockInit(p)
  <2>1. /\ pc'[p] = "init" /\ pc[p] = "lock"
        /\ UNCHANGED <<file, fd, mapped>>
    BY <1>1, <1>6 DEF LockInit, Types
  <2> QED BY <1>1, <2>1 DEF MapsAll
<1>7. CASE InitPart(p)
  <2> DEFINE j == fd[p]
             n == k[p]
             f == file[j]
             w == Write(f, Order[n], Wish[p])
  <2>1. /\ j \in Inodes /\ f \in Contents /\ n \in 1 .. 8
        /\ Wish[p] \in Configs /\ pc[p] = "init"
    BY <1>1, <1>7, OrderFacts, WishOK DEF InitPart, Types, Closed
  <2>2. /\ file' = [file EXCEPT ![j] = w] /\ UNCHANGED <<fd, mapped>>
        /\ pc'[p] \in {"init", "register"}
    BY <1>1, <1>7 DEF InitPart, Types
  <2>3. w.size = f.size
    <3> HIDE DEF n, f
    <3> QED BY <2>1, WriteFields
  <2> HIDE DEF w
  <2>4. file'[j].size = file[j].size /\ fd'[p] = j
    BY <1>1, <2>1, <2>2, <2>3 DEF Types
  <2> QED BY <1>1, <2>1, <2>2, <2>4 DEF MapsAll
<1>8. CASE Register(p)
  <2>1. /\ pc[p] = "register" /\ fd[p] \in Inodes /\ pc'[p] = "live"
        /\ UNCHANGED <<fd, mapped>>
    BY <1>1, <1>8 DEF Register, Types, Closed
  <2>2. Ready(file[fd[p]]) /\ Touches(p, fd[p])
    BY <2>1, StepTouches DEF LInv, MInv, Settled
  <2> QED BY <1>1, <2>1, <2>2 DEF MapsAll, Touches
<1> QED BY <1>2, <1>3, <1>4, <1>5, <1>6, <1>7, <1>8 DEF Step

\* Those in a registry are alike: if a process is not among them and there is
\* a slot for all its like, one is free.
LEMMA FreeSlot ==
    ASSUME IsFiniteSet(Procs), NEW p \in Procs, Roomy(p), NEW reg,
           reg \subseteq {q \in Procs : Same(Wish[q], Wish[p])}, p \notin reg
    PROVE  Cardinality(reg) < Wish[p].max_processes
<1> DEFINE A == {q \in Procs : Same(Wish[q], Wish[p])}
<1>1. p \in A /\ IsFiniteSet(A)
  <2>1. IsFiniteSet(A)
    BY FS_Subset
  <2> QED BY <2>1 DEF Same
<1>2. IsFiniteSet(A \ {p}) /\ Cardinality(A \ {p}) = Cardinality(A) - 1
      /\ Cardinality(A) \in Nat
  BY <1>1, FS_RemoveElement, FS_CardinalityType
<1>3. Cardinality(reg) <= Cardinality(A \ {p}) /\ Cardinality(reg) \in Nat
  <2>1. reg \subseteq A \ {p}
    OBVIOUS
  <2> QED BY <1>2, <2>1, FS_Subset, FS_CardinalityType
<1>4. Cardinality(A) <= Wish[p].max_processes /\ Wish[p].max_processes \in Nat
  BY WishOK DEF Roomy, Configs
<1> HIDE DEF A
<1> QED BY <1>2, <1>3, <1>4

LEMMA LInvStep ==
    Staggered /\ IsFiniteSet(Procs) /\ LInv /\ [Next]_vars => LInv'
<1> SUFFICES ASSUME Staggered, IsFiniteSet(Procs), LInv, [Next]_vars
             PROVE  LInv'
  OBVIOUS
<1>1. MInv'
  BY MInvStep DEF LInv
<1>2. CASE UNCHANGED vars
  <2>1. Sized' /\ Rolls'
    BY <1>2 DEF vars, LInv, Sized, Rolls, Ready
  <2>2. \A p \in Procs : MapsAll(p)' /\ Enrolled(p)'
    BY <1>2 DEF vars, LInv, MapsAll, Enrolled
  <2> QED BY <1>1, <2>1, <2>2 DEF LInv
<1>3. CASE Next
  <2>1. PICK p \in Procs : Open(p) \/ Step(p) \/ Close(p) \/ Crash(p)
    BY <1>3 DEF Next
  <2>2. /\ \A i \in Inodes : Touches(p, i)
        /\ Elsewhere(p) /\ Types /\ Sized /\ Rolls
        /\ \A q \in Procs : Settled(q) /\ Enrolled(q)
        /\ \A q \in Procs : pc[q] \notin Closed => fd[q] \in Inodes
    BY <2>1, StepTouches, StepElsewhere DEF LInv, MInv, CInv, Inv, Types
  <2>3. Sized'
    BY <2>2 DEF Sized, Touches, Known
  <2>4. Rolls'
    <3> SUFFICES ASSUME NEW i \in Inodes, NEW q \in file'[i].reg
                 PROVE  Ready(file'[i]) /\ Same(file'[i].config, Wish[q])
      BY DEF Rolls
    <3>1. Ready(file[i]) /\ Ready(file'[i]) /\ file'[i].config = file[i].config
      BY <2>2 DEF Touches
    <3>2. CASE q \in file[i].reg
      BY <2>2, <3>1, <3>2 DEF Rolls
    <3>3. CASE q \notin file[i].reg
      <4>1. q = p /\ pc[p] = "register" /\ i = fd[p]
        BY <2>2, <3>1, <3>3 DEF Touches
      <4> QED BY <2>2, <3>1, <4>1 DEF Settled
    <3> QED BY <3>2, <3>3
  <2>5. ASSUME NEW q \in Procs PROVE MapsAll(q)'
    BY <2>1, OthersMap, OwnMap
  <2>6. ASSUME NEW q \in Procs, pc'[q] = "live", Roomy(q)
        PROVE  q \in file'[fd'[q]].reg
    <3>1. CASE q # p
      <4>1. pc[q] = "live" /\ fd'[q] = fd[q]
        BY <2>2, <2>6, <3>1 DEF Elsewhere
      <4>2. fd[q] \in Inodes /\ Ready(file[fd[q]]) /\ q \in file[fd[q]].reg
        BY <2>2, <2>6, <4>1 DEF Closed, Settled, Enrolled
      <4> QED BY <2>2, <3>1, <4>1, <4>2 DEF Touches
    <3>2. CASE q = p
      <4>1. Register(p)
        <5>1. Register(p) \/ pc'[p] # "live"
          BY <2>1, <2>2 DEF Open, OpenAt, Step, Stat, Judge, Verdict, Unlink,
             Reopen, Truncate, LockInit, InitPart, Close, Crash, Goto, Types
        <5> QED BY <2>6, <3>2, <5>1
      <4> DEFINE j == fd[p]
                 old == file[j].reg
                 r == IF Cardinality(old) < Wish[p].max_processes
                      THEN old \cup {p} ELSE old
                 g == [file[j] EXCEPT !.reg = r]
      <4>2. /\ j \in Inodes /\ file[j] \in Contents /\ fd' = fd
            /\ file' = [file EXCEPT ![j] = g] /\ Same(file[j].config, Wish[p])
        BY <2>2, <4>1 DEF Register, Closed, Types, Settled
      <4>3. old \subseteq {x \in Procs : Same(Wish[x], Wish[p])}
        <5>1. old \subseteq Procs
          BY <4>2, ContentsFields
        <5>2. \A x \in old : Same(file[j].config, Wish[x])
          BY <2>2, <4>2 DEF Rolls
        <5> QED BY <4>2, <5>1, <5>2, SameIs
      <4>4. p \in r
        <5>1. CASE p \in old
          BY <5>1
        <5>2. CASE p \notin old
          <6> HIDE DEF old
          <6>1. Cardinality(old) < Wish[p].max_processes
            BY <2>6, <3>2, <4>3, <5>2, FreeSlot
          <6> QED BY <6>1
        <5> QED BY <5>1, <5>2
      <4>5. g.reg = r
        BY <4>2, RegistryOnly
      <4> HIDE DEF g, r
      <4>6. file'[j] = g
        BY <2>2, <4>2 DEF Types
      <4> QED BY <3>2, <4>2, <4>4, <4>5, <4>6
    <3> QED BY <3>1, <3>2
  <2>7. \A q \in Procs : Enrolled(q)'
    <3>1. \A q \in Procs : Roomy(q)' => Roomy(q)
      BY DEF Roomy
    <3> QED BY <2>6, <3>1 DEF Enrolled
  <2> QED BY <1>1, <2>3, <2>4, <2>5, <2>7 DEF LInv
<1> QED BY <1>2, <1>3

\* While one process at a time is starting, and those of one configuration
\* ask for one size: a live process works in a finished region laid out as it
\* computes its offsets, that nobody has built over since it registered, its
\* slot is there, and the pool it allocates from lies in the bytes it has
\* mapped and in the file (layer.py _do_initialize, lib.rs shm_init).
THEOREM LiveStayIntact ==
    Staggered /\ OneSize /\ IsFiniteSet(Procs) => (Spec => []LiveIntact)
<1> SUFFICES ASSUME Staggered, OneSize, IsFiniteSet(Procs)
             PROVE  Spec => []LiveIntact
  OBVIOUS
<1>1. LInv /\ [Next]_vars => LInv'
  BY LInvStep
<1>2. LInv => LiveIntact
  <2> SUFFICES ASSUME LInv, NEW p \in Procs, pc[p] = "live"
               PROVE  LET f == file[fd[p]]
                          pool == pool_off(Wish[p]) IN
                      /\ Ready(f)
                      /\ \A x \in Parts :
                          f.built[x] # None /\ Same(f.built[x], Wish[p])
                      /\ Roomy(p) => p \in f.reg
                      /\ InBounds(pool, Wish[p].shm_size - pool, mapped[p])
                      /\ mapped[p] <= f.size
    BY DEF LiveIntact
  <2> DEFINE f == file[fd[p]]
             c == Wish[p]
             pool == pool_off(c)
  <2>1. /\ fd[p] \in Inodes /\ f \in Contents /\ Ready(f)
        /\ Same(f.config, c) /\ mapped[p] = f.size
        /\ f.size = f.config.shm_size /\ Known(f.config)
        /\ Roomy(p) => p \in f.reg
    BY DEF LInv, MInv, CInv, Inv, Types, Closed, Settled, MapsAll, Sized,
           Enrolled
  <2>2. \A x \in Parts : f.built[x] = f.config
    BY <2>1 DEF LInv, MInv, CInv, MagicComplete
  <2>3. f.config # None
    <3>1. f.config \in Configs
      BY <2>1 DEF LInv, MInv, CInv, Inv, Configured, Ready
    <3> QED BY <3>1, ShmAssumption
  <2>4. f.size = c.shm_size
    <3> HIDE DEF f
    <3> QED BY <2>1 DEF Known, OneSize
  <2>5. pool \in Nat /\ c.shm_size \in Nat /\ f.size \in Nat
    <3>1. HasLimits(c) /\ c.shm_size \in Nat
      BY WishOK DEF Configs, HasLimits
    <3>2. pool_off(c) \in Nat
      <4>1. /\ c.max_channels * CH_SLOT_SIZE \in Nat
            /\ c.max_groups * GRP_SLOT_SIZE \in Nat
            /\ c.max_processes * REG_SLOT_SIZE \in Nat
        BY <3>1 DEF HasLimits, CH_SLOT_SIZE, GRP_SLOT_SIZE, REG_SLOT_SIZE
      <4> QED BY <4>1 DEF ch_off, grp_off, reg_off, metrics_off, pool_off,
                          HDR_SIZE, METRICS_REGION_SIZE
    <3> QED BY <2>4, <3>1, <3>2
  <2> HIDE DEF f, c, pool
  <2>6. InBounds(pool, c.shm_size - pool, mapped[p])
    BY <2>1, <2>4, <2>5 DEF InBounds
  <2>7. mapped[p] <= f.size
    BY <2>1, <2>5
  <2> QED BY <2>1, <2>2, <2>3, <2>6, <2>7 DEF f, c, pool
<1> QED BY <1>1, <1>2, LInvInit, PTL DEF Spec
=============================================================================
