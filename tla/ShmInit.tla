------------------------------- MODULE ShmInit -------------------------------
(* How a process opens the region, or builds it (layer.py _do_initialize     *)
(* and _init_shm, shm/region.py, shm/lock.py, shm_init of lib.rs).  The name *)
(* in /dev/shm leads to a file; a process that finds a region there with     *)
(* the right magic, version and configuration uses it; it unlinks one with   *)
(* another configuration and builds a new one, and builds over anything      *)
(* else.  The flock is held while the header is judged and while the region  *)
(* is built, and released in between.                                        *)
(*                                                                           *)
(* Judging, and entering the process in the registry, are one action each:   *)
(* everything they read or write is written under the same flock.            *)
EXTENDS Layout, FiniteSets

CONSTANTS
    Procs,          \* the processes that start
    Wish,           \* process -> the configuration it is started with
    Inodes,         \* files the name may lead to, one after the other
    Found,          \* what the name may lead to at first
    Staggered,      \* one process at a time is between open and registration
    MaxCrashes,     \* bound on processes killed
    None

\* sizes stands for inline_size, default_capacity and max_members_per_group.
Configs == [max_channels : Nat, max_groups : Nat, max_processes : Nat,
            sizes : Nat, shm_size : Nat]

ASSUME ShmAssumption ==
    /\ Inodes # {} /\ None \notin Procs \cup Inodes /\ None \notin Configs
    /\ Staggered \in BOOLEAN /\ MaxCrashes \in Nat
    /\ Found \subseteq {"nothing", "empty", "old layout", "other", "garbage"}
    /\ Wish \in [Procs -> Configs]
    /\ \A p \in Procs :
        Wish[p].shm_size >= pool_off(Wish[p]) + 8 * SlabWords

\* What validate_config compares: everything but shm_size.
Same(c, d) == \A f \in {"max_channels", "max_groups", "max_processes",
                        "sizes"} : c[f] = d[f]

VARIABLES
    path,       \* the file the name leads to
    file,       \* file -> its contents: see Blank
    flock,      \* file -> who holds its flock
    pc,         \* what a process does next
    fd,         \* the file it has open
    mapped,     \* the bytes of it that it has mapped
    k,          \* the part of the region it builds next
    crashes

vars == <<path, file, flock, pc, fd, mapped, k, crashes>>

\* Variant: the header is announced before the tables are there.
OrderMagicFirst == <<"magic", "version", "config", "offsets", "channels",
                     "groups", "registry", "slab">>
\* What shm_init writes, in its order.
Order == <<"config", "offsets", "channels", "groups", "registry", "slab",
           "magic", "version">>
Parts == {Order[i] : i \in 1 .. Len(Order)}

\* built tells for each part the configuration it was written for; reg is the
\* processes with a valid slot in the registry.
Blank == [size |-> 0, magic |-> 0, version |-> 0, config |-> None,
          built |-> [x \in Parts |-> None], reg |-> {}]

Unused == {i \in Inodes : i # path /\ file[i] = Blank
                          /\ \A p \in Procs : fd[p] # i}
\* Files that were never used are all alike.
OneOf(files) == CHOOSE i \in files : TRUE

\* Where a part lies in a region of configuration c.
Extent(part, c) ==
    CASE part = "config"   -> At(HDR.inline_size.off, 32)
      [] part = "offsets"  -> At(HDR.channel_index_off.off, 48)
      [] part = "channels" -> Areas(c).channels
      [] part = "groups"   -> Areas(c).groups
      [] part = "registry" -> Areas(c).registry
      [] part = "slab"     -> Areas(c).slab
      [] part = "magic"    -> HDR.magic
      [] part = "version"  -> HDR.version

Ready(f) == f.magic = MAGIC /\ f.version = VERSION

Complete(c) == [size |-> c.shm_size, magic |-> MAGIC, version |-> VERSION,
                config |-> c, built |-> [x \in Parts |-> c], reg |-> {}]
AsFound(what, c) ==
    CASE what = "empty" -> Blank
      [] what = "old layout" ->
            [Complete(c) EXCEPT !.version = 1, !.built = Blank.built]
      [] what = "other" -> Complete([c EXCEPT !.sizes = 0])
      [] what = "garbage" -> [Blank EXCEPT !.size = c.shm_size]

Init ==
    /\ flock = [i \in Inodes |-> None]
    /\ \E what \in Found, p \in Procs :
        IF what = "nothing"
        THEN path = None /\ file = [i \in Inodes |-> Blank]
        ELSE /\ path = OneOf(Inodes)
             /\ file = [[i \in Inodes |-> Blank] EXCEPT
                            ![OneOf(Inodes)] = AsFound(what, Wish[p])]
    /\ pc = [p \in Procs |-> "off"]
    /\ fd = [p \in Procs |-> None]
    /\ mapped = [p \in Procs |-> 0]
    /\ k = [p \in Procs |-> 1]
    /\ crashes = 0

Goto(p, label) == pc' = [pc EXCEPT ![p] = label]

Starting(p) == pc[p] \notin {"off", "live", "gone"}

-----------------------------------------------------------------------------
(* ShmRegionHandle.open(create=True): os.open with O_CREAT, then fstat and   *)
(* mmap of what fstat saw.                                                   *)

OpenAt(p, at, next) ==
    /\ pc[p] = at
    /\ \/ path # None /\ fd' = [fd EXCEPT ![p] = path] /\ UNCHANGED path
       \/ /\ path = None
          /\ Unused # {}
          /\ path' = OneOf(Unused)
          /\ fd' = [fd EXCEPT ![p] = OneOf(Unused)]
    /\ Goto(p, next)
    /\ UNCHANGED <<file, flock, mapped, k, crashes>>

Open(p) ==
    /\ Staggered => \A q \in Procs : ~Starting(q)
    /\ OpenAt(p, "off", "stat")

Stat(p) ==
    /\ pc[p] = "stat"
    /\ mapped' = [mapped EXCEPT ![p] = file[fd[p]].size]
    /\ Goto(p, "judge")
    /\ UNCHANGED <<path, file, flock, fd, k, crashes>>

\* Variant: another configuration is built over in place.
VerdictInPlace(p) ==
    IF mapped[p] > 0 /\ Ready(file[fd[p]]) /\ Same(file[fd[p]].config, Wish[p])
    THEN "register" ELSE "truncate"
\* Variant: whoever starts builds a region of its own.
VerdictRebuild(p) ==
    IF mapped[p] > 0 /\ Ready(file[fd[p]]) THEN "unlink" ELSE "truncate"

\* check_magic and validate_config under the flock, and the decision.
Verdict(p) ==
    IF mapped[p] > 0 /\ Ready(file[fd[p]])
    THEN IF Same(file[fd[p]].config, Wish[p]) THEN "register" ELSE "unlink"
    ELSE "truncate"

Judge(p) ==
    /\ pc[p] = "judge" /\ flock[fd[p]] = None
    /\ Goto(p, Verdict(p))
    /\ UNCHANGED <<path, file, flock, fd, mapped, k, crashes>>

-----------------------------------------------------------------------------
(* The rebuild: the file is closed and whatever the name leads to by now is  *)
(* unlinked; the one opened next is built without being judged.              *)

\* Variant: the old handle stays open.
UnlinkOpen(p) ==
    /\ pc[p] = "unlink"
    /\ path' = None
    /\ Goto(p, "reopen")
    /\ UNCHANGED <<file, flock, fd, mapped, k, crashes>>
Unlink(p) ==
    /\ pc[p] = "unlink"
    /\ path' = None
    /\ fd' = [fd EXCEPT ![p] = None]
    /\ mapped' = [mapped EXCEPT ![p] = 0]
    /\ Goto(p, "reopen")
    /\ UNCHANGED <<file, flock, k, crashes>>

Reopen(p) == OpenAt(p, "reopen", "truncate")

\* ftruncate_and_remap, outside the flock.
Truncate(p) ==
    /\ pc[p] = "truncate"
    /\ file' = [file EXCEPT ![fd[p]].size = Wish[p].shm_size]
    /\ mapped' = [mapped EXCEPT ![p] = Wish[p].shm_size]
    /\ Goto(p, "lock")
    /\ UNCHANGED <<path, flock, fd, k, crashes>>

LockInit(p) ==
    /\ pc[p] = "lock" /\ flock[fd[p]] = None
    /\ flock' = [flock EXCEPT ![fd[p]] = p]
    /\ k' = [k EXCEPT ![p] = 1]
    /\ Goto(p, "init")
    /\ UNCHANGED <<path, file, fd, mapped, crashes>>

\* A part written for configuration c, and every part under it written over.
Built(built, part, c) ==
    [x \in Parts |->
        IF x = part THEN c
        ELSE IF Apart(Extent(x, c).off, Extent(x, c).width,
                      Extent(part, c).off, Extent(part, c).width)
        THEN built[x] ELSE None]

Write(f, part, c) ==
    [f EXCEPT
        !.built = Built(f.built, part, c),
        !.config = IF part = "config" THEN c ELSE @,
        !.reg = IF part = "registry" THEN {} ELSE @,
        !.magic = IF part = "magic" THEN MAGIC ELSE @,
        !.version = IF part = "version" THEN VERSION ELSE @]

\* Variant: the builder goes on with the flock in its hand.
InitPartKeepLock(p) ==
    /\ pc[p] = "init"
    /\ file' = [file EXCEPT ![fd[p]] = Write(@, Order[k[p]], Wish[p])]
    /\ IF k[p] < Len(Order)
       THEN /\ k' = [k EXCEPT ![p] = @ + 1]
            /\ UNCHANGED pc
       ELSE Goto(p, "register") /\ UNCHANGED k
    /\ UNCHANGED <<path, flock, fd, mapped, crashes>>

\* shm_init stores one part; with the last one the flock is released.
InitPart(p) ==
    /\ pc[p] = "init"
    /\ file' = [file EXCEPT ![fd[p]] = Write(@, Order[k[p]], Wish[p])]
    /\ IF k[p] < Len(Order)
       THEN /\ k' = [k EXCEPT ![p] = @ + 1]
            /\ UNCHANGED <<pc, flock>>
       ELSE /\ flock' = [flock EXCEPT ![fd[p]] = None]
            /\ Goto(p, "register")
            /\ UNCHANGED k
    /\ UNCHANGED <<path, fd, mapped, crashes>>

\* registry_register: a full registry is only logged.
Register(p) ==
    /\ pc[p] = "register" /\ flock[fd[p]] = None
    /\ file' = [file EXCEPT ![fd[p]].reg =
                    IF Cardinality(@) < Wish[p].max_processes
                    THEN @ \cup {p} ELSE @]
    /\ Goto(p, "live")
    /\ UNCHANGED <<path, flock, fd, mapped, k, crashes>>

\* close: the slot is given back, the file closed; the region stays.
Close(p) ==
    /\ pc[p] = "live" /\ flock[fd[p]] = None
    /\ file' = [file EXCEPT ![fd[p]].reg = @ \ {p}]
    /\ fd' = [fd EXCEPT ![p] = None]
    /\ mapped' = [mapped EXCEPT ![p] = 0]
    /\ Goto(p, "gone")
    /\ UNCHANGED <<path, flock, k, crashes>>

\* The process is killed; the kernel drops its flock, the region stays.
Crash(p) ==
    /\ pc[p] \notin {"off", "gone"} /\ crashes < MaxCrashes
    /\ crashes' = crashes + 1
    /\ flock' = [i \in Inodes |-> IF flock[i] = p THEN None ELSE flock[i]]
    /\ fd' = [fd EXCEPT ![p] = None]
    /\ mapped' = [mapped EXCEPT ![p] = 0]
    /\ Goto(p, "gone")
    /\ UNCHANGED <<path, file, k>>

Step(p) ==
    \/ Stat(p) \/ Judge(p) \/ Unlink(p) \/ Reopen(p) \/ Truncate(p)
    \/ LockInit(p) \/ InitPart(p) \/ Register(p)

Next == \E p \in Procs : Open(p) \/ Step(p) \/ Close(p) \/ Crash(p)

\* A process that has begun to start goes on; nobody has to start or close.
Fairness == \A p \in Procs : WF_vars(Step(p))

Spec == Init /\ [][Next]_vars
FairSpec == Spec /\ Fairness

-----------------------------------------------------------------------------
TypeOK ==
    /\ path \in Inodes \cup {None}
    /\ \A i \in Inodes :
        /\ file[i].size \in Nat /\ file[i].magic \in {0, MAGIC}
        /\ file[i].version \in 0 .. VERSION /\ file[i].reg \subseteq Procs
        /\ DOMAIN file[i].built = Parts
    /\ flock \in [Inodes -> Procs \cup {None}]
    /\ pc \in [Procs -> {"off", "stat", "judge", "unlink", "reopen",
                         "truncate", "lock", "init", "register", "live",
                         "gone"}]
    /\ fd \in [Procs -> Inodes \cup {None}]
    /\ \A p \in Procs : (fd[p] = None) = (pc[p] \in {"off", "reopen", "gone"})
    /\ mapped \in [Procs -> Nat]
    /\ k \in [Procs -> 1 .. Len(Order)]
    /\ crashes \in 0 .. MaxCrashes

\* A region whose header says it is ready has every table written, for the
\* configuration the header holds and with none lying over another: however
\* many builders were killed half-way, and whatever the file held before.
MagicComplete ==
    \A i \in Inodes :
        Ready(file[i]) =>
            \A x \in Parts : file[i].built[x] = file[i].config

\* The registry has a slot for every process of this configuration.
Roomy(p) == Cardinality({q \in Procs : Same(Wish[q], Wish[p])})
                <= Wish[p].max_processes

\* The region a live process works in is ready, is laid out the way this
\* process computes its offsets, and has not been rebuilt since it
\* registered: its slot is still there (if there was one for it).  The pool it
\* allocates from, as large as its own shm_size says, lies in what it has
\* mapped and in the file (layer.py _do_initialize, lib.rs shm_init).
LiveIntact ==
    \A p \in Procs :
        pc[p] = "live" =>
            LET f == file[fd[p]]
                pool == pool_off(Wish[p]) IN
            /\ Ready(f)
            /\ \A x \in Parts :
                f.built[x] # None /\ Same(f.built[x], Wish[p])
            /\ Roomy(p) => p \in f.reg
            /\ InBounds(pool, Wish[p].shm_size - pool, mapped[p])
            /\ mapped[p] <= f.size

\* Processes started with one configuration meet in one region, the one the
\* name leads to, as long as nobody was started with another.
LiveTogether ==
    \A p \in Procs :
        pc[p] = "live" /\ (\A q \in Procs :
                               pc[q] # "off" => Same(Wish[q], Wish[p]))
            => fd[p] = path

\* In a ready region every field of every slot of every table is where
\* region.rs accepts an access, and no table reaches into the next area.
RegionLaidOut ==
    \A i \in Inodes : Ready(file[i]) => LayoutSound(file[i].config)

\* A process that starts gets as far as being registered, or is killed: a
\* builder that dies with the flock does not hold the others up.
StartsFinish ==
    \A p \in Procs : pc[p] = "stat" ~> pc[p] \in {"live", "gone"}
=============================================================================
