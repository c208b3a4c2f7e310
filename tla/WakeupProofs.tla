---------------------------- MODULE WakeupProofs ----------------------------
(* Who is woken, for any number of processes, channels and slots of the     *)
(* registry, rings, buffers and sockets of any size, any number of sends    *)
(* and flushes, and processes killed anywhere.                              *)
EXTENDS Wakeup, TLAPS, FiniteSetTheorems, SequenceTheorems

Talking == {"scan", "deliver", "mark"}
Labels == {"new", "write", "loop", "enqueue", "group", "drain", "end", "close",
           "gone"} \cup Talking
OpType == [kind : {"none", "send", "group", "flush", "close"},
           chan : Channels \cup {None}, try : 0 .. SpinBound, in : BOOLEAN,
           members : SUBSET Channels, woken : SUBSET Keys, all : BOOLEAN,
           scan : {"none", "all", "one", "path", "self"},
           want : Procs \cup {None}, slot : 1 .. MaxProcesses + 1,
           found : Seq(Slots \X Procs), dead : SUBSET Slots,
           drain : SUBSET Keys]
SlotType == [valid : BOOLEAN, path : Procs \cup {None, Torn}]

\* What the label and the locals of a call say of each other.
Pending(o) == /\ o.kind = "send" /\ o.chan \in Channels /\ ~o.in
              /\ o.found = << >> /\ o.dead = {}
Desk(l, o) ==
    /\ l \in {"new", "loop", "gone"} => o = NoOp
    /\ l = "write" => o.kind = "none" /\ o.slot \in Slots
                        /\ o.found = << >> /\ o.dead = {}
    /\ l = "drain" => o.kind = "none"
    /\ l = "enqueue" => Pending(o)
    /\ l = "group" => o.kind = "group" /\ ~o.all
    /\ l = "close" => o.kind = "close"
    /\ l = "end" => o.kind \notin {"none", "close"}
    /\ o.kind = "close" => l \in {"scan", "mark", "close"}
    /\ o.kind = "send" => o.chan \in Channels
    /\ o.kind = "group" => o.members \subseteq Members
Asks(p, l, o) ==
    l \in Talking =>
        /\ o.scan # "none" /\ o.kind # "none"
        /\ l = "deliver" => o.scan \in {"all", "one"}
        /\ o.scan \in {"one", "path"} => o.want \in Procs \ {p}
        /\ o.scan = "self" <=> o.kind = "close"
        /\ o.scan = "self" => o.want = p
        /\ o.kind = "group" => (o.all <=> o.scan = "all")

Registry ==
    /\ reg \in [Slots -> SlotType]
    /\ \A s \in Slots : reg[s].valid => reg[s].path \in Procs
\* A ring holds messages of its own channels.
Rings ==
    /\ ring \in [Keys -> Seq(Channels)]
    /\ \A key \in Keys :
          /\ Len(ring[key]) <= RingCap
          /\ \A i \in 1 .. Len(ring[key]) : Owner[ring[key][i]] = key
Descriptors ==
    /\ evfd \in [Procs -> BOOLEAN]
    /\ sock \in [Procs -> 0 .. SocketMax]
Pumps ==
    /\ watched \in [Procs -> SUBSET Channels]
    /\ buf \in [Procs -> [Channels -> 0 .. BufCap]]
    /\ waiting \in [Procs -> Channels \cup {None}]
Calls ==
    /\ pc \in [Procs -> Labels]
    /\ op \in [Procs -> OpType]
    /\ \A p \in Procs : Desk(pc[p], op[p]) /\ Asks(p, pc[p], op[p])
Tasks ==
    /\ task \in [Procs -> OpType]
    /\ \A p \in Procs : task[p] = NoOp \/ Pending(task[p])
Counts == sends \in 0 .. MaxSends /\ missed \in SUBSET Keys

TInv == /\ Registry /\ Rings /\ Descriptors /\ Pumps /\ Calls /\ Tasks
        /\ Counts /\ flock \in Procs \cup {None}

-----------------------------------------------------------------------------
(* The registry, as long as a slot is not taken twice.                       *)

Fits == Cardinality(Procs) <= MaxProcesses
Registered(p) == \E s \in Slots : reg[s].valid /\ reg[s].path = p
Listed ==
    /\ \A s \in Slots : reg[s].path \in Procs =>
            pc[reg[s].path] \notin {"new", "write"}
    /\ \A s, t \in Slots :
            reg[s].path \in Procs /\ reg[s].path = reg[t].path => s = t
    /\ \A p \in Procs : pc[p] = "write" =>
            reg[op[p].slot] = [valid |-> FALSE, path |-> Torn]
    /\ \A p, q \in Procs : pc[p] = "write" /\ pc[q] = "write" => p = q
    /\ \A p \in Procs : pc[p] = "write" => flock = p
    /\ Fits => \A p \in Procs : Up(p) /\ op[p].kind # "close" => Registered(p)

\* A process that will not come back, or is closing.
Dead(p, t) ==
    t \in Procs /\ (pc[t] = "gone" \/ (t = p /\ op[p].kind = "close"))
Knows(p) ==
    /\ \A i \in 1 .. Len(op[p].found) :
            reg[op[p].found[i][1]].path = op[p].found[i][2]
    /\ \A s \in op[p].dead : Dead(p, reg[s].path)
    /\ pc[p] = "scan" /\ op[p].scan = "path" => pc[op[p].want] = "gone"
    /\ op[p].scan = "one" => \A i \in 1 .. Len(op[p].found) :
            op[p].found[i][2] = op[p].want
RInv == Listed /\ \A p \in Procs : Knows(p)

-----------------------------------------------------------------------------
(* Who is on the way to wake whom.                                           *)

Watches(p) == \A c \in watched[p] :
    /\ Up(p) /\ op[p].kind # "close"
    /\ p \in Receivers /\ Owner[c] \in {p, Everyone}
\* The owners a group_send has woken are those of channels it has done.
Served(p) == op[p].kind = "group" =>
    \A key \in op[p].woken \cap Procs :
        \E c \in Members \ op[p].members : Owner[c] = key

Ahead(q, p) ==
    \E s \in Slots : reg[s].valid /\ reg[s].path = p /\ op[q].slot <= s
Found(q, p) == \E i \in 1 .. Len(op[q].found) : op[q].found[i][2] = p
Comes(q, p) ==
    \/ pc[q] = "scan" /\ op[q].scan = "all"
            /\ (q = p \/ Ahead(q, p) \/ Found(q, p))
    \/ pc[q] = "deliver" /\ op[q].scan = "all" /\ q # p /\ Found(q, p)
    \/ pc[q] = "scan" /\ op[q].scan = "one" /\ op[q].want = p /\ Ahead(q, p)
    \/ pc[q] = "deliver" /\ op[q].scan = "one" /\ op[q].want = p
            /\ Found(q, p)
Owing(q, p, key) ==
    \/ /\ op[q].kind = "send" /\ op[q].in /\ Owner[op[q].chan] = key
       /\ Comes(q, p)
    \/ /\ op[q].kind = "group" /\ key \in op[q].woken
       /\ \/ ~op[q].all /\ pc[q] # "end" /\ key \in {q, Everyone}
          \/ op[q].all /\ key = Everyone /\ Comes(q, p)
          \/ ~op[q].all /\ key = p /\ Comes(q, p)
Awake(p, key) ==
    \/ evfd[p] \/ sock[p] > 0 \/ key \in missed
    \/ \E q \in Procs : Owing(q, p, key)
Fetches(p, key) == pc[p] = "drain" /\ key \in op[p].drain
Called(p, c) ==
    ring[Owner[c]] # << >> /\ ~Fetches(p, Owner[c]) => Awake(p, Owner[c])
Told == \A p \in Procs : \A c \in watched[p] : Called(p, c)

WInv == /\ \A p \in Procs : Watches(p) /\ Served(p)
        /\ Told

-----------------------------------------------------------------------------
(* Types.                                                                   *)

LEMMA Bounds ==
    /\ MaxProcesses \in Nat \ {0} /\ RingCap \in Nat \ {0}
    /\ BufCap \in Nat \ {0} /\ SocketMax \in Nat \ {0}
    /\ DrainMax \in Nat \ {0}
    /\ SpinBound \in Nat /\ MaxSends \in Nat
BY WakeupAssumption

LEMMA Owners ==
    /\ \A c \in Channels : Owner[c] \in Keys
    /\ Members \subseteq Channels /\ Everyone \notin Procs
    /\ None \notin Procs /\ Torn \notin Procs /\ None \notin Channels
BY WakeupAssumption

LEMMA NoOpType == NoOp \in OpType
<1>1. << >> \in Seq(Slots \X Procs) /\ 1 \in 1 .. MaxProcesses + 1
      /\ 0 \in 0 .. SpinBound
  BY Bounds, EmptySeq
<1> QED BY <1>1 DEF NoOp, OpType

LEMMA OpFields ==
    ASSUME NEW o \in OpType
    PROVE  /\ o.kind \in {"none", "send", "group", "flush", "close"}
           /\ o.chan \in Channels \cup {None} /\ o.try \in 0 .. SpinBound
           /\ o.in \in BOOLEAN /\ o.members \subseteq Channels
           /\ o.woken \subseteq Keys /\ o.all \in BOOLEAN
           /\ o.scan \in {"none", "all", "one", "path", "self"}
           /\ o.want \in Procs \cup {None} /\ o.slot \in 1 .. MaxProcesses + 1
           /\ o.found \in Seq(Slots \X Procs) /\ o.dead \subseteq Slots
           /\ o.drain \subseteq Keys
BY DEF OpType

\* A field set in the locals.
LEMMA OpSet ==
    ASSUME NEW o \in OpType
    PROVE  /\ \A c \in Channels \cup {None} : [o EXCEPT !.chan = c] \in OpType
           /\ \A n \in 0 .. SpinBound : [o EXCEPT !.try = n] \in OpType
           /\ \A b \in BOOLEAN : [o EXCEPT !.in = b] \in OpType
           /\ \A X \in SUBSET Channels : [o EXCEPT !.members = X] \in OpType
           /\ \A X \in SUBSET Keys : [o EXCEPT !.woken = X] \in OpType
           /\ \A b \in BOOLEAN : [o EXCEPT !.all = b] \in OpType
           /\ \A s \in 1 .. MaxProcesses + 1 : [o EXCEPT !.slot = s] \in OpType
           /\ \A f \in Seq(Slots \X Procs) : [o EXCEPT !.found = f] \in OpType
           /\ \A D \in SUBSET Slots : [o EXCEPT !.dead = D] \in OpType
           /\ \A X \in SUBSET Keys : [o EXCEPT !.drain = X] \in OpType
<1>1. /\ \A c \in Channels \cup {None} : [o EXCEPT !.chan = c] \in OpType
      /\ \A n \in 0 .. SpinBound : [o EXCEPT !.try = n] \in OpType
      /\ \A b \in BOOLEAN : [o EXCEPT !.in = b] \in OpType
  BY DEF OpType
<1>2. /\ \A X \in SUBSET Channels : [o EXCEPT !.members = X] \in OpType
      /\ \A X \in SUBSET Keys : [o EXCEPT !.woken = X] \in OpType
      /\ \A b \in BOOLEAN : [o EXCEPT !.all = b] \in OpType
  BY DEF OpType
<1>3. /\ \A s \in 1 .. MaxProcesses + 1 : [o EXCEPT !.slot = s] \in OpType
      /\ \A f \in Seq(Slots \X Procs) : [o EXCEPT !.found = f] \in OpType
  BY DEF OpType
<1>4. /\ \A D \in SUBSET Slots : [o EXCEPT !.dead = D] \in OpType
      /\ \A X \in SUBSET Keys : [o EXCEPT !.drain = X] \in OpType
  BY DEF OpType
<1> QED BY <1>1, <1>2, <1>3, <1>4

LEMMA OpKind ==
    ASSUME NEW o \in OpType,
           NEW k \in {"none", "send", "group", "flush", "close"}
    PROVE  [o EXCEPT !.kind = k] \in OpType
BY DEF OpType

\* What a look through the registry sets, and what it keeps.
Looked(o, l, for, want) ==
    /\ l \in OpType /\ l.scan = for /\ l.want = want /\ l.slot = 1
    /\ l.found = << >> /\ l.dead = {}
    /\ l.kind = o.kind /\ l.chan = o.chan /\ l.in = o.in /\ l.try = o.try
    /\ l.members = o.members /\ l.woken = o.woken /\ l.all = o.all
LEMMA LookType ==
    ASSUME NEW o \in OpType,
           NEW for \in {"none", "all", "one", "path", "self"},
           NEW want \in Procs \cup {None}
    PROVE  Looked(o, Look(o, for, want), for, want)
<1>1. << >> \in Seq(Slots \X Procs) /\ 1 \in 1 .. MaxProcesses + 1
  BY Bounds, EmptySeq
<1>2. Look(o, for, want) \in OpType
  BY <1>1 DEF Look, OpType
<1>3. /\ Look(o, for, want).scan = for /\ Look(o, for, want).want = want
      /\ Look(o, for, want).slot = 1 /\ Look(o, for, want).found = << >>
      /\ Look(o, for, want).dead = {}
  BY DEF Look, OpType
<1>4. /\ Look(o, for, want).kind = o.kind /\ Look(o, for, want).chan = o.chan
      /\ Look(o, for, want).in = o.in /\ Look(o, for, want).try = o.try
      /\ Look(o, for, want).members = o.members
      /\ Look(o, for, want).woken = o.woken /\ Look(o, for, want).all = o.all
  BY DEF Look, OpType
<1> QED BY <1>2, <1>3, <1>4 DEF Looked

\* Where p goes, and with what.
Moves(p, l, o) ==
    /\ pc' = [pc EXCEPT ![p] = l] /\ op' = [op EXCEPT ![p] = o]
    /\ l \in Labels /\ o \in OpType /\ Desk(l, o) /\ Asks(p, l, o)

LEMMA MoveKeeps ==
    ASSUME Calls, NEW p \in Procs, NEW l, NEW o, Moves(p, l, o)
    PROVE  /\ Calls' /\ pc'[p] = l /\ op'[p] = o
           /\ \A q \in Procs \ {p} : pc'[q] = pc[q] /\ op'[q] = op[q]
<1>1. pc' \in [Procs -> Labels] /\ op' \in [Procs -> OpType]
  BY DEF Calls, Moves
<1>2. pc'[p] = l /\ op'[p] = o
  BY DEF Calls, Moves
<1>3. \A q \in Procs \ {p} : pc'[q] = pc[q] /\ op'[q] = op[q]
  BY DEF Calls, Moves
<1>4. ASSUME NEW q \in Procs
      PROVE  Desk(pc'[q], op'[q]) /\ Asks(q, pc'[q], op'[q])
  <2>1. CASE q = p
    BY <2>1, <1>2 DEF Moves
  <2>2. CASE q # p
    BY <2>2, <1>3 DEF Calls
  <2> QED BY <2>1, <2>2
<1> QED BY <1>1, <1>2, <1>3, <1>4 DEF Calls

LEMMA CallOf ==
    ASSUME Calls, NEW p \in Procs
    PROVE  /\ pc[p] \in Labels /\ op[p] \in OpType
           /\ Desk(pc[p], op[p]) /\ Asks(p, pc[p], op[p])
BY DEF Calls

\* The locals stay, or the label does.
LEMMA Stays ==
    ASSUME Calls, NEW p \in Procs
    PROVE  pc = [pc EXCEPT ![p] = pc[p]] /\ op = [op EXCEPT ![p] = op[p]]
BY DEF Calls

LEMMA TypesInit == Init => TInv
<1> SUFFICES ASSUME Init PROVE TInv
  OBVIOUS
<1>1. Registry
  BY Owners DEF Init, Registry, SlotType
<1>2. Rings
  <2>1. << >> \in Seq(Channels) /\ Len(<< >>) = 0
    BY EmptySeq
  <2> QED BY <2>1, Bounds DEF Init, Rings
<1>3. Descriptors /\ Pumps
  BY Bounds DEF Init, Descriptors, Pumps
<1>4. Calls
  BY NoOpType DEF Init, Calls, Desk, Asks, NoOp, Labels, Talking
<1>5. Tasks
  BY NoOpType DEF Init, Tasks
<1>6. Counts
  BY Bounds DEF Init, Counts
<1> QED BY <1>1, <1>2, <1>3, <1>4, <1>5, <1>6 DEF Init, TInv

\* The parts a step leaves alone.
LEMMA Same ==
    /\ Registry /\ UNCHANGED reg => Registry'
    /\ Rings /\ UNCHANGED ring => Rings'
    /\ Descriptors /\ UNCHANGED fds => Descriptors'
    /\ Pumps /\ UNCHANGED pump => Pumps'
    /\ Tasks /\ UNCHANGED task => Tasks'
    /\ Counts /\ UNCHANGED <<sends, missed>> => Counts'
    /\ Calls /\ UNCHANGED <<pc, op>> => Calls'
BY DEF Registry, Rings, Descriptors, Pumps, Tasks, Counts, Calls, fds, pump

----------------------------------------------------------------------------
(* What each step does to the label and the locals of its process.          *)

LEMMA RegisterSlotMoves ==
    ASSUME TInv, NEW p \in Procs, RegisterSlot(p)
    PROVE  TInv'
<1>1. TInv /\ pc[p] = "new"
      /\ UNCHANGED <<ring, fds, pump, task, sends, missed>>
  BY DEF RegisterSlot
<1>2. CASE Free = {} /\ Do(p, "loop", NoOp) /\ UNCHANGED <<reg, flock>>
  <2>1. Moves(p, "loop", NoOp)
    BY <1>2, NoOpType DEF Do, Goto, Moves, Labels, Talking, Desk, Asks, NoOp
  <2>2. Calls'
    BY <2>1, <1>1, MoveKeeps DEF TInv
  <2> QED BY <2>2, <1>1, <1>2, Same DEF TInv
<1>3. CASE \E s \in Slots :
            /\ First(s) /\ reg' = [reg EXCEPT ![s].path = Torn]
            /\ flock' = p /\ Do(p, "write", [NoOp EXCEPT !.slot = s])
  <2>1. PICK s \in Slots : First(s) /\ reg' = [reg EXCEPT ![s].path = Torn]
            /\ flock' = p /\ Do(p, "write", [NoOp EXCEPT !.slot = s])
    BY <1>3
  <2>2. [NoOp EXCEPT !.slot = s] \in OpType
    BY NoOpType, OpSet, Bounds DEF Slots
  <2>3. Moves(p, "write", [NoOp EXCEPT !.slot = s])
    BY <2>1, <2>2 DEF Do, Goto, Moves, Labels, Talking, Desk, Asks, NoOp
  <2>4. Calls'
    BY <2>3, <1>1, MoveKeeps DEF TInv
  <2>5. Registry'
    BY <1>1, <2>1 DEF TInv, Registry, SlotType, First, Free
  <2> QED BY <2>1, <2>4, <2>5, <1>1, Same DEF TInv
<1> QED BY <1>2, <1>3 DEF RegisterSlot

LEMMA RegisterWriteMoves ==
    ASSUME TInv, NEW p \in Procs, RegisterWrite(p)
    PROVE  TInv'
<1>1. TInv /\ pc[p] = "write"
      /\ UNCHANGED <<ring, fds, pump, task, sends, missed>>
      /\ flock' = None /\ Do(p, "loop", NoOp)
  BY DEF RegisterWrite
<1>2. Moves(p, "loop", NoOp)
  BY <1>1, NoOpType DEF Do, Goto, Moves, Labels, Talking, Desk, Asks, NoOp
<1>3. Calls'
  BY <1>2, <1>1, MoveKeeps DEF TInv
<1>4. op[p].slot \in Slots
  BY <1>1, CallOf DEF TInv, Desk
<1>5. Registry'
  BY <1>1, <1>4 DEF TInv, Registry, SlotType, RegisterWrite
<1> QED BY <1>1, <1>3, <1>5, Same DEF TInv

LEMMA OnwardMoves ==
    ASSUME Calls, NEW p \in Procs, pc[p] \in {"scan", "deliver", "mark"}
    PROVE  /\ Onward(op[p]) = "group" <=> op[p].kind = "group" /\ ~op[p].all
           /\ Onward(op[p]) = "close" <=> op[p].kind = "close"
           /\ Onward(op[p]) \in {"group", "close", "end"}
           /\ Desk(Onward(op[p]), op[p]) /\ Asks(p, Onward(op[p]), op[p])
<1>1. /\ Onward(op[p]) = "group" <=> op[p].kind = "group" /\ ~op[p].all
      /\ Onward(op[p]) = "close" <=> op[p].kind = "close"
      /\ Onward(op[p]) \in {"group", "close", "end"}
  BY DEF Onward
<1>2. Asks(p, pc[p], op[p]) /\ Desk(pc[p], op[p]) /\ op[p] \in OpType
  BY CallOf
<1>3. Desk(Onward(op[p]), op[p])
  BY <1>1, <1>2 DEF Desk, Asks, Talking
<1>4. Asks(p, Onward(op[p]), op[p])
  BY <1>1 DEF Asks, Talking
<1> QED BY <1>1, <1>3, <1>4

Hit(p, s) ==
    reg[s].valid /\ (op[p].scan = "all" \/ reg[s].path = op[p].want)
ScanCase(p, s, l, o) ==
    \/ /\ ~Hit(p, s) /\ l = "scan"
       /\ o = [op[p] EXCEPT !.slot = s + 1]
    \/ /\ Hit(p, s) /\ op[p].scan = "all" /\ l = "scan"
       /\ o = [op[p] EXCEPT !.slot = s + 1,
                            !.found = Append(@, <<s, reg[s].path>>)]
    \/ /\ Hit(p, s) /\ op[p].scan = "one" /\ l = "deliver"
       /\ o = [op[p] EXCEPT !.found = <<<<s, reg[s].path>>>>]
    \/ /\ Hit(p, s) /\ op[p].scan \in {"path", "self"} /\ l = "mark"
       /\ o = [op[p] EXCEPT !.dead = {s}]
LEMMA ScanMoves ==
    ASSUME TInv, NEW p \in Procs, Scan(p)
    PROVE  /\ op[p].slot \in Slots
           /\ \E l, o : ScanCase(p, op[p].slot, l, o) /\ Moves(p, l, o)
<1> DEFINE s == op[p].slot
<1>1. Calls /\ Registry /\ pc[p] = "scan" /\ s <= MaxProcesses
  BY DEF TInv, Scan
<1>2. op[p] \in OpType /\ Desk(pc[p], op[p]) /\ Asks(p, pc[p], op[p])
  BY <1>1, CallOf
<1>3. s \in Slots /\ s + 1 \in 1 .. MaxProcesses + 1
  BY <1>1, <1>2, OpFields, Bounds DEF Slots
<1>4. reg[s].valid => reg[s].path \in Procs
  BY <1>1, <1>3 DEF Registry
<1>5. op[p].found \in Seq(Slots \X Procs)
      /\ op[p].scan \in {"all", "one", "path", "self"}
  BY <1>1, <1>2, OpFields DEF Asks, Talking
<1>6. pc = [pc EXCEPT ![p] = pc[p]]
  BY <1>1, Stays
<1>7. CASE ~Hit(p, s)
  <2> DEFINE o == [op[p] EXCEPT !.slot = s + 1]
  <2>1. op' = [op EXCEPT ![p] = o] /\ pc' = pc
    BY <1>7, <1>1 DEF Scan, Hit
  <2>2. o \in OpType
    BY <1>2, <1>3, OpSet
  <2>3. Desk("scan", o) /\ Asks(p, "scan", o)
    BY <1>1, <1>2 DEF Desk, Asks, Talking, OpType, Pending
  <2>4. Moves(p, "scan", o)
    BY <2>1, <2>2, <2>3, <1>1, <1>6 DEF Moves, Labels, Talking
  <2> QED BY <2>4, <1>3, <1>7 DEF ScanCase
<1>8. CASE Hit(p, s) /\ op[p].scan = "all"
  <2> DEFINE f == Append(op[p].found, <<s, reg[s].path>>)
             o == [op[p] EXCEPT !.slot = s + 1, !.found = f]
  <2>0. reg[s].valid /\ (op[p].scan = "all" \/ reg[s].path = op[p].want)
    BY <1>8 DEF Hit
  <2>1. op' = [op EXCEPT ![p] = o] /\ pc' = pc
    BY <2>0, <1>8, <1>1, <1>2 DEF Scan, OpType
  <2>2. f \in Seq(Slots \X Procs)
    BY <2>0, <1>3, <1>4, <1>5, AppendProperties
  <2>3. o \in OpType
    <3>1. [op[p] EXCEPT !.slot = s + 1] \in OpType
      BY <1>2, <1>3, OpSet
    <3>2. [[op[p] EXCEPT !.slot = s + 1] EXCEPT !.found = f] \in OpType
      BY <3>1, <2>2, OpSet
    <3> QED BY <3>2, <1>2 DEF OpType
  <2>4. Desk("scan", o) /\ Asks(p, "scan", o)
    BY <1>1, <1>2 DEF Desk, Asks, Talking, OpType, Pending
  <2>5. Moves(p, "scan", o)
    BY <2>1, <2>3, <2>4, <1>1, <1>6 DEF Moves, Labels, Talking
  <2> QED BY <2>5, <1>3, <1>8 DEF ScanCase
<1>9. CASE Hit(p, s) /\ op[p].scan = "one"
  <2> DEFINE f == <<<<s, reg[s].path>>>>
             o == [op[p] EXCEPT !.found = f]
  <2>0. reg[s].valid /\ reg[s].path = op[p].want
    BY <1>9 DEF Hit
  <2>1. Do(p, "deliver", o)
    BY <2>0, <1>9, <1>1 DEF Scan
  <2>2. f \in Seq(Slots \X Procs)
    BY <2>0, <1>3, <1>4
  <2>3. o \in OpType
    BY <2>2, <1>2, OpSet
  <2>4. Desk("deliver", o) /\ Asks(p, "deliver", o)
    BY <1>1, <1>2, <1>9 DEF Desk, Asks, Talking, OpType, Pending
  <2>5. Moves(p, "deliver", o)
    BY <2>1, <2>3, <2>4 DEF Moves, Labels, Talking, Do, Goto
  <2> QED BY <2>5, <1>3, <1>9 DEF ScanCase
<1>10. CASE Hit(p, s) /\ op[p].scan \in {"path", "self"}
  <2> DEFINE o == [op[p] EXCEPT !.dead = {s}]
  <2>0. reg[s].valid /\ reg[s].path = op[p].want
    BY <1>10 DEF Hit
  <2>1. Do(p, "mark", o)
    BY <2>0, <1>10, <1>1 DEF Scan
  <2>3. o \in OpType
    BY <1>3, <1>2, OpSet
  <2>4. Desk("mark", o) /\ Asks(p, "mark", o)
    BY <1>1, <1>2, <1>10 DEF Desk, Asks, Talking, OpType, Pending
  <2>5. Moves(p, "mark", o)
    BY <2>1, <2>3, <2>4 DEF Moves, Labels, Talking, Do, Goto
  <2> QED BY <2>5, <1>3, <1>10 DEF ScanCase
<1> QED BY <1>3, <1>5, <1>7, <1>8, <1>9, <1>10

WakeCase(p, t, s, l, o) ==
    \/ /\ t = p \/ Bound(t)
       /\ l = "deliver" /\ o = [op[p] EXCEPT !.found = Tail(@)]
    \/ /\ t # p /\ ~Bound(t) /\ op[p].scan = "all" /\ l = "deliver"
       /\ o = [op[p] EXCEPT !.found = Tail(@), !.dead = @ \cup {s}]
    \/ /\ t # p /\ ~Bound(t) /\ op[p].scan = "one" /\ l = "scan"
       /\ o = Look(op[p], "path", t)
\* The socket of a process that is told.
Datagram(t) ==
    sock' = [sock EXCEPT ![t] = IF @ < SocketMax /\ Reads(t)
                                THEN @ + 1 ELSE @]
LEMMA WakeMoves ==
    ASSUME TInv, NEW p \in Procs, Wake(p)
    PROVE  \E s \in Slots, t \in Procs :
              /\ op[p].found # << >> /\ Head(op[p].found) = <<s, t>>
              /\ \E l, o : WakeCase(p, t, s, l, o) /\ Moves(p, l, o)
              /\ \/ t # p /\ Bound(t) /\ Datagram(t)
                 \/ (t = p \/ ~Bound(t)) /\ UNCHANGED sock
<1> DEFINE f == op[p].found
           s == Head(f)[1]
           t == Head(f)[2]
<1>1. Calls /\ pc[p] = "deliver" /\ f # << >>
  BY DEF TInv, Wake
<1>2. op[p] \in OpType /\ Desk(pc[p], op[p]) /\ Asks(p, pc[p], op[p])
  BY <1>1, CallOf
<1>3. f \in Seq(Slots \X Procs) /\ op[p].scan \in {"all", "one"}
      /\ op[p].dead \subseteq Slots
  BY <1>1, <1>2, OpFields DEF Asks, Talking
<1>4. Head(f) \in Slots \X Procs /\ Tail(f) \in Seq(Slots \X Procs)
  BY <1>1, <1>3, HeadTailProperties
<1>5. s \in Slots /\ t \in Procs /\ Head(f) = <<s, t>>
  BY <1>4
<1>6. pc = [pc EXCEPT ![p] = pc[p]]
  BY <1>1, Stays
<1>7. CASE t = p \/ Bound(t)
  <2> DEFINE o == [op[p] EXCEPT !.found = Tail(f)]
  <2>1. /\ op' = [op EXCEPT ![p] = o] /\ pc' = pc
        /\ \/ t # p /\ Bound(t) /\ Datagram(t)
           \/ t = p /\ UNCHANGED sock
    BY <1>7, <1>1 DEF Wake, Datagram
  <2>2. o \in OpType
    BY <1>2, <1>4, OpSet
  <2>3. Desk("deliver", o) /\ Asks(p, "deliver", o)
    BY <1>1, <1>2 DEF Desk, Asks, Talking, OpType, Pending
  <2>4. Moves(p, "deliver", o)
    BY <2>1, <2>2, <2>3, <1>1, <1>6 DEF Moves, Labels, Talking
  <2>5. WakeCase(p, t, s, "deliver", o)
    BY <1>7 DEF WakeCase
  <2> QED BY <2>1, <2>4, <2>5, <1>1, <1>5
<1>8. CASE t # p /\ ~Bound(t) /\ op[p].scan = "all"
  <2> DEFINE r == [op[p] EXCEPT !.found = Tail(f)]
             o == [op[p] EXCEPT !.found = Tail(f), !.dead = @ \cup {s}]
  <2>1. op' = [op EXCEPT ![p] = [r EXCEPT !.dead = r.dead \cup {s}]]
        /\ pc' = pc /\ UNCHANGED sock
    BY <1>8, <1>1 DEF Wake
  <2>2. r \in OpType /\ r.dead = op[p].dead
    <3>1. r \in OpType
      BY <1>2, <1>4, OpSet
    <3>2. r.dead = op[p].dead
      BY <1>2 DEF OpType
    <3> QED BY <3>1, <3>2
  <2>3. [r EXCEPT !.dead = r.dead \cup {s}] \in OpType
    BY <2>2, <1>3, <1>5, OpSet
  <2>4. [r EXCEPT !.dead = r.dead \cup {s}] = o /\ o \in OpType
    BY <2>2, <2>3, <1>2 DEF OpType
  <2>5. Desk("deliver", o) /\ Asks(p, "deliver", o)
    BY <1>1, <1>2 DEF Desk, Asks, Talking, OpType, Pending
  <2>6. Moves(p, "deliver", o)
    BY <2>1, <2>4, <2>5, <1>1, <1>6 DEF Moves, Labels, Talking
  <2>7. WakeCase(p, t, s, "deliver", o)
    BY <1>8 DEF WakeCase
  <2> QED BY <2>1, <2>6, <2>7, <1>1, <1>5, <1>8
<1>9. CASE t # p /\ ~Bound(t) /\ op[p].scan = "one"
  <2> DEFINE o == Look(op[p], "path", t)
  <2>1. Do(p, "scan", o) /\ UNCHANGED sock
    BY <1>9, <1>1 DEF Wake
  <2>2. Looked(op[p], o, "path", t)
    BY <1>2, <1>5, LookType
  <2>3. Desk("scan", o) /\ Asks(p, "scan", o)
    BY <2>2, <1>1, <1>2, <1>5, <1>9 DEF Desk, Asks, Talking, Looked, Pending
  <2>4. Moves(p, "scan", o)
    BY <2>1, <2>2, <2>3 DEF Moves, Labels, Talking, Do, Goto, Looked
  <2>5. WakeCase(p, t, s, "scan", o)
    BY <1>9 DEF WakeCase
  <2> QED BY <2>1, <2>4, <2>5, <1>1, <1>5, <1>9
<1> QED BY <1>3, <1>7, <1>8, <1>9

\* Who is to be signalled for a key, and where the call goes.
TargetCase(p, o1, key, l, o) ==
    \/ /\ key = Everyone /\ l = "scan" /\ o = Look(o1, "all", None)
       /\ UNCHANGED evfd
    \/ key = p /\ l = "end" /\ o = o1 /\ Signal(p)
    \/ /\ key \in Procs \ {p} /\ l = "scan" /\ o = Look(o1, "one", key)
       /\ UNCHANGED evfd
LEMMA TargetMoves ==
    ASSUME NEW p \in Procs, NEW key \in Keys, NEW o1 \in OpType,
           o1.kind = "send", o1.chan \in Channels, Target(p, o1, key)
    PROVE  \E l, o : TargetCase(p, o1, key, l, o) /\ Moves(p, l, o)
<1>1. CASE key = Everyone
  <2> DEFINE o == Look(o1, "all", None)
  <2>1. Do(p, "scan", o) /\ UNCHANGED evfd
    BY <1>1, Owners DEF Target
  <2>2. Looked(o1, o, "all", None)
    BY LookType
  <2>3. Moves(p, "scan", o)
    BY <2>1, <2>2
       DEF Moves, Labels, Talking, Do, Goto, Looked, Desk, Asks, Pending
  <2> QED BY <2>1, <2>3, <1>1 DEF TargetCase
<1>2. CASE key = p
  <2>1. Do(p, "end", o1) /\ Signal(p)
    BY <1>2, Owners DEF Target
  <2>2. Moves(p, "end", o1)
    BY <2>1 DEF Moves, Labels, Talking, Do, Goto, Desk, Asks, Pending
  <2> QED BY <2>1, <2>2, <1>2 DEF TargetCase
<1>3. CASE key \in Procs \ {p}
  <2> DEFINE o == Look(o1, "one", key)
  <2>1. Do(p, "scan", o) /\ UNCHANGED evfd
    BY <1>3, Owners DEF Target
  <2>2. Looked(o1, o, "one", key)
    BY <1>3, LookType
  <2>3. Moves(p, "scan", o)
    BY <2>1, <2>2, <1>3
       DEF Moves, Labels, Talking, Do, Goto, Looked, Desk, Asks, Pending
  <2> QED BY <2>1, <2>3, <1>3 DEF TargetCase
<1> QED BY <1>1, <1>2, <1>3 DEF Keys

TryCase(p, key, l, o) ==
    \/ /\ HasRoom(key) /\ Put(op[p].chan)
       /\ TargetCase(p, [op[p] EXCEPT !.in = TRUE], key, l, o)
    \/ /\ UNCHANGED ring /\ op[p].try < SpinBound
       /\ TargetCase(p, [op[p] EXCEPT !.try = @ + 1], key, l, o)
    \/ UNCHANGED ring /\ l = "loop" /\ o = NoOp /\ UNCHANGED evfd
LEMMA TryMoves ==
    ASSUME TInv, NEW p \in Procs, TryEnqueue(p)
    PROVE  /\ op[p].chan \in Channels /\ op[p].kind = "send" /\ ~op[p].in
           /\ \E l, o : TryCase(p, Owner[op[p].chan], l, o) /\ Moves(p, l, o)
<1> DEFINE key == Owner[op[p].chan]
<1>1. Calls /\ pc[p] = "enqueue"
  BY DEF TInv, TryEnqueue
<1>2. op[p] \in OpType /\ Desk(pc[p], op[p])
  BY <1>1, CallOf
<1>3. op[p].chan \in Channels /\ op[p].kind = "send" /\ ~op[p].in
  BY <1>1, <1>2 DEF Desk, Pending
<1>4. key \in Keys
  BY <1>3, Owners
<1>5. CASE HasRoom(key) /\ Put(op[p].chan)
            /\ Target(p, [op[p] EXCEPT !.in = TRUE], key)
  <2> DEFINE o1 == [op[p] EXCEPT !.in = TRUE]
  <2>1. o1 \in OpType
    BY <1>2, OpSet
  <2>2. o1.kind = "send" /\ o1.chan \in Channels
    BY <1>2, <1>3 DEF OpType
  <2>3. \E l, o : TargetCase(p, o1, key, l, o) /\ Moves(p, l, o)
    <3> HIDE DEF o1, key
    <3> QED BY <2>1, <2>2, <1>4, <1>5, TargetMoves DEF o1
  <2> QED BY <2>3, <1>3, <1>5 DEF TryCase
<1>6. CASE /\ UNCHANGED ring /\ op[p].try < SpinBound
           /\ Target(p, [op[p] EXCEPT !.try = @ + 1], key)
  <2> DEFINE o1 == [op[p] EXCEPT !.try = op[p].try + 1]
  <2>1. o1 \in OpType
    <3>1. op[p].try + 1 \in 0 .. SpinBound
      BY <1>2, <1>6, OpFields, Bounds
    <3> QED BY <3>1, <1>2, OpSet
  <2>2. o1.kind = "send" /\ o1.chan \in Channels
    BY <1>2, <1>3 DEF OpType
  <2>3. \E l, o : TargetCase(p, o1, key, l, o) /\ Moves(p, l, o)
    <3>1. Target(p, o1, key)
      BY <1>6
    <3> HIDE DEF o1, key
    <3> QED BY <3>1, <2>1, <2>2, <1>4, TargetMoves
  <2> QED BY <2>3, <1>3, <1>6 DEF TryCase
<1>7. CASE UNCHANGED ring /\ Do(p, "loop", NoOp) /\ UNCHANGED evfd
  <2>1. Moves(p, "loop", NoOp)
    BY <1>7, NoOpType DEF Do, Goto, Moves, Labels, Talking, Desk, Asks, NoOp
  <2> QED BY <2>1, <1>3, <1>7 DEF TryCase
<1> QED BY <1>5, <1>6, <1>7 DEF TryEnqueue

GroupCase(p, c, key, l, o) ==
    \/ /\ UNCHANGED ring /\ l = "group"
       /\ o = [op[p] EXCEPT !.members = @ \ {c}]
    \/ /\ HasRoom(key) /\ Put(c) /\ key \in Procs \ ({p} \cup op[p].woken)
       /\ l = "scan"
       /\ o = Look([op[p] EXCEPT !.members = @ \ {c},
                                 !.woken = @ \cup {key}], "one", key)
    \/ /\ HasRoom(key) /\ Put(c) /\ key \notin Procs \ ({p} \cup op[p].woken)
       /\ l = "group"
       /\ o = [op[p] EXCEPT !.members = @ \ {c}, !.woken = @ \cup {key}]
\* The locals of a group_send that has done one more member.
Done(p, c, key) ==
    [op[p] EXCEPT !.members = @ \ {c}, !.woken = @ \cup {key}]
LEMMA GroupLeft ==
    ASSUME Calls, NEW p \in Procs, NEW c \in Channels, pc[p] = "group"
    PROVE  /\ op[p] \in OpType
           /\ [op[p] EXCEPT !.members = @ \ {c}] \in OpType
           /\ [op[p] EXCEPT !.members = @ \ {c}].woken = op[p].woken
<1>1. op[p] \in OpType
  BY CallOf
<1>2. [op[p] EXCEPT !.members = op[p].members \ {c}] \in OpType
  <2>1. op[p].members \ {c} \in SUBSET Channels
    BY <1>1, OpFields
  <2> QED BY <2>1, <1>1, OpSet
<1>3. [op[p] EXCEPT !.members = op[p].members \ {c}].woken = op[p].woken
  BY <1>1 DEF OpType
<1> QED BY <1>1, <1>2, <1>3

\* The locals after a channel of the group is served.
LEMMA GroupTypes ==
    ASSUME Calls, NEW p \in Procs, NEW c \in Channels, NEW key \in Keys,
           pc[p] = "group"
    PROVE  /\ Done(p, c, key) \in OpType
           /\ Done(p, c, key).kind = "group" /\ ~Done(p, c, key).all
           /\ Done(p, c, key).members = op[p].members \ {c}
           /\ Done(p, c, key).woken = op[p].woken \cup {key}
           /\ Done(p, c, key).members \subseteq Members
<1>1. op[p] \in OpType /\ Desk(pc[p], op[p])
  BY CallOf
<1>2. op[p].kind = "group" /\ ~op[p].all /\ op[p].members \subseteq Members
  BY <1>1 DEF Desk
<1>3. PICK r \in OpType : /\ r = [op[p] EXCEPT !.members = @ \ {c}]
                          /\ r.woken = op[p].woken
  BY GroupLeft
<1>4. [r EXCEPT !.woken = r.woken \cup {key}] \in OpType
  <2>1. r.woken \cup {key} \in SUBSET Keys
    BY <1>1, <1>3, OpFields
  <2> QED BY <2>1, OpSet
<1>5. Done(p, c, key) = [r EXCEPT !.woken = r.woken \cup {key}]
  BY <1>1, <1>3 DEF Done, OpType
<1>6. /\ Done(p, c, key).kind = "group" /\ ~Done(p, c, key).all
      /\ Done(p, c, key).members = op[p].members \ {c}
      /\ Done(p, c, key).woken = op[p].woken \cup {key}
  BY <1>1, <1>2 DEF Done, OpType
<1>7. Done(p, c, key) \in OpType
  BY <1>4, <1>5
<1>8. Done(p, c, key).members \subseteq Members
  BY <1>2, <1>6
<1> QED BY <1>6, <1>7, <1>8

LEMMA GroupMoves ==
    ASSUME TInv, NEW p \in Procs, NEW c \in Channels, GroupMember(p, c)
    PROVE  /\ c \in op[p].members /\ op[p].kind = "group" /\ ~op[p].all
           /\ \E l, o : GroupCase(p, c, Owner[c], l, o) /\ Moves(p, l, o)
<1> DEFINE key == Owner[c]
           r == [op[p] EXCEPT !.members = @ \ {c}]
           n == Done(p, c, key)
<1>1. Calls /\ pc[p] = "group" /\ c \in op[p].members
  BY DEF TInv, GroupMember
<1>2. op[p] \in OpType /\ Desk(pc[p], op[p]) /\ key \in Keys
  BY <1>1, CallOf, Owners
<1>3. op[p].kind = "group" /\ ~op[p].all
  BY <1>1, <1>2 DEF Desk
<1>4. /\ r \in OpType /\ n \in OpType
      /\ n = [r EXCEPT !.woken = r.woken \cup {key}]
      /\ n.kind = "group" /\ ~n.all /\ n.members \subseteq Members
      /\ r.woken = op[p].woken
  <2>1. r \in OpType /\ n \in OpType
    <3>1. r \in OpType
      BY <1>1, GroupLeft
    <3>2. n \in OpType
      <4> HIDE DEF key
      <4> QED BY <1>1, <1>2, GroupTypes
    <3> QED BY <3>1, <3>2
  <2>2. n = [r EXCEPT !.woken = r.woken \cup {key}]
    BY <1>2 DEF Done
  <2>3. n.kind = "group" /\ ~n.all /\ n.members \subseteq Members
    <3> HIDE DEF key
    <3> QED BY <1>1, <1>2, GroupTypes
  <2>4. r.woken = op[p].woken
    BY <1>1, GroupLeft
  <2> QED BY <2>1, <2>2, <2>3, <2>4
<1>5. pc = [pc EXCEPT ![p] = pc[p]]
  BY <1>1, Stays
<1>6. CASE op' = [op EXCEPT ![p] = r] /\ UNCHANGED <<ring, pc>>
  <2>1. Desk("group", r)
    BY <1>1, <1>2 DEF Desk, OpType, Pending
  <2>2. Moves(p, "group", r)
    BY <1>1, <1>4, <1>5, <1>6, <2>1 DEF Moves, Labels, Talking, Asks
  <2> QED BY <2>2, <1>1, <1>3, <1>6 DEF GroupCase
<1>7. CASE /\ HasRoom(key) /\ Put(c) /\ key \in Procs \ ({p} \cup r.woken)
           /\ Do(p, "scan", Look(n, "one", key))
  <2> DEFINE o == Look(n, "one", key)
  <2>2. Looked(n, o, "one", key)
    <3> HIDE DEF n, key
    <3> QED BY <1>4, <1>7, LookType DEF o
  <2> HIDE DEF o, n, r
  <2>3. Moves(p, "scan", o)
    BY <1>4, <1>7, <2>2
       DEF Moves, Labels, Talking, Do, Goto, Looked, Desk, Asks, Pending, o
  <2>4. GroupCase(p, c, key, "scan", o)
    BY <1>4, <1>7 DEF GroupCase, o, n, Done
  <2> QED BY <2>3, <2>4, <1>1, <1>3
<1>8. CASE /\ HasRoom(key) /\ Put(c) /\ key \notin Procs \ ({p} \cup r.woken)
           /\ op' = [op EXCEPT ![p] = n] /\ UNCHANGED pc
  <2> HIDE DEF n, r
  <2>1. Moves(p, "group", n)
    BY <1>1, <1>4, <1>5, <1>8 DEF Moves, Labels, Talking, Desk, Asks, Pending
  <2>2. GroupCase(p, c, key, "group", n)
    BY <1>4, <1>8 DEF GroupCase, n, Done
  <2> QED BY <2>1, <2>2, <1>1, <1>3
<1> QED BY <1>4, <1>6, <1>7, <1>8 DEF GroupMember

EndCase(p, l, o) ==
    \/ /\ Everyone \in op[p].woken /\ l = "scan"
       /\ o = Look([op[p] EXCEPT !.all = TRUE], "all", None)
    \/ Everyone \notin op[p].woken /\ l = "end" /\ o = op[p]
LEMMA GroupEndMoves ==
    ASSUME TInv, NEW p \in Procs, GroupEnd(p)
    PROVE  /\ op[p].kind = "group" /\ ~op[p].all
           /\ \E l, o : EndCase(p, l, o) /\ Moves(p, l, o)
<1> DEFINE r == [op[p] EXCEPT !.all = TRUE]
<1>1. Calls /\ pc[p] = "group"
  BY DEF TInv, GroupEnd
<1>2. op[p] \in OpType /\ Desk(pc[p], op[p])
  BY <1>1, CallOf
<1>3. op[p].kind = "group" /\ ~op[p].all
  BY <1>1, <1>2 DEF Desk
<1>4. CASE Everyone \in op[p].woken
  <2> DEFINE o == Look(r, "all", None)
  <2>1. r \in OpType
    BY <1>2, OpSet
  <2>2. r.kind = "group" /\ r.all /\ r.members \subseteq Members
    BY <1>1, <1>2 DEF OpType, Desk
  <2>3. Looked(r, o, "all", None)
    <3> HIDE DEF r
    <3> QED BY <2>1, LookType DEF o
  <2>4. Do(p, "scan", o)
    BY <1>4 DEF GroupEnd
  <2>5. Moves(p, "scan", o)
    <3> HIDE DEF o, r
    <3> QED BY <2>2, <2>3, <2>4
       DEF Moves, Labels, Talking, Do, Goto, Looked, Desk, Asks, Pending
  <2> QED BY <1>3, <1>4, <2>5 DEF EndCase
<1>5. CASE Everyone \notin op[p].woken
  <2>1. Do(p, "end", op[p])
    BY <1>5 DEF GroupEnd
  <2>2. Moves(p, "end", op[p])
    BY <2>1, <1>1, <1>2, <1>3
       DEF Moves, Labels, Talking, Do, Goto, Desk, Asks, Pending
  <2> QED BY <1>3, <1>5, <2>2 DEF EndCase
<1> QED BY <1>4, <1>5

\* A step that leaves the registry alone and begins no look for a path.
Plain(p, l, o) ==
    /\ Moves(p, l, o)
    /\ l \in {"loop", "enqueue", "group", "drain", "scan", "end"}
    /\ Up(p) /\ op[p].kind # "close" /\ o.kind # "close"
    /\ l = "scan" => /\ o.scan \in {"all", "one"} /\ o.slot = 1
                     /\ o.found = << >> /\ o.dead = {}
    /\ \/ o.found = << >> /\ o.dead = {}
       \/ /\ o.found = op[p].found /\ o.dead = op[p].dead
          /\ o.scan = op[p].scan /\ o.want = op[p].want
PlainStep(p) == UNCHANGED <<reg, flock>> /\ \E l, o : Plain(p, l, o)

LEMMA PutKeeps ==
    ASSUME Rings, NEW c \in Channels, HasRoom(Owner[c]), Put(c)
    PROVE  Rings'
<1> DEFINE k == Owner[c]
<1>1. k \in Keys /\ ring[k] \in Seq(Channels) /\ Len(ring[k]) \in Nat
  BY Owners, LenProperties DEF Rings
<1>2. /\ Append(ring[k], c) \in Seq(Channels)
      /\ Len(Append(ring[k], c)) = Len(ring[k]) + 1
      /\ \A i \in 1 .. Len(ring[k]) : Append(ring[k], c)[i] = ring[k][i]
      /\ Append(ring[k], c)[Len(ring[k]) + 1] = c
  BY <1>1, AppendProperties
<1>3. ring' = [ring EXCEPT ![k] = Append(ring[k], c)]
  BY DEF Put
<1>4. /\ ring'[k] = Append(ring[k], c) /\ ring' \in [Keys -> Seq(Channels)]
      /\ \A x \in Keys \ {k} : ring'[x] = ring[x]
  BY <1>1, <1>2, <1>3 DEF Rings
<1>5. Len(ring[k]) + 1 <= RingCap
  BY <1>1, Bounds DEF HasRoom
<1>6. ASSUME NEW i \in 1 .. Len(ring'[k]) PROVE Owner[ring'[k][i]] = k
  BY <1>1, <1>2, <1>4, <1>6 DEF Rings
<1>7. ASSUME NEW key \in Keys
      PROVE  /\ Len(ring'[key]) <= RingCap
             /\ \A i \in 1 .. Len(ring'[key]) : Owner[ring'[key][i]] = key
  <2>1. CASE key = k
    BY <2>1, <1>2, <1>4, <1>5, <1>6
  <2>2. CASE key # k
    BY <2>2, <1>4 DEF Rings
  <2> QED BY <2>1, <2>2
<1>8. ring' \in [Keys -> Seq(Channels)]
  BY <1>4
<1> HIDE DEF k
<1> QED BY <1>7, <1>8 DEF Rings

LEMMA SignalKeeps ==
    ASSUME Descriptors, NEW p \in Procs, Signal(p) \/ UNCHANGED evfd,
           UNCHANGED sock
    PROVE  Descriptors'
<1>1. CASE UNCHANGED evfd
  BY <1>1 DEF Descriptors
<1>2. CASE Signal(p)
  <2>1. Reads(p) \in BOOLEAN
    BY DEF Reads
  <2>2. evfd' \in [Procs -> BOOLEAN]
    BY <1>2, <2>1 DEF Signal, Descriptors
  <2> QED BY <2>2 DEF Descriptors
<1> QED BY <1>1, <1>2

LEMMA ScanTypes ==
    ASSUME TInv, NEW p \in Procs, Scan(p)
    PROVE  TInv'
<1>1. PICK l, o : Moves(p, l, o)
  BY ScanMoves
<1>2. Calls'
  BY <1>1, MoveKeeps DEF TInv
<1> QED BY <1>2, Same DEF TInv, Scan, shm

LEMMA ScanEndTypes ==
    ASSUME TInv, NEW p \in Procs, ScanEnd(p)
    PROVE  /\ TInv'
           /\ \/ /\ op[p].scan = "all" /\ Signal(p)
                 /\ Moves(p, "deliver", op[p])
              \/ /\ op[p].scan # "all" /\ UNCHANGED evfd
                 /\ Moves(p, Onward(op[p]), op[p])
<1>1. Calls /\ pc[p] = "scan"
  BY DEF TInv, ScanEnd
<1>2. op[p] \in OpType /\ Desk(pc[p], op[p]) /\ Asks(p, pc[p], op[p])
      /\ op = [op EXCEPT ![p] = op[p]]
  BY <1>1, CallOf, Stays
<1>3. CASE op[p].scan = "all"
  <2>1. Desk("deliver", op[p]) /\ Asks(p, "deliver", op[p])
    BY <1>1, <1>2, <1>3 DEF Desk, Asks, Talking, Pending
  <2>2. Moves(p, "deliver", op[p])
    BY <1>2, <1>3, <2>1 DEF ScanEnd, Moves, Goto, Labels, Talking
  <2>3. Calls' /\ Descriptors'
    BY <2>2, <1>1, <1>3, MoveKeeps, SignalKeeps DEF TInv, ScanEnd
  <2> QED BY <1>3, <2>2, <2>3, Same DEF TInv, ScanEnd, shm
<1>4. CASE op[p].scan # "all"
  <2>1. /\ Onward(op[p]) \in {"group", "close", "end"}
        /\ Desk(Onward(op[p]), op[p]) /\ Asks(p, Onward(op[p]), op[p])
    BY <1>1, OnwardMoves
  <2>2. Moves(p, Onward(op[p]), op[p])
    BY <1>2, <1>4, <2>1 DEF ScanEnd, Moves, Goto, Labels
  <2>3. Calls' /\ Descriptors'
    BY <2>2, <1>1, <1>4, MoveKeeps, SignalKeeps DEF TInv, ScanEnd
  <2> QED BY <1>4, <2>2, <2>3, Same DEF TInv, ScanEnd, shm
<1> QED BY <1>3, <1>4

LEMMA WakeTypes ==
    ASSUME TInv, NEW p \in Procs, Wake(p)
    PROVE  TInv'
<1>1. PICK t \in Procs : /\ \E l, o : Moves(p, l, o)
                         /\ Datagram(t) \/ UNCHANGED sock
  BY WakeMoves
<1>2. Calls'
  BY <1>1, MoveKeeps DEF TInv
<1>3. Descriptors'
  BY <1>1, Bounds DEF TInv, Descriptors, Wake, Datagram
<1> QED BY <1>2, <1>3, Same DEF TInv, Wake, shm

LEMMA WakeEndTypes ==
    ASSUME TInv, NEW p \in Procs, WakeEnd(p)
    PROVE  /\ TInv'
           /\ Moves(p, IF op[p].dead # {} THEN "mark" ELSE Onward(op[p]),
                    op[p])
<1>1. Calls /\ pc[p] = "deliver"
  BY DEF TInv, WakeEnd
<1>2. op[p] \in OpType /\ Desk(pc[p], op[p]) /\ Asks(p, pc[p], op[p])
      /\ op = [op EXCEPT ![p] = op[p]]
  BY <1>1, CallOf, Stays
<1>3. Moves(p, IF op[p].dead # {} THEN "mark" ELSE Onward(op[p]), op[p])
  <2>1. CASE op[p].dead # {}
    <3>1. Desk("mark", op[p]) /\ Asks(p, "mark", op[p])
      BY <1>1, <1>2 DEF Desk, Asks, Talking, Pending
    <3> QED BY <1>2, <2>1, <3>1 DEF WakeEnd, Moves, Goto, Labels, Talking
  <2>2. CASE op[p].dead = {}
    <3>1. /\ Onward(op[p]) \in {"group", "close", "end"}
          /\ Desk(Onward(op[p]), op[p]) /\ Asks(p, Onward(op[p]), op[p])
      BY <1>1, OnwardMoves
    <3> QED BY <1>2, <2>2, <3>1 DEF WakeEnd, Moves, Goto, Labels
  <2> QED BY <2>1, <2>2
<1>4. Calls'
  BY <1>1, <1>3, MoveKeeps
<1> QED BY <1>3, <1>4, Same DEF TInv, WakeEnd, shm

LEMMA MarkTypes ==
    ASSUME TInv, NEW p \in Procs, Mark(p)
    PROVE  TInv' /\ Moves(p, Onward(op[p]), op[p])
<1>1. Calls /\ pc[p] = "mark"
  BY DEF TInv, Mark
<1>2. op[p] \in OpType /\ op = [op EXCEPT ![p] = op[p]]
  BY <1>1, CallOf, Stays
<1>3. /\ Onward(op[p]) \in {"group", "close", "end"}
      /\ Desk(Onward(op[p]), op[p]) /\ Asks(p, Onward(op[p]), op[p])
  BY <1>1, OnwardMoves
<1>4. Moves(p, Onward(op[p]), op[p])
  BY <1>2, <1>3 DEF Mark, Moves, Goto, Labels
<1>5. Calls'
  BY <1>1, <1>4, MoveKeeps
<1>6. Registry'
  <2>1. ASSUME NEW s \in Slots
        PROVE  /\ reg'[s] \in SlotType /\ reg'[s].path = reg[s].path
               /\ reg'[s].valid => reg[s].valid
    BY <2>1 DEF TInv, Registry, SlotType, Mark
  <2>2. reg' \in [Slots -> SlotType]
    BY <2>1 DEF Mark
  <2> QED BY <2>1, <2>2 DEF TInv, Registry
<1> QED BY <1>4, <1>5, <1>6, Same DEF TInv, Mark

LEMMA LoopIs ==
    ASSUME Calls, NEW p \in Procs, AtLoop(p)
    PROVE  op[p] = NoOp /\ Up(p) /\ op[p].kind # "close"
           /\ op[p].found = << >> /\ op[p].dead = {}
<1>1. pc[p] = "loop"
  BY DEF AtLoop
<1>2. op[p] = NoOp
  BY <1>1, CallOf DEF Desk
<1>3. Up(p)
  BY <1>1 DEF Up
<1>4. NoOp.kind = "none" /\ NoOp.found = << >> /\ NoOp.dead = {}
  BY DEF NoOp
<1> QED BY <1>2, <1>3, <1>4

\* A call that begins with its own locals.
LEMMA Starts ==
    ASSUME TInv, NEW p \in Procs, AtLoop(p), NEW l, NEW o, Moves(p, l, o),
           l \in {"loop", "enqueue", "group", "drain", "scan"},
           o.found = << >>, o.dead = {}, o.kind # "close",
           l = "scan" => o.scan \in {"all", "one"} /\ o.slot = 1
    PROVE  Calls' /\ Plain(p, l, o)
<1>1. Calls'
  BY MoveKeeps DEF TInv
<1>2. Up(p) /\ op[p].kind # "close"
  BY LoopIs DEF TInv
<1> QED BY <1>1, <1>2 DEF Plain

SendOp(c) == [NoOp EXCEPT !.kind = "send", !.chan = c]
GroupOp == [NoOp EXCEPT !.kind = "group", !.members = Members]
FlushOp == Look([NoOp EXCEPT !.kind = "flush"], "all", None)
CloseOp(p) == Look([NoOp EXCEPT !.kind = "close"], "self", p)
LEMMA NoOpFields ==
    /\ NoOp.kind = "none" /\ NoOp.chan = None /\ NoOp.try = 0 /\ ~NoOp.in
    /\ NoOp.members = {} /\ NoOp.woken = {} /\ ~NoOp.all
    /\ NoOp.scan = "none" /\ NoOp.want = None /\ NoOp.slot = 1
    /\ NoOp.found = << >> /\ NoOp.dead = {} /\ NoOp.drain = {}
BY DEF NoOp
LEMMA SendOpIs ==
    ASSUME NEW c \in Channels
    PROVE  /\ SendOp(c) \in OpType /\ SendOp(c).kind = "send"
           /\ SendOp(c).chan = c /\ ~SendOp(c).in
           /\ SendOp(c).found = << >> /\ SendOp(c).dead = {}
<1>1. [NoOp EXCEPT !.kind = "send"] \in OpType
  BY NoOpType, OpKind
<1>2. [[NoOp EXCEPT !.kind = "send"] EXCEPT !.chan = c] \in OpType
  BY <1>1, OpSet
<1>3. SendOp(c) = [[NoOp EXCEPT !.kind = "send"] EXCEPT !.chan = c]
  BY NoOpType DEF SendOp, OpType
<1> QED BY <1>2, <1>3 DEF SendOp, NoOp
LEMMA GroupOpIs ==
    /\ GroupOp \in OpType /\ GroupOp.kind = "group"
    /\ GroupOp.members = Members
    /\ ~GroupOp.all /\ GroupOp.woken = {}
    /\ GroupOp.found = << >> /\ GroupOp.dead = {}
<1>1. [NoOp EXCEPT !.kind = "group"] \in OpType
  BY NoOpType, OpKind
<1>2. [[NoOp EXCEPT !.kind = "group"] EXCEPT !.members = Members] \in OpType
  BY <1>1, OpSet, Owners
<1>3. GroupOp = [[NoOp EXCEPT !.kind = "group"] EXCEPT !.members = Members]
  BY NoOpType DEF GroupOp, OpType
<1> QED BY <1>2, <1>3 DEF GroupOp, NoOp
LEMMA FlushOpIs ==
    /\ FlushOp \in OpType /\ FlushOp.kind = "flush" /\ FlushOp.scan = "all"
    /\ FlushOp.slot = 1 /\ FlushOp.found = << >> /\ FlushOp.dead = {}
<1> DEFINE o == [NoOp EXCEPT !.kind = "flush"]
<1>1. o \in OpType /\ o.kind = "flush"
  BY NoOpType, OpKind DEF NoOp
<1>2. Looked(o, FlushOp, "all", None)
  <2> HIDE DEF o
  <2> QED BY <1>1, LookType DEF FlushOp, o
<1> QED BY <1>1, <1>2 DEF Looked
LEMMA CloseOpIs ==
    ASSUME NEW p \in Procs
    PROVE  /\ CloseOp(p) \in OpType /\ CloseOp(p).kind = "close"
           /\ CloseOp(p).scan = "self" /\ CloseOp(p).want = p
           /\ CloseOp(p).found = << >> /\ CloseOp(p).dead = {}
<1> DEFINE o == [NoOp EXCEPT !.kind = "close"]
<1>1. o \in OpType /\ o.kind = "close"
  BY NoOpType, OpKind DEF NoOp
<1>2. Looked(o, CloseOp(p), "self", p)
  <2> HIDE DEF o
  <2> QED BY <1>1, LookType DEF CloseOp, o
<1> QED BY <1>1, <1>2 DEF Looked

LEMMA SendStartTypes ==
    ASSUME TInv, NEW p \in Procs, NEW c \in Channels, SendStart(p, c)
    PROVE  TInv' /\ Plain(p, "enqueue", SendOp(c)) /\ PlainStep(p)
<1>1. Do(p, "enqueue", SendOp(c)) /\ AtLoop(p)
  BY DEF SendStart, SendOp
<1>2. Moves(p, "enqueue", SendOp(c))
  BY <1>1, SendOpIs
     DEF Moves, Labels, Talking, Do, Goto, Desk, Asks, Pending
<1>3. Calls' /\ Plain(p, "enqueue", SendOp(c))
  BY <1>1, <1>2, SendOpIs, Starts
<1>4. Counts'
  BY Bounds DEF TInv, Counts, SendStart
<1> QED BY <1>3, <1>4, Same DEF TInv, SendStart, PlainStep, shm

LEMMA ResumeTypes ==
    ASSUME TInv, NEW p \in Procs, Resume(p)
    PROVE  /\ TInv' /\ PlainStep(p)
           /\ Plain(p, "enqueue", task[p]) /\ Pending(task[p])
<1>1. Do(p, "enqueue", task[p]) /\ AtLoop(p) /\ task[p] # NoOp
      /\ task' = [task EXCEPT ![p] = NoOp]
  BY DEF Resume
<1>2. task[p] \in OpType /\ Pending(task[p])
  BY <1>1 DEF TInv, Tasks
<1>3. Moves(p, "enqueue", task[p])
  BY <1>1, <1>2 DEF Moves, Labels, Talking, Do, Goto, Desk, Asks, Pending
<1>4. Calls' /\ Plain(p, "enqueue", task[p])
  BY <1>1, <1>2, <1>3, Starts DEF Pending
<1>5. Tasks'
  BY <1>1, NoOpType DEF TInv, Tasks
<1> QED BY <1>2, <1>4, <1>5, Same DEF TInv, Resume, PlainStep, shm

LEMMA TryTypes ==
    ASSUME TInv, NEW p \in Procs, TryEnqueue(p)
    PROVE  TInv' /\ PlainStep(p)
<1> DEFINE key == Owner[op[p].chan]
<1>1. op[p].chan \in Channels /\ op[p].kind = "send" /\ ~op[p].in
  BY TryMoves
<1>2. PICK l, o : TryCase(p, key, l, o) /\ Moves(p, l, o)
  BY TryMoves
<1>3. /\ pc[p] = "enqueue" /\ UNCHANGED <<reg, flock, sock, pump, task, sends,
                                          missed>>
  BY DEF TryEnqueue
<1>4. op[p] \in OpType /\ Desk(pc[p], op[p])
  BY CallOf DEF TInv
<1>5. op[p].found = << >> /\ op[p].dead = {}
  BY <1>3, <1>4 DEF Desk, Pending
<1>6. Calls'
  BY <1>2, MoveKeeps DEF TInv
<1>7. Signal(p) \/ UNCHANGED evfd
  BY <1>2 DEF TryCase, TargetCase
<1>8. Descriptors'
  BY <1>3, <1>7, SignalKeeps DEF TInv
<1>9. Rings'
  <2>1. UNCHANGED ring \/ (HasRoom(key) /\ Put(op[p].chan))
    BY <1>2 DEF TryCase
  <2> QED BY <2>1, <1>1, PutKeeps, Same DEF TInv
<1>10. TInv'
  BY <1>3, <1>6, <1>8, <1>9, Same DEF TInv
<1>11. Plain(p, l, o)
  <2>1. Up(p) /\ op[p].kind # "close"
    BY <1>1, <1>3 DEF Up
  <2>2. ASSUME NEW o1 \in OpType, TargetCase(p, o1, key, l, o),
               o1.kind = "send", o1.found = << >>, o1.dead = {}
        PROVE  Plain(p, l, o)
    <3>1. key \in Keys
      BY <1>1, Owners
    <3>2. CASE l = "end" /\ o = o1
      BY <3>2, <2>1, <2>2, <1>2 DEF Plain
    <3>3. CASE l = "scan" /\ o = Look(o1, "all", None)
      <4>1. Looked(o1, o, "all", None)
        BY <3>3, LookType
      <4> QED BY <4>1, <3>3, <2>1, <2>2, <1>2 DEF Plain, Looked
    <3>4. CASE key \in Procs /\ l = "scan" /\ o = Look(o1, "one", key)
      <4>1. Looked(o1, o, "one", key)
        BY <3>4, LookType
      <4> QED BY <4>1, <3>4, <2>1, <2>2, <1>2 DEF Plain, Looked
    <3> QED BY <2>2, <3>2, <3>3, <3>4 DEF TargetCase
  <2>3. CASE TargetCase(p, [op[p] EXCEPT !.in = TRUE], key, l, o)
    <3>1. [op[p] EXCEPT !.in = TRUE] \in OpType
      BY <1>4, OpSet
    <3>2. /\ [op[p] EXCEPT !.in = TRUE].kind = "send"
          /\ [op[p] EXCEPT !.in = TRUE].found = << >>
          /\ [op[p] EXCEPT !.in = TRUE].dead = {}
      BY <1>1, <1>4, <1>5 DEF OpType
    <3> QED BY <3>1, <3>2, <2>2, <2>3
  <2>4. CASE /\ op[p].try < SpinBound
             /\ TargetCase(p, [op[p] EXCEPT !.try = op[p].try + 1], key, l, o)
    <3>1. [op[p] EXCEPT !.try = op[p].try + 1] \in OpType
      <4>1. op[p].try + 1 \in 0 .. SpinBound
        BY <1>4, <2>4, OpFields, Bounds
      <4> QED BY <4>1, <1>4, OpSet
    <3>2. /\ [op[p] EXCEPT !.try = op[p].try + 1].kind = "send"
          /\ [op[p] EXCEPT !.try = op[p].try + 1].found = << >>
          /\ [op[p] EXCEPT !.try = op[p].try + 1].dead = {}
      BY <1>1, <1>4, <1>5 DEF OpType
    <3> QED BY <3>1, <3>2, <2>2, <2>4
  <2>5. CASE l = "loop" /\ o = NoOp
    BY <2>5, <2>1, <1>2, NoOpFields DEF Plain
  <2> QED BY <1>2, <2>3, <2>4, <2>5 DEF TryCase
<1> QED BY <1>3, <1>10, <1>11 DEF PlainStep

LEMMA EndTypes ==
    ASSUME TInv, NEW p \in Procs, End(p)
    PROVE  TInv' /\ PlainStep(p) /\ Plain(p, "loop", NoOp)
<1>1. pc[p] = "end" /\ Do(p, "loop", NoOp)
  BY DEF End
<1>2. op[p] \in OpType /\ Desk(pc[p], op[p])
  BY CallOf DEF TInv
<1>3. Moves(p, "loop", NoOp)
  BY <1>1, NoOpType, NoOpFields
     DEF Moves, Labels, Talking, Do, Goto, Desk, Asks
<1>4. Calls' /\ Plain(p, "loop", NoOp)
  BY <1>1, <1>2, <1>3, MoveKeeps, NoOpFields DEF TInv, Plain, Up, Desk
<1>5. Tasks'
  <2> DEFINE t == [NoOp EXCEPT !.kind = "send", !.chan = op[p].chan,
                               !.try = op[p].try]
  <2>1. CASE op[p].kind = "send" /\ ~op[p].in
    <3>1. op[p].chan \in Channels /\ op[p].try \in 0 .. SpinBound
      BY <1>2, <2>1, OpFields DEF Desk
    <3>2. SendOp(op[p].chan) \in OpType
      BY <3>1, SendOpIs
    <3>3. [SendOp(op[p].chan) EXCEPT !.try = op[p].try] \in OpType
      BY <3>1, <3>2, OpSet
    <3>4. t = [SendOp(op[p].chan) EXCEPT !.try = op[p].try]
      BY NoOpType DEF SendOp, OpType
    <3>5. Pending(t)
      BY <3>1 DEF Pending, NoOp
    <3>6. task' = [task EXCEPT ![p] = t]
      BY <2>1 DEF End
    <3>7. t \in OpType
      BY <3>3, <3>4
    <3> HIDE DEF t
    <3> QED BY <3>5, <3>6, <3>7 DEF TInv, Tasks
  <2>2. CASE ~(op[p].kind = "send" /\ ~op[p].in)
    <3>1. task' = [task EXCEPT ![p] = task[p]]
      BY <2>2 DEF End
    <3> QED BY <3>1 DEF TInv, Tasks
  <2> QED BY <2>1, <2>2
<1> QED BY <1>4, <1>5, Same DEF TInv, End, PlainStep, shm

LEMMA GroupStartTypes ==
    ASSUME TInv, NEW p \in Procs, GroupStart(p)
    PROVE  TInv' /\ Plain(p, "group", GroupOp) /\ PlainStep(p)
<1>1. Do(p, "group", GroupOp) /\ AtLoop(p)
  BY DEF GroupStart, GroupOp
<1>2. Moves(p, "group", GroupOp)
  BY <1>1, GroupOpIs
     DEF Moves, Labels, Talking, Do, Goto, Desk, Asks, Pending
<1>3. Calls' /\ Plain(p, "group", GroupOp)
  BY <1>1, <1>2, GroupOpIs, Starts
<1>4. Counts'
  BY Bounds DEF TInv, Counts, GroupStart
<1> QED BY <1>3, <1>4, Same DEF TInv, GroupStart, PlainStep, shm

LEMMA GroupMemberTypes ==
    ASSUME TInv, NEW p \in Procs, NEW c \in Channels, GroupMember(p, c)
    PROVE  TInv' /\ PlainStep(p)
<1> DEFINE key == Owner[c]
<1>1. PICK l, o : GroupCase(p, c, key, l, o) /\ Moves(p, l, o)
  BY GroupMoves
<1>2. pc[p] = "group" /\ op[p].kind = "group"
      /\ UNCHANGED <<reg, flock, fds, pump, task, sends, missed>>
  BY GroupMoves DEF GroupMember
<1>3. op[p] \in OpType /\ key \in Keys
  BY CallOf, Owners DEF TInv
<1>4. Calls'
  BY <1>1, MoveKeeps DEF TInv
<1>5. Rings'
  <2>1. UNCHANGED ring \/ (HasRoom(key) /\ Put(c))
    BY <1>1 DEF GroupCase
  <2> QED BY <2>1, PutKeeps, Same DEF TInv
<1>6. Up(p) /\ op[p].kind # "close"
  BY <1>2 DEF Up
<1>10. Plain(p, l, o)
  <2>1. CASE l = "group" /\ o = [op[p] EXCEPT !.members = @ \ {c}]
    <3>1. /\ o.kind = op[p].kind /\ o.scan = op[p].scan
          /\ o.want = op[p].want /\ o.found = op[p].found
          /\ o.dead = op[p].dead
      BY <1>3, <2>1 DEF OpType
    <3> QED BY <1>1, <1>2, <1>6, <2>1, <3>1 DEF Plain
  <2>2. CASE l = "group" /\ o = Done(p, c, key)
    BY <1>1, <1>2, <1>3, <1>6, <2>2 DEF Plain, OpType, Done
  <2>3. CASE /\ key \in Procs /\ l = "scan"
             /\ o = Look(Done(p, c, key), "one", key)
    <3>1. Done(p, c, key) \in OpType /\ Done(p, c, key).kind = "group"
      <4>1. Calls
        BY DEF TInv
      <4> HIDE DEF key
      <4> QED BY <1>2, <1>3, <4>1, GroupTypes
    <3>2. Looked(Done(p, c, key), o, "one", key)
      BY <3>1, <2>3, LookType
    <3> QED BY <1>1, <1>6, <2>3, <3>1, <3>2 DEF Plain, Looked
  <2> QED BY <1>1, <2>1, <2>2, <2>3 DEF GroupCase, Done
<1> QED BY <1>2, <1>4, <1>5, <1>10, Same DEF TInv, PlainStep

LEMMA GroupEndTypes ==
    ASSUME TInv, NEW p \in Procs, GroupEnd(p)
    PROVE  TInv' /\ PlainStep(p)
<1>1. PICK l, o : EndCase(p, l, o) /\ Moves(p, l, o)
  BY GroupEndMoves
<1>2. pc[p] = "group" /\ op[p].kind = "group"
      /\ UNCHANGED <<shm, sock, pump, task, sends, missed>>
      /\ (Signal(p) \/ UNCHANGED evfd)
  BY GroupEndMoves DEF GroupEnd
<1>3. op[p] \in OpType
  BY CallOf DEF TInv
<1>4. Calls' /\ Descriptors'
  BY <1>1, <1>2, MoveKeeps, SignalKeeps DEF TInv
<1>5. Up(p) /\ op[p].kind # "close"
  BY <1>2 DEF Up
<1>8. Plain(p, l, o)
  <2>1. CASE l = "end" /\ o = op[p]
    BY <1>1, <1>5, <2>1 DEF Plain
  <2>2. CASE l = "scan" /\ o = Look([op[p] EXCEPT !.all = TRUE], "all", None)
    <3>1. [op[p] EXCEPT !.all = TRUE] \in OpType
      BY <1>3, OpSet
    <3>2. [op[p] EXCEPT !.all = TRUE].kind = "group"
      BY <1>2, <1>3 DEF OpType
    <3>3. Looked([op[p] EXCEPT !.all = TRUE], o, "all", None)
      BY <3>1, <2>2, LookType
    <3> QED BY <1>1, <1>5, <2>2, <3>2, <3>3 DEF Plain, Looked
  <2> QED BY <1>1, <2>1, <2>2 DEF EndCase
<1> QED BY <1>2, <1>4, <1>8, Same DEF TInv, PlainStep, shm

LEMMA DrainOpIs ==
    ASSUME NEW X \in SUBSET Channels
    PROVE  /\ DrainAll(NoOp, X) \in OpType /\ DrainAll(NoOp, X).kind = "none"
           /\ DrainAll(NoOp, X).found = << >> /\ DrainAll(NoOp, X).dead = {}
           /\ DrainAll(NoOp, X).drain = {Owner[c] : c \in X}
<1>1. {Owner[c] : c \in X} \in SUBSET Keys
  BY Owners
<1>2. DrainAll(NoOp, X) \in OpType
  BY <1>1, NoOpType, OpSet DEF DrainAll
<1> QED BY <1>2 DEF DrainAll, NoOp

LEMMA DrainMoves ==
    ASSUME TInv, NEW p \in Procs, NEW X \in SUBSET Channels, AtLoop(p),
           Do(p, "drain", DrainAll(NoOp, X))
    PROVE  Calls' /\ Plain(p, "drain", DrainAll(NoOp, X))
<1>1. Moves(p, "drain", DrainAll(NoOp, X))
  BY DrainOpIs DEF Moves, Labels, Talking, Do, Goto, Desk, Asks, Pending
<1> QED BY <1>1, DrainOpIs, Starts

\* A step of the event loop that starts nothing.
LEMMA LoopStays ==
    ASSUME TInv, NEW p \in Procs, AtLoop(p), UNCHANGED <<pc, op>>
    PROVE  Calls' /\ Plain(p, "loop", NoOp)
<1>1. op[p] = NoOp /\ pc[p] = "loop"
  BY LoopIs DEF TInv, AtLoop
<1>2. Moves(p, "loop", NoOp)
  BY <1>1, Stays, NoOpType, NoOpFields
     DEF TInv, Moves, Labels, Talking, Desk, Asks
<1> QED BY <1>2, NoOpFields, Starts

LEMMA ReceiveTypes ==
    ASSUME TInv, NEW p \in Procs, NEW c \in Channels, Receive(p, c)
    PROVE  TInv' /\ PlainStep(p)
<1>1. AtLoop(p) /\ UNCHANGED <<shm, fds, buf, task, sends, missed>>
  BY DEF Receive
<1>2. watched[p] \cup {c} \in SUBSET Channels
  BY DEF TInv, Pumps
<1>3. Calls' /\ \E l, o : Plain(p, l, o)
  <2>1. CASE c \in watched[p]
    BY <2>1, <1>1, LoopStays DEF Receive
  <2>2. CASE c \notin watched[p]
    BY <2>2, <1>1, <1>2, DrainMoves DEF Receive
  <2> QED BY <2>1, <2>2
<1>4. Pumps'
  BY <1>1, <1>2 DEF TInv, Pumps, Receive
<1> QED BY <1>1, <1>3, <1>4, Same DEF TInv, PlainStep, shm

LEMMA GetTypes ==
    ASSUME TInv, NEW p \in Procs, Get(p)
    PROVE  TInv' /\ PlainStep(p)
<1>1. AtLoop(p) /\ UNCHANGED <<shm, fds, watched, task, pc, op, sends, missed>>
      /\ waiting[p] # None /\ buf[p][waiting[p]] > 0
  BY DEF Get
<1>2. Calls' /\ Plain(p, "loop", NoOp)
  BY <1>1, LoopStays
<1>3. waiting[p] \in Channels
  BY <1>1 DEF TInv, Pumps
<1>4. Pumps'
  <2>1. buf[p] \in [Channels -> 0 .. BufCap]
    BY DEF TInv, Pumps
  <2>2. [buf[p] EXCEPT ![waiting[p]] = @ - 1] \in [Channels -> 0 .. BufCap]
    <3>1. buf[p][waiting[p]] - 1 \in 0 .. BufCap
      BY <1>1, <1>3, <2>1, Bounds
    <3> QED BY <3>1, <2>1
  <2>3. buf' = [buf EXCEPT ![p] = [buf[p] EXCEPT ![waiting[p]] = @ - 1]]
    BY DEF Get
  <2>4. buf' \in [Procs -> [Channels -> 0 .. BufCap]]
    BY <2>2, <2>3 DEF TInv, Pumps
  <2>5. waiting' \in [Procs -> Channels \cup {None}] /\ watched' = watched
    BY <1>1 DEF TInv, Pumps, Get
  <2> QED BY <2>4, <2>5 DEF TInv, Pumps
<1> QED BY <1>1, <1>2, <1>4, Same DEF TInv, PlainStep, shm

LEMMA OnWakeupTypes ==
    ASSUME TInv, NEW p \in Procs, OnWakeup(p)
    PROVE  TInv' /\ PlainStep(p)
<1>1. AtLoop(p) /\ UNCHANGED <<shm, pump, task, sends, missed>>
      /\ Do(p, "drain", DrainAll(NoOp, watched[p]))
  BY DEF OnWakeup
<1>2. Calls' /\ \E l, o : Plain(p, l, o)
  <2>1. watched[p] \in SUBSET Channels
    BY DEF TInv, Pumps
  <2> QED BY <2>1, <1>1, DrainMoves
<1>3. Descriptors'
  <2>1. sock[p] \in 0 .. SocketMax
    BY DEF TInv, Descriptors
  <2>2. (IF sock[p] > DrainMax THEN sock[p] - DrainMax ELSE 0)
            \in 0 .. SocketMax
    BY <2>1, Bounds
  <2>3. sock' \in [Procs -> 0 .. SocketMax]
    BY <2>2 DEF TInv, Descriptors, OnWakeup
  <2>4. evfd' \in [Procs -> BOOLEAN]
    BY DEF TInv, Descriptors, OnWakeup
  <2> QED BY <2>3, <2>4 DEF Descriptors
<1> QED BY <1>1, <1>2, <1>3, Same DEF TInv, PlainStep, shm

LEMMA WatchdogTypes ==
    ASSUME TInv, NEW p \in Procs, Watchdog(p)
    PROVE  TInv' /\ PlainStep(p)
<1>1. AtLoop(p) /\ UNCHANGED <<shm, fds, pump, task, sends, missed>>
      /\ Do(p, "drain", DrainAll(NoOp, watched[p]))
  BY DEF Watchdog
<1>2. Calls' /\ \E l, o : Plain(p, l, o)
  <2>1. watched[p] \in SUBSET Channels
    BY DEF TInv, Pumps
  <2> QED BY <2>1, <1>1, DrainMoves
<1> QED BY <1>1, <1>2, Same DEF TInv, PlainStep, shm

LEMMA DrainTypes ==
    ASSUME TInv, NEW p \in Procs, NEW key \in Keys, Drain(p, key)
    PROVE  TInv' /\ PlainStep(p)
<1>1. pc[p] = "drain" /\ key \in op[p].drain
      /\ UNCHANGED <<reg, flock, fds, watched, waiting, task, pc, sends,
                     missed>>
  BY DEF Drain
<1>2. op[p] \in OpType /\ op[p].kind = "none" /\ Desk(pc[p], op[p])
  BY <1>1, CallOf DEF TInv, Desk
<1>3. pc = [pc EXCEPT ![p] = "drain"] /\ op = [op EXCEPT ![p] = op[p]]
  BY <1>1, Stays DEF TInv
<1>4. Up(p)
  BY <1>1 DEF Up
<1>5. CASE ring[key] = << >>
  <2> DEFINE o == [op[p] EXCEPT !.drain = op[p].drain \ {key}]
  <2>1. o \in OpType
    <3>1. op[p].drain \ {key} \in SUBSET Keys
      BY <1>2, OpFields
    <3> QED BY <3>1, <1>2, OpSet
  <2>2. op' = [op EXCEPT ![p] = o] /\ UNCHANGED <<ring, buf>>
    BY <1>5 DEF Drain
  <2>3. /\ o.kind = "none" /\ o.found = op[p].found /\ o.dead = op[p].dead
        /\ o.scan = op[p].scan /\ o.want = op[p].want
    BY <1>2 DEF OpType
  <2>4. Moves(p, "drain", o)
    <3> HIDE DEF o
    <3> QED BY <2>1, <2>2, <2>3, <1>1, <1>3
         DEF Moves, Labels, Talking, Desk, Asks, Pending
  <2>5. Plain(p, "drain", o)
    <3> HIDE DEF o
    <3> QED BY <2>3, <2>4, <1>2, <1>4 DEF Plain
  <2>6. Calls'
    BY <2>4, MoveKeeps DEF TInv
  <2> QED BY <2>2, <2>5, <2>6, <1>1, Same DEF TInv, PlainStep, pump
<1>6. CASE ring[key] # << >>
  <2>1. UNCHANGED op /\ ring' = [ring EXCEPT ![key] = Tail(@)]
        /\ buf' = [buf EXCEPT ![p][Head(ring[key])] =
                       IF @ < BufCap THEN @ + 1 ELSE @]
    BY <1>6 DEF Drain
  <2>2. ring[key] \in Seq(Channels)
    BY DEF TInv, Rings
  <2>3. Head(ring[key]) \in Channels /\ Tail(ring[key]) \in Seq(Channels)
        /\ Len(Tail(ring[key])) = Len(ring[key]) - 1
    BY <2>2, <1>6, HeadTailProperties
  <2>4. \A i \in 1 .. Len(Tail(ring[key])) :
            Tail(ring[key])[i] = ring[key][i + 1]
    BY <2>2, <1>6, HeadTailProperties
  <2>5. Len(ring[key]) \in Nat
    BY <2>2, LenProperties
  <2>6. ring' \in [Keys -> Seq(Channels)] /\ ring'[key] = Tail(ring[key])
    BY <2>1, <2>3 DEF TInv, Rings
  <2>7. ASSUME NEW k \in Keys
        PROVE  /\ Len(ring'[k]) <= RingCap
               /\ \A i \in 1 .. Len(ring'[k]) : Owner[ring'[k][i]] = k
    <3>1. CASE k = key
      <4>1. Len(ring'[k]) <= RingCap
        BY <3>1, <2>3, <2>5, <2>6, Bounds DEF TInv, Rings
      <4>2. ASSUME NEW i \in 1 .. Len(ring'[k])
            PROVE  Owner[ring'[k][i]] = k
        <5>1. i + 1 \in 1 .. Len(ring[key])
          BY <4>2, <3>1, <2>3, <2>5, <2>6
        <5>2. ring'[k][i] = ring[key][i + 1]
          BY <3>1, <2>4, <2>6
        <5> QED BY <5>1, <5>2, <3>1 DEF TInv, Rings
      <4> QED BY <4>1, <4>2
    <3>2. CASE k # key
      <4>1. ring'[k] = ring[k]
        BY <3>2, <2>1 DEF TInv, Rings
      <4> QED BY <4>1 DEF TInv, Rings
    <3> QED BY <3>1, <3>2
  <2>8. Rings'
    BY <2>6, <2>7 DEF Rings
  <2>9. Pumps'
    <3>1. buf[p] \in [Channels -> 0 .. BufCap]
      BY DEF TInv, Pumps
    <3>2. [buf[p] EXCEPT ![Head(ring[key])] =
              IF @ < BufCap THEN @ + 1 ELSE @] \in [Channels -> 0 .. BufCap]
      BY <3>1, <2>3, Bounds
    <3>3. buf' \in [Procs -> [Channels -> 0 .. BufCap]]
      BY <2>1, <3>2 DEF TInv, Pumps
    <3> QED BY <3>3, <1>1 DEF TInv, Pumps
  <2>10. Moves(p, "drain", op[p])
    BY <2>1, <1>1, <1>2, <1>3, CallOf DEF TInv, Moves, Labels, Talking
  <2>11. Plain(p, "drain", op[p])
    BY <2>10, <1>2, <1>4 DEF Plain
  <2>12. Calls'
    BY <2>10, MoveKeeps DEF TInv
  <2> QED BY <2>8, <2>9, <2>11, <2>12, <1>1, Same DEF TInv, PlainStep
<1> QED BY <1>5, <1>6

LEMMA DrainEndTypes ==
    ASSUME TInv, NEW p \in Procs, DrainEnd(p)
    PROVE  TInv' /\ PlainStep(p) /\ Plain(p, "loop", NoOp)
<1>1. pc[p] = "drain" /\ Do(p, "loop", NoOp)
  BY DEF DrainEnd
<1>2. Moves(p, "loop", NoOp)
  BY <1>1, NoOpType, NoOpFields
     DEF Moves, Labels, Talking, Do, Goto, Desk, Asks
<1>3. Desk(pc[p], op[p])
  BY CallOf DEF TInv
<1>4. Calls' /\ Plain(p, "loop", NoOp)
  BY <1>1, <1>2, <1>3, MoveKeeps, NoOpFields DEF TInv, Plain, Up, Desk
<1> QED BY <1>4, Same DEF TInv, DrainEnd, PlainStep, shm

LEMMA FlushTypes ==
    ASSUME TInv, NEW p \in Procs, Flush(p)
    PROVE  TInv' /\ PlainStep(p)
<1>1. AtLoop(p) /\ Do(p, "scan", FlushOp) /\ Signal(p)
      /\ UNCHANGED <<reg, flock, sock, task, missed>>
  BY DEF Flush, FlushOp
<1>2. Moves(p, "scan", FlushOp)
  BY <1>1, FlushOpIs DEF Moves, Labels, Talking, Do, Goto, Desk, Asks
<1>3. Calls' /\ Plain(p, "scan", FlushOp)
  BY <1>1, <1>2, FlushOpIs, Starts
<1>4. Rings'
  <2>1. << >> \in Seq(Channels) /\ Len(<< >>) = 0
    BY EmptySeq
  <2>2. ring' \in [Keys -> Seq(Channels)] /\ \A k \in Keys : ring'[k] = << >>
    BY <2>1 DEF Flush
  <2> QED BY <2>1, <2>2, Bounds DEF Rings
<1>5. Pumps'
  BY Bounds DEF TInv, Pumps, Flush
<1>6. Counts'
  BY Bounds DEF TInv, Counts, Flush
<1>7. Descriptors'
  BY <1>1, SignalKeeps DEF TInv
<1> QED BY <1>1, <1>3, <1>4, <1>5, <1>6, <1>7, Same DEF TInv, PlainStep

LEMMA CloseStartTypes ==
    ASSUME TInv, NEW p \in Procs, CloseStart(p)
    PROVE  TInv' /\ Moves(p, "scan", CloseOp(p))
<1>1. AtLoop(p) /\ Do(p, "scan", CloseOp(p))
      /\ UNCHANGED <<shm, fds, buf, sends, missed>>
  BY DEF CloseStart, CloseOp
<1>2. Moves(p, "scan", CloseOp(p))
  BY <1>1, CloseOpIs DEF Moves, Labels, Talking, Do, Goto, Desk, Asks
<1>3. Calls'
  BY <1>2, MoveKeeps DEF TInv
<1>4. Pumps' /\ Tasks'
  BY NoOpType DEF TInv, Pumps, Tasks, CloseStart
<1> QED BY <1>1, <1>2, <1>3, <1>4, Same DEF TInv, shm

LEMMA LeaveTypes ==
    ASSUME TInv, NEW p \in Procs, Leave(p), UNCHANGED <<reg, ring, sends>>,
           missed' \in SUBSET Keys
    PROVE  TInv' /\ Moves(p, "gone", NoOp)
<1>1. Moves(p, "gone", NoOp)
  BY NoOpType, NoOpFields
     DEF Leave, Moves, Labels, Do, Goto, Desk, Asks, Talking
<1>2. Calls'
  BY <1>1, MoveKeeps DEF TInv
<1>3. Pumps' /\ Tasks'
  BY NoOpType, Bounds DEF TInv, Pumps, Tasks, Leave
<1>4. Descriptors'
  BY Bounds DEF TInv, Descriptors, Leave
<1>5. Counts' /\ flock' \in Procs \cup {None}
  BY DEF TInv, Counts, Leave
<1> QED BY <1>1, <1>2, <1>3, <1>4, <1>5, Same DEF TInv

LEMMA OwesType ==
    ASSUME TInv, NEW p \in Procs
    PROVE  Owes(p) \subseteq Keys
<1>1. op[p] \in OpType /\ Desk(pc[p], op[p])
  BY CallOf DEF TInv
<1> QED BY <1>1, OpFields, Owners DEF Owes, Desk, Keys

LEMMA CloseEndTypes ==
    ASSUME TInv, NEW p \in Procs, CloseEnd(p)
    PROVE  TInv' /\ Moves(p, "gone", NoOp)
BY LeaveTypes DEF CloseEnd, TInv, Counts
LEMMA CrashTypes ==
    ASSUME TInv, NEW p \in Procs, Crash(p)
    PROVE  TInv' /\ Moves(p, "gone", NoOp)
BY LeaveTypes, OwesType DEF Crash, TInv, Counts

LEMMA TypesStep == TInv /\ [Next]_vars => TInv'
<1> SUFFICES ASSUME TInv, [Next]_vars PROVE TInv'
  OBVIOUS
<1>1. CASE UNCHANGED vars
  BY <1>1, Same DEF TInv, vars, shm, fds, pump
<1>2. CASE Next
  <2>1. PICK p \in Procs :
        \/ RegisterSlot(p) \/ Run(p) \/ Call(p) \/ Crash(p)
        \/ Resume(p) \/ Get(p) \/ OnWakeup(p) \/ Watchdog(p)
    BY <1>2 DEF Next
  <2>2. CASE Run(p)
    BY <2>2, RegisterWriteMoves, ScanTypes, ScanEndTypes, WakeTypes,
       WakeEndTypes, MarkTypes, TryTypes, EndTypes, GroupEndTypes,
       DrainEndTypes, CloseEndTypes, GroupMemberTypes, DrainTypes DEF Run
  <2>3. CASE Call(p)
    BY <2>3, SendStartTypes, ReceiveTypes, GroupStartTypes, FlushTypes,
       CloseStartTypes DEF Call
  <2> QED BY <2>1, <2>2, <2>3, RegisterSlotMoves, CrashTypes, ResumeTypes,
       GetTypes, OnWakeupTypes, WatchdogTypes
<1> QED BY <1>1, <1>2

\* Every variable keeps its type, whoever is killed where and whatever slots
\* are taken again: a ring holds only its own channels' messages and never
\* more than its capacity, a buffer and a socket no more than theirs, and a
\* valid slot of the registry names a process (lib.rs registry_register).
THEOREM WakeupTypeCorrect == Spec => []TypeOK
<1>1. TInv => TypeOK
  <2> SUFFICES ASSUME TInv PROVE TypeOK
    OBVIOUS
  <2>1. ASSUME NEW s \in Slots
        PROVE  /\ reg[s].valid \in BOOLEAN
               /\ reg[s].path \in Procs \cup {None, Torn}
               /\ reg[s].valid => reg[s].path \in Procs
    BY DEF TInv, Registry, SlotType
  <2>2. ASSUME NEW key \in Keys, NEW i \in 1 .. RingCap, i <= Len(ring[key])
        PROVE  Owner[ring[key][i]] = key
    <3>1. i \in 1 .. Len(ring[key])
      BY <2>2, LenProperties, Bounds DEF TInv, Rings
    <3> QED BY <3>1 DEF TInv, Rings
  <2>3. \A key \in Keys : Len(ring[key]) <= RingCap
    BY DEF TInv, Rings
  <2>4. pc \in [Procs -> {"new", "write", "loop", "scan", "deliver", "mark",
                  "enqueue", "group", "drain", "end", "close", "gone"}]
    BY DEF TInv, Calls, Labels, Talking
  <2>5. sends \in 0 .. MaxSends /\ missed \subseteq Keys
    BY DEF TInv, Counts
  <2> QED BY <2>1, <2>2, <2>3, <2>4, <2>5
          DEF TypeOK, TInv, Descriptors, Pumps
<1> QED BY <1>1, TypesInit, TypesStep, PTL DEF Spec

-----------------------------------------------------------------------------
(* The registry.                                                            *)

\* What a path names does not change, and who is gone stays gone.
PathsKept ==
    /\ \A s \in Slots : reg[s].path \in Procs => reg'[s].path = reg[s].path
    /\ \A q \in Procs : pc[q] = "gone" => pc'[q] = "gone"

LEMMA KnowsKept ==
    ASSUME TInv, NEW q \in Procs, Knows(q), PathsKept,
           pc'[q] = pc[q], op'[q] = op[q]
    PROVE  Knows(q)'
<1>1. op[q] \in OpType /\ Asks(q, pc[q], op[q])
  BY CallOf DEF TInv
<1>2. op[q].found \in Seq(Slots \X Procs) /\ op[q].dead \subseteq Slots
  BY <1>1, OpFields
<1>3. ASSUME NEW i \in 1 .. Len(op[q].found)
      PROVE  reg'[op[q].found[i][1]].path = op[q].found[i][2]
  <2>1. op[q].found[i] \in Slots \X Procs
    BY <1>2, ElementOfSeq
  <2>2. op[q].found[i][1] \in Slots /\ op[q].found[i][2] \in Procs
    BY <2>1
  <2>3. reg[op[q].found[i][1]].path = op[q].found[i][2]
    BY DEF Knows
  <2> QED BY <2>2, <2>3 DEF PathsKept
<1>4. ASSUME NEW s \in op[q].dead PROVE Dead(q, reg[s].path)'
  <2>1. Dead(q, reg[s].path) /\ s \in Slots
    BY <1>2 DEF Knows
  <2>2. reg'[s].path = reg[s].path
    BY <2>1 DEF Dead, PathsKept
  <2> QED BY <2>1, <2>2 DEF Dead, PathsKept
<1>5. ASSUME pc[q] = "scan", op[q].scan = "path" PROVE pc'[op[q].want] = "gone"
  <2>1. op[q].want \in Procs
    BY <1>1, <1>5 DEF Asks, Talking
  <2> QED BY <2>1, <1>5 DEF Knows, PathsKept
<1>6. op[q].scan = "one" =>
        \A i \in 1 .. Len(op[q].found) : op[q].found[i][2] = op[q].want
  BY DEF Knows
<1> QED BY <1>3, <1>4, <1>5, <1>6 DEF Knows

\* A step of a registered process that writes nothing to the registry.
LEMMA CalmReg ==
    ASSUME TInv, RInv, NEW p \in Procs, NEW l, NEW o, Moves(p, l, o), Up(p),
           l \notin {"new", "write", "gone"}, UNCHANGED <<reg, flock>>,
           o.kind = "close" \/ op[p].kind # "close", Knows(p)'
    PROVE  RInv'
<1>1. /\ pc'[p] = l /\ op'[p] = o
      /\ \A q \in Procs \ {p} : pc'[q] = pc[q] /\ op'[q] = op[q]
  BY MoveKeeps DEF TInv
<1>2. pc[p] \notin {"new", "write", "gone"}
  BY DEF Up
<1>3. PathsKept
  BY <1>1, <1>2 DEF PathsKept
<1>4. \A q \in Procs : Knows(q)'
  BY <1>1, <1>3, KnowsKept DEF RInv
<1>5. ASSUME NEW s \in Slots, reg'[s].path \in Procs
      PROVE  pc'[reg'[s].path] \notin {"new", "write"}
  BY <1>1, <1>5 DEF RInv, Listed
<1>6. ASSUME NEW q \in Procs, pc'[q] = "write"
      PROVE  q # p /\ pc[q] = "write" /\ op'[q] = op[q]
  BY <1>1, <1>6
<1>7. ASSUME NEW q \in Procs, Up(q)', op'[q].kind # "close", Fits
      PROVE  Registered(q)'
  <2>1. Up(q) /\ op[q].kind # "close"
    BY <1>1, <1>7 DEF Up
  <2>2. Registered(q)
    BY <2>1, <1>7 DEF RInv, Listed
  <2> QED BY <2>2 DEF Registered
<1>8. Listed'
  BY <1>5, <1>6, <1>7 DEF RInv, Listed
<1> QED BY <1>4, <1>8 DEF RInv

LEMMA PlainReg ==
    ASSUME TInv, RInv, NEW p \in Procs, PlainStep(p)
    PROVE  RInv'
<1>1. PICK l, o : Plain(p, l, o)
  BY DEF PlainStep
<1>2. Moves(p, l, o) /\ Up(p) /\ op[p].kind # "close" /\ o.kind # "close"
      /\ l \in {"loop", "enqueue", "group", "drain", "scan", "end"}
      /\ UNCHANGED <<reg, flock>>
  BY <1>1 DEF Plain, PlainStep
<1>3. /\ pc'[p] = l /\ op'[p] = o
      /\ \A q \in Procs \ {p} : pc'[q] = pc[q] /\ op'[q] = op[q]
  BY <1>2, MoveKeeps DEF TInv
<1>4. pc[p] # "gone"
  BY <1>2 DEF Up
<1>5. l = "scan" => o.scan \in {"all", "one"}
  BY <1>1 DEF Plain
<1>6. Knows(p)'
  <2>1. CASE o.found = << >> /\ o.dead = {}
    <3>1. Len(o.found) = 0
      BY <2>1, EmptySeq
    <3> QED BY <3>1, <2>1, <1>2, <1>3, <1>5 DEF Knows
  <2>2. CASE /\ o.found = op[p].found /\ o.dead = op[p].dead
             /\ o.scan = op[p].scan /\ o.want = op[p].want
    <3>1. ASSUME NEW s \in o.dead PROVE Dead(p, reg[s].path)'
      BY <2>2, <3>1, <1>2, <1>3, <1>4 DEF RInv, Knows, Dead
    <3>2. /\ \A i \in 1 .. Len(o.found) :
                reg'[o.found[i][1]].path = o.found[i][2]
          /\ o.scan = "one" =>
                \A i \in 1 .. Len(o.found) : o.found[i][2] = o.want
      BY <2>2, <1>2 DEF RInv, Knows
    <3> QED BY <3>1, <3>2, <1>3, <1>5 DEF Knows
  <2> QED BY <1>1, <2>1, <2>2 DEF Plain
<1> QED BY <1>2, <1>6, CalmReg

LEMMA RegInit == Init => RInv
<1> SUFFICES ASSUME Init PROVE RInv
  OBVIOUS
<1>1. \A p \in Procs : pc[p] = "new" /\ op[p] = NoOp
  BY DEF Init
<1>2. \A s \in Slots : reg[s].path = None
  BY DEF Init
<1>3. Listed
  BY <1>1, <1>2, Owners DEF Listed, Up
<1>4. Len(NoOp.found) = 0
  BY NoOpFields, EmptySeq
<1> QED BY <1>1, <1>3, <1>4, NoOpFields DEF RInv, Knows

\* Without slots taken twice the registry has room for every process.
LEMMA RoomToRegister ==
    ASSUME TInv, RInv, Fits, IsFiniteSet(Procs), NEW p \in Procs, pc[p] = "new"
    PROVE  Free # {}
<1> SUFFICES ASSUME Free = {} PROVE FALSE
  OBVIOUS
<1>1. \A s \in Slots : reg[s].valid /\ reg[s].path \in Procs \ {p}
  <2> TAKE s \in Slots
  <2>1. reg[s].valid /\ reg[s].path \in Procs
    BY DEF Free, TInv, Registry, SlotType
  <2> QED BY <2>1 DEF RInv, Listed
<1>2. IsFiniteSet(Slots) /\ Cardinality(Slots) = MaxProcesses
  BY FS_Interval, Bounds DEF Slots
<1>3. IsFiniteSet(Procs \ {p})
      /\ Cardinality(Procs \ {p}) = Cardinality(Procs) - 1
  BY FS_RemoveElement
<1>4. Cardinality(Procs) \in Nat
  BY FS_CardinalityType
<1> DEFINE f == [s \in Slots |-> reg[s].path]
<1>5. f \in [Slots -> Procs \ {p}]
  BY <1>1
<1>6. Cardinality(Procs \ {p}) < Cardinality(Slots)
  BY <1>2, <1>3, <1>4, Bounds DEF Fits
<1>7. \E x, y \in Slots : x # y /\ f[x] = f[y]
  <2> HIDE DEF f
  <2> QED BY <1>2, <1>3, <1>5, <1>6, FS_PigeonHole
<1> QED BY <1>1, <1>7 DEF RInv, Listed

LEMMA RegisterSlotReg ==
    ASSUME TInv, RInv, ~ReuseSlots, IsFiniteSet(Procs), NEW p \in Procs,
           RegisterSlot(p)
    PROVE  RInv'
<1>1. pc[p] = "new" /\ flock = None
  BY DEF RegisterSlot
<1>2. Len(NoOp.found) = 0 /\ NoOp.scan = "none" /\ NoOp.dead = {}
  BY NoOpFields, EmptySeq
<1>3. CASE Free = {} /\ Do(p, "loop", NoOp) /\ UNCHANGED <<reg, flock>>
  <2>1. ~Fits
    BY <1>1, <1>3, RoomToRegister
  <2>2. Moves(p, "loop", NoOp)
    BY <1>3, NoOpType DEF Do, Goto, Moves, Labels, Talking, Desk, Asks, NoOp
  <2>3. /\ pc'[p] = "loop" /\ op'[p] = NoOp
        /\ \A q \in Procs \ {p} : pc'[q] = pc[q] /\ op'[q] = op[q]
    BY <2>2, MoveKeeps DEF TInv
  <2>4. PathsKept
    BY <2>3, <1>1, <1>3 DEF PathsKept
  <2>5. \A q \in Procs : Knows(q)'
    <3>1. Knows(p)'
      BY <2>3, <1>2 DEF Knows
    <3> QED BY <3>1, <2>3, <2>4, KnowsKept DEF RInv
  <2>6. Listed'
    BY <2>1, <2>3, <1>3 DEF RInv, Listed, Fits
  <2> QED BY <2>5, <2>6 DEF RInv
<1>4. CASE \E s \in Slots :
            /\ First(s) /\ reg[s].path = None
            /\ reg' = [reg EXCEPT ![s].path = Torn]
            /\ flock' = p /\ Do(p, "write", [NoOp EXCEPT !.slot = s])
  <2>1. PICK s \in Slots : First(s) /\ reg[s].path = None
            /\ reg' = [reg EXCEPT ![s].path = Torn]
            /\ flock' = p /\ Do(p, "write", [NoOp EXCEPT !.slot = s])
    BY <1>4
  <2> DEFINE o == [NoOp EXCEPT !.slot = s]
  <2>2. o \in OpType
    BY NoOpType, OpSet, Bounds DEF Slots
  <2>3. Moves(p, "write", o)
    BY <2>1, <2>2 DEF Do, Goto, Moves, Labels, Talking, Desk, Asks, NoOp
  <2>4. /\ pc'[p] = "write" /\ op'[p] = o
        /\ \A q \in Procs \ {p} : pc'[q] = pc[q] /\ op'[q] = op[q]
    BY <2>3, MoveKeeps DEF TInv
  <2>5. o.slot = s /\ o.found = << >> /\ o.dead = {} /\ o.scan = "none"
    BY DEF NoOp
  <2>6. reg[s] \in SlotType /\ ~reg[s].valid
    BY <2>1 DEF TInv, Registry, First, Free
  <2>7. reg'[s] = [valid |-> FALSE, path |-> Torn]
        /\ \A t \in Slots \ {s} : reg'[t] = reg[t]
    BY <2>1, <2>6 DEF TInv, Registry, SlotType
  <2>8. PathsKept
    BY <2>1, <2>4, <2>7, <1>1, Owners DEF PathsKept
  <2>9. \A q \in Procs : Knows(q)'
    <3>1. Knows(p)'
      <4> HIDE DEF o
      <4> QED BY <2>4, <2>5, EmptySeq DEF Knows
    <3> QED BY <3>1, <2>4, <2>8, KnowsKept DEF RInv
  <2>10. Listed'
    <3> HIDE DEF o
    <3>1. ASSUME NEW t \in Slots, reg'[t].path \in Procs
          PROVE  t # s /\ reg'[t] = reg[t]
                   /\ pc'[reg'[t].path] \notin {"new", "write"}
      <4>1. t # s /\ reg'[t] = reg[t]
        BY <3>1, <2>7, Owners
      <4>2. pc[reg[t].path] \notin {"new", "write"}
        BY <3>1, <4>1 DEF RInv, Listed
      <4> QED BY <3>1, <4>1, <4>2, <2>4, <1>1
    <3>2. ASSUME NEW q \in Procs, pc'[q] = "write" PROVE q = p
      <4>1. q # p => pc[q] = "write" /\ flock = q
        BY <3>2, <2>4 DEF RInv, Listed
      <4> QED BY <4>1, <1>1, Owners
    <3>3. ASSUME NEW q \in Procs, Up(q)', op'[q].kind # "close", Fits
          PROVE  Registered(q)'
      <4>1. q # p
        BY <3>3, <2>4 DEF Up
      <4>2. Registered(q)
        BY <4>1, <3>3, <2>4 DEF Up, RInv, Listed
      <4>3. PICK t \in Slots : reg[t].valid /\ reg[t].path = q
        BY <4>2 DEF Registered
      <4>4. t # s
        BY <4>3, <2>6
      <4> QED BY <4>3, <4>4, <2>7 DEF Registered
    <3> QED BY <3>1, <3>2, <3>3, <2>1, <2>4, <2>5, <2>7 DEF RInv, Listed
  <2> QED BY <2>9, <2>10 DEF RInv
<1> QED BY <1>3, <1>4 DEF RegisterSlot

LEMMA RegisterWriteReg ==
    ASSUME TInv, RInv, NEW p \in Procs, RegisterWrite(p)
    PROVE  RInv'
<1> DEFINE s == op[p].slot
<1>1. pc[p] = "write" /\ Do(p, "loop", NoOp) /\ flock' = None
      /\ reg' = [reg EXCEPT ![s] = [valid |-> TRUE, path |-> p]]
  BY DEF RegisterWrite
<1>2. s \in Slots
  BY <1>1, CallOf DEF TInv, Desk
<1>3. reg[s] = [valid |-> FALSE, path |-> Torn]
  BY <1>1 DEF RInv, Listed
<1>4. Moves(p, "loop", NoOp)
  BY <1>1, NoOpType DEF Do, Goto, Moves, Labels, Talking, Desk, Asks, NoOp
<1>5. /\ pc'[p] = "loop" /\ op'[p] = NoOp
      /\ \A q \in Procs \ {p} : pc'[q] = pc[q] /\ op'[q] = op[q]
  BY <1>4, MoveKeeps DEF TInv
<1>6. reg'[s].valid /\ reg'[s].path = p
      /\ \A t \in Slots \ {s} : reg'[t] = reg[t]
  BY <1>1, <1>2 DEF TInv, Registry
<1>7. reg[s].path \notin Procs /\ ~reg[s].valid
  BY <1>3, Owners
<1>8. PathsKept
  BY <1>1, <1>5, <1>6, <1>7 DEF PathsKept
<1>9. \A q \in Procs : Knows(q)'
  <2>1. Len(NoOp.found) = 0 /\ NoOp.scan = "none" /\ NoOp.dead = {}
    BY NoOpFields, EmptySeq
  <2>2. Knows(p)'
    BY <2>1, <1>5 DEF Knows
  <2> QED BY <2>2, <1>5, <1>8, KnowsKept DEF RInv
<1>10. \A t \in Slots \ {s} : reg'[t].path # p
  BY <1>1, <1>6 DEF RInv, Listed
<1>11. ASSUME NEW t \in Slots, reg'[t].path \in Procs
       PROVE  pc'[reg'[t].path] \notin {"new", "write"}
  <2>1. CASE t = s
    BY <2>1, <1>5, <1>6
  <2>2. CASE t # s
    BY <2>2, <1>5, <1>6, <1>10, <1>11 DEF RInv, Listed
  <2> QED BY <2>1, <2>2
<1>12. ASSUME NEW t \in Slots, NEW u \in Slots, reg'[t].path \in Procs,
              reg'[t].path = reg'[u].path
       PROVE  t = u
  <2>1. CASE t = s \/ u = s
    BY <2>1, <1>6, <1>10, <1>12
  <2>2. CASE t # s /\ u # s
    BY <2>2, <1>6, <1>12 DEF RInv, Listed
  <2> QED BY <2>1, <2>2
<1>13. \A q \in Procs : pc'[q] # "write"
  <2> TAKE q \in Procs
  <2>1. q # p => pc[q] # "write"
    BY <1>1 DEF RInv, Listed
  <2> QED BY <2>1, <1>5
<1>14. ASSUME NEW q \in Procs, Up(q)', op'[q].kind # "close", Fits
       PROVE  Registered(q)'
  <2>1. CASE q = p
    BY <2>1, <1>2, <1>6 DEF Registered
  <2>2. CASE q # p
    <3>1. Registered(q)
      BY <2>2, <1>5, <1>14 DEF Up, RInv, Listed
    <3> QED BY <3>1, <1>6, <1>7 DEF Registered
  <2> QED BY <2>1, <2>2
<1>15. Listed'
  BY <1>11, <1>12, <1>13, <1>14 DEF Listed
<1> QED BY <1>9, <1>15 DEF RInv

\* What the scan has found so far, at its place in the table.
LEMMA FoundOf ==
    ASSUME TInv, RInv, NEW p \in Procs
    PROVE  /\ op[p] \in OpType /\ op[p].found \in Seq(Slots \X Procs)
           /\ op[p].dead \subseteq Slots /\ Len(op[p].found) \in Nat
           /\ \A i \in 1 .. Len(op[p].found) :
                /\ op[p].found[i][1] \in Slots /\ op[p].found[i][2] \in Procs
                /\ reg[op[p].found[i][1]].path = op[p].found[i][2]
                /\ op[p].scan = "one" => op[p].found[i][2] = op[p].want
           /\ \A s \in op[p].dead : Dead(p, reg[s].path)
           /\ pc[p] = "scan" /\ op[p].scan = "path" => pc[op[p].want] = "gone"
<1>1. op[p] \in OpType
  BY CallOf DEF TInv
<1>2. op[p].found \in Seq(Slots \X Procs) /\ op[p].dead \subseteq Slots
  BY <1>1, OpFields
<1>3. Len(op[p].found) \in Nat
  BY <1>2, LenProperties
<1>4. ASSUME NEW i \in 1 .. Len(op[p].found)
      PROVE  op[p].found[i][1] \in Slots /\ op[p].found[i][2] \in Procs
  <2>1. op[p].found[i] \in Slots \X Procs
    BY <1>2, ElementOfSeq
  <2> QED BY <2>1
<1> QED BY <1>1, <1>2, <1>3, <1>4 DEF RInv, Knows

LEMMA ScanReg ==
    ASSUME TInv, RInv, NEW p \in Procs, Scan(p)
    PROVE  RInv'
<1>1. PICK s \in Slots : s = op[p].slot
  BY ScanMoves
<1>2. PICK l, o : ScanCase(p, s, l, o) /\ Moves(p, l, o)
  BY <1>1, ScanMoves
<1>3. pc[p] = "scan" /\ UNCHANGED <<reg, flock>>
  BY DEF Scan, shm
<1>4. /\ pc'[p] = l /\ op'[p] = o
      /\ \A q \in Procs \ {p} : pc'[q] = pc[q] /\ op'[q] = op[q]
  BY <1>2, MoveKeeps DEF TInv
<1>5. /\ op[p] \in OpType /\ op[p].found \in Seq(Slots \X Procs)
      /\ Asks(p, pc[p], op[p])
  BY FoundOf, CallOf DEF TInv
<1>6. \A t \in Procs : Dead(p, t) =>
            (pc'[t] = "gone" \/ (t = p /\ op[p].kind = "close"))
  BY <1>3, <1>4 DEF Dead
<1>7. reg[s].valid => reg[s].path \in Procs
  BY <1>1 DEF TInv, Registry
<1>8. /\ Knows(p)' /\ l \in {"scan", "deliver", "mark"} /\ o.kind = op[p].kind
  <2>1. CASE ~Hit(p, s) /\ l = "scan" /\ o = [op[p] EXCEPT !.slot = s + 1]
    <3>1. /\ o.kind = op[p].kind /\ o.found = op[p].found
          /\ o.dead = op[p].dead /\ o.scan = op[p].scan /\ o.want = op[p].want
      BY <2>1, <1>5 DEF OpType
    <3>2. ASSUME NEW t \in o.dead PROVE Dead(p, reg[t].path)'
      <4>1. Dead(p, reg[t].path)
        BY <3>1, <3>2, FoundOf
      <4> QED BY <4>1, <3>1, <1>3, <1>4, <1>6 DEF Dead
    <3>3. o.scan = "path" => pc'[o.want] = "gone"
      <4>1. o.scan = "path" => o.want \in Procs /\ pc[o.want] = "gone"
        BY <3>1, <1>3, <1>5, FoundOf DEF Asks, Talking
      <4> QED BY <4>1, <1>3, <1>4
    <3> QED BY <2>1, <3>1, <3>2, <3>3, <1>3, <1>4, FoundOf DEF Knows
  <2>2. CASE /\ Hit(p, s) /\ op[p].scan = "all" /\ l = "scan"
             /\ o = [op[p] EXCEPT !.slot = s + 1,
                         !.found = Append(@, <<s, reg[s].path>>)]
    <3>1. /\ o.kind = op[p].kind
          /\ o.found = Append(op[p].found, <<s, reg[s].path>>)
          /\ o.dead = op[p].dead /\ o.scan = "all"
      BY <2>2, <1>5 DEF OpType
    <3>2. ASSUME NEW t \in o.dead PROVE Dead(p, reg[t].path)'
      <4>1. Dead(p, reg[t].path)
        BY <3>1, <3>2, FoundOf
      <4> QED BY <4>1, <3>1, <1>3, <1>4, <1>6 DEF Dead
    <3>3. reg[s].path \in Procs
      BY <2>2, <1>7 DEF Hit
    <3>4. /\ Len(o.found) = Len(op[p].found) + 1
          /\ o.found[Len(op[p].found) + 1] = <<s, reg[s].path>>
          /\ \A i \in 1 .. Len(op[p].found) : o.found[i] = op[p].found[i]
      <4>1. <<s, reg[s].path>> \in Slots \X Procs
        BY <3>3, <1>1
      <4> QED BY <4>1, <3>1, <1>5, AppendProperties
    <3>5. ASSUME NEW i \in 1 .. Len(o.found)
          PROVE  reg'[o.found[i][1]].path = o.found[i][2]
      <4>1. CASE i \in 1 .. Len(op[p].found)
        BY <4>1, <3>4, <1>3, FoundOf
      <4>2. CASE i = Len(op[p].found) + 1
        BY <4>2, <3>4, <1>3
      <4> QED BY <4>1, <4>2, <3>4, FoundOf
    <3> QED BY <2>2, <3>1, <3>2, <3>5, <1>4 DEF Knows
  <2>3. CASE /\ Hit(p, s) /\ op[p].scan = "one" /\ l = "deliver"
             /\ o = [op[p] EXCEPT !.found = <<<<s, reg[s].path>>>>]
    <3>1. /\ o.kind = op[p].kind /\ o.found = <<<<s, reg[s].path>>>>
          /\ o.dead = op[p].dead /\ o.want = op[p].want
      BY <2>3, <1>5 DEF OpType
    <3>2. ASSUME NEW t \in o.dead PROVE Dead(p, reg[t].path)'
      <4>1. Dead(p, reg[t].path)
        BY <3>1, <3>2, FoundOf
      <4> QED BY <4>1, <3>1, <1>3, <1>4, <1>6 DEF Dead
    <3>3. reg[s].path = op[p].want
      BY <2>3 DEF Hit
    <3>4. ASSUME NEW i \in 1 .. Len(o.found)
          PROVE  /\ reg'[o.found[i][1]].path = o.found[i][2]
                 /\ o.found[i][2] = o.want
      <4>1. i = 1
        BY <3>1
      <4> QED BY <4>1, <3>1, <3>3, <1>3
    <3> QED BY <2>3, <3>1, <3>2, <3>4, <1>4 DEF Knows
  <2>4. CASE /\ Hit(p, s) /\ op[p].scan \in {"path", "self"} /\ l = "mark"
             /\ o = [op[p] EXCEPT !.dead = {s}]
    <3>1. /\ o.kind = op[p].kind /\ o.found = op[p].found /\ o.dead = {s}
          /\ o.scan = op[p].scan
      BY <2>4, <1>5 DEF OpType
    <3>2. reg[s].path = op[p].want /\ reg[s].path \in Procs
      BY <2>4, <1>7 DEF Hit
    <3>3. Dead(p, reg[s].path)'
      <4>1. CASE op[p].scan = "path"
        <5>1. pc[reg[s].path] = "gone"
          BY <4>1, <3>2, <1>3, FoundOf
        <5> QED BY <5>1, <3>2, <1>3, <1>4 DEF Dead
      <4>2. CASE op[p].scan = "self"
        <5>1. reg[s].path = p /\ op[p].kind = "close"
          BY <4>2, <3>2, <1>3, <1>5 DEF Asks, Talking
        <5> QED BY <5>1, <3>1, <1>3, <1>4 DEF Dead
      <4> QED BY <2>4, <4>1, <4>2
    <3>4. \A i \in 1 .. Len(o.found) : reg'[o.found[i][1]].path = o.found[i][2]
      BY <3>1, <1>3, FoundOf
    <3> QED BY <2>4, <3>1, <3>3, <3>4, <1>4 DEF Knows
  <2> QED BY <1>2, <2>1, <2>2, <2>3, <2>4 DEF ScanCase
<1>9. Up(p)
  BY <1>3 DEF Up
<1> QED BY <1>2, <1>3, <1>8, <1>9, CalmReg

\* A step that keeps the locals.
LEMMA SameLocals ==
    ASSUME TInv, RInv, NEW p \in Procs, NEW l, Moves(p, l, op[p]), Up(p),
           l \in {"deliver", "mark", "group", "close", "end"},
           UNCHANGED <<reg, flock>>
    PROVE  RInv'
<1>1. /\ pc'[p] = l /\ op'[p] = op[p]
      /\ \A q \in Procs \ {p} : pc'[q] = pc[q] /\ op'[q] = op[q]
  BY MoveKeeps DEF TInv
<1>2. pc[p] # "gone"
  BY DEF Up
<1>3. ASSUME NEW t \in op[p].dead PROVE Dead(p, reg[t].path)'
  <2>1. Dead(p, reg[t].path)
    BY <1>3, FoundOf
  <2> QED BY <2>1, <1>1, <1>2 DEF Dead
<1>4. Knows(p)'
  BY <1>1, <1>3, FoundOf DEF Knows
<1> QED BY <1>4, CalmReg
LEMMA ScanEndReg ==
    ASSUME TInv, RInv, NEW p \in Procs, ScanEnd(p)
    PROVE  RInv'
<1>1. PICK l \in {"deliver", Onward(op[p])} : Moves(p, l, op[p])
  BY ScanEndTypes
<1>2. Onward(op[p]) \in {"group", "close", "end"}
  BY OnwardMoves DEF TInv, ScanEnd
<1> QED BY <1>1, <1>2, SameLocals DEF ScanEnd, Up, shm
LEMMA WakeEndReg ==
    ASSUME TInv, RInv, NEW p \in Procs, WakeEnd(p)
    PROVE  RInv'
<1>1. PICK l \in {"mark", Onward(op[p])} : Moves(p, l, op[p])
  BY WakeEndTypes
<1>2. Onward(op[p]) \in {"group", "close", "end"}
  BY OnwardMoves DEF TInv, WakeEnd
<1> QED BY <1>1, <1>2, SameLocals DEF WakeEnd, Up, shm

LEMMA WakeReg ==
    ASSUME TInv, RInv, NEW p \in Procs, Wake(p)
    PROVE  RInv'
<1>1. PICK s \in Slots, t \in Procs :
              /\ op[p].found # << >> /\ Head(op[p].found) = <<s, t>>
              /\ \E l, o : WakeCase(p, t, s, l, o) /\ Moves(p, l, o)
  BY WakeMoves
<1>2. PICK l, o : WakeCase(p, t, s, l, o) /\ Moves(p, l, o)
  BY <1>1
<1>3. pc[p] = "deliver" /\ UNCHANGED <<reg, flock>>
  BY DEF Wake, shm
<1>4. /\ pc'[p] = l /\ op'[p] = o
      /\ \A q \in Procs \ {p} : pc'[q] = pc[q] /\ op'[q] = op[q]
  BY <1>2, MoveKeeps DEF TInv
<1>5. op[p] \in OpType /\ op[p].found \in Seq(Slots \X Procs)
  BY FoundOf
<1>6. /\ Len(Tail(op[p].found)) = Len(op[p].found) - 1
      /\ \A i \in 1 .. Len(Tail(op[p].found)) :
            Tail(op[p].found)[i] = op[p].found[i + 1]
      /\ Head(op[p].found) = op[p].found[1] /\ Len(op[p].found) >= 1
  BY <1>1, <1>5, HeadTailProperties, EmptySeq, LenProperties
<1>7. reg[s].path = t
  BY <1>1, <1>6, FoundOf
<1>8. ASSUME NEW i \in 1 .. Len(Tail(op[p].found))
      PROVE  /\ i + 1 \in 1 .. Len(op[p].found)
             /\ Tail(op[p].found)[i] = op[p].found[i + 1]
             /\ reg'[Tail(op[p].found)[i][1]].path = Tail(op[p].found)[i][2]
             /\ op[p].scan = "one" =>
                    Tail(op[p].found)[i][2] = op[p].want
  <2>1. i + 1 \in 1 .. Len(op[p].found)
    BY <1>6, <1>8, FoundOf
  <2> QED BY <2>1, <1>3, <1>6, FoundOf
<1>9. ASSUME NEW u \in op[p].dead, o.kind = op[p].kind
      PROVE  Dead(p, reg[u].path)'
  <2>1. Dead(p, reg[u].path)
    BY <1>9, FoundOf
  <2> QED BY <2>1, <1>3, <1>4, <1>9 DEF Dead
<1>10. ASSUME t # p, ~Bound(t) PROVE pc[t] = "gone" /\ pc'[t] = "gone"
  <2>1. pc[t] # "new"
    BY <1>7 DEF RInv, Listed
  <2> QED BY <2>1, <1>4, <1>10 DEF Bound
<1>11. Knows(p)' /\ l \in {"deliver", "scan"} /\ o.kind = op[p].kind
  <2>1. CASE l = "deliver" /\ o = [op[p] EXCEPT !.found = Tail(@)]
    <3>1. /\ o.kind = op[p].kind /\ o.found = Tail(op[p].found)
          /\ o.dead = op[p].dead /\ o.scan = op[p].scan /\ o.want = op[p].want
      BY <2>1, <1>5 DEF OpType
    <3> QED BY <2>1, <3>1, <1>4, <1>8, <1>9 DEF Knows
  <2>2. CASE /\ t # p /\ ~Bound(t) /\ op[p].scan = "all" /\ l = "deliver"
             /\ o = [op[p] EXCEPT !.found = Tail(@), !.dead = @ \cup {s}]
    <3>1. /\ o.kind = op[p].kind /\ o.found = Tail(op[p].found)
          /\ o.dead = op[p].dead \cup {s} /\ o.scan = "all"
      BY <2>2, <1>5 DEF OpType
    <3>2. Dead(p, reg[s].path)'
      BY <2>2, <1>3, <1>7, <1>10 DEF Dead
    <3>3. \A u \in o.dead : Dead(p, reg[u].path)'
      BY <3>1, <3>2, <1>9
    <3> QED BY <2>2, <3>1, <3>3, <1>4, <1>8 DEF Knows
  <2>3. CASE /\ t # p /\ ~Bound(t) /\ l = "scan" /\ o = Look(op[p], "path", t)
    <3>1. Looked(op[p], o, "path", t)
      BY <2>3, <1>5, LookType
    <3>2. /\ o.kind = op[p].kind /\ o.found = << >> /\ o.dead = {}
          /\ o.scan = "path" /\ o.want = t /\ Len(o.found) = 0
      BY <3>1, EmptySeq DEF Looked
    <3> QED BY <2>3, <3>2, <1>4, <1>10 DEF Knows
  <2> QED BY <1>2, <2>1, <2>2, <2>3 DEF WakeCase
<1>12. Up(p)
  BY <1>3 DEF Up
<1> QED BY <1>2, <1>3, <1>11, <1>12, CalmReg

\* What is marked dead is nobody's who is up and not closing.
LEMMA MarkSpares ==
    ASSUME TInv, RInv, NEW p \in Procs, Mark(p)
    PROVE  /\ \A s \in Slots : reg'[s].path = reg[s].path
           /\ \A s \in Slots : reg[s].path \notin Procs => reg'[s] = reg[s]
           /\ \A s \in Slots, q \in Procs :
                reg[s].valid /\ reg[s].path = q /\ pc[q] # "gone"
                    /\ op[q].kind # "close" => reg'[s].valid
<1>1. ASSUME NEW s \in Slots
      PROVE  /\ reg'[s].path = reg[s].path
             /\ s \notin op[p].dead => reg'[s] = reg[s]
  BY DEF TInv, Registry, SlotType, Mark
<1>2. ASSUME NEW s \in Slots, NEW q \in Procs, reg[s].path = q,
             pc[q] # "gone", op[q].kind # "close"
      PROVE  s \notin op[p].dead
  BY <1>2, FoundOf DEF Dead
<1>3. ASSUME NEW s \in Slots, reg[s].path \notin Procs
      PROVE  s \notin op[p].dead
  BY <1>3, FoundOf DEF Dead
<1> QED BY <1>1, <1>2, <1>3

LEMMA MarkReg ==
    ASSUME TInv, RInv, NEW p \in Procs, Mark(p)
    PROVE  RInv'
<1> DEFINE l == Onward(op[p])
<1>1. Moves(p, l, op[p]) /\ l \in {"group", "close", "end"}
  BY MarkTypes, OnwardMoves DEF TInv, Mark
<1>2. /\ pc'[p] \in {"group", "close", "end"} /\ op'[p] = op[p]
      /\ \A q \in Procs \ {p} : pc'[q] = pc[q] /\ op'[q] = op[q]
  <2> HIDE DEF l
  <2> QED BY <1>1, MoveKeeps DEF TInv
<1> HIDE DEF l
<1>3. \A s \in Slots : reg'[s].path = reg[s].path
  BY MarkSpares
<1>4. pc[p] = "mark" /\ flock' = flock
  BY DEF Mark
<1>5. PathsKept
  BY <1>2, <1>3, <1>4 DEF PathsKept
<1>6. Knows(p)'
  <2>1. ASSUME NEW u \in op[p].dead PROVE Dead(p, reg[u].path)'
    <3>1. Dead(p, reg[u].path) /\ u \in Slots
      BY <2>1, FoundOf
    <3> QED BY <3>1, <1>2, <1>3, <1>4 DEF Dead
  <2>2. \A i \in 1 .. Len(op[p].found) :
            /\ reg'[op[p].found[i][1]].path = op[p].found[i][2]
            /\ op[p].scan = "one" => op[p].found[i][2] = op[p].want
    BY <1>3, FoundOf
  <2> QED BY <2>1, <2>2, <1>2 DEF Knows
<1>7. \A q \in Procs : Knows(q)'
  BY <1>2, <1>5, <1>6, KnowsKept DEF RInv
<1>8. ASSUME NEW q \in Procs, pc'[q] = "write"
      PROVE  /\ q # p /\ pc[q] = "write" /\ op'[q] = op[q] /\ flock = q
             /\ reg'[op'[q].slot] = [valid |-> FALSE, path |-> Torn]
  <2>1. q # p /\ pc[q] = "write" /\ op'[q] = op[q]
    BY <1>2, <1>8
  <2>2. op[q].slot \in Slots
    BY <2>1, CallOf DEF TInv, Desk
  <2>3. reg[op[q].slot] = [valid |-> FALSE, path |-> Torn] /\ flock = q
    BY <2>1 DEF RInv, Listed
  <2>4. reg'[op[q].slot] = reg[op[q].slot]
    BY <2>2, <2>3, Owners, MarkSpares
  <2> QED BY <2>1, <2>3, <2>4
<1>9. ASSUME NEW q \in Procs, Up(q)', op'[q].kind # "close", Fits
      PROVE  Registered(q)'
  <2>1. Up(q) /\ op[q].kind # "close" /\ pc[q] # "gone"
    BY <1>2, <1>4, <1>9 DEF Up
  <2>2. PICK s \in Slots : reg[s].valid /\ reg[s].path = q
    BY <2>1, <1>9 DEF RInv, Listed, Registered
  <2>3. reg'[s].valid /\ reg'[s].path = q
    BY <2>1, <2>2, MarkSpares
  <2> QED BY <2>3 DEF Registered
<1>10. ASSUME NEW s \in Slots, reg'[s].path \in Procs
       PROVE  pc'[reg'[s].path] \notin {"new", "write"}
  BY <1>2, <1>3, <1>10 DEF RInv, Listed
<1>11. Listed'
  BY <1>3, <1>4, <1>8, <1>9, <1>10 DEF RInv, Listed
<1> QED BY <1>7, <1>11 DEF RInv

LEMMA CloseStartReg ==
    ASSUME TInv, RInv, NEW p \in Procs, CloseStart(p)
    PROVE  RInv'
<1>1. Moves(p, "scan", CloseOp(p)) /\ AtLoop(p) /\ UNCHANGED <<reg, flock>>
  BY CloseStartTypes DEF CloseStart, shm
<1>2. pc'[p] = "scan" /\ op'[p] = CloseOp(p)
  BY <1>1, MoveKeeps DEF TInv
<1>3. Knows(p)'
  BY <1>2, CloseOpIs, EmptySeq DEF Knows
<1>4. Up(p) /\ op[p].kind # "close"
  BY <1>1, LoopIs DEF TInv
<1> QED BY <1>1, <1>3, <1>4, CalmReg

LEMMA LeaveReg ==
    ASSUME TInv, RInv, NEW p \in Procs, pc[p] # "new", Leave(p),
           Moves(p, "gone", NoOp), UNCHANGED reg
    PROVE  RInv'
<1>1. /\ pc'[p] = "gone" /\ op'[p] = NoOp
      /\ \A q \in Procs \ {p} : pc'[q] = pc[q] /\ op'[q] = op[q]
  BY MoveKeeps DEF TInv
<1>2. PathsKept
  BY <1>1 DEF PathsKept
<1>3. Knows(p)'
  BY <1>1, NoOpFields, EmptySeq DEF Knows
<1>4. \A q \in Procs : Knows(q)'
  BY <1>1, <1>2, <1>3, KnowsKept DEF RInv
<1>5. ASSUME NEW q \in Procs, pc'[q] = "write"
      PROVE  /\ q # p /\ pc[q] = "write" /\ op'[q] = op[q] /\ flock' = q
             /\ reg'[op'[q].slot] = [valid |-> FALSE, path |-> Torn]
  <2>1. q # p /\ pc[q] = "write" /\ op'[q] = op[q]
    BY <1>1, <1>5
  <2>2. flock = q /\ reg[op[q].slot] = [valid |-> FALSE, path |-> Torn]
    BY <2>1 DEF RInv, Listed
  <2> QED BY <2>1, <2>2 DEF Leave
<1>6. ASSUME NEW q \in Procs, Up(q)', op'[q].kind # "close", Fits
      PROVE  Registered(q)'
  <2>1. Up(q) /\ op[q].kind # "close"
    BY <1>1, <1>6 DEF Up
  <2>2. Registered(q)
    BY <2>1, <1>6 DEF RInv, Listed
  <2> QED BY <2>2 DEF Registered
<1>7. ASSUME NEW s \in Slots, reg'[s].path \in Procs
      PROVE  pc'[reg'[s].path] \notin {"new", "write"}
  BY <1>1, <1>7 DEF RInv, Listed
<1>8. Listed'
  BY <1>5, <1>6, <1>7 DEF RInv, Listed
<1> QED BY <1>4, <1>8 DEF RInv

LEMMA RegStep ==
    ASSUME ~ReuseSlots, IsFiniteSet(Procs)
    PROVE  TInv /\ RInv /\ [Next]_vars => RInv'
<1> SUFFICES ASSUME TInv, RInv, [Next]_vars PROVE RInv'
  OBVIOUS
<1>1. CASE UNCHANGED vars
  <2>1. UNCHANGED <<reg, flock, pc, op>>
    BY <1>1 DEF vars, shm
  <2>2. PathsKept
    BY <2>1 DEF PathsKept
  <2>3. \A q \in Procs : Knows(q)'
    BY <2>1, <2>2, KnowsKept DEF RInv
  <2>4. Listed'
    BY <2>1 DEF RInv, Listed, Registered, Up
  <2> QED BY <2>3, <2>4 DEF RInv
<1>2. CASE Next
  <2>1. PICK p \in Procs :
        \/ RegisterSlot(p) \/ Run(p) \/ Call(p) \/ Crash(p)
        \/ Resume(p) \/ Get(p) \/ OnWakeup(p) \/ Watchdog(p)
    BY <1>2 DEF Next
  <2>2. CASE Run(p)
    <3>1. CASE CloseEnd(p)
      BY <3>1, CloseEndTypes, LeaveReg DEF CloseEnd
    <3> QED BY <2>2, <3>1, RegisterWriteReg, ScanReg, ScanEndReg, WakeReg,
               WakeEndReg, MarkReg, TryTypes, EndTypes, GroupEndTypes,
               DrainEndTypes, GroupMemberTypes, DrainTypes, PlainReg DEF Run
  <2>3. CASE Call(p)
    BY <2>3, SendStartTypes, ReceiveTypes, GroupStartTypes, FlushTypes,
       CloseStartReg, PlainReg DEF Call
  <2>4. CASE Crash(p)
    BY <2>4, CrashTypes, LeaveReg DEF Crash
  <2> QED BY <2>1, <2>2, <2>3, <2>4, RegisterSlotReg, ResumeTypes,
       GetTypes, OnWakeupTypes, WatchdogTypes, PlainReg
<1> QED BY <1>1, <1>2

\* A process that is up stays in the registry, so the others find it: among
\* any number of processes, not more than the table has slots, a wakeup that
\* finds nobody at a socket never marks a live one dead (layer.py
\* _mark_dead_by_path, lib.rs registry_mark_dead), as long as no slot that
\* was given up is taken again.
THEOREM LiveStayRegistered ==
    ~ReuseSlots /\ IsFiniteSet(Procs) => (Spec => []LiveRegistered)
<1> SUFFICES ASSUME ~ReuseSlots, IsFiniteSet(Procs)
             PROVE  Spec => []LiveRegistered
  OBVIOUS
<1>1. TInv /\ RInv => LiveRegistered
  BY DEF RInv, Listed, LiveRegistered, Fits, Registered
<1>2. Init => TInv /\ RInv
  BY TypesInit, RegInit
<1>3. TInv /\ RInv /\ [Next]_vars => (TInv /\ RInv)'
  BY TypesStep, RegStep
<1> QED BY <1>1, <1>2, <1>3, PTL DEF Spec

-----------------------------------------------------------------------------
(* Wakeups.                                                                 *)

\* group_send sends to one channel of a process at most.
OneEachOwner == \A c, d \in Members :
    Owner[c] \in Procs /\ Owner[c] = Owner[d] => c = d

\* The slot of p stays.
SlotsStay(p) == \A s \in Slots :
    reg[s].valid /\ reg[s].path = p => reg'[s].valid /\ reg'[s].path = p
Others(r) == \A q \in Procs \ {r} : pc'[q] = pc[q] /\ op'[q] = op[q]

LEMMA OwingKept ==
    ASSUME NEW q, NEW p, NEW key, Owing(q, p, key),
           pc'[q] = pc[q], op'[q] = op[q], SlotsStay(p)
    PROVE  Owing(q, p, key)'
<1>1. Ahead(q, p) => Ahead(q, p)'
  BY DEF Ahead, SlotsStay
<1>2. Found(q, p) => Found(q, p)'
  BY DEF Found
<1>3. Comes(q, p) => Comes(q, p)'
  BY <1>1, <1>2 DEF Comes
<1> QED BY <1>3 DEF Owing

\* What a step of r may not take from p, who watches a channel of key.
StillTold(r, p, key) ==
    /\ evfd[p] => evfd'[p]
    /\ sock[p] > 0 => sock'[p] > 0
    /\ SlotsStay(p)
    /\ Owing(r, p, key) => Awake(p, key)'
    /\ ring'[key] # << >> => ring[key] # << >> \/ Awake(p, key)'
    /\ Fetches(p, key) /\ ring'[key] # << >> => Fetches(p, key)'

LEMMA CallKept ==
    ASSUME NEW r \in Procs, NEW p \in Procs, NEW c, Called(p, c), Others(r),
           missed \subseteq missed', StillTold(r, p, Owner[c])
    PROVE  Called(p, c)'
<1> DEFINE key == Owner[c]
<1> SUFFICES ASSUME ring'[key] # << >>, ~Fetches(p, key)'
             PROVE  Awake(p, key)'
  BY DEF Called
<1>1. CASE ring[key] # << >>
  <2>1. Awake(p, key)
    BY <1>1 DEF Called, StillTold
  <2>2. CASE evfd[p] \/ sock[p] > 0 \/ key \in missed
    BY <2>2 DEF StillTold, Awake
  <2>3. ASSUME NEW q \in Procs, Owing(q, p, key) PROVE Awake(p, key)'
    <3>1. CASE q = r
      BY <3>1, <2>3 DEF StillTold
    <3>2. CASE q # r
      <4>1. Owing(q, p, key)'
        BY <3>2, <2>3, OwingKept DEF Others, StillTold
      <4> QED BY <4>1 DEF Awake
    <3> QED BY <3>1, <3>2
  <2> QED BY <2>1, <2>2, <2>3 DEF Awake
<1>2. CASE ring[key] = << >>
  BY <1>2 DEF StillTold
<1> QED BY <1>1, <1>2

LEMMA WakeStep ==
    ASSUME WInv, NEW r \in Procs, Others(r), missed \subseteq missed',
           \A p \in Procs \ {r} : watched'[p] = watched[p],
           Watches(r)', Served(r)',
           \A p \in Procs : \A c \in watched'[p] :
                \/ Called(p, c)'
                \/ c \in watched[p] /\ StillTold(r, p, Owner[c])
    PROVE  WInv'
<1>1. ASSUME NEW p \in Procs PROVE Watches(p)' /\ Served(p)'
  <2>1. CASE p # r
    BY <2>1 DEF WInv, Watches, Served, Others, Up
  <2> QED BY <2>1
<1>2. ASSUME NEW p \in Procs, NEW c \in watched'[p] PROVE Called(p, c)'
  <2>1. CASE c \in watched[p] /\ StillTold(r, p, Owner[c])
    <3>1. Called(p, c)
      BY <2>1 DEF WInv, Told
    <3> QED BY <3>1, <2>1, CallKept
  <2> QED BY <2>1
<1> QED BY <1>1, <1>2 DEF WInv, Told

\* Who watches is up, and found in the registry.
LEMMA WatcherIs ==
    ASSUME TInv, RInv, WInv, Fits, NEW p \in Procs, NEW c \in watched[p]
    PROVE  /\ c \in Channels /\ Owner[c] \in Keys /\ Up(p)
           /\ op[p].kind # "close" /\ Reads(p) /\ Owner[c] \in {p, Everyone}
           /\ \E s \in Slots : reg[s].valid /\ reg[s].path = p
<1>1. c \in Channels
  BY DEF TInv, Pumps
<1>2. Up(p) /\ op[p].kind # "close" /\ Reads(p) /\ Owner[c] \in {p, Everyone}
  BY DEF WInv, Watches, Reads
<1>3. Registered(p)
  BY <1>2 DEF RInv, Listed
<1> QED BY <1>1, <1>2, <1>3, Owners DEF Registered

LEMMA SignalTells ==
    ASSUME TInv, NEW r \in Procs, NEW p \in Procs, Reads(p),
           Signal(r) \/ UNCHANGED evfd
    PROVE  /\ evfd[p] => evfd'[p]
           /\ Signal(r) /\ p = r => evfd'[p]
<1>1. evfd \in [Procs -> BOOLEAN]
  BY DEF TInv, Descriptors
<1>2. CASE Signal(r) /\ p = r
  <2>1. evfd'[r] = Reads(r)
    BY <1>1, <1>2 DEF Signal
  <2> QED BY <2>1, <1>2
<1>3. CASE ~(Signal(r) /\ p = r)
  <2>1. evfd'[p] = evfd[p]
    BY <1>1, <1>3 DEF Signal
  <2> QED BY <2>1, <1>3
<1> QED BY <1>2, <1>3

\* A step that changes nothing but the call, when the call has told whom it
\* had to tell and emptied what it had to empty.
LEMMA LocalStep ==
    ASSUME TInv, WInv, NEW r \in Procs, NEW l, NEW o, Moves(r, l, o),
           UNCHANGED <<reg, ring, watched, missed>>, UNCHANGED fds,
           l \notin {"new", "write", "gone"} \/ watched[r] = {},
           o.kind # "close" \/ watched[r] = {},
           \A p \in Procs : \A c \in watched[p] :
                ~Owing(r, p, Owner[c]) \/ Owing(r, p, Owner[c])',
           \A c \in watched[r] :
                ~Fetches(r, Owner[c]) \/ ring[Owner[c]] = << >>
                    \/ Fetches(r, Owner[c])',
           Served(r)'
    PROVE  WInv'
<1>1. pc'[r] = l /\ op'[r] = o /\ Others(r)
  BY MoveKeeps DEF TInv, Others
<1>2. Watches(r)'
  BY <1>1 DEF WInv, Watches, Up
<1>3. ASSUME NEW p \in Procs, NEW c \in watched'[p]
      PROVE  c \in watched[p] /\ StillTold(r, p, Owner[c])
  <2>1. c \in watched[p]
    BY <1>3
  <2>2. Owing(r, p, Owner[c]) => Awake(p, Owner[c])'
    BY <2>1 DEF Awake
  <2>3. Fetches(p, Owner[c]) /\ ring'[Owner[c]] # << >> =>
            Fetches(p, Owner[c])'
    BY <2>1, <1>1 DEF Fetches, Others
  <2> QED BY <2>1, <2>2, <2>3 DEF StillTold, SlotsStay, fds
<1>4. missed \subseteq missed'
      /\ \A p \in Procs \ {r} : watched'[p] = watched[p]
  OBVIOUS
<1> QED BY <1>1, <1>2, <1>3, <1>4, WakeStep

LEMMA WakeInit == Init => WInv
<1> SUFFICES ASSUME Init PROVE WInv
  OBVIOUS
<1>1. \A p \in Procs : watched[p] = {} /\ op[p].kind = "none"
  BY NoOpFields DEF Init
<1> QED BY <1>1 DEF WInv, Watches, Served, Told

\* A call that owes nobody anything.
LEMMA OwesNobody ==
    ASSUME NEW q \in Procs, op[q].kind \notin {"send", "group"}, NEW p, NEW key
    PROVE  ~Owing(q, p, key)
BY DEF Owing

LEMMA BeginStep ==
    ASSUME TInv, WInv, NEW r \in Procs, AtLoop(r),
           NEW l, NEW o, Moves(r, l, o),
           UNCHANGED <<reg, ring, watched, missed>>, UNCHANGED fds,
           l \notin {"new", "write", "gone"}, o.kind # "close",
           o.kind = "group" => o.woken = {}
    PROVE  WInv'
<1>1. pc'[r] = l /\ op'[r] = o
  BY MoveKeeps DEF TInv
<1>2. op[r].kind = "none" /\ pc[r] = "loop"
  BY LoopIs, NoOpFields DEF TInv, AtLoop
<1>3. Served(r)'
  BY <1>1 DEF Served
<1>4. \A p \in Procs : \A c \in watched[p] : ~Owing(r, p, Owner[c])
  BY <1>2, OwesNobody
<1>5. \A c \in watched[r] : ~Fetches(r, Owner[c])
  BY <1>2 DEF Fetches
<1> QED BY <1>3, <1>4, <1>5, LocalStep

LEMMA SendStartWake ==
    ASSUME TInv, WInv, NEW r \in Procs, NEW c \in Channels, SendStart(r, c)
    PROVE  WInv'
<1>1. Moves(r, "enqueue", SendOp(c))
  BY SendStartTypes DEF Plain
<1> QED BY <1>1, SendOpIs, BeginStep DEF SendStart, shm, pump
LEMMA ResumeWake ==
    ASSUME TInv, WInv, NEW r \in Procs, Resume(r)
    PROVE  WInv'
<1>1. Moves(r, "enqueue", task[r]) /\ task[r].kind = "send"
  BY ResumeTypes DEF Plain, Pending
<1> QED BY <1>1, BeginStep DEF Resume, shm, pump
LEMMA GroupStartWake ==
    ASSUME TInv, WInv, NEW r \in Procs, GroupStart(r)
    PROVE  WInv'
<1>1. Moves(r, "group", GroupOp)
  BY GroupStartTypes DEF Plain
<1> QED BY <1>1, GroupOpIs, BeginStep DEF GroupStart, shm, pump
LEMMA GetWake ==
    ASSUME TInv, WInv, NEW r \in Procs, Get(r)
    PROVE  WInv'
<1>1. Moves(r, "loop", NoOp)
  BY LoopStays DEF Plain, Get
<1> QED BY <1>1, NoOpFields, BeginStep DEF Get, shm

\* A call that has come to its end.
LEMMA DrainEndWake ==
    ASSUME TInv, WInv, NEW r \in Procs, DrainEnd(r)
    PROVE  WInv'
<1>1. Moves(r, "loop", NoOp) /\ pc'[r] = "loop" /\ op'[r] = NoOp
  BY DrainEndTypes, MoveKeeps DEF TInv, Plain
<1>2. op[r].kind = "none" /\ op[r].drain = {}
  BY CallOf DEF TInv, Desk, DrainEnd
<1>3. Served(r)'
  BY <1>1, NoOpFields DEF Served
<1>4. \A p \in Procs : \A c \in watched[p] : ~Owing(r, p, Owner[c])
  BY <1>2, OwesNobody
<1>5. \A c \in watched[r] : ~Fetches(r, Owner[c])
  BY <1>2 DEF Fetches
<1> QED BY <1>1, <1>3, <1>4, <1>5, NoOpFields, LocalStep
        DEF DrainEnd, shm, pump
LEMMA EndWake ==
    ASSUME TInv, WInv, NEW r \in Procs, End(r)
    PROVE  WInv'
<1>1. Moves(r, "loop", NoOp) /\ pc'[r] = "loop" /\ op'[r] = NoOp
  BY EndTypes, MoveKeeps DEF TInv, Plain
<1>2. pc[r] = "end"
  BY DEF End
<1>3. Served(r)'
  BY <1>1, NoOpFields DEF Served
<1>4. \A p \in Procs : \A c \in watched[p] : ~Owing(r, p, Owner[c])
  BY <1>2 DEF Owing, Comes
<1>5. \A c \in watched[r] : ~Fetches(r, Owner[c])
  BY <1>2 DEF Fetches
<1> QED BY <1>1, <1>3, <1>4, <1>5, NoOpFields, LocalStep DEF End, shm, pump

\* A process that watches nothing from now on.
LEMMA LeaveStep ==
    ASSUME TInv, WInv, NEW r \in Procs, Others(r), missed \subseteq missed',
           watched'[r] = {}, UNCHANGED ring, op'[r].kind # "group",
           \A p \in Procs \ {r} :
              /\ watched'[p] = watched[p]
              /\ evfd'[p] = evfd[p] /\ sock'[p] = sock[p] /\ SlotsStay(p)
              /\ \A c \in watched[p] :
                    Owing(r, p, Owner[c]) => Owner[c] \in missed'
    PROVE  WInv'
<1>1. Watches(r)' /\ Served(r)'
  BY DEF Watches, Served
<1>2. ASSUME NEW p \in Procs, NEW c \in watched'[p]
      PROVE  c \in watched[p] /\ StillTold(r, p, Owner[c])
  <2>1. p # r /\ c \in watched[p]
    BY <1>2
  <2>2. Owing(r, p, Owner[c]) => Awake(p, Owner[c])'
    BY <2>1 DEF Awake
  <2>3. Fetches(p, Owner[c]) => Fetches(p, Owner[c])'
    BY <2>1 DEF Fetches, Others
  <2> QED BY <2>1, <2>2, <2>3 DEF StillTold
<1> QED BY <1>1, <1>2, WakeStep

LEMMA RegisterSlotWake ==
    ASSUME TInv, WInv, NEW r \in Procs, RegisterSlot(r)
    PROVE  WInv'
<1>1. pc[r] = "new" /\ UNCHANGED <<ring, fds, pump, task, sends, missed>>
  BY DEF RegisterSlot
<1>2. op[r].kind = "none"
  BY <1>1, CallOf, NoOpFields DEF TInv, Desk
<1>3. watched[r] = {}
  BY <1>1 DEF WInv, Watches, Up
<1>4. \E l : \E s \in Slots :
         Do(r, l, NoOp) \/ Do(r, l, [NoOp EXCEPT !.slot = s])
  <2>1. CASE \E s \in Slots : Do(r, "write", [NoOp EXCEPT !.slot = s])
    BY <2>1
  <2>2. CASE Do(r, "loop", NoOp)
    <3>1. 1 \in Slots
      BY Bounds DEF Slots
    <3> QED BY <2>2, <3>1
  <2> QED BY <2>1, <2>2 DEF RegisterSlot
<1>5. Others(r) /\ op'[r].kind = "none"
  BY <1>4, NoOpFields DEF Others, Do, Goto, TInv, Calls, NoOp
<1>6. ASSUME NEW p PROVE SlotsStay(p)
  BY DEF SlotsStay, RegisterSlot, First, Free, TInv, Registry
<1> QED BY <1>1, <1>2, <1>3, <1>5, <1>6, OwesNobody, LeaveStep DEF fds, pump
LEMMA RegisterWriteWake ==
    ASSUME TInv, RInv, WInv, NEW r \in Procs, RegisterWrite(r)
    PROVE  WInv'
<1>1. pc[r] = "write" /\ UNCHANGED <<ring, fds, pump, task, sends, missed>>
  BY DEF RegisterWrite
<1>2. op[r].kind = "none" /\ op[r].slot \in Slots
  BY <1>1, CallOf DEF TInv, Desk
<1>3. watched[r] = {}
  BY <1>1 DEF WInv, Watches, Up
<1>4. Others(r) /\ op'[r].kind = "none"
  BY NoOpFields DEF Others, Do, Goto, TInv, Calls, RegisterWrite
<1>5. ~reg[op[r].slot].valid
  BY <1>1 DEF RInv, Listed
<1>6. ASSUME NEW p PROVE SlotsStay(p)
  BY <1>2, <1>5 DEF SlotsStay, RegisterWrite, TInv, Registry
<1> QED BY <1>1, <1>2, <1>3, <1>4, <1>6, OwesNobody, LeaveStep DEF fds, pump

LEMMA CloseStartWake ==
    ASSUME TInv, WInv, NEW r \in Procs, CloseStart(r)
    PROVE  WInv'
<1>1. Moves(r, "scan", CloseOp(r)) /\ AtLoop(r)
  BY CloseStartTypes DEF CloseStart
<1>2. op[r].kind = "none" /\ Others(r) /\ op'[r].kind = "close"
  BY <1>1, LoopIs, NoOpFields, MoveKeeps, CloseOpIs DEF TInv, Others
<1>3. /\ UNCHANGED <<shm, fds, missed>> /\ watched'[r] = {}
      /\ \A p \in Procs \ {r} : watched'[p] = watched[p]
  BY DEF CloseStart, TInv, Pumps
<1> QED BY <1>2, <1>3, OwesNobody, LeaveStep DEF shm, fds, SlotsStay

LEMMA LeaveWake ==
    ASSUME TInv, WInv, NEW r \in Procs, Leave(r), UNCHANGED <<reg, ring>>,
           Moves(r, "gone", NoOp), missed \subseteq missed',
           \A p \in Procs \ {r} : \A c \in watched[p] :
                Owing(r, p, Owner[c]) => Owner[c] \in missed'
    PROVE  WInv'
<1>1. Others(r) /\ op'[r].kind = "none"
  BY NoOpFields, MoveKeeps DEF TInv, Others
<1>2. /\ watched'[r] = {}
      /\ \A p \in Procs \ {r} : watched'[p] = watched[p]
            /\ evfd'[p] = evfd[p] /\ sock'[p] = sock[p]
  BY DEF Leave, TInv, Pumps, Descriptors
<1> QED BY <1>1, <1>2, LeaveStep DEF SlotsStay
LEMMA CloseEndWake ==
    ASSUME TInv, WInv, NEW r \in Procs, CloseEnd(r)
    PROVE  WInv'
<1>1. op[r].kind = "close"
  BY CallOf DEF TInv, Desk, CloseEnd
<1> QED BY <1>1, CloseEndTypes, OwesNobody, LeaveWake DEF CloseEnd

\* What a call owes anybody is among the keys a crash of it would miss.
LEMMA OwesCovers ==
    ASSUME TInv, NEW q \in Procs, NEW p \in Procs, NEW key \in {p, Everyone},
           Owing(q, p, key)
    PROVE  key \in Owes(q)
<1>1. op[q] \in OpType /\ Asks(q, pc[q], op[q])
  BY CallOf DEF TInv
<1>2. CASE op[q].kind = "send"
  BY <1>2 DEF Owing, Comes, Owes
<1>3. CASE op[q].kind = "group"
  <2>1. key \in op[q].woken
    BY <1>3 DEF Owing
  <2>2. CASE key \in {q, Everyone}
    BY <1>3, <2>1, <2>2 DEF Owes
  <2>3. CASE key = p /\ p # q /\ ~op[q].all /\ Comes(q, p)
    <3>1. pc[q] \in {"scan", "deliver"} /\ op[q].want = p
      BY <1>1, <1>3, <2>3 DEF Comes, Asks, Talking
    <3> QED BY <1>3, <2>3, <3>1, Owners DEF Owes
  <2> QED BY <1>3, <2>2, <2>3 DEF Owing
<1> QED BY <1>2, <1>3 DEF Owing
LEMMA CrashWake ==
    ASSUME TInv, WInv, NEW r \in Procs, Crash(r)
    PROVE  WInv'
<1>1. ASSUME NEW p \in Procs \ {r}, NEW c \in watched[p],
             Owing(r, p, Owner[c])
      PROVE  Owner[c] \in missed'
  <2>1. Owner[c] \in {p, Everyone}
    BY DEF WInv, Watches
  <2> QED BY <1>1, <2>1, OwesCovers DEF Crash
<1>2. missed \subseteq missed' /\ UNCHANGED <<reg, ring>> /\ Leave(r)
  BY DEF Crash
<1> QED BY <1>1, <1>2, CrashTypes, LeaveWake

LEMMA FlushWake ==
    ASSUME TInv, WInv, NEW r \in Procs, Flush(r)
    PROVE  WInv'
<1>1. /\ AtLoop(r) /\ Do(r, "scan", FlushOp)
      /\ \A key \in Keys : ring'[key] = << >>
      /\ UNCHANGED <<reg, missed>> /\ watched' = [watched EXCEPT ![r] = {}]
  BY DEF Flush, FlushOp
<1>2. Moves(r, "scan", FlushOp)
  BY <1>1, FlushOpIs DEF Moves, Labels, Talking, Do, Goto, Desk, Asks
<1>3. Others(r) /\ op'[r].kind = "flush"
  BY <1>2, MoveKeeps, FlushOpIs DEF TInv, Others
<1>4. /\ watched'[r] = {}
      /\ \A p \in Procs \ {r} : watched'[p] = watched[p]
  BY <1>1 DEF TInv, Pumps
<1>5. Watches(r)' /\ Served(r)'
  BY <1>3, <1>4 DEF Watches, Served
<1>6. ASSUME NEW p \in Procs, NEW c \in watched'[p] PROVE Called(p, c)'
  <2>1. c \in Channels
    BY <1>1, <1>6 DEF TInv, Pumps
  <2>2. ring'[Owner[c]] = << >>
    BY <2>1, <1>1, Owners
  <2> QED BY <2>2 DEF Called
<1> QED BY <1>1, <1>3, <1>4, <1>5, <1>6, WakeStep

\* A pump that begins to drain every ring it watches.
LEMMA FetchAll ==
    ASSUME TInv, WInv, NEW r \in Procs, AtLoop(r), NEW X \in SUBSET Channels,
           Do(r, "drain", DrainAll(NoOp, X)), UNCHANGED <<reg, ring, missed>>,
           watched'[r] = X,
           \A c \in X : r \in Receivers /\ Owner[c] \in {r, Everyone},
           \A p \in Procs \ {r} : watched'[p] = watched[p]
                /\ evfd'[p] = evfd[p] /\ sock'[p] = sock[p]
    PROVE  WInv'
<1>1. Moves(r, "drain", DrainAll(NoOp, X))
  BY DrainMoves DEF Plain
<1>2. Others(r) /\ pc'[r] = "drain" /\ op'[r] = DrainAll(NoOp, X)
  BY <1>1, MoveKeeps DEF TInv, Others
<1>3. op'[r].kind = "none" /\ op'[r].drain = {Owner[c] : c \in X}
  BY <1>2, DrainOpIs
<1>4. op[r].kind = "none"
  BY LoopIs, NoOpFields DEF TInv
<1>5. Watches(r)' /\ Served(r)'
  BY <1>2, <1>3 DEF Watches, Served, Up
<1>6. ASSUME NEW p \in Procs, NEW c \in watched'[p]
      PROVE  \/ Called(p, c)'
             \/ c \in watched[p] /\ StillTold(r, p, Owner[c])
  <2>1. CASE p = r
    BY <2>1, <1>2, <1>3, <1>6 DEF Called, Fetches
  <2>2. CASE p # r
    <3>1. ~Owing(r, p, Owner[c])
      BY <1>4, OwesNobody
    <3>2. Fetches(p, Owner[c]) => Fetches(p, Owner[c])'
      BY <2>2, <1>2 DEF Fetches, Others
    <3> QED BY <2>2, <1>6, <3>1, <3>2 DEF StillTold, SlotsStay
  <2> QED BY <2>1, <2>2
<1> QED BY <1>2, <1>5, <1>6, WakeStep

LEMMA ReceiveWake ==
    ASSUME TInv, WInv, NEW r \in Procs, NEW c \in Channels, Receive(r, c)
    PROVE  WInv'
<1>1. /\ AtLoop(r) /\ r \in Receivers /\ Owner[c] \in {r, Everyone}
      /\ watched' = [watched EXCEPT ![r] = @ \cup {c}]
      /\ UNCHANGED <<reg, ring, missed>> /\ UNCHANGED fds
  BY DEF Receive, shm
<1>2. CASE c \in watched[r]
  <2>1. UNCHANGED watched /\ UNCHANGED <<pc, op>>
    BY <1>1, <1>2 DEF Receive, TInv, Pumps
  <2>2. Moves(r, "loop", NoOp)
    BY <1>1, <2>1, LoopStays DEF Plain
  <2> QED BY <1>1, <2>1, <2>2, NoOpFields, BeginStep
<1>3. CASE c \notin watched[r]
  <2> DEFINE X == watched[r] \cup {c}
  <2>1. Do(r, "drain", DrainAll(NoOp, X)) /\ X \in SUBSET Channels
    BY <1>3 DEF Receive, TInv, Pumps
  <2>2. /\ watched'[r] = X
        /\ \A p \in Procs \ {r} : watched'[p] = watched[p]
    BY <1>1 DEF TInv, Pumps
  <2>3. \A d \in X : r \in Receivers /\ Owner[d] \in {r, Everyone}
    BY <1>1 DEF WInv, Watches
  <2> HIDE DEF X
  <2> QED BY <1>1, <2>1, <2>2, <2>3, FetchAll DEF fds
<1> QED BY <1>2, <1>3
LEMMA OnWakeupWake ==
    ASSUME TInv, WInv, NEW r \in Procs, OnWakeup(r)
    PROVE  WInv'
<1>1. /\ AtLoop(r) /\ Do(r, "drain", DrainAll(NoOp, watched[r]))
      /\ UNCHANGED <<reg, ring, missed, watched>>
  BY DEF OnWakeup, shm, pump
<1>2. watched[r] \in SUBSET Channels
  BY DEF TInv, Pumps
<1>3. \A p \in Procs \ {r} : evfd'[p] = evfd[p] /\ sock'[p] = sock[p]
  BY DEF OnWakeup, TInv, Descriptors
<1>4. \A c \in watched[r] : r \in Receivers /\ Owner[c] \in {r, Everyone}
  BY DEF WInv, Watches
<1> QED BY <1>1, <1>2, <1>3, <1>4, FetchAll
LEMMA WatchdogWake ==
    ASSUME TInv, WInv, NEW r \in Procs, Watchdog(r)
    PROVE  WInv'
<1>1. /\ AtLoop(r) /\ Do(r, "drain", DrainAll(NoOp, watched[r]))
      /\ UNCHANGED <<reg, ring, missed, watched>> /\ UNCHANGED fds
  BY DEF Watchdog, shm, pump
<1>2. watched[r] \in SUBSET Channels
  BY DEF TInv, Pumps
<1>3. \A c \in watched[r] : r \in Receivers /\ Owner[c] \in {r, Everyone}
  BY DEF WInv, Watches
<1> QED BY <1>1, <1>2, <1>3, FetchAll DEF fds

\* A ring is given up when it is empty, and only then.
LEMMA DrainWake ==
    ASSUME TInv, WInv, NEW r \in Procs, NEW key \in Keys, Drain(r, key)
    PROVE  WInv'
<1>1. /\ pc[r] = "drain" /\ key \in op[r].drain
      /\ UNCHANGED <<reg, watched, missed, pc>> /\ UNCHANGED fds
  BY DEF Drain
<1>2. op[r] \in OpType /\ op[r].kind = "none" /\ Desk(pc[r], op[r])
  BY <1>1, CallOf DEF TInv, Desk
<1>3. pc = [pc EXCEPT ![r] = "drain"] /\ op = [op EXCEPT ![r] = op[r]]
  BY <1>1, Stays DEF TInv
<1>4. CASE ring[key] = << >>
  <2> DEFINE o == [op[r] EXCEPT !.drain = op[r].drain \ {key}]
  <2>1. op' = [op EXCEPT ![r] = o] /\ UNCHANGED <<ring, buf>>
    BY <1>4, <1>2 DEF Drain, TInv, Calls
  <2>2. o.kind = "none" /\ o.drain = op[r].drain \ {key} /\ o \in OpType
    BY <1>2 DEF OpType
  <2>3. Moves(r, "drain", o)
    <3> HIDE DEF o
    <3> QED BY <1>1, <1>3, <2>1, <2>2 DEF Moves, Labels, Talking, Desk, Asks
  <2>4. pc'[r] = "drain" /\ op'[r] = o
    BY <2>3, MoveKeeps DEF TInv
  <2>5. Served(r)'
    BY <2>2, <2>4 DEF Served
  <2>6. \A c \in watched[r] :
            ~Fetches(r, Owner[c]) \/ ring[Owner[c]] = << >>
                \/ Fetches(r, Owner[c])'
    BY <1>4, <2>2, <2>4 DEF Fetches
  <2>7. \A p \in Procs : \A c \in watched[p] : ~Owing(r, p, Owner[c])
    BY <1>2, OwesNobody
  <2> HIDE DEF o
  <2> QED BY <1>1, <2>1, <2>2, <2>3, <2>5, <2>6, <2>7, LocalStep
<1>5. CASE ring[key] # << >>
  <2>1. UNCHANGED op /\ ring' = [ring EXCEPT ![key] = Tail(@)]
    BY <1>5 DEF Drain
  <2>2. \A k \in Keys : ring'[k] # << >> => ring[k] # << >>
    BY <2>1, <1>5 DEF TInv, Rings
  <2>3. Others(r) /\ Watches(r)' /\ Served(r)'
    BY <1>1, <2>1 DEF Others, WInv, Watches, Served, Up
  <2>4. ASSUME NEW p \in Procs, NEW c \in watched'[p]
        PROVE  c \in watched[p] /\ StillTold(r, p, Owner[c])
    <3>1. c \in watched[p] /\ Owner[c] \in Keys
      BY <1>1, <2>4, Owners DEF TInv, Pumps
    <3>2. ~Owing(r, p, Owner[c])
      BY <1>2, OwesNobody
    <3>3. Fetches(p, Owner[c]) => Fetches(p, Owner[c])'
      BY <1>1, <2>1 DEF Fetches
    <3> QED BY <1>1, <2>2, <3>1, <3>2, <3>3 DEF StillTold, SlotsStay, fds
  <2> QED BY <1>1, <2>3, <2>4, WakeStep
<1> QED BY <1>4, <1>5

-----------------------------------------------------------------------------
(* The steps of a call that looks for whom to wake, and wakes him.           *)

\* What is owed stays owed, when the one who waits still comes.
LEMMA OwingMoves ==
    ASSUME NEW r, NEW p, NEW key, Owing(r, p, key),
           op'[r].kind = op[r].kind, op'[r].chan = op[r].chan,
           op'[r].in = op[r].in, op'[r].woken = op[r].woken,
           op'[r].all = op[r].all,
           pc'[r] = "end" => op[r].kind # "group" \/ op[r].all,
           Comes(r, p) => Comes(r, p)'
    PROVE  Owing(r, p, key)'
BY DEF Owing

\* A call that goes on with the same locals.
LEMMA GoesOn ==
    ASSUME TInv, WInv, NEW r \in Procs, pc[r] \in Talking,
           NEW l, Moves(r, l, op[r]),
           l \in {"deliver", "mark", "group", "close", "end"},
           l = "end" => op[r].kind # "group" \/ op[r].all,
           UNCHANGED <<ring, watched, missed, sock>>,
           \A p \in Procs : Up(p) /\ op[p].kind # "close" => SlotsStay(p),
           \A p \in Procs : Reads(p) =>
                /\ evfd[p] => evfd'[p]
                /\ Comes(r, p) => Comes(r, p)' \/ evfd'[p]
    PROVE  WInv'
<1>1. pc'[r] = l /\ op'[r] = op[r] /\ Others(r)
  BY MoveKeeps DEF TInv, Others
<1>2. Watches(r)' /\ Served(r)'
  BY <1>1 DEF WInv, Watches, Served, Up
<1>3. ASSUME NEW p \in Procs, NEW c \in watched'[p]
      PROVE  c \in watched[p] /\ StillTold(r, p, Owner[c])
  <2>1. c \in watched[p] /\ Up(p) /\ op[p].kind # "close" /\ Reads(p)
    BY <1>3 DEF WInv, Watches, Reads
  <2>2. ASSUME Owing(r, p, Owner[c]) PROVE Awake(p, Owner[c])'
    <3>1. CASE Comes(r, p) => Comes(r, p)'
      <4>1. Owing(r, p, Owner[c])'
        BY <1>1, <2>2, <3>1, OwingMoves
      <4> QED BY <4>1 DEF Awake
    <3>2. CASE evfd'[p]
      BY <3>2 DEF Awake
    <3> QED BY <2>1, <3>1, <3>2
  <2>3. Fetches(p, Owner[c]) => Fetches(p, Owner[c])'
    BY <1>1 DEF Fetches, Others, Talking
  <2> QED BY <2>1, <2>2, <2>3 DEF StillTold
<1> QED BY <1>1, <1>2, <1>3, WakeStep

LEMMA MarkWake ==
    ASSUME TInv, RInv, WInv, NEW r \in Procs, Mark(r)
    PROVE  WInv'
<1>1. pc[r] = "mark" /\ UNCHANGED <<ring, watched, missed, sock, evfd>>
  BY DEF Mark, fds, pump
<1>2. /\ Moves(r, Onward(op[r]), op[r])
      /\ Onward(op[r]) \in {"group", "close", "end"}
      /\ Onward(op[r]) = "end" => op[r].kind # "group" \/ op[r].all
  BY <1>1, MarkTypes, OnwardMoves DEF TInv
<1>3. ASSUME NEW p \in Procs, Up(p), op[p].kind # "close"
      PROVE  SlotsStay(p)
  BY <1>3, MarkSpares DEF SlotsStay, Up
<1>4. \A p \in Procs : ~Comes(r, p)
  BY <1>1 DEF Comes
<1> QED BY <1>1, <1>2, <1>3, <1>4, GoesOn DEF Talking

LEMMA WakeEndWake ==
    ASSUME TInv, WInv, NEW r \in Procs, WakeEnd(r)
    PROVE  WInv'
<1> DEFINE l == IF op[r].dead # {} THEN "mark" ELSE Onward(op[r])
<1>1. /\ pc[r] = "deliver" /\ op[r].found = << >>
      /\ UNCHANGED <<reg, ring, watched, missed, sock, evfd>>
  BY DEF WakeEnd, shm, fds, pump
<1>2. /\ Moves(r, l, op[r]) /\ l \in {"mark", "group", "close", "end"}
      /\ l = "end" => op[r].kind # "group" \/ op[r].all
  BY <1>1, WakeEndTypes, OnwardMoves DEF TInv
<1>3. \A p \in Procs : ~Comes(r, p)
  BY <1>1, EmptySeq DEF Comes, Found
<1>4. \A p \in Procs : SlotsStay(p)
  BY <1>1 DEF SlotsStay
<1> HIDE DEF l
<1> QED BY <1>1, <1>2, <1>3, <1>4, GoesOn DEF Talking

LEMMA ScanEndWake ==
    ASSUME TInv, WInv, NEW r \in Procs, ScanEnd(r)
    PROVE  WInv'
<1>1. /\ pc[r] = "scan" /\ op[r].slot > MaxProcesses
      /\ UNCHANGED <<reg, ring, watched, missed, sock>>
  BY DEF ScanEnd, shm, pump
<1>2. op[r].slot \in Nat
  BY CallOf, OpFields, Bounds DEF TInv
<1>3. \A p \in Procs : SlotsStay(p) /\ ~Ahead(r, p)
  BY <1>1, <1>2, Bounds DEF SlotsStay, Ahead, Slots
<1>4. CASE op[r].scan = "all" /\ Signal(r) /\ Moves(r, "deliver", op[r])
  <2>1. pc'[r] = "deliver" /\ op'[r] = op[r]
    BY <1>4, MoveKeeps DEF TInv
  <2>2. ASSUME NEW p \in Procs, Reads(p)
        PROVE  /\ evfd[p] => evfd'[p]
               /\ Comes(r, p) => Comes(r, p)' \/ evfd'[p]
    <3>1. /\ evfd[p] => evfd'[p]
          /\ p = r => evfd'[p]
      BY <1>4, <2>2, SignalTells
    <3>2. Comes(r, p) /\ p # r => Comes(r, p)'
      BY <1>1, <1>3, <1>4, <2>1 DEF Comes, Found
    <3> QED BY <3>1, <3>2
  <2> QED BY <1>1, <1>3, <1>4, <2>2, GoesOn DEF Talking
<1>5. CASE op[r].scan # "all" /\ UNCHANGED evfd
           /\ Moves(r, Onward(op[r]), op[r])
  <2>1. \A p \in Procs : ~Comes(r, p)
    BY <1>1, <1>3, <1>5 DEF Comes
  <2>2. /\ Onward(op[r]) \in {"group", "close", "end"}
        /\ Onward(op[r]) = "end" => op[r].kind # "group" \/ op[r].all
    BY <1>1, OnwardMoves DEF TInv
  <2> QED BY <1>1, <1>3, <1>5, <2>1, <2>2, GoesOn DEF Talking
<1> QED BY <1>4, <1>5, ScanEndTypes

\* One look at a slot: who was ahead is found, or still ahead.
LEMMA ScanComes ==
    ASSUME TInv, NEW r \in Procs, pc[r] = "scan", NEW s \in Slots,
           s = op[r].slot, NEW l, NEW o, ScanCase(r, s, l, o), UNCHANGED reg,
           pc'[r] = l, op'[r] = o, NEW p \in Procs, Comes(r, p)
    PROVE  Comes(r, p)'
<1>1. op[r] \in OpType /\ op[r].found \in Seq(Slots \X Procs)
      /\ Len(op[r].found) \in Nat
  BY CallOf, OpFields, LenProperties DEF TInv
<1>2. op[r].scan \in {"all", "one"}
  BY DEF Comes
<1>3. s \in Nat
  BY DEF Slots
<1>4. CASE ~Hit(r, s)
  <2>1. /\ l = "scan" /\ o.slot = s + 1 /\ o.scan = op[r].scan
        /\ o.want = op[r].want /\ o.found = op[r].found
    BY <1>1, <1>4 DEF ScanCase, OpType
  <2>2. Found(r, p) => Found(r, p)'
    BY <2>1 DEF Found
  <2>3. ASSUME Ahead(r, p), op[r].scan = "all" \/ op[r].want = p
        PROVE  Ahead(r, p)'
    <3>1. PICK t \in Slots : reg[t].valid /\ reg[t].path = p /\ s <= t
      BY <2>3 DEF Ahead
    <3>2. t # s
      BY <2>3, <3>1, <1>4 DEF Hit
    <3>3. s + 1 <= t
      BY <3>1, <3>2, <1>3 DEF Slots
    <3> QED BY <3>1, <3>3, <2>1 DEF Ahead
  <2> QED BY <2>1, <2>2, <2>3 DEF Comes
<1>5. CASE Hit(r, s) /\ op[r].scan = "all"
  <2> DEFINE f == op[r].found
             e == <<s, reg[s].path>>
  <2>1. /\ l = "scan" /\ o.slot = s + 1 /\ o.scan = "all"
        /\ o.found = Append(f, e)
    BY <1>1, <1>5 DEF ScanCase, OpType
  <2>2. e \in Slots \X Procs
    BY <1>5 DEF Hit, TInv, Registry
  <2>3. /\ Len(Append(f, e)) = Len(f) + 1
        /\ \A i \in 1 .. Len(f) : Append(f, e)[i] = f[i]
        /\ Append(f, e)[Len(f) + 1] = e
    BY <1>1, <2>2, AppendProperties
  <2>4. Found(r, p) => Found(r, p)'
    BY <1>1, <2>1, <2>3 DEF Found
  <2>5. ASSUME Ahead(r, p) PROVE Ahead(r, p)' \/ Found(r, p)'
    <3>1. PICK t \in Slots : reg[t].valid /\ reg[t].path = p /\ s <= t
      BY <2>5 DEF Ahead
    <3>2. CASE t = s
      <4>1. Append(f, e)[Len(f) + 1][2] = p
        BY <2>3, <3>1, <3>2
      <4>2. Len(f) + 1 \in 1 .. Len(Append(f, e))
        BY <1>1, <2>3
      <4> QED BY <4>1, <4>2, <2>1 DEF Found
    <3>3. CASE t # s
      <4>1. s + 1 <= t
        BY <3>1, <3>3, <1>3 DEF Slots
      <4> QED BY <3>1, <4>1, <2>1 DEF Ahead
    <3> QED BY <3>2, <3>3
  <2> QED BY <1>5, <2>1, <2>4, <2>5 DEF Comes
<1>6. CASE Hit(r, s) /\ op[r].scan = "one"
  <2>1. /\ l = "deliver" /\ o.scan = "one" /\ o.want = op[r].want
        /\ o.found = <<<<s, reg[s].path>>>>
    BY <1>1, <1>6 DEF ScanCase, OpType
  <2>2. op[r].want = p /\ reg[s].path = p
    BY <1>6 DEF Comes, Hit
  <2>3. Found(r, p)'
    BY <2>1, <2>2 DEF Found
  <2> QED BY <2>1, <2>2, <2>3 DEF Comes
<1> QED BY <1>2, <1>4, <1>5, <1>6
LEMMA ScanWake ==
    ASSUME TInv, WInv, NEW r \in Procs, Scan(r)
    PROVE  WInv'
<1>1. PICK s \in Slots : s = op[r].slot
  BY ScanMoves
<1>2. PICK l, o : ScanCase(r, s, l, o) /\ Moves(r, l, o)
  BY <1>1, ScanMoves
<1>3. /\ pc[r] = "scan" /\ UNCHANGED <<reg, ring, watched, missed>>
      /\ UNCHANGED fds
  BY DEF Scan, shm, pump
<1>4. pc'[r] = l /\ op'[r] = o /\ op[r] \in OpType
  BY <1>2, MoveKeeps, CallOf DEF TInv
<1>5. /\ l \in {"scan", "deliver", "mark"} /\ o.kind = op[r].kind
      /\ o.chan = op[r].chan /\ o.in = op[r].in /\ o.woken = op[r].woken
      /\ o.all = op[r].all /\ o.members = op[r].members
  BY <1>2, <1>4 DEF ScanCase, OpType
<1>6. ASSUME NEW p \in Procs, NEW c \in watched[p], Owing(r, p, Owner[c])
      PROVE  Owing(r, p, Owner[c])'
  <2>1. Comes(r, p) => Comes(r, p)'
    BY <1>1, <1>2, <1>3, <1>4, ScanComes
  <2> QED BY <1>4, <1>5, <1>6, <2>1, OwingMoves
<1>7. Served(r)'
  BY <1>4, <1>5 DEF WInv, Served
<1>8. o.kind # "close" \/ watched[r] = {}
  BY <1>5 DEF WInv, Watches
<1>9. \A c \in watched[r] : ~Fetches(r, Owner[c])
  BY <1>3 DEF Fetches
<1> QED BY <1>2, <1>3, <1>5, <1>6, <1>7, <1>8, <1>9, LocalStep

\* A datagram to the first one found: he has something to read now, or is
\* gone, and whoever comes after him is still found.
LEMMA WakeComes ==
    ASSUME TInv, RInv, NEW r \in Procs, pc[r] = "deliver",
           NEW s \in Slots, NEW t \in Procs, op[r].found # << >>,
           Head(op[r].found) = <<s, t>>,
           NEW l, NEW o, WakeCase(r, t, s, l, o),
           \/ t # r /\ Bound(t) /\ Datagram(t)
           \/ (t = r \/ ~Bound(t)) /\ UNCHANGED sock,
           pc'[r] = l, op'[r] = o,
           NEW p \in Procs, Up(p), Reads(p), Comes(r, p)
    PROVE  Comes(r, p)' \/ sock'[p] > 0
<1> DEFINE f == op[r].found
<1>1. op[r] \in OpType /\ Asks(r, pc[r], op[r]) /\ f \in Seq(Slots \X Procs)
      /\ Len(f) \in Nat
  BY CallOf, FoundOf DEF TInv
<1>2. op[r].scan \in {"all", "one"} /\ p # r /\ Found(r, p)
  BY <1>1 DEF Comes, Asks, Talking
<1>3. PICK i \in 1 .. Len(f) : f[i][2] = p
  BY <1>2 DEF Found
<1>4. CASE t = p
  <2>1. Bound(p)
    BY DEF Bound, Up
  <2>2. Datagram(p)
    BY <1>2, <1>4, <2>1
  <2>3. sock'[p] = IF sock[p] < SocketMax THEN sock[p] + 1 ELSE sock[p]
    BY <2>2 DEF Datagram, TInv, Descriptors
  <2>4. sock[p] \in Nat
    BY DEF TInv, Descriptors
  <2> QED BY <2>3, <2>4, Bounds
<1>5. CASE t # p
  <2>1. f[1] = <<s, t>>
    BY <1>1, HeadTailProperties
  <2>2. i # 1
    BY <1>3, <1>5, <2>1
  <2>3. op[r].scan = "all"
    <3> SUFFICES ASSUME op[r].scan = "one" PROVE FALSE
      BY <1>2
    <3>1. 1 \in 1 .. Len(f)
      BY <1>1, <1>3
    <3>2. f[1][2] = op[r].want /\ f[i][2] = op[r].want
      BY <1>3, <3>1, FoundOf
    <3> QED BY <3>2, <2>1, <1>3, <1>5
  <2>4. /\ Len(Tail(f)) = Len(f) - 1
        /\ \A j \in 1 .. Len(Tail(f)) : Tail(f)[j] = f[j + 1]
    BY <1>1, HeadTailProperties
  <2>5. i - 1 \in 1 .. Len(Tail(f)) /\ Tail(f)[i - 1] = f[i]
    BY <1>1, <1>3, <2>2, <2>4
  <2>6. l = "deliver" /\ o.found = Tail(f) /\ o.scan = "all"
    BY <1>1, <2>3 DEF WakeCase, OpType
  <2>7. Found(r, p)'
    BY <2>5, <2>6, <1>3 DEF Found
  <2> QED BY <1>2, <2>6, <2>7 DEF Comes
<1> QED BY <1>4, <1>5
LEMMA WakeWake ==
    ASSUME TInv, RInv, WInv, NEW r \in Procs, Wake(r)
    PROVE  WInv'
<1>1. PICK s \in Slots, t \in Procs :
              /\ op[r].found # << >> /\ Head(op[r].found) = <<s, t>>
              /\ \E l, o : WakeCase(r, t, s, l, o) /\ Moves(r, l, o)
              /\ \/ t # r /\ Bound(t) /\ Datagram(t)
                 \/ (t = r \/ ~Bound(t)) /\ UNCHANGED sock
  BY WakeMoves
<1>2. PICK l, o : WakeCase(r, t, s, l, o) /\ Moves(r, l, o)
  BY <1>1
<1>3. pc[r] = "deliver" /\ UNCHANGED <<reg, ring, watched, missed, evfd>>
  BY DEF Wake, shm, pump
<1>4. /\ pc'[r] = l /\ op'[r] = o /\ Others(r)
      /\ op[r] \in OpType /\ o \in OpType
  <2>1. Moves(r, l, o)
    BY <1>2
  <2>2. pc'[r] = l /\ op'[r] = o /\ Others(r)
    BY <2>1, MoveKeeps DEF TInv, Others
  <2>3. op[r] \in OpType /\ o \in OpType
    BY <2>1, CallOf DEF TInv, Moves
  <2> QED BY <2>2, <2>3
<1>5. /\ l \in {"scan", "deliver"} /\ o.kind = op[r].kind
      /\ o.chan = op[r].chan /\ o.in = op[r].in /\ o.woken = op[r].woken
      /\ o.all = op[r].all /\ o.members = op[r].members
  <2>1. CASE l = "scan" /\ o = Look(op[r], "path", t)
    <3>1. Looked(op[r], o, "path", t)
      BY <2>1, <1>4, LookType
    <3> QED BY <2>1, <3>1 DEF Looked
  <2>2. CASE \/ l = "deliver" /\ o = [op[r] EXCEPT !.found = Tail(@)]
             \/ /\ l = "deliver"
                /\ o = [op[r] EXCEPT !.found = Tail(@), !.dead = @ \cup {s}]
    BY <2>2, <1>4 DEF OpType
  <2>3. WakeCase(r, t, s, l, o)
    BY <1>2
  <2> QED BY <2>1, <2>2, <2>3 DEF WakeCase
<1>6. Served(r)' /\ Watches(r)'
  BY <1>3, <1>4, <1>5 DEF WInv, Served, Watches, Up
<1>7. ASSUME NEW p \in Procs PROVE sock[p] > 0 => sock'[p] > 0
  <2>1. sock[p] \in Nat
    BY DEF TInv, Descriptors
  <2> QED BY <2>1, <1>1 DEF Datagram, TInv, Descriptors
<1>8. ASSUME NEW p \in Procs, NEW c \in watched'[p]
      PROVE  c \in watched[p] /\ StillTold(r, p, Owner[c])
  <2>1. c \in watched[p] /\ Up(p) /\ Reads(p)
    BY <1>3, <1>8 DEF WInv, Watches, Reads
  <2>2. ASSUME Owing(r, p, Owner[c]) PROVE Awake(p, Owner[c])'
    <3>1. Comes(r, p) => Comes(r, p)' \/ sock'[p] > 0
      BY <1>1, <1>2, <1>3, <1>4, <2>1, WakeComes
    <3>2. CASE sock'[p] > 0
      BY <3>2 DEF Awake
    <3>3. CASE ~(sock'[p] > 0)
      <4>1. Owing(r, p, Owner[c])'
        BY <1>4, <1>5, <2>2, <3>1, <3>3, OwingMoves
      <4> QED BY <4>1 DEF Awake
    <3> QED BY <3>2, <3>3
  <2>3. Fetches(p, Owner[c]) => Fetches(p, Owner[c])'
    BY <1>3, <1>4 DEF Fetches, Others
  <2> QED BY <1>3, <1>7, <2>1, <2>2, <2>3 DEF StillTold, SlotsStay
<1> QED BY <1>3, <1>4, <1>6, <1>8, WakeStep

\* A look through the registry begins with the slot of everybody ahead.
LEMMA LookComes ==
    ASSUME TInv, RInv, WInv, Fits, NEW p \in Procs, NEW c \in watched[p],
           UNCHANGED reg, NEW r \in Procs, pc'[r] = "scan", op'[r].slot = 1,
           op'[r].scan = "all" \/ (op'[r].scan = "one" /\ op'[r].want = p)
    PROVE  Comes(r, p)'
<1>1. PICK s \in Slots : reg[s].valid /\ reg[s].path = p
  BY WatcherIs
<1>2. 1 <= s
  BY DEF Slots
<1>3. Ahead(r, p)'
  BY <1>1, <1>2 DEF Ahead
<1> QED BY <1>3 DEF Comes

LEMMA TryWake ==
    ASSUME TInv, RInv, WInv, Fits, NEW r \in Procs, TryEnqueue(r)
    PROVE  WInv'
<1> DEFINE key == Owner[op[r].chan]
<1>1. op[r].chan \in Channels /\ op[r].kind = "send" /\ ~op[r].in
      /\ key \in Keys
  BY TryMoves, Owners
<1>2. PICK l, o : TryCase(r, key, l, o) /\ Moves(r, l, o)
  BY TryMoves
<1>3. pc[r] = "enqueue" /\ UNCHANGED <<reg, sock, watched, missed>>
  BY DEF TryEnqueue, pump
<1>4. /\ pc'[r] = l /\ op'[r] = o /\ Others(r)
      /\ op[r] \in OpType /\ o \in OpType
  <2>1. Moves(r, l, o)
    BY <1>2
  <2>2. pc'[r] = l /\ op'[r] = o /\ Others(r)
    BY <2>1, MoveKeeps DEF TInv, Others
  <2>3. op[r] \in OpType /\ o \in OpType
    BY <2>1, CallOf DEF TInv, Moves
  <2> QED BY <2>2, <2>3
<1>5. PICK o1 \in OpType :
        /\ o1.kind = "send" /\ o1.chan = op[r].chan
        /\ \/ TargetCase(r, o1, key, l, o)
           \/ l = "loop" /\ o = NoOp /\ UNCHANGED evfd
        /\ UNCHANGED ring \/ (/\ Put(op[r].chan) /\ o1.in
                              /\ TargetCase(r, o1, key, l, o))
  <2> DEFINE o2 == [op[r] EXCEPT !.in = TRUE]
             o3 == [op[r] EXCEPT !.try = op[r].try + 1]
  <2>1. /\ o2 \in OpType /\ o2.kind = "send" /\ o2.chan = op[r].chan /\ o2.in
    BY <1>1, <1>4 DEF OpType
  <2>2. CASE Put(op[r].chan) /\ TargetCase(r, o2, key, l, o)
    <3> HIDE DEF o2
    <3> QED BY <2>1, <2>2
  <2>3. CASE UNCHANGED ring /\ op[r].try < SpinBound
             /\ TargetCase(r, o3, key, l, o)
    <3>1. op[r].try + 1 \in 0 .. SpinBound
      BY <2>3, <1>4, OpFields, Bounds
    <3>2. o3 \in OpType /\ o3.kind = "send" /\ o3.chan = op[r].chan
      BY <1>1, <1>4, <3>1 DEF OpType
    <3> HIDE DEF o3
    <3> QED BY <2>3, <3>2
  <2>4. CASE UNCHANGED ring /\ l = "loop" /\ o = NoOp /\ UNCHANGED evfd
    BY <2>4, <1>1, <1>4
  <2> QED BY <1>2, <2>2, <2>3, <2>4 DEF TryCase
<1>6. /\ l \in {"loop", "scan", "end"} /\ o.kind \in {"send", "none"}
      /\ Signal(r) \/ UNCHANGED evfd
  <2>1. CASE /\ l = "scan" /\ UNCHANGED evfd
             /\ o = Look(o1, "all", None) \/ o = Look(o1, "one", key)
             /\ key \in Procs \/ o = Look(o1, "all", None)
    <3>1. CASE o = Look(o1, "all", None)
      <4>1. Looked(o1, o, "all", None)
        BY <3>1, <1>5, LookType
      <4> QED BY <2>1, <4>1, <1>5 DEF Looked
    <3>2. CASE o = Look(o1, "one", key) /\ key \in Procs
      <4>1. Looked(o1, o, "one", key)
        BY <3>2, <1>5, LookType
      <4> QED BY <2>1, <4>1, <1>5 DEF Looked
    <3> QED BY <2>1, <3>1, <3>2
  <2>2. CASE l = "end" /\ o = o1 /\ Signal(r)
    BY <2>2, <1>5
  <2>3. CASE l = "loop" /\ o = NoOp /\ UNCHANGED evfd
    BY <2>3, NoOpFields
  <2> QED BY <1>5, <2>1, <2>2, <2>3 DEF TargetCase
<1>7. Watches(r)' /\ Served(r)'
  BY <1>3, <1>4, <1>6 DEF WInv, Watches, Served, Up
<1>8. ASSUME NEW p \in Procs, NEW c \in watched'[p]
      PROVE  c \in watched[p] /\ StillTold(r, p, Owner[c])
  <2>1. /\ c \in watched[p] /\ Reads(p) /\ Owner[c] \in {p, Everyone}
        /\ Owner[c] \in Keys
    BY <1>3, <1>8, WatcherIs
  <2>2. /\ evfd[p] => evfd'[p]
        /\ Signal(r) /\ p = r => evfd'[p]
    BY <2>1, <1>6, SignalTells
  <2>3. ~Owing(r, p, Owner[c])
    BY <1>1 DEF Owing
  <2>4. ASSUME Put(op[r].chan), o1.in, TargetCase(r, o1, key, l, o),
               Owner[c] = key
        PROVE  Awake(p, Owner[c])'
    <3>1. CASE key = r
      <4>1. Signal(r) /\ p = r
        BY <2>1, <2>4, <3>1, Owners DEF TargetCase
      <4> QED BY <4>1, <2>2 DEF Awake
    <3>2. CASE key # r
      <4>1. /\ l = "scan" /\ o.kind = "send" /\ o.in /\ o.chan = op[r].chan
            /\ o.slot = 1
            /\ o.scan = "all" \/ (o.scan = "one" /\ o.want = key /\ key = p)
        <5>1. CASE key = Everyone
          <6>1. o = Look(o1, "all", None)
            BY <5>1, <2>4, Owners DEF TargetCase
          <6>2. Looked(o1, o, "all", None)
            BY <6>1, LookType
          <6> QED BY <5>1, <6>2, <1>5, <2>4, Owners DEF TargetCase, Looked
        <5>2. CASE key # Everyone
          <6>1. o = Look(o1, "one", key) /\ key \in Procs /\ key = p
            BY <5>2, <3>2, <2>1, <2>4 DEF TargetCase
          <6>2. Looked(o1, o, "one", key)
            BY <6>1, LookType
          <6> QED BY <5>2, <6>1, <6>2, <1>5, <2>4, <3>2
                  DEF TargetCase, Looked
        <5> QED BY <5>1, <5>2
      <4>2. Comes(r, p)'
        BY <4>1, <1>3, <1>4, <2>1, LookComes
      <4>3. Owing(r, p, Owner[c])'
        BY <4>1, <4>2, <1>4, <2>4 DEF Owing
      <4> QED BY <4>3 DEF Awake
    <3> QED BY <3>1, <3>2
  <2>5. ring'[Owner[c]] # << >> => ring[Owner[c]] # << >>
                                     \/ Awake(p, Owner[c])'
    <3>1. CASE UNCHANGED ring
      BY <3>1
    <3>2. CASE /\ Put(op[r].chan) /\ o1.in /\ TargetCase(r, o1, key, l, o)
      <4>1. CASE Owner[c] = key
        BY <4>1, <3>2, <2>4
      <4>2. CASE Owner[c] # key
        <5>1. ring'[Owner[c]] = ring[Owner[c]]
          BY <4>2, <3>2, <2>1 DEF Put, TInv, Rings
        <5> QED BY <5>1
      <4> QED BY <4>1, <4>2
    <3> QED BY <1>5, <3>1, <3>2
  <2>6. Fetches(p, Owner[c]) => Fetches(p, Owner[c])'
    BY <1>3, <1>4 DEF Fetches, Others
  <2> QED BY <1>3, <2>1, <2>2, <2>3, <2>5, <2>6 DEF StillTold, SlotsStay
<1> QED BY <1>3, <1>4, <1>7, <1>8, WakeStep

LEMMA GroupMemberWake ==
    ASSUME TInv, RInv, WInv, Fits, OneEachOwner, NEW r \in Procs,
           NEW m \in Channels, GroupMember(r, m)
    PROVE  WInv'
<1> DEFINE key == Owner[m]
<1>1. m \in op[r].members /\ op[r].kind = "group" /\ ~op[r].all
      /\ key \in Keys
  BY GroupMoves, Owners
<1>2. PICK l, o : GroupCase(r, m, key, l, o) /\ Moves(r, l, o)
  BY GroupMoves
<1>3. pc[r] = "group" /\ UNCHANGED <<reg, watched, missed>> /\ UNCHANGED fds
  BY DEF GroupMember, pump
<1>4. /\ pc'[r] = l /\ op'[r] = o /\ Others(r)
  BY <1>2, MoveKeeps DEF TInv, Others
<1>5. op[r] \in OpType /\ op[r].members \subseteq Members
  BY <1>1, <1>3, CallOf DEF TInv, Desk
<1>6. /\ l \in {"group", "scan"} /\ o.kind = "group" /\ ~o.all
      /\ o.members = op[r].members \ {m}
      /\ \/ UNCHANGED ring /\ o.woken = op[r].woken
         \/ /\ Put(m) /\ o.woken = op[r].woken \cup {key}
            /\ key \in Procs \ ({r} \cup op[r].woken) =>
                 /\ l = "scan" /\ o.scan = "one" /\ o.want = key
                 /\ o.slot = 1
  <2>0. /\ Done(r, m, key).kind = "group" /\ ~Done(r, m, key).all
        /\ Done(r, m, key).members = op[r].members \ {m}
        /\ Done(r, m, key).woken = op[r].woken \cup {key}
    <3>1. Calls
      BY DEF TInv
    <3> HIDE DEF key
    <3> QED BY <1>1, <1>3, <3>1, GroupTypes
  <2>1. CASE /\ UNCHANGED ring /\ l = "group"
             /\ o = [op[r] EXCEPT !.members = op[r].members \ {m}]
    <3>1. /\ o.kind = op[r].kind /\ o.all = op[r].all
          /\ o.members = op[r].members \ {m} /\ o.woken = op[r].woken
      BY <2>1, <1>5 DEF OpType
    <3> QED BY <2>1, <3>1, <1>1
  <2>2. CASE /\ Put(m) /\ key \in Procs \ ({r} \cup op[r].woken)
             /\ l = "scan" /\ o = Look(Done(r, m, key), "one", key)
    <3>1. Done(r, m, key) \in OpType
      <4>1. Calls
        BY DEF TInv
      <4> HIDE DEF key
      <4> QED BY <1>1, <1>3, <4>1, GroupTypes
    <3>2. Looked(Done(r, m, key), o, "one", key)
      BY <2>2, <3>1, LookType
    <3> QED BY <2>2, <2>0, <3>2 DEF Looked
  <2>3. CASE /\ Put(m) /\ key \notin Procs \ ({r} \cup op[r].woken)
             /\ l = "group" /\ o = Done(r, m, key)
    BY <2>3, <2>0
  <2> QED BY <1>2, <2>1, <2>2, <2>3 DEF GroupCase, Done
<1>7. Watches(r)'
  BY <1>3, <1>4, <1>6 DEF WInv, Watches, Up
<1>8. Served(r)'
  <2> SUFFICES ASSUME NEW k \in o.woken \cap Procs
               PROVE  \E c \in Members \ o.members : Owner[c] = k
    BY <1>4 DEF Served
  <2>1. CASE k \in op[r].woken
    <3>1. PICK c \in Members \ op[r].members : Owner[c] = k
      BY <2>1, <1>1 DEF WInv, Served
    <3> QED BY <3>1, <1>6
  <2>2. CASE k = key
    BY <2>2, <1>1, <1>5, <1>6
  <2> QED BY <2>1, <2>2, <1>6
\* Whoever of the group gets the first message of his is still to be woken.
<1>9. ASSUME key \in Procs \ {r}, key \in op[r].woken PROVE FALSE
  <2>1. PICK c \in Members \ op[r].members : Owner[c] = key
    BY <1>1, <1>9 DEF WInv, Served
  <2>2. m \in Members
    BY <1>1, <1>5
  <2> QED BY <2>1, <2>2, <1>1, <1>9 DEF OneEachOwner
<1>10. ASSUME NEW p \in Procs, NEW c \in watched'[p]
       PROVE  c \in watched[p] /\ StillTold(r, p, Owner[c])
  <2>1. c \in watched[p] /\ Owner[c] \in {p, Everyone} /\ Owner[c] \in Keys
    BY <1>3, <1>10, WatcherIs
  <2>2. ASSUME Owing(r, p, Owner[c]) PROVE Awake(p, Owner[c])'
    <3>1. Owner[c] \in op[r].woken /\ Owner[c] \in {r, Everyone}
      BY <1>1, <1>3, <2>2 DEF Owing, Comes
    <3>2. Owing(r, p, Owner[c])'
      BY <1>4, <1>6, <3>1 DEF Owing
    <3> QED BY <3>2 DEF Awake
  <2>3. ASSUME Put(m), o.woken = op[r].woken \cup {key}, Owner[c] = key,
               key \in Procs \ ({r} \cup op[r].woken) =>
                 /\ l = "scan" /\ o.scan = "one" /\ o.want = key
                 /\ o.slot = 1
        PROVE  Awake(p, Owner[c])'
    <3>1. CASE key \in {r, Everyone}
      <4>1. Owing(r, p, Owner[c])'
        BY <1>4, <1>6, <2>3, <3>1 DEF Owing
      <4> QED BY <4>1 DEF Awake
    <3>2. CASE key \notin {r, Everyone}
      <4>1. key = p /\ key \in Procs \ {r}
        BY <2>1, <2>3, <3>2
      <4>2. l = "scan" /\ o.scan = "one" /\ o.want = key /\ o.slot = 1
        BY <4>1, <1>9, <2>3
      <4>3. Comes(r, p)'
        BY <4>1, <4>2, <1>3, <1>4, <2>1, LookComes
      <4>4. Owing(r, p, Owner[c])'
        BY <1>4, <1>6, <2>3, <4>1, <4>3 DEF Owing
      <4> QED BY <4>4 DEF Awake
    <3> QED BY <3>1, <3>2
  <2>4. ring'[Owner[c]] # << >> => ring[Owner[c]] # << >>
                                     \/ Awake(p, Owner[c])'
    <3>1. CASE UNCHANGED ring
      BY <3>1
    <3>2. CASE Put(m) /\ Owner[c] # key
      <4>1. ring'[Owner[c]] = ring[Owner[c]]
        BY <3>2, <2>1 DEF Put, TInv, Rings
      <4> QED BY <4>1
    <3>3. CASE Owner[c] = key /\ ~UNCHANGED ring
      BY <3>3, <2>3, <1>6
    <3> QED BY <1>6, <3>1, <3>2, <3>3
  <2>5. Fetches(p, Owner[c]) => Fetches(p, Owner[c])'
    BY <1>3, <1>4, <1>6 DEF Fetches, Others
  <2> QED BY <1>3, <2>1, <2>2, <2>4, <2>5 DEF StillTold, SlotsStay, fds
<1> QED BY <1>3, <1>4, <1>7, <1>8, <1>10, WakeStep

LEMMA GroupEndWake ==
    ASSUME TInv, RInv, WInv, Fits, NEW r \in Procs, GroupEnd(r)
    PROVE  WInv'
<1>1. op[r].kind = "group" /\ ~op[r].all
  BY GroupEndMoves
<1>2. PICK l, o : EndCase(r, l, o) /\ Moves(r, l, o)
  BY GroupEndMoves
<1>3. /\ pc[r] = "group" /\ UNCHANGED <<reg, ring, watched, missed, sock>>
      /\ IF r \in op[r].woken THEN Signal(r) ELSE UNCHANGED evfd
  BY DEF GroupEnd, shm, pump
<1>4. pc'[r] = l /\ op'[r] = o /\ Others(r)
  BY <1>2, MoveKeeps DEF TInv, Others
<1>5. op[r] \in OpType
  BY CallOf DEF TInv
<1>6. /\ l \in {"scan", "end"} /\ o.kind = "group"
      /\ o.members = op[r].members /\ o.woken = op[r].woken
      /\ Everyone \in op[r].woken =>
            l = "scan" /\ o.all /\ o.scan = "all" /\ o.slot = 1
  <2>1. CASE Everyone \in op[r].woken
    <3> DEFINE o1 == [op[r] EXCEPT !.all = TRUE]
    <3>1. /\ o1 \in OpType /\ o1.kind = "group" /\ o1.all
          /\ o1.members = op[r].members /\ o1.woken = op[r].woken
      BY <1>1, <1>5 DEF OpType
    <3>2. l = "scan" /\ o = Look(o1, "all", None)
      BY <2>1, <1>2 DEF EndCase
    <3> HIDE DEF o1
    <3>3. Looked(o1, o, "all", None)
      BY <3>1, <3>2, LookType
    <3> QED BY <3>1, <3>2, <3>3 DEF Looked
  <2>2. CASE Everyone \notin op[r].woken
    BY <2>2, <1>1, <1>2 DEF EndCase
  <2> QED BY <2>1, <2>2
<1>7. Watches(r)' /\ Served(r)'
  BY <1>1, <1>3, <1>4, <1>6 DEF WInv, Watches, Served, Up
<1>8. ASSUME NEW p \in Procs, NEW c \in watched'[p]
      PROVE  c \in watched[p] /\ StillTold(r, p, Owner[c])
  <2>1. c \in watched[p] /\ Owner[c] \in {p, Everyone} /\ Reads(p)
    BY <1>3, <1>8, WatcherIs
  <2>2. /\ evfd[p] => evfd'[p]
        /\ Signal(r) /\ p = r => evfd'[p]
    BY <2>1, <1>3, SignalTells
  <2>3. ASSUME Owing(r, p, Owner[c]) PROVE Awake(p, Owner[c])'
    <3>1. Owner[c] \in op[r].woken /\ Owner[c] \in {r, Everyone}
      BY <1>1, <1>3, <2>3 DEF Owing, Comes
    <3>2. CASE Owner[c] = r
      <4>1. p = r /\ Signal(r)
        BY <2>1, <3>1, <3>2, <1>3, Owners
      <4> QED BY <4>1, <2>2 DEF Awake
    <3>3. CASE Owner[c] = Everyone
      <4>1. l = "scan" /\ o.all /\ o.scan = "all" /\ o.slot = 1
        BY <3>1, <3>3, <1>6
      <4>2. Comes(r, p)'
        BY <4>1, <1>3, <1>4, <2>1, LookComes
      <4>3. Owing(r, p, Owner[c])'
        BY <1>4, <1>6, <3>1, <3>3, <4>1, <4>2 DEF Owing
      <4> QED BY <4>3 DEF Awake
    <3> QED BY <3>1, <3>2, <3>3
  <2>4. Fetches(p, Owner[c]) => Fetches(p, Owner[c])'
    BY <1>3, <1>4 DEF Fetches, Others
  <2> QED BY <1>3, <2>1, <2>2, <2>3, <2>4 DEF StillTold, SlotsStay
<1> QED BY <1>3, <1>4, <1>7, <1>8, WakeStep

LEMMA WakeStepAll ==
    ASSUME Fits, OneEachOwner
    PROVE  TInv /\ RInv /\ WInv /\ [Next]_vars => WInv'
<1> SUFFICES ASSUME TInv, RInv, WInv, [Next]_vars PROVE WInv'
  OBVIOUS
<1>1. CASE UNCHANGED vars
  BY <1>1 DEF vars, shm, fds, pump, WInv, Watches, Served, Told, Called,
     Fetches, Awake, Owing, Comes, Ahead, Found, Up
<1>2. CASE Next
  <2>1. PICK p \in Procs :
        \/ RegisterSlot(p) \/ Run(p) \/ Call(p) \/ Crash(p)
        \/ Resume(p) \/ Get(p) \/ OnWakeup(p) \/ Watchdog(p)
    BY <1>2 DEF Next
  <2>2. CASE Run(p)
    BY <2>2, RegisterWriteWake, ScanWake, ScanEndWake, WakeWake,
       WakeEndWake, MarkWake, TryWake, EndWake, GroupEndWake,
       DrainEndWake, CloseEndWake, GroupMemberWake, DrainWake DEF Run
  <2>3. CASE Call(p)
    BY <2>3, SendStartWake, ReceiveWake, GroupStartWake, FlushWake,
       CloseStartWake DEF Call
  <2> QED BY <2>1, <2>2, <2>3, RegisterSlotWake, CrashWake, ResumeWake,
       GetWake, OnWakeupWake, WatchdogWake
<1> QED BY <1>1, <1>2

\* A pump that is at rest, with nothing to read, has no message to fetch,
\* unless a sender is still on its way to wake it, or was killed on the way
\* (layer.py send and group_send, pump.py): among any number of processes
\* that the registry has slots for, whatever they send, flush and close, as
\* long as no slot that was given up is taken again, and group_send sends
\* to one channel of a process at most.
THEOREM WakeupsNotLost ==
    ~ReuseSlots /\ IsFiniteSet(Procs) /\ Fits /\ OneEachOwner =>
        (Spec => []NoLostWakeup)
<1> SUFFICES ASSUME ~ReuseSlots, IsFiniteSet(Procs), Fits, OneEachOwner
             PROVE  Spec => []NoLostWakeup
  OBVIOUS
<1>1. TInv /\ WInv => NoLostWakeup
  <2> SUFFICES ASSUME TInv, WInv, NEW p \in Procs, NEW c \in watched[p],
                      AtLoop(p), ~evfd[p], sock[p] = 0,
                      ring[Owner[c]] # << >>, Owner[c] \notin missed
               PROVE  \E q \in Procs : Owner[c] \in Owes(q)
    BY DEF NoLostWakeup
  <2>1. Called(p, c) /\ Owner[c] \in {p, Everyone}
    BY DEF WInv, Told, Watches
  <2>2. ~Fetches(p, Owner[c])
    BY DEF AtLoop, Fetches
  <2>3. PICK q \in Procs : Owing(q, p, Owner[c])
    BY <2>1, <2>2 DEF Called, Awake
  <2>4. Owner[c] \in Owes(q)
    BY <2>1, <2>3, OwesCovers
  <2> QED BY <2>4
<1>2. Init => TInv /\ RInv /\ WInv
  BY TypesInit, RegInit, WakeInit
<1>3. TInv /\ RInv /\ WInv /\ [Next]_vars => (TInv /\ RInv /\ WInv)'
  BY TypesStep, RegStep, WakeStepAll
<1> QED BY <1>1, <1>2, <1>3, PTL DEF Spec

=============================================================================
