-------------------------------- MODULE Wakeup --------------------------------
(* Who is told that a message is there (layer.py send, group_send, receive,  *)
(* flush and close; pump.py; shm/wakeup.py; the registry_* functions of      *)
(* lib.rs).  A sender puts its message in a ring and then wakes the          *)
(* processes that may watch it: the owner of a process-specific channel, or  *)
(* everybody in the registry.  A pump drains the rings of its channels when  *)
(* its eventfd or its socket is readable.                                    *)
(*                                                                           *)
(* A process is one thread: what it does between two awaits is a sequence of *)
(* steps no other of its coroutines gets between, but other processes do.    *)
(* The rings are queues here (Ring.tla has what is inside), and a buffer is  *)
(* the number of messages in it.  What a dead process left in /dev/shm as a  *)
(* socket file is not kept: sendto fails the same way with and without it.   *)
EXTENDS Integers, Sequences, FiniteSets

CONSTANTS
    Procs,          \* processes, each with a socket and a pump
    Everyone,       \* the owner of a channel that anybody may receive from
    Channels,
    Owner,          \* channel -> its owner: a process, or Everyone
    Members,        \* the channels of the group that group_send sends to
    Senders, Groupers, Receivers, Flushers, Mortal,     \* who does what
    Watchdogs,      \* processes whose watchdog_interval is set
    MaxProcesses,   \* slots of the registry
    ReuseSlots,     \* a slot that was given up is taken again
    RingCap,        \* messages a ring holds
    BufCap,         \* messages a pump's buffer holds
    SocketMax,      \* datagrams a socket holds
    DrainMax,       \* datagrams one callback reads (_SOCKET_DRAIN_MAX)
    SpinBound,      \* retries of a send (SEND_SPIN_BOUND)
    MaxSends,       \* bound on sends and flushes
    None, Torn

Keys == Procs \cup {Everyone}
Slots == 1 .. MaxProcesses

ASSUME WakeupAssumption ==
    /\ Owner \in [Channels -> Keys] /\ Members \subseteq Channels
    /\ Senders \cup Groupers \cup Receivers \cup Flushers \cup Mortal
          \cup Watchdogs \subseteq Procs
    /\ {MaxProcesses, RingCap, BufCap, SocketMax, DrainMax}
          \subseteq Nat \ {0}
    /\ SpinBound \in Nat /\ MaxSends \in Nat /\ ReuseSlots \in BOOLEAN
    /\ Everyone \notin Procs /\ {None, Torn} \cap (Procs \cup Channels) = {}

VARIABLES
    reg,        \* slot -> [valid, path]: the path names the process
    flock,      \* who holds the flock
    ring,       \* key -> the messages in the ring, as their channels
    evfd,       \* process -> its eventfd is readable
    sock,       \* process -> datagrams waiting at its socket
    watched,    \* process -> the channels its pump watches
    buf,        \* process -> channel -> messages in the buffer
    waiting,    \* process -> the channel its receive() waits for
    task,       \* process -> a send asleep between two tries
    pc,         \* what the thread of a process is in the middle of
    op,         \* and the locals of it
    sends,      \* number of sends and flushes so far
    missed      \* history: keys whose sender died before it woke everybody

shm == <<reg, flock, ring>>
fds == <<evfd, sock>>
pump == <<watched, buf, waiting>>
vars == <<shm, fds, pump, task, pc, op, sends, missed>>

\* kind of call; the channel; tries made; whether the message is in; the
\* members still to send to; the owners woken; whether everybody is to be
\* woken; the scan of the registry: what for, the path it looks for, the
\* next slot, the entries found, the slots found dead; the rings to drain.
NoOp == [kind |-> "none", chan |-> None, try |-> 0, in |-> FALSE,
         members |-> {}, woken |-> {}, all |-> FALSE, scan |-> "none",
         want |-> None, slot |-> 1, found |-> << >>, dead |-> {},
         drain |-> {}]

Init ==
    /\ reg = [s \in Slots |-> [valid |-> FALSE, path |-> None]]
    /\ flock = None
    /\ ring = [key \in Keys |-> << >>]
    /\ evfd = [p \in Procs |-> FALSE]
    /\ sock = [p \in Procs |-> 0]
    /\ watched = [p \in Procs |-> {}]
    /\ buf = [p \in Procs |-> [c \in Channels |-> 0]]
    /\ waiting = [p \in Procs |-> None]
    /\ task = [p \in Procs |-> NoOp]
    /\ pc = [p \in Procs |-> "new"]
    /\ op = [p \in Procs |-> NoOp]
    /\ sends = 0
    /\ missed = {}

Goto(p, label) == pc' = [pc EXCEPT ![p] = label]
Do(p, label, locals) == Goto(p, label) /\ op' = [op EXCEPT ![p] = locals]
\* The descriptors of a process that never receives are not kept.
Reads(p) == p \in Receivers
Signal(p) == evfd' = [evfd EXCEPT ![p] = Reads(p)]      \* wakeup_local
AtLoop(p) == pc[p] = "loop"
Bound(p) == p \in Procs /\ pc[p] \notin {"new", "gone"}
Up(p) == pc[p] \notin {"new", "write", "gone"}

-----------------------------------------------------------------------------
(* registry_register, under the flock: the first slot that is not valid.     *)
(* The socket is bound before.  The path takes two stores.                   *)

Free == {s \in Slots : ~reg[s].valid}
First(s) == s \in Free /\ \A t \in Free : s <= t

RegisterSlot(p) ==
    /\ pc[p] = "new" /\ flock = None
    /\ \/ \E s \in Slots :
            /\ First(s) /\ (ReuseSlots \/ reg[s].path = None)
            /\ reg' = [reg EXCEPT ![s].path = Torn]
            /\ flock' = p
            /\ Do(p, "write", [NoOp EXCEPT !.slot = s])
       \/ /\ Free = {} /\ Do(p, "loop", NoOp)   \* only a warning is logged
          /\ UNCHANGED <<reg, flock>>
    /\ UNCHANGED <<ring, fds, pump, task, sends, missed>>

RegisterWrite(p) ==
    /\ pc[p] = "write"
    /\ reg' = [reg EXCEPT ![op[p].slot] = [valid |-> TRUE, path |-> p]]
    /\ flock' = None
    /\ Do(p, "loop", NoOp)
    /\ UNCHANGED <<ring, fds, pump, task, sends, missed>>

-----------------------------------------------------------------------------
(* Looking through the registry, without the flock: registry_get_valid for   *)
(* everybody ("all"), registry_lookup_socket for an owner ("one"), and to    *)
(* find the slot of a path that is to be marked dead ("path", "self").       *)

Look(o, for, want) ==
    [o EXCEPT !.scan = for, !.want = want, !.slot = 1, !.found = << >>,
              !.dead = {}]

\* Where a call goes on once everybody has been woken.
Onward(o) == CASE o.kind = "group" /\ ~o.all -> "group"
               [] o.kind = "close" -> "close"
               [] OTHER -> "end"

Scan(p) ==
    /\ pc[p] = "scan" /\ op[p].slot <= MaxProcesses
    /\ LET s == op[p].slot
           next == [op[p] EXCEPT !.slot = @ + 1]
           hit == reg[s].valid /\ (op[p].scan = "all" \/ reg[s].path = op[p].want)
       IN  CASE ~hit -> op' = [op EXCEPT ![p] = next] /\ UNCHANGED pc
             [] hit /\ op[p].scan = "all" ->
                    /\ op' = [op EXCEPT ![p] = [next EXCEPT
                                  !.found = Append(@, <<s, reg[s].path>>)]]
                    /\ UNCHANGED pc
             [] hit /\ op[p].scan = "one" ->
                    Do(p, "deliver",
                       [op[p] EXCEPT !.found = <<<<s, reg[s].path>>>>])
             [] OTHER -> Do(p, "mark", [op[p] EXCEPT !.dead = {s}])
    /\ UNCHANGED <<shm, fds, pump, task, sends, missed>>

\* The table is read to its end; a broadcast wakes its own pump first.
ScanEnd(p) ==
    /\ pc[p] = "scan" /\ op[p].slot > MaxProcesses
    /\ IF op[p].scan = "all"
       THEN Signal(p) /\ Goto(p, "deliver")
       ELSE Goto(p, Onward(op[p])) /\ UNCHANGED evfd
    /\ UNCHANGED <<shm, sock, pump, task, op, sends, missed>>

\* Variant: a full socket counts as a dead one.
WakeFull(p) ==
    /\ pc[p] = "deliver" /\ op[p].found # << >>
    /\ LET target == Head(op[p].found)[2]
           slot == Head(op[p].found)[1]
           rest == [op[p] EXCEPT !.found = Tail(@)]
       IN  \/ /\ target = p
              /\ op' = [op EXCEPT ![p] = rest]
              /\ UNCHANGED <<sock, pc>>
           \/ /\ target # p /\ Bound(target) /\ sock[target] < SocketMax
              /\ sock' = [sock EXCEPT ![target] = @ + 1]
              /\ op' = [op EXCEPT ![p] = rest]
              /\ UNCHANGED pc
           \/ /\ target # p
              /\ Bound(target) => sock[target] = SocketMax
              /\ UNCHANGED sock
              /\ IF op[p].scan = "all"
                 THEN op' = [op EXCEPT ![p] = [rest EXCEPT !.dead = @ \cup {slot}]]
                      /\ UNCHANGED pc
                 ELSE Do(p, "scan", Look(op[p], "path", target))
    /\ UNCHANGED <<shm, evfd, pump, task, sends, missed>>

\* wakeup_remote: a datagram, or none if the socket is full (it is readable
\* then anyway); a path nobody is bound to is a dead process.  A broadcast
\* keeps its slot for later; a unicast looks it up again by its path.
Wake(p) ==
    /\ pc[p] = "deliver" /\ op[p].found # << >>
    /\ LET target == Head(op[p].found)[2]
           slot == Head(op[p].found)[1]
           rest == [op[p] EXCEPT !.found = Tail(@)]
       IN  \/ /\ target = p     \* skipped: its own pump is awake
              /\ op' = [op EXCEPT ![p] = rest]
              /\ UNCHANGED <<sock, pc>>
           \/ /\ target # p /\ Bound(target)
              /\ sock' = [sock EXCEPT ![target] =
                              IF @ < SocketMax /\ Reads(target)
                              THEN @ + 1 ELSE @]
              /\ op' = [op EXCEPT ![p] = rest]
              /\ UNCHANGED pc
           \/ /\ target # p /\ ~Bound(target)
              /\ UNCHANGED sock
              /\ IF op[p].scan = "all"
                 THEN op' = [op EXCEPT ![p] = [rest EXCEPT !.dead = @ \cup {slot}]]
                      /\ UNCHANGED pc
                 ELSE Do(p, "scan", Look(op[p], "path", target))
    /\ UNCHANGED <<shm, evfd, pump, task, sends, missed>>

WakeEnd(p) ==
    /\ pc[p] = "deliver" /\ op[p].found = << >>
    /\ Goto(p, IF op[p].dead # {} THEN "mark" ELSE Onward(op[p]))
    /\ UNCHANGED <<shm, fds, pump, task, op, sends, missed>>

\* registry_mark_dead for each slot found, under the flock: whatever the
\* slot holds by now.
Mark(p) ==
    /\ pc[p] = "mark" /\ flock = None
    /\ reg' = [s \in Slots |-> IF s \in op[p].dead
                               THEN [reg[s] EXCEPT !.valid = FALSE]
                               ELSE reg[s]]
    /\ Goto(p, Onward(op[p]))
    /\ UNCHANGED <<flock, ring, fds, pump, task, op, sends, missed>>

-----------------------------------------------------------------------------
(* send: a try; when the ring is full, the consumer is woken and the send    *)
(* sleeps before it tries again, SpinBound times.                            *)

SendStart(p, c) ==
    /\ p \in Senders /\ AtLoop(p) /\ task[p] = NoOp /\ sends < MaxSends
    /\ sends' = sends + 1
    /\ Do(p, "enqueue", [NoOp EXCEPT !.kind = "send", !.chan = c])
    /\ UNCHANGED <<shm, fds, pump, task, missed>>

Resume(p) ==
    /\ AtLoop(p) /\ task[p] # NoOp
    /\ Do(p, "enqueue", task[p])
    /\ task' = [task EXCEPT ![p] = NoOp]
    /\ UNCHANGED <<shm, fds, pump, sends, missed>>

HasRoom(key) == Len(ring[key]) < RingCap
Put(c) == ring' = [ring EXCEPT ![Owner[c]] = Append(@, c)]

\* _wakeup_targets: to whom the signal goes.
Target(p, o, key) ==
    CASE key = Everyone -> Do(p, "scan", Look(o, "all", None)) /\ UNCHANGED evfd
      [] key = p -> Do(p, "end", o) /\ Signal(p)
      [] OTHER -> Do(p, "scan", Look(o, "one", key)) /\ UNCHANGED evfd

\* Variant: only a send that found the ring full wakes the consumer.
TryEnqueueQuiet(p) ==
    /\ pc[p] = "enqueue"
    /\ LET o == op[p]
           key == Owner[o.chan]
       IN  \/ /\ HasRoom(key) /\ Put(o.chan)
              /\ Do(p, "end", [o EXCEPT !.in = TRUE]) /\ UNCHANGED evfd
           \/ /\ ~HasRoom(key) /\ UNCHANGED ring
              /\ IF o.try < SpinBound
                 THEN Target(p, [o EXCEPT !.try = @ + 1], key)
                 ELSE Do(p, "loop", NoOp) /\ UNCHANGED evfd
    /\ UNCHANGED <<reg, flock, sock, pump, task, sends, missed>>

TryEnqueue(p) ==
    /\ pc[p] = "enqueue"
    /\ LET o == op[p]
           key == Owner[o.chan]
       IN  \/ /\ HasRoom(key) /\ Put(o.chan)
              /\ Target(p, [o EXCEPT !.in = TRUE], key)
           \/ /\ ~HasRoom(key) /\ UNCHANGED ring
              /\ IF o.try < SpinBound
                 THEN Target(p, [o EXCEPT !.try = @ + 1], key)
                 ELSE Do(p, "loop", NoOp) /\ UNCHANGED evfd     \* ChannelFull
    /\ UNCHANGED <<reg, flock, sock, pump, task, sends, missed>>

\* A call returns to the event loop, or sleeps.
End(p) ==
    /\ pc[p] = "end"
    /\ task' = [task EXCEPT ![p] = IF op[p].kind = "send" /\ ~op[p].in
                                   THEN [NoOp EXCEPT !.kind = "send",
                                             !.chan = op[p].chan,
                                             !.try = op[p].try]
                                   ELSE @]
    /\ Do(p, "loop", NoOp)
    /\ UNCHANGED <<shm, fds, pump, sends, missed>>

-----------------------------------------------------------------------------
(* group_send: one try for every member.  An owner is woken when the first   *)
(* of its channels got the message, this process and everybody at the end.   *)

GroupStart(p) ==
    /\ p \in Groupers /\ AtLoop(p) /\ task[p] = NoOp /\ sends < MaxSends
    /\ sends' = sends + 1
    /\ Do(p, "group", [NoOp EXCEPT !.kind = "group", !.members = Members])
    /\ UNCHANGED <<shm, fds, pump, task, missed>>

GroupMember(p, c) ==
    /\ pc[p] = "group" /\ c \in op[p].members
    /\ LET o == [op[p] EXCEPT !.members = @ \ {c}]
           key == Owner[c]
       IN  IF ~HasRoom(key)
           THEN op' = [op EXCEPT ![p] = o] /\ UNCHANGED <<ring, pc>>
           ELSE /\ Put(c)
                /\ IF key \in Procs \ ({p} \cup o.woken)
                   THEN Do(p, "scan", Look([o EXCEPT !.woken = @ \cup {key}],
                                           "one", key))
                   ELSE /\ op' = [op EXCEPT ![p] =
                                     [o EXCEPT !.woken = @ \cup {key}]]
                        /\ UNCHANGED pc
    /\ UNCHANGED <<reg, flock, fds, pump, task, sends, missed>>

GroupEnd(p) ==
    /\ pc[p] = "group" /\ op[p].members = {}
    /\ IF p \in op[p].woken THEN Signal(p) ELSE UNCHANGED evfd
    /\ IF Everyone \in op[p].woken
       THEN Do(p, "scan", Look([op[p] EXCEPT !.all = TRUE], "all", None))
       ELSE Do(p, "end", op[p])
    /\ UNCHANGED <<shm, sock, pump, task, sends, missed>>

-----------------------------------------------------------------------------
(* The pump.                                                                 *)

DrainAll(o, channels) == [o EXCEPT !.drain = {Owner[c] : c \in channels}]

\* receive: the channel is watched, and if that is new its ring is drained
\* at once.  A process has one receive() waiting here.
Receive(p, c) ==
    /\ p \in Receivers /\ AtLoop(p) /\ waiting[p] = None
    /\ Owner[c] \in {p, Everyone}
    /\ waiting' = [waiting EXCEPT ![p] = c]
    /\ watched' = [watched EXCEPT ![p] = @ \cup {c}]
    /\ IF c \in watched[p]
       THEN UNCHANGED <<pc, op>>
       ELSE Do(p, "drain", DrainAll(NoOp, watched[p] \cup {c}))
    /\ UNCHANGED <<shm, fds, buf, task, sends, missed>>

\* The buffer has a message for the one that waits.
Get(p) ==
    /\ AtLoop(p) /\ waiting[p] # None
    /\ buf[p][waiting[p]] > 0
    /\ buf' = [buf EXCEPT ![p][waiting[p]] = @ - 1]
    /\ waiting' = [waiting EXCEPT ![p] = None]
    /\ UNCHANGED <<shm, fds, watched, task, pc, op, sends, missed>>

\* _on_wakeup: the readable descriptor is emptied first (of a socket at most
\* DrainMax datagrams), then the rings.  The pump is started by the first
\* receive.
OnWakeup(p) ==
    /\ AtLoop(p) /\ watched[p] # {}
    /\ \/ evfd[p] /\ evfd' = [evfd EXCEPT ![p] = FALSE] /\ UNCHANGED sock
       \/ /\ sock[p] > 0
          /\ sock' = [sock EXCEPT ![p] = IF @ > DrainMax THEN @ - DrainMax ELSE 0]
          /\ UNCHANGED evfd
    /\ Do(p, "drain", DrainAll(NoOp, watched[p]))
    /\ UNCHANGED <<shm, pump, task, sends, missed>>

\* Variant: the tick repairs the rings but never drains them.
WatchdogIdle(p) ==
    /\ p \in Watchdogs /\ AtLoop(p) /\ watched[p] # {}
    /\ UNCHANGED vars

\* The watchdog drains when nothing else has for two intervals: now and then.
Watchdog(p) ==
    /\ p \in Watchdogs /\ AtLoop(p) /\ watched[p] # {}
    /\ Do(p, "drain", DrainAll(NoOp, watched[p]))
    /\ UNCHANGED <<shm, fds, pump, task, sends, missed>>

\* Variant: the oldest message is not dropped.
DrainNoDrop(p, key) ==
    /\ pc[p] = "drain" /\ key \in op[p].drain
    /\ IF ring[key] = << >>
       THEN op' = [op EXCEPT ![p].drain = @ \ {key}] /\ UNCHANGED <<ring, buf>>
       ELSE /\ ring' = [ring EXCEPT ![key] = Tail(@)]
            /\ buf' = [buf EXCEPT ![p][Head(ring[key])] = @ + 1]
            /\ UNCHANGED op
    /\ UNCHANGED <<reg, flock, fds, watched, waiting, task, pc, sends, missed>>

\* drain_rings: each ring until it is empty.  A message goes to the buffer
\* its slot names, watched or not; a full buffer drops its oldest message.
Drain(p, key) ==
    /\ pc[p] = "drain" /\ key \in op[p].drain
    /\ IF ring[key] = << >>
       THEN op' = [op EXCEPT ![p].drain = @ \ {key}] /\ UNCHANGED <<ring, buf>>
       ELSE /\ ring' = [ring EXCEPT ![key] = Tail(@)]
            /\ buf' = [buf EXCEPT ![p][Head(ring[key])] =
                           IF @ < BufCap THEN @ + 1 ELSE @]
            /\ UNCHANGED op
    /\ UNCHANGED <<reg, flock, fds, watched, waiting, task, pc, sends, missed>>

DrainEnd(p) ==
    /\ pc[p] = "drain" /\ op[p].drain = {}
    /\ Do(p, "loop", NoOp)
    /\ UNCHANGED <<shm, fds, pump, task, sends, missed>>

-----------------------------------------------------------------------------
(* flush, close, and a crash.                                                *)

\* The rings are emptied under the flock; the pump of this process forgets
\* its channels and its buffers (and with them a receive() that waits), and
\* every pump is woken.
Flush(p) ==
    /\ p \in Flushers /\ AtLoop(p) /\ flock = None /\ sends < MaxSends
    /\ sends' = sends + 1
    /\ ring' = [key \in Keys |-> << >>]
    /\ watched' = [watched EXCEPT ![p] = {}]
    /\ buf' = [buf EXCEPT ![p] = [c \in Channels |-> 0]]
    /\ waiting' = [waiting EXCEPT ![p] = None]
    /\ Signal(p)
    /\ Do(p, "scan", Look([NoOp EXCEPT !.kind = "flush"], "all", None))
    /\ UNCHANGED <<reg, flock, sock, task, missed>>

\* close: the pump stops, the own slot is looked up and marked.
CloseStart(p) ==
    /\ p \in Mortal /\ AtLoop(p)
    /\ watched' = [watched EXCEPT ![p] = {}]
    /\ waiting' = [waiting EXCEPT ![p] = None]
    /\ task' = [task EXCEPT ![p] = NoOp]
    /\ Do(p, "scan", Look([NoOp EXCEPT !.kind = "close"], "self", p))
    /\ UNCHANGED <<shm, fds, buf, sends, missed>>

Leave(p) ==
    /\ flock' = IF flock = p THEN None ELSE flock
    /\ evfd' = [evfd EXCEPT ![p] = FALSE]
    /\ sock' = [sock EXCEPT ![p] = 0]
    /\ watched' = [watched EXCEPT ![p] = {}]
    /\ buf' = [buf EXCEPT ![p] = [c \in Channels |-> 0]]
    /\ waiting' = [waiting EXCEPT ![p] = None]
    /\ task' = [task EXCEPT ![p] = NoOp]
    /\ Do(p, "gone", NoOp)

\* The socket and the mapping are closed.
CloseEnd(p) ==
    /\ pc[p] = "close"
    /\ Leave(p)
    /\ UNCHANGED <<reg, ring, sends, missed>>

\* The rings a call has put a message in whose watchers it has yet to wake.
Owes(p) ==
    IF op[p].kind = "send" /\ op[p].in /\ pc[p] \in {"scan", "deliver"}
    THEN {Owner[op[p].chan]}
    ELSE IF op[p].kind = "group"
    THEN (op[p].woken \cap {p, Everyone})
         \cup (IF pc[p] \in {"scan", "deliver"} THEN {op[p].want} \ {None}
                                                ELSE {})
    ELSE {}

Crash(p) ==
    /\ p \in Mortal /\ pc[p] \notin {"new", "gone"}
    /\ missed' = missed \cup Owes(p)
    /\ Leave(p)
    /\ UNCHANGED <<reg, ring, sends>>

-----------------------------------------------------------------------------
Call(p) ==
    \/ \E c \in Channels : SendStart(p, c) \/ Receive(p, c)
    \/ GroupStart(p) \/ Flush(p) \/ CloseStart(p)

\* What the thread does once a call or a callback has begun.
Run(p) ==
    \/ RegisterWrite(p) \/ Scan(p) \/ ScanEnd(p) \/ Wake(p) \/ WakeEnd(p)
    \/ Mark(p) \/ TryEnqueue(p) \/ End(p) \/ GroupEnd(p) \/ DrainEnd(p)
    \/ CloseEnd(p)
    \/ \E c \in Channels : GroupMember(p, c)
    \/ \E key \in Keys : Drain(p, key)

Next ==
    \E p \in Procs :
        \/ RegisterSlot(p) \/ Run(p) \/ Call(p) \/ Crash(p)
        \/ Resume(p) \/ Get(p) \/ OnWakeup(p) \/ Watchdog(p)

\* The event loop runs what is ready: a thread goes on, readable descriptors
\* are served, sleeps and intervals end.  Nobody has to call anything.
Fairness ==
    \A p \in Procs :
        /\ WF_vars(Run(p)) /\ WF_vars(OnWakeup(p)) /\ WF_vars(Resume(p))
        /\ WF_vars(Watchdog(p)) /\ WF_vars(Get(p))

Spec == Init /\ [][Next]_vars
FairSpec == Spec /\ Fairness

-----------------------------------------------------------------------------
TypeOK ==
    /\ \A s \in Slots : /\ reg[s].valid \in BOOLEAN
                        /\ reg[s].path \in Procs \cup {None, Torn}
                        /\ reg[s].valid => reg[s].path \in Procs
    /\ flock \in Procs \cup {None}
    /\ \A key \in Keys : Len(ring[key]) <= RingCap
    /\ \A key \in Keys, i \in 1 .. RingCap :
        i <= Len(ring[key]) => Owner[ring[key][i]] = key
    /\ evfd \in [Procs -> BOOLEAN]
    /\ sock \in [Procs -> 0 .. SocketMax]
    /\ watched \in [Procs -> SUBSET Channels]
    /\ buf \in [Procs -> [Channels -> 0 .. BufCap]]
    /\ waiting \in [Procs -> Channels \cup {None}]
    /\ pc \in [Procs -> {"new", "write", "loop", "scan", "deliver", "mark",
                         "enqueue", "group", "drain", "end", "close", "gone"}]
    /\ sends \in 0 .. MaxSends /\ missed \subseteq Keys

\* A process that is up is in the registry, where the others find it: what
\* marks dead processes, and full sockets, never take a live one out.
LiveRegistered ==
    \A p \in Procs :
        Up(p) /\ op[p].kind # "close" /\ Cardinality(Procs) <= MaxProcesses
            => \E s \in Slots : reg[s].valid /\ reg[s].path = p

\* A pump that is at rest, with nothing to read, has nothing to fetch: a
\* message in a ring it watches means that some sender is still on its way
\* to wake it, or died on the way.
NoLostWakeup ==
    \A p \in Procs, c \in Channels :
        (/\ AtLoop(p) /\ ~evfd[p] /\ sock[p] = 0
         /\ c \in watched[p] /\ ring[Owner[c]] # << >>)
            => \/ \E q \in Procs : Owner[c] \in Owes(q)
               \/ Owner[c] \in missed

\* With a watchdog, what is in a watched ring is fetched in the end, also
\* when its sender was killed before it woke anybody.
Drained ==
    \A p \in Watchdogs, c \in Channels :
        (c \in watched[p] /\ ring[Owner[c]] # << >>)
            ~> (c \notin watched[p] \/ ring[Owner[c]] = << >>)
=============================================================================
