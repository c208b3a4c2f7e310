----------------------------- MODULE TicketQueue -----------------------------
(***************************************************************************)
(* What a channel's ring promises its users: a bounded FIFO queue in which *)
(* a producer first takes a ticket, then publishes its message or gives    *)
(* the ticket back, and consumers take the published messages in ticket    *)
(* order, each at most once.  A consumer gets the message of the ticket it *)
(* took, or drops it as expired.                                           *)
(***************************************************************************)
EXTENDS Integers, Sequences

CONSTANTS Msgs, Capacity, None

VARIABLES
    log,   \* the tickets taken so far, oldest first
    head   \* how many of them consumers have left behind

qvars == <<log, head>>

Ended == {"void", "delivered", "expired"}

Init == log = <<>> /\ head = 0

\* A ticket is granted when the one a full round earlier has ended.
Take(m) ==
    /\ Len(log) >= Capacity => log[Len(log) + 1 - Capacity].fate \in Ended
    /\ log' = Append(log, [msg |-> m, fate |-> "claimed", got |-> None])
    /\ UNCHANGED head

Become(n, from, to) ==
    /\ log[n].fate = from
    /\ log' = [log EXCEPT ![n].fate = to]

Publish(n)  == Become(n, "claimed", "ready") /\ UNCHANGED head
GiveBack(n) == Become(n, "claimed", "void") /\ UNCHANGED head

Next1 == head + 1
Receive == Next1 \in DOMAIN log /\ Become(Next1, "ready", "taken")
             /\ head' = Next1
Skip == Next1 \in DOMAIN log /\ log[Next1].fate = "void"
             /\ head' = Next1 /\ UNCHANGED log

Deliver(n) ==
    /\ log[n].fate = "taken"
    /\ log' = [log EXCEPT ![n] =
                 [@ EXCEPT !.fate = "delivered", !.got = log[n].msg]]
    /\ UNCHANGED head
Drop(n) == Become(n, "taken", "expired") /\ UNCHANGED head

Next ==
    \/ \E m \in Msgs : Take(m)
    \/ \E n \in DOMAIN log : Publish(n) \/ GiveBack(n) \/ Deliver(n) \/ Drop(n)
    \/ Receive \/ Skip

Spec == Init /\ [][Next]_qvars
=============================================================================
