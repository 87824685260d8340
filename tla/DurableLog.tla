----------------------------- MODULE DurableLog -----------------------------
(* What the private stores of the host promise their callers: an event is    *)
(* appended whole or not at all, an acknowledged event is in the log for     *)
(* good, and a log may lose an unacknowledged tail. After outside damage     *)
(* nothing is promised any more about what is read.                          *)
EXTENDS Naturals, Sequences

CONSTANT Events

VARIABLES log, acked, intact

Contains(s, e) == \E i \in DOMAIN s : s[i] = e
Prefix(s, t) == Len(s) <= Len(t) /\ \A i \in DOMAIN s : s[i] = t[i]

PromiseInit == log = <<>> /\ acked = {} /\ intact = TRUE

Append1 ==
    /\ \E e \in Events : log' = Append(log, e)
    /\ UNCHANGED <<acked, intact>>

Acknowledge ==
    /\ \E e \in Events : Contains(log, e) /\ acked' = acked \cup {e}
    /\ UNCHANGED <<log, intact>>

LoseTail ==
    /\ Prefix(log', log)
    /\ \A e \in acked : Contains(log', e)
    /\ UNCHANGED <<acked, intact>>

Damaged ==
    /\ log' \in Seq(Events)
    /\ intact' = FALSE
    /\ acked' \subseteq Events

PromiseNext == Append1 \/ Acknowledge \/ LoseTail \/ Damaged

Promise == PromiseInit /\ [][PromiseNext]_<<log, acked, intact>>

(* As long as nothing was damaged, every acknowledged event is in the log.   *)
Kept == intact => \A e \in acked : Contains(log, e)
=============================================================================
