------------------------------ MODULE FencedLog ------------------------------
(***************************************************************************)
(* What the producers of one Session promise together: a log with one      *)
(* owner at a time.  Taking over is final, only the owner appends, and its *)
(* records are numbered without a gap.  packages/event-log's                *)
(* KafkaSessionWriter is meant to implement this; SessionProducers shows it.*)
(***************************************************************************)
EXTENDS Integers, Sequences

CONSTANTS Clients, NoOwner

VARIABLES
    log,            \* the accepted records
    owner,          \* the client that may append, NoOwner at first
    retired         \* the clients that owned the log before

Written(c) == {i \in DOMAIN log : log[i].client = c}

IsNext(c, number) ==
    \A k \in 1..number :
        k < number <=> \E i \in Written(c) : log[i].number = k

Init == log = <<>> /\ owner = NoOwner /\ retired = {}

TakeOver(c) ==
    /\ c \notin retired \cup {owner}
    /\ owner' = c
    /\ retired' = retired \cup ({owner} \ {NoOwner})
    /\ UNCHANGED log

Write(c, number) ==
    /\ c = owner
    /\ IsNext(c, number)
    /\ log' = Append(log, [client |-> c, number |-> number])
    /\ UNCHANGED <<owner, retired>>

Next == \E c \in Clients : TakeOver(c) \/ (\E number \in 1..(Len(log) + 1) : Write(c, number))

Spec == Init /\ [][Next]_<<log, owner, retired>>

=============================================================================
