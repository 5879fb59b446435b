------------------------- MODULE KafkaSessionWriter -------------------------
(***************************************************************************)
(* packages/event-log/src/kafka-session-writer.ts: the transactional       *)
(* producers of ONE Pi Session.  Every instance, the one a Pi Worker opens *)
(* for its lease and the one the publication control opens to append a     *)
(* seal, uses the same Kafka transactional id, so initTransactions of any  *)
(* of them fences all earlier ones.  One record is one transaction.        *)
(*                                                                         *)
(* Kafka itself is external and modelled from how this code uses it: the   *)
(* broker keeps the newest producer epoch, at most one open transaction,   *)
(* and the committed records in order.  An instance is used once.          *)
(***************************************************************************)
EXTENDS Integers, Sequences

CONSTANT Clients            \* the KafkaSessionWriter instances that may exist

VARIABLES
    log,                    \* committed records of the Session, in offset order
    producerEpoch,          \* Kafka: newest epoch of the transactional id
    transaction,            \* Kafka: the open transaction, {} or a singleton
    phase,                  \* client -> where its start() / append() stands
    epoch,                  \* client -> producer epoch it got, 0 before
    sent                    \* client -> records given to append() so far

writers == <<log, producerEpoch, transaction, phase, epoch, sent>>

\* granted: before_init passed.  initialized: initTransactions returned.
\* sending: commitTransaction has not returned.  closed: failed or disconnected.
Phase == {"idle", "granted", "initialized", "open", "sending", "closed"}

WritersInit ==
    /\ log = <<>>
    /\ producerEpoch = 0
    /\ transaction = {}
    /\ phase = [c \in Clients |-> "idle"]
    /\ epoch = [c \in Clients |-> 0]
    /\ sent = [c \in Clients |-> 0]

Unfenced(c) == epoch[c] = producerEpoch

-----------------------------------------------------------------------------
\* #open up to the broker call.
BeginOpen(c) ==
    /\ phase[c] = "idle"
    /\ phase' = [phase EXCEPT ![c] = "granted"]
    /\ UNCHANGED <<log, producerEpoch, transaction, epoch, sent>>

\* Mutant: every instance has a transactional id of its own, so none is fenced.
InitTransactionsUnshared(c) ==
    /\ phase[c] = "granted"
    /\ phase' = [phase EXCEPT ![c] = "initialized"]
    /\ epoch' = [epoch EXCEPT ![c] = producerEpoch]
    /\ transaction' = {}
    /\ UNCHANGED <<log, producerEpoch, sent>>

\* The broker fences every earlier epoch and aborts the transaction it left open.
InitTransactions(c) ==
    /\ phase[c] = "granted"
    /\ phase' = [phase EXCEPT ![c] = "initialized"]
    /\ producerEpoch' = producerEpoch + 1
    /\ epoch' = [epoch EXCEPT ![c] = producerEpoch + 1]
    /\ transaction' = {}
    /\ UNCHANGED <<log, sent>>

\* The after_init authorization passed: the producer is installed.
FinishOpen(c) ==
    /\ phase[c] = "initialized"
    /\ phase' = [phase EXCEPT ![c] = "open"]
    /\ UNCHANGED <<log, producerEpoch, transaction, epoch, sent>>

\* Any failure of start() or append() is latched; close() ends there as well.
\* A transaction left behind stays open at the broker.
CloseWriter(c) ==
    /\ phase[c] \notin {"idle", "closed"}
    /\ phase' = [phase EXCEPT ![c] = "closed"]
    /\ UNCHANGED <<log, producerEpoch, transaction, epoch, sent>>

\* append(): a fenced producer gets no transaction and can only wait for its error.
Submit(c, fact) ==
    /\ phase[c] = "open"
    /\ phase' = [phase EXCEPT ![c] = "sending"]
    /\ sent' = [sent EXCEPT ![c] = @ + 1]
    /\ transaction' = IF Unfenced(c) THEN {[client |-> c, fact |-> fact]} ELSE transaction
    /\ UNCHANGED <<log, producerEpoch, epoch>>

\* The broker commits; the reply reaches the client that still waits, or is lost.
Commit(t, acknowledged) ==
    /\ t \in transaction
    /\ log' = Append(log, t.fact)
    /\ transaction' = {}
    /\ phase' = IF acknowledged /\ phase[t.client] = "sending"
                THEN [phase EXCEPT ![t.client] = "open"]
                ELSE phase
    /\ UNCHANGED <<producerEpoch, epoch, sent>>

\* The broker aborts: asked by the client's cleanup or by transaction.timeout.ms.
Abort ==
    /\ transaction # {}
    /\ transaction' = {}
    /\ UNCHANGED <<log, producerEpoch, phase, epoch, sent>>

Outstanding(c) == \E t \in transaction : t.client = c

\* No transaction of c is open any more and no acknowledgement came: #fail.
AppendFails(c) ==
    /\ phase[c] = "sending"
    /\ ~Outstanding(c)
    /\ phase' = [phase EXCEPT ![c] = "closed"]
    /\ UNCHANGED <<log, producerEpoch, transaction, epoch, sent>>

\* Mutant: a failed append is not latched, the next record follows it.
AppendInDoubtContinues(c) ==
    /\ phase[c] = "sending"
    /\ Outstanding(c)
    /\ phase' = [phase EXCEPT ![c] = "open"]
    /\ UNCHANGED <<log, producerEpoch, transaction, epoch, sent>>

\* The client gives up while the outcome is unknown: #fail, the record in doubt.
AppendInDoubt(c) ==
    /\ phase[c] = "sending"
    /\ Outstanding(c)
    /\ phase' = [phase EXCEPT ![c] = "closed"]
    /\ UNCHANGED <<log, producerEpoch, transaction, epoch, sent>>

=============================================================================
