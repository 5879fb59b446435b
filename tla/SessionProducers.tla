-------------------------- MODULE SessionProducers --------------------------
(***************************************************************************)
(* KafkaSessionWriter on its own: any number of producers of one Session,  *)
(* with an authorization that may answer anything.  What holds here rests  *)
(* on nothing but the shared transactional id, one record per transaction  *)
(* and a failure that is latched; PostgreSQL plays no part in it.          *)
(***************************************************************************)
EXTENDS KafkaSessionWriter, FiniteSets

CONSTANTS MaxSent,          \* bound: records one producer is given
          NoOwner           \* no producer was initialized yet

ASSUME ProducersAssumption == MaxSent \in Nat /\ NoOwner \notin Clients

Records == [client : Clients, number : Nat]

TypeOK ==
    /\ log \in Seq(Records)
    /\ producerEpoch \in Nat
    /\ transaction \subseteq [client : Clients, fact : Records]
    /\ phase \in [Clients -> Phase]
    /\ epoch \in [Clients -> Nat]
    /\ sent \in [Clients -> Nat]

Init == WritersInit

Send(c) ==
    /\ sent[c] < MaxSent
    /\ Submit(c, [client |-> c, number |-> sent[c] + 1])

ClientNext(c) ==
    \/ BeginOpen(c) \/ InitTransactions(c) \/ FinishOpen(c) \/ CloseWriter(c)
    \/ Send(c) \/ AppendFails(c) \/ AppendInDoubt(c)

BrokerNext ==
    \/ \E t \in transaction, acknowledged \in BOOLEAN : Commit(t, acknowledged)
    \/ Abort

Next == (\E c \in Clients : ClientNext(c)) \/ BrokerNext

Spec == Init /\ [][Next]_writers

-----------------------------------------------------------------------------
\* The broker only ever holds the newest producer's transaction, and it carries
\* the last record that producer was given.
InflightIsNewest ==
    \A t \in transaction :
        /\ Unfenced(t.client)
        /\ t.fact = [client |-> t.client, number |-> sent[t.client]]

\* Producers follow one another in the log in the order of their epochs: what a
\* takeover fenced never lands behind a record of the one that fenced it.
EpochOrder ==
    \A i, j \in DOMAIN log :
        i < j => epoch[log[i].client] <= epoch[log[j].client]

Accepted(c) == {log[i].number : i \in {j \in DOMAIN log : log[j].client = c}}

\* Of the records given to one producer a prefix was accepted, each once and in
\* order; only the last one may be in doubt, and an acknowledged one never is
\* (append and #tail of kafka-session-writer.ts).
AcceptedPrefix ==
    \A c \in Clients :
        /\ Accepted(c) \in {1..sent[c], 1..(sent[c] - 1)}
        /\ phase[c] = "open" => Accepted(c) = 1..sent[c]
        /\ \A i, j \in DOMAIN log :
              i < j /\ log[i].client = c /\ log[j].client = c
                  => log[i].number < log[j].number

-----------------------------------------------------------------------------
(* The refinement: the owner is the producer with the newest epoch.          *)

Owner ==
    IF producerEpoch = 0 THEN NoOwner
    ELSE CHOOSE c \in Clients : epoch[c] = producerEpoch

Retired == {c \in Clients : epoch[c] # 0 /\ epoch[c] # producerEpoch}

Fenced == INSTANCE FencedLog WITH owner <- Owner, retired <- Retired

\* KafkaSessionWriter implements the log with one owner at a time.
ImplementsFencedLog == Fenced!Spec

=============================================================================
