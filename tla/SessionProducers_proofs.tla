----------------------- MODULE SessionProducers_proofs -----------------------
(***************************************************************************)
(* Proofs about the producers of one Session, for every set of producers:  *)
(* what a fenced log promises follows from the shared transactional id, one*)
(* record per transaction and the latched failure alone.                   *)
(***************************************************************************)
EXTENDS SessionProducers, TLAPS

\* A record handed to a producer has its type.
LEMMA SendType ==
    ASSUME TypeOK, NEW c \in Clients, Send(c)
    PROVE  TypeOK'
  <1> DEFINE fact == [client |-> c, number |-> sent[c] + 1]
  <1>1. fact \in Records /\ [client |-> c, fact |-> fact] \in [client : Clients, fact : Records]
    BY DEF TypeOK, Records
  <1>2. transaction' \subseteq [client : Clients, fact : Records]
    BY <1>1 DEF TypeOK, Send, Submit
  <1>3. sent' \in [Clients -> Nat] /\ phase' \in [Clients -> Phase]
    BY DEF TypeOK, Send, Submit, Phase
  <1> QED BY <1>2, <1>3 DEF TypeOK, Send, Submit

\* A committed record has its type.
LEMMA CommitType ==
    ASSUME TypeOK, NEW t \in transaction, NEW a \in BOOLEAN, Commit(t, a)
    PROVE  TypeOK'
  <1>1. t.fact \in Records /\ t.client \in Clients
    BY DEF TypeOK
  <1>2. log' \in Seq(Records)
    BY <1>1 DEF TypeOK, Commit
  <1>3. phase' \in [Clients -> Phase]
    BY <1>1 DEF TypeOK, Commit, Phase
  <1> QED BY <1>2, <1>3 DEF TypeOK, Commit

\* Every step of a producer or the broker keeps the types.
LEMMA TypeStep == ASSUME TypeOK, [Next]_writers PROVE TypeOK'
  <1>1. ASSUME NEW c \in Clients, BeginOpen(c) \/ InitTransactions(c) \/ FinishOpen(c)
        PROVE  TypeOK'
    <2>1. CASE BeginOpen(c)
      BY <2>1 DEF TypeOK, BeginOpen, Phase
    <2>2. CASE InitTransactions(c)
      BY <2>2 DEF TypeOK, InitTransactions, Phase
    <2>3. CASE FinishOpen(c)
      BY <2>3 DEF TypeOK, FinishOpen, Phase
    <2> QED BY <1>1, <2>1, <2>2, <2>3
  <1>2. ASSUME NEW c \in Clients, CloseWriter(c) \/ AppendFails(c) \/ AppendInDoubt(c)
        PROVE  TypeOK'
    BY <1>2 DEF TypeOK, CloseWriter, AppendFails, AppendInDoubt, Phase
  <1>3. CASE \E c \in Clients : Send(c)
    BY <1>3, SendType
  <1>4. CASE \E t \in transaction, a \in BOOLEAN : Commit(t, a)
    BY <1>4, CommitType
  <1>5. CASE Abort
    BY <1>5 DEF TypeOK, Abort
  <1>6. CASE UNCHANGED writers
    BY <1>6 DEF TypeOK, writers
  <1> QED
    BY <1>1, <1>2, <1>3, <1>4, <1>5, <1>6 DEF Next, ClientNext, BrokerNext

\* Every value the model uses has its type, whatever the producers do.
THEOREM TypeCorrect == Spec => []TypeOK
  <1>1. Init => TypeOK
    BY DEF Init, WritersInit, TypeOK, Phase, Records
  <1> QED BY <1>1, TypeStep, PTL DEF Spec

-----------------------------------------------------------------------------
(* The inductive invariant: each initialization has an epoch of its own, the *)
(* newest one belongs to somebody, and the broker's open transaction carries *)
(* the one record its producer is still waiting for.                         *)

Idle(c) == phase[c] \in {"idle", "granted"}

EpochsAreOwn ==
    /\ \A c \in Clients : epoch[c] <= producerEpoch
    /\ \A c \in Clients : Idle(c) => epoch[c] = 0
    /\ \A c \in Clients : phase[c] \in {"initialized", "open", "sending"} => epoch[c] # 0
    /\ \A c, d \in Clients : epoch[c] = epoch[d] /\ epoch[c] # 0 => c = d
    /\ producerEpoch # 0 => \E c \in Clients : epoch[c] = producerEpoch

SentInTurn ==
    /\ \A c \in Clients : epoch[c] = 0 \/ phase[c] = "initialized" => sent[c] = 0
    /\ InflightIsNewest
    /\ \A t \in transaction :
          /\ epoch[t.client] # 0 /\ sent[t.client] # 0
          /\ phase[t.client] \notin {"initialized", "open"}
          /\ Accepted(t.client) = 1..(sent[t.client] - 1)

LogInTurn ==
    /\ \A i \in DOMAIN log : epoch[log[i].client] # 0 /\ log[i].number \in 1..i
    /\ EpochOrder
    /\ AcceptedPrefix

Ordered == TypeOK /\ EpochsAreOwn /\ SentInTurn /\ LogInTurn

\* Each init takes an epoch nobody else has.
LEMMA EpochsStep == ASSUME TypeOK, EpochsAreOwn, SentInTurn, [Next]_writers PROVE EpochsAreOwn'
  <1>1. ASSUME NEW c \in Clients, BeginOpen(c)
        PROVE  EpochsAreOwn'
    BY <1>1 DEF TypeOK, EpochsAreOwn, Idle, BeginOpen
  <1>2. ASSUME NEW c \in Clients, InitTransactions(c)
        PROVE  EpochsAreOwn'
    <2>1. epoch[c] = 0 /\ epoch' = [epoch EXCEPT ![c] = producerEpoch'] /\ producerEpoch' = producerEpoch + 1
      BY <1>2 DEF InitTransactions, EpochsAreOwn, Idle
    <2>2. \A d \in Clients : epoch[d] \in Nat /\ epoch[d] <= producerEpoch
      BY DEF TypeOK, EpochsAreOwn
    <2>3. phase' = [phase EXCEPT ![c] = "initialized"]
      BY <1>2 DEF InitTransactions
    <2> QED BY <2>1, <2>2, <2>3 DEF TypeOK, EpochsAreOwn, Idle
  <1>3. ASSUME NEW c \in Clients, FinishOpen(c)
        PROVE  EpochsAreOwn'
    BY <1>3 DEF TypeOK, EpochsAreOwn, Idle, FinishOpen
  <1>4. ASSUME NEW c \in Clients, CloseWriter(c) \/ AppendFails(c) \/ AppendInDoubt(c)
        PROVE  EpochsAreOwn'
    BY <1>4 DEF TypeOK, EpochsAreOwn, Idle, CloseWriter, AppendFails, AppendInDoubt
  <1>5. ASSUME NEW c \in Clients, Send(c)
        PROVE  EpochsAreOwn'
    BY <1>5 DEF TypeOK, EpochsAreOwn, Idle, Send, Submit
  <1>6. ASSUME NEW t \in transaction, NEW a \in BOOLEAN, Commit(t, a)
        PROVE  EpochsAreOwn'
    <2>1. t.client \in Clients /\ epoch[t.client] # 0
      BY DEF TypeOK, SentInTurn
    <2> QED BY <1>6, <2>1 DEF TypeOK, EpochsAreOwn, Idle, Commit
  <1>7. CASE Abort
    BY <1>7 DEF EpochsAreOwn, Idle, Abort
  <1>8. CASE UNCHANGED writers
    BY <1>8 DEF EpochsAreOwn, Idle, writers
  <1> QED
    BY <1>1, <1>2, <1>3, <1>4, <1>5, <1>6, <1>7, <1>8 DEF Next, ClientNext, BrokerNext

\* What a step that appends nothing leaves alone.
LEMMA SameLog == ASSUME log' = log, NEW c \in Clients PROVE Accepted(c)' = Accepted(c)
  BY DEF Accepted

\* What is in the log was sent by a client under a number.
LEMMA LogEntry ==
    ASSUME TypeOK, NEW i \in DOMAIN log
    PROVE  log[i].client \in Clients /\ log[i].number \in Nat
  <1>1. log[i] \in Records
    BY DEF TypeOK
  <1> QED BY <1>1 DEF Records

\* A producer has at most one record under way, its last.
LEMMA SentStep ==
    ASSUME TypeOK, EpochsAreOwn, SentInTurn, LogInTurn, [Next]_writers
    PROVE  SentInTurn'
  <1>1. ASSUME NEW c \in Clients, BeginOpen(c)
        PROVE  SentInTurn'
    <2>1. phase' = [phase EXCEPT ![c] = "granted"]
          /\ UNCHANGED <<log, producerEpoch, transaction, epoch, sent>>
      BY <1>1 DEF BeginOpen
    <2> QED BY <2>1, SameLog DEF TypeOK, SentInTurn, InflightIsNewest, Unfenced
  <1>2. ASSUME NEW c \in Clients, InitTransactions(c)
        PROVE  SentInTurn'
    <2>1. epoch[c] = 0 /\ sent[c] = 0
      BY <1>2 DEF InitTransactions, EpochsAreOwn, Idle, SentInTurn
    <2> QED BY <1>2, <2>1 DEF TypeOK, SentInTurn, InflightIsNewest, InitTransactions
  <1>3. ASSUME NEW c \in Clients, FinishOpen(c)
        PROVE  SentInTurn'
    BY <1>3, SameLog DEF TypeOK, EpochsAreOwn, SentInTurn, InflightIsNewest, Unfenced, FinishOpen
  <1>4. ASSUME NEW c \in Clients, CloseWriter(c) \/ AppendFails(c) \/ AppendInDoubt(c)
        PROVE  SentInTurn'
    <2>1. phase' = [phase EXCEPT ![c] = "closed"]
          /\ UNCHANGED <<log, producerEpoch, transaction, epoch, sent>>
      BY <1>4 DEF CloseWriter, AppendFails, AppendInDoubt
    <2> QED BY <2>1, SameLog DEF TypeOK, SentInTurn, InflightIsNewest, Unfenced
  <1>5. ASSUME NEW c \in Clients, Send(c)
        PROVE  SentInTurn'
    <2>1. phase[c] = "open" /\ epoch[c] # 0 /\ Accepted(c) = 1..sent[c] /\ Accepted(c)' = Accepted(c)
      BY <1>5, SameLog DEF Send, Submit, EpochsAreOwn, LogInTurn, AcceptedPrefix
    <2>2. sent' = [sent EXCEPT ![c] = @ + 1] /\ phase' = [phase EXCEPT ![c] = "sending"]
          /\ UNCHANGED <<log, producerEpoch, epoch>>
      BY <1>5 DEF Send, Submit
    <2>3. CASE Unfenced(c)
      <3>1. transaction' = {[client |-> c, fact |-> [client |-> c, number |-> sent[c] + 1]]}
        BY <1>5, <2>3 DEF Send, Submit
      <3>2. sent'[c] = sent[c] + 1 /\ sent[c] \in Nat /\ phase'[c] = "sending"
        BY <2>2 DEF TypeOK
      <3>3. \A d \in Clients : epoch[d] = 0 \/ phase'[d] = "initialized" => sent'[d] = 0
        BY <2>1, <2>2 DEF TypeOK, SentInTurn
      <3>4. \A t \in transaction' :
               t.client = c /\ t.fact = [client |-> c, number |-> sent'[c]]
        BY <3>1, <3>2
      <3> QED BY <2>1, <2>2, <2>3, <3>2, <3>3, <3>4 DEF SentInTurn, InflightIsNewest, Unfenced
    <2>4. CASE ~Unfenced(c)
      <3>1. transaction' = transaction
        BY <1>5, <2>4 DEF Send, Submit
      <3>2. \A t \in transaction : t.client # c
        BY <2>4 DEF SentInTurn, InflightIsNewest
      <3> QED BY <2>1, <2>2, <3>1, <3>2, SameLog DEF TypeOK, SentInTurn, InflightIsNewest, Unfenced
    <2> QED BY <2>3, <2>4
  <1>6. ASSUME NEW t \in transaction, NEW a \in BOOLEAN, Commit(t, a)
        PROVE  SentInTurn'
    <2>1. transaction' = {} /\ sent' = sent /\ epoch' = epoch
      BY <1>6 DEF Commit
    <2>2. \A c \in Clients : phase'[c] = "initialized" => phase[c] = "initialized"
      BY <1>6 DEF Commit, TypeOK
    <2> QED BY <2>1, <2>2 DEF SentInTurn, InflightIsNewest
  <1>7. CASE Abort
    BY <1>7 DEF SentInTurn, InflightIsNewest, Abort
  <1>8. CASE UNCHANGED writers
    BY <1>8, SameLog DEF TypeOK, SentInTurn, InflightIsNewest, Unfenced, writers
  <1> QED
    BY <1>1, <1>2, <1>3, <1>4, <1>5, <1>6, <1>7, <1>8 DEF Next, ClientNext, BrokerNext

\* An accepted record is its producer's next one.
LEMMA CommitAppends ==
    ASSUME Ordered, NEW t \in transaction, NEW a \in BOOLEAN, Commit(t, a)
    PROVE  /\ t.client \in Clients /\ t.fact = [client |-> t.client, number |-> sent[t.client]]
           /\ log' = Append(log, t.fact)
           /\ Len(log') = Len(log) + 1 /\ DOMAIN log' = 1..(Len(log) + 1) /\ DOMAIN log = 1..Len(log)
           /\ log'[Len(log) + 1] = t.fact
           /\ \A i \in DOMAIN log : log'[i] = log[i]
           /\ Accepted(t.client)' = 1..sent[t.client]
           /\ \A c \in Clients \ {t.client} : Accepted(c)' = Accepted(c)
  <1>1. t.client \in Clients /\ t.fact = [client |-> t.client, number |-> sent[t.client]]
        /\ log' = Append(log, t.fact) /\ t.fact \in Records
    BY DEF Ordered, TypeOK, SentInTurn, InflightIsNewest, Commit
  <1>2. /\ Len(log') = Len(log) + 1 /\ DOMAIN log' = 1..(Len(log) + 1) /\ DOMAIN log = 1..Len(log)
        /\ log'[Len(log) + 1] = t.fact
        /\ \A i \in DOMAIN log : log'[i] = log[i]
    BY <1>1 DEF Ordered, TypeOK
  <1>3. Len(log) \in Nat
    BY DEF Ordered, TypeOK
  <1>4. ASSUME NEW c \in Clients
        PROVE  Accepted(c)' = Accepted(c) \cup IF c = t.client THEN {sent[c]} ELSE {}
    <2>1. \A i \in DOMAIN log' : i \in DOMAIN log \/ i = Len(log) + 1
      BY <1>2, <1>3
    <2>2. \A i \in DOMAIN log : i \in DOMAIN log' /\ log'[i] = log[i]
      BY <1>2, <1>3
    <2>3. Len(log) + 1 \in DOMAIN log' /\ log'[Len(log) + 1].client = t.client
          /\ log'[Len(log) + 1].number = sent[t.client]
      BY <1>1, <1>2, <1>3
    <2> QED BY <2>1, <2>2, <2>3 DEF Accepted
  <1>5. Accepted(t.client) = 1..(sent[t.client] - 1) /\ sent[t.client] \in Nat \ {0}
    BY <1>1 DEF Ordered, SentInTurn, TypeOK
  <1>6. Accepted(t.client)' = 1..sent[t.client]
    <2>1. \A s \in Nat \ {0} : (1..(s - 1)) \cup {s} = 1..s
      OBVIOUS
    <2>2. Accepted(t.client)' = Accepted(t.client) \cup {sent[t.client]}
      BY <1>1, <1>4
    <2> QED BY <1>5, <2>1, <2>2
  <1>7. \A c \in Clients \ {t.client} : Accepted(c)' = Accepted(c)
    BY <1>4
  <1> QED BY <1>1, <1>2, <1>6, <1>7

\* ... and the log has room for it: no number is larger than its place.
LEMMA NextNumber ==
    ASSUME Ordered, NEW t \in transaction
    PROVE  sent[t.client] \in 1..(Len(log) + 1)
  <1>1. sent[t.client] \in Nat \ {0} /\ Accepted(t.client) = 1..(sent[t.client] - 1) /\ Len(log) \in Nat
        /\ DOMAIN log = 1..Len(log)
    BY DEF Ordered, SentInTurn, TypeOK
  <1>2. CASE sent[t.client] # 1
    <2>1. sent[t.client] - 1 \in Accepted(t.client)
      BY <1>1, <1>2
    <2>2. PICK i \in DOMAIN log : log[i].number = sent[t.client] - 1
      BY <2>1 DEF Accepted
    <2>3. sent[t.client] - 1 \in 1..i
      BY <2>2 DEF Ordered, LogInTurn
    <2> QED BY <1>1, <2>3
  <1> QED BY <1>1, <1>2

\* The record in doubt is the next of its producer and of the newest epoch.
LEMMA CommitInTurn ==
    ASSUME Ordered, NEW t \in transaction, NEW a \in BOOLEAN, Commit(t, a)
    PROVE  LogInTurn'
  <1> DEFINE n == Len(log) + 1
  <1>1. Len(log) \in Nat
    BY DEF Ordered, TypeOK
  <1>2. /\ \A i \in DOMAIN log' : i \in DOMAIN log \/ i = n
        /\ \A i \in DOMAIN log : i < n /\ log'[i] = log[i] /\ i \in Nat
        /\ log'[n].client = t.client /\ log'[n].number = sent[t.client]
        /\ n \in Nat
    <2>1. DOMAIN log = 1..Len(log) /\ DOMAIN log' = 1..(Len(log) + 1) /\ log'[Len(log) + 1] = t.fact
          /\ t.fact = [client |-> t.client, number |-> sent[t.client]]
          /\ \A i \in DOMAIN log : log'[i] = log[i]
      BY CommitAppends
    <2> QED BY <1>1, <2>1
  <1>3. epoch' = epoch /\ sent' = sent /\ epoch[t.client] = producerEpoch /\ epoch[t.client] # 0
    BY DEF Commit, Ordered, SentInTurn, InflightIsNewest, Unfenced
  <1>4. sent[t.client] \in 1..n
    BY NextNumber
  <1> HIDE DEF n
  <1>5. \A i \in DOMAIN log' : epoch'[log'[i].client] # 0 /\ log'[i].number \in 1..i
    BY <1>2, <1>3, <1>4 DEF Ordered, LogInTurn
  <1>6. EpochOrder'
    <2> SUFFICES ASSUME NEW i \in DOMAIN log', NEW j \in DOMAIN log', i < j
                 PROVE  epoch[log'[i].client] <= epoch[log'[j].client]
      BY <1>3 DEF EpochOrder
    <2>1. i \in DOMAIN log
      BY <1>2
    <2>2. CASE j = n
      <3>1. log[i].client \in Clients /\ epoch[log[i].client] <= producerEpoch
        BY <2>1, LogEntry DEF Ordered, EpochsAreOwn
      <3> QED BY <1>2, <1>3, <2>1, <2>2, <3>1 DEF Ordered, EpochsAreOwn
    <2>3. CASE j \in DOMAIN log
      BY <1>2, <2>1, <2>3 DEF Ordered, LogInTurn, EpochOrder
    <2> QED BY <1>2, <2>2, <2>3
  <1>7. ASSUME NEW c \in Clients
        PROVE  /\ Accepted(c)' \in {1..sent'[c], 1..(sent'[c] - 1)}
               /\ phase'[c] = "open" => Accepted(c)' = 1..sent'[c]
    <2>1. CASE c = t.client
      BY <1>3, <2>1, CommitAppends
    <2>2. CASE c # t.client
      <3>1. phase'[c] = phase[c] /\ Accepted(c)' = Accepted(c)
        BY <2>2, CommitAppends DEF Commit, Ordered, TypeOK
      <3> QED BY <1>3, <3>1 DEF Ordered, LogInTurn, AcceptedPrefix
    <2> QED BY <2>1, <2>2
  <1>8. ASSUME NEW i \in DOMAIN log', NEW j \in DOMAIN log', i < j, log'[i].client = log'[j].client
        PROVE  log'[i].number < log'[j].number
    <2>1. i \in DOMAIN log
      BY <1>2, <1>8
    <2>2. CASE j = n
      <3>1. log[i].client = t.client
        BY <1>2, <1>8, <2>1, <2>2
      <3>2. log[i].number \in Accepted(t.client)
        BY <2>1, <3>1 DEF Accepted
      <3>3. Accepted(t.client) = 1..(sent[t.client] - 1) /\ sent[t.client] \in Nat
        BY CommitAppends DEF Ordered, SentInTurn, TypeOK
      <3> QED BY <1>2, <2>1, <2>2, <3>2, <3>3
    <2>3. CASE j \in DOMAIN log
      <3>1. log[i].client = log[j].client /\ log[i].client \in Clients
        BY <1>2, <1>8, <2>1, <2>3, LogEntry DEF Ordered
      <3> QED BY <1>2, <1>8, <2>1, <2>3, <3>1 DEF Ordered, LogInTurn, AcceptedPrefix
    <2> QED BY <1>2, <2>2, <2>3
  <1>9. AcceptedPrefix'
    BY <1>7, <1>8 DEF AcceptedPrefix
  <1> QED BY <1>5, <1>6, <1>9 DEF LogInTurn

\* The log keeps its order and its prefixes in every step.
LEMMA LogStep == ASSUME Ordered, [Next]_writers PROVE LogInTurn'
  <1>1. ASSUME NEW c \in Clients, InitTransactions(c)
        PROVE  LogInTurn'
    <2>1. \A i \in DOMAIN log : log[i].client \in Clients /\ log[i].client # c
      <3>1. epoch[c] = 0
        BY <1>1 DEF Ordered, EpochsAreOwn, Idle, InitTransactions
      <3> QED BY <3>1, LogEntry DEF Ordered, LogInTurn
    <2>2. log' = log /\ sent' = sent /\ phase' = [phase EXCEPT ![c] = "initialized"]
          /\ epoch' = [epoch EXCEPT ![c] = producerEpoch + 1]
      BY <1>1 DEF InitTransactions
    <2>3. \A i \in DOMAIN log : epoch'[log'[i].client] = epoch[log[i].client]
      BY <2>1, <2>2 DEF Ordered, TypeOK
    <2>4. EpochOrder' /\ \A i \in DOMAIN log' : epoch'[log'[i].client] # 0 /\ log'[i].number \in 1..i
      BY <2>2, <2>3 DEF Ordered, LogInTurn, EpochOrder
    <2>5. AcceptedPrefix'
      BY <2>2, SameLog DEF Ordered, TypeOK, LogInTurn, AcceptedPrefix
    <2> QED BY <2>4, <2>5 DEF LogInTurn
  <1>2. ASSUME NEW c \in Clients, FinishOpen(c)
        PROVE  LogInTurn'
    <2>1. UNCHANGED <<log, epoch, sent>> /\ phase' = [phase EXCEPT ![c] = "open"] /\ sent[c] = 0
      BY <1>2 DEF FinishOpen, Ordered, SentInTurn
    <2>2. Accepted(c) = 1..sent[c]
      <3>1. 1..0 = {} /\ 1..(0 - 1) = {}
        OBVIOUS
      <3> QED BY <2>1, <3>1 DEF Ordered, LogInTurn, AcceptedPrefix
    <2> QED BY <2>1, <2>2, SameLog DEF Ordered, TypeOK, LogInTurn, EpochOrder, AcceptedPrefix
  <1>3. ASSUME NEW c \in Clients, BeginOpen(c) \/ CloseWriter(c) \/ AppendFails(c) \/ AppendInDoubt(c)
        PROVE  LogInTurn'
    <2>1. UNCHANGED <<log, epoch, sent>> /\ \E p \in {"granted", "closed"} : phase' = [phase EXCEPT ![c] = p]
      BY <1>3 DEF BeginOpen, CloseWriter, AppendFails, AppendInDoubt
    <2> QED BY <2>1, SameLog DEF Ordered, TypeOK, LogInTurn, EpochOrder, AcceptedPrefix
  <1>4. ASSUME NEW c \in Clients, Send(c)
        PROVE  LogInTurn'
    <2>1. UNCHANGED <<log, epoch>> /\ sent' = [sent EXCEPT ![c] = @ + 1]
          /\ phase' = [phase EXCEPT ![c] = "sending"] /\ phase[c] = "open"
      BY <1>4 DEF Send, Submit
    <2>2. Accepted(c) = 1..sent[c] /\ sent[c] \in Nat
      BY <2>1 DEF Ordered, TypeOK, LogInTurn, AcceptedPrefix
    <2>3. ASSUME NEW d \in Clients
          PROVE  /\ Accepted(d)' \in {1..sent'[d], 1..(sent'[d] - 1)}
                 /\ phase'[d] = "open" => Accepted(d)' = 1..sent'[d]
      <3>1. Accepted(d)' = Accepted(d)
        BY <2>1, SameLog
      <3>2. CASE d = c
        <4>1. sent'[c] - 1 = sent[c] /\ phase'[c] = "sending"
          BY <2>1, <2>2 DEF Ordered, TypeOK
        <4> QED BY <2>2, <3>1, <3>2, <4>1
      <3>3. CASE d # c
        BY <2>1, <3>1, <3>3 DEF Ordered, TypeOK, LogInTurn, AcceptedPrefix
      <3> QED BY <3>2, <3>3
    <2>4. AcceptedPrefix'
      BY <2>1, <2>3 DEF Ordered, LogInTurn, AcceptedPrefix
    <2> QED BY <2>1, <2>4 DEF Ordered, LogInTurn, EpochOrder
  <1>5. ASSUME NEW t \in transaction, NEW a \in BOOLEAN, Commit(t, a)
        PROVE  LogInTurn'
    BY <1>5, CommitInTurn
  <1>6. CASE Abort \/ UNCHANGED writers
    <2>1. UNCHANGED <<log, epoch, sent, phase>>
      BY <1>6 DEF Abort, writers
    <2> QED BY <2>1, SameLog DEF Ordered, LogInTurn, EpochOrder, AcceptedPrefix
  <1> QED
    BY <1>1, <1>2, <1>3, <1>4, <1>5, <1>6 DEF Next, ClientNext, BrokerNext

\* Epochs, numbers and log keep their order (#open and append of
\* kafka-session-writer.ts): the invariant the theorems below are read off.
THEOREM OrderedHolds == Spec => []Ordered
  <1>1. Init => Ordered
    <2> SUFFICES ASSUME Init PROVE Ordered
      OBVIOUS
    <2>1. DOMAIN log = {} /\ TypeOK
      BY DEF Init, WritersInit, TypeOK, Phase, Records
    <2>2. \A c \in Clients : Accepted(c) = {} /\ sent[c] = 0 /\ phase[c] = "idle" /\ epoch[c] = 0
      BY <2>1 DEF Accepted, Init, WritersInit
    <2>3. 1..0 = {}
      OBVIOUS
    <2>4. EpochsAreOwn /\ SentInTurn
      BY <2>1, <2>2 DEF Init, WritersInit, EpochsAreOwn, Idle, SentInTurn, InflightIsNewest
    <2>5. LogInTurn
      BY <2>1, <2>2, <2>3 DEF LogInTurn, EpochOrder, AcceptedPrefix
    <2> QED BY <2>1, <2>4, <2>5 DEF Ordered
  <1>2. Ordered /\ [Next]_writers => Ordered'
    BY TypeStep, EpochsStep, SentStep, LogStep DEF Ordered
  <1> QED BY <1>1, <1>2, PTL DEF Spec

\* Of the records given to one producer a prefix is accepted, each once and in
\* order, and only the last may be in doubt (append and #tail of
\* kafka-session-writer.ts).
THEOREM AcceptedPrefixHolds == Spec => []AcceptedPrefix
  <1>1. Ordered => AcceptedPrefix
    BY DEF Ordered, LogInTurn
  <1> QED BY <1>1, OrderedHolds, PTL

\* What initTransactions fenced never lands behind a record of the producer that
\* fenced it, and the broker holds no transaction but the newest producer's.
THEOREM FencedForGood == Spec => [](EpochOrder /\ InflightIsNewest)
  <1>1. Ordered => EpochOrder /\ InflightIsNewest
    BY DEF Ordered, LogInTurn, SentInTurn
  <1> QED BY <1>1, OrderedHolds, PTL

-----------------------------------------------------------------------------
(* The refinement of FencedLog.                                              *)

\* The client that holds the newest epoch is the owner of the abstract log.
LEMMA OwnerIs ==
    ASSUME Ordered, NEW c \in Clients, epoch[c] = producerEpoch, epoch[c] # 0
    PROVE  Owner = c
  BY DEF Ordered, EpochsAreOwn, Owner

\* There is an owner as soon as one init has happened.
LEMMA OwnerOwns ==
    ASSUME Ordered
    PROVE  /\ producerEpoch = 0 => Owner = NoOwner
           /\ producerEpoch # 0 => Owner \in Clients /\ epoch[Owner] = producerEpoch
  BY DEF Ordered, EpochsAreOwn, Owner

\* initTransactions is the abstract takeover.
LEMMA TakeOverStep ==
    ASSUME Ordered, Ordered', NEW c \in Clients, InitTransactions(c)
    PROVE  Fenced!TakeOver(c)
  <1>1. epoch[c] = 0 /\ epoch' = [epoch EXCEPT ![c] = producerEpoch'] /\ log' = log
        /\ producerEpoch' = producerEpoch + 1 /\ producerEpoch \in Nat /\ epoch \in [Clients -> Nat]
    BY DEF InitTransactions, Ordered, TypeOK, EpochsAreOwn, Idle
  <1>2. Owner' = c
    <2>1. epoch'[c] = producerEpoch' /\ producerEpoch' # 0
      BY <1>1
    <2> QED BY <2>1 DEF Ordered, EpochsAreOwn, Owner
  <1>3. c # Owner /\ c \notin Retired
    BY <1>1, OwnerOwns, ProducersAssumption DEF Retired
  <1>4. Retired' = Retired \cup ({Owner} \ {NoOwner})
    <2>1. ASSUME NEW d \in Clients
          PROVE  d \in Retired' <=> d \in Retired \/ d \in {Owner} \ {NoOwner}
      <3>1. epoch'[d] # 0 /\ epoch'[d] # producerEpoch' <=> epoch[d] # 0 /\ d # c
        BY <1>1 DEF Ordered, EpochsAreOwn
      <3>2. epoch[d] # 0 /\ epoch[d] = producerEpoch <=> d = Owner
        BY OwnerOwns, OwnerIs, ProducersAssumption
      <3> QED BY <1>1, <3>1, <3>2, ProducersAssumption DEF Retired
    <2>2. {Owner} \ {NoOwner} \subseteq Clients /\ Retired \subseteq Clients /\ Retired' \subseteq Clients
      BY OwnerOwns DEF Retired
    <2> QED BY <2>1, <2>2
  <1> QED BY <1>1, <1>2, <1>3, <1>4 DEF Fenced!TakeOver

\* A committed record is the abstract write of its owner.
LEMMA WriteStep ==
    ASSUME Ordered, NEW t \in transaction, NEW a \in BOOLEAN, Commit(t, a)
    PROVE  /\ t.client \in Clients /\ sent[t.client] \in 1..(Len(log) + 1)
           /\ Fenced!Write(t.client, sent[t.client])
  <1>1. t.client \in Clients /\ log' = Append(log, [client |-> t.client, number |-> sent[t.client]])
    BY CommitAppends
  <1>2. Owner = t.client
    BY <1>1, OwnerIs DEF Ordered, SentInTurn, InflightIsNewest, Unfenced
  <1>3. Owner' = Owner /\ Retired' = Retired
    BY DEF Commit, Owner, Retired
  <1>4. \A k \in Nat : k \in Accepted(t.client) <=> \E i \in Fenced!Written(t.client) : log[i].number = k
    BY DEF Accepted, Fenced!Written
  <1>5. Accepted(t.client) = 1..(sent[t.client] - 1) /\ sent[t.client] \in Nat
    BY <1>1 DEF Ordered, SentInTurn, TypeOK
  <1>6. Fenced!IsNext(t.client, sent[t.client])
    BY <1>4, <1>5 DEF Fenced!IsNext
  <1> QED BY <1>1, <1>2, <1>3, <1>6, NextNumber DEF Fenced!Write

\* The producers of one Session implement a log with one owner at a time: taking
\* over is final, only the owner appends, and what it appends has no gap.
THEOREM ImplementsFencedLogHolds == Spec => ImplementsFencedLog
  <1>1. Init => Fenced!Init
    BY DEF Init, WritersInit, Fenced!Init, Owner, Retired
  <1>2. ASSUME Ordered, Ordered', [Next]_writers
        PROVE  [Fenced!Next]_<<log, Owner, Retired>>
    <2>1. ASSUME NEW c \in Clients, InitTransactions(c)
          PROVE  Fenced!Next
      BY <1>2, <2>1, TakeOverStep DEF Fenced!Next
    <2>2. ASSUME NEW t \in transaction, NEW a \in BOOLEAN, Commit(t, a)
          PROVE  Fenced!Next
      BY <1>2, <2>2, WriteStep DEF Fenced!Next
    <2>3. ASSUME UNCHANGED <<log, producerEpoch, epoch>>
          PROVE  UNCHANGED <<log, Owner, Retired>>
      BY <2>3 DEF Owner, Retired
    <2>4. ASSUME NEW c \in Clients, BeginOpen(c) \/ FinishOpen(c) \/ CloseWriter(c)
                                    \/ Send(c) \/ AppendFails(c) \/ AppendInDoubt(c)
          PROVE  UNCHANGED <<log, producerEpoch, epoch>>
      BY <2>4 DEF BeginOpen, FinishOpen, CloseWriter, Send, Submit, AppendFails, AppendInDoubt
    <2>5. CASE Abort \/ UNCHANGED writers
      BY <2>3, <2>5 DEF Abort, writers
    <2> QED BY <1>2, <2>1, <2>2, <2>3, <2>4, <2>5 DEF Next, ClientNext, BrokerNext
  <1> QED BY <1>1, <1>2, OrderedHolds, PTL DEF Spec, ImplementsFencedLog, Fenced!Spec

=============================================================================
