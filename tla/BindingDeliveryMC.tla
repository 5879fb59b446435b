------------------------- MODULE BindingDeliveryMC -------------------------
(* An instance of BindingRevocation for TLC to check liveness in.  It looks  *)
(* at two courses of events; the instance that has the partition, and keeps  *)
(* or regains it, tells them apart.                                          *)
EXTENDS BindingRevocation, TLC

CONSTANTS i1, i2

\* A publication across a handover of the partition: changes of every kind, one
\* relay and one publication at a time, and the member that loses the partition
\* gets it back.
HandingOver ==
    /\ holder = i1 /\ holder' = i1
    /\ Cardinality(requests') <= 1 /\ \A q \in requests' : q.by # i2
    /\ Len(outbox') < MaxVersion

Quiet == requests = {} /\ unpublished = <<>>

\* Publications that compete: two relays and the caller that registered the
\* binding, two publications at a time and rows out of the order of their
\* versions.  Records are consumed when nothing is left to publish.
Competing ==
    /\ holder = i2 /\ generation' = 1
    /\ UNCHANGED <<pos, consumer>> \/ Quiet
    /\ RevokeAllocation \/ status' \in {"open", status}
    /\ \A c \in Callers : caller'[c].call # "close"
    /\ Len(outbox') = Len(outbox) \/ \A c \in Callers : caller[c].pc = "idle"

\* The steps TLC looks at.
InCourse == HandingOver \/ Competing

\* What a course leaves out is not owed in it.
CourseFairness ==
    /\ \A v \in Versions :
         /\ WF_vars((\E i \in Instances : Claim(i, v)) /\ InCourse)
         /\ WF_vars(ClaimLapses(v) /\ InCourse)
    /\ \A c \in Callers :
         WF_vars(FlushSelect(c) /\ InCourse) /\ WF_vars(FlushSend(c) /\ InCourse)
    /\ \A v \in Versions, p \in Publishers \cup {Nobody} :
         WF_vars(Proceeds(v, p) /\ InCourse)
    /\ \A i \in Instances :
         /\ WF_vars(Revoked(i) /\ InCourse) /\ WF_vars(Assign(i) /\ InCourse)
         /\ WF_vars(Load(i) /\ InCourse) /\ WF_vars(ConsumeKnown(i) /\ InCourse)
         /\ WF_vars(ConsumeRead(i) /\ InCourse) /\ WF_vars(ConsumeApply(i) /\ InCourse)

DeliverySpec == Spec /\ CourseFairness
=============================================================================
