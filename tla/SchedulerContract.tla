-------------------------- MODULE SchedulerContract --------------------------
(* Scheduler implements Engine.                                            *)
EXTENDS SchedulerInvariant

\* Where a request is, as the rest of the serve can tell: its UserMsg is still
\* to come, it is served, its abort came in after its admission and waits for
\* the acknowledgement, or it is over.
StageOf(u) ==
    IF u \in inbox.user THEN "absent"
    ELSE IF u \in out.finished \cup out.error THEN "ended"
    ELSE IF u \in inbox.abort THEN "held"
    ELSE IF u \in pending_abort_acks /\ out.admitted[u] > 0 THEN "closing"
    ELSE "ended"
ContractStage == [u \in Uids |-> StageOf(u)]

Contract == INSTANCE Engine WITH
    stage          <- ContractStage,
    admitted       <- {u \in Uids : out.admitted[u] > 0},
    emitted        <- [u \in Uids |-> Len(out.tokens[u])],
    queued_rebuild <- pending_rebuild # NoRebuild

\* The scheduler promises no more and no less than the contract says of
\* tombstones, acknowledgements, admissions, tokens and rebuilds: in particular
\* that at most one token leaves after an abort came in and none after its
\* acknowledgement, that an iteration's tokens leave in one step with its
\* acknowledgements behind them, and that a rebuild waits until no request is
\* held.
EngineSpec == Contract!Spec

-----------------------------------------------------------------------------
(* What ControlInv leaves open of the messages sent: the inductive         *)
(* invariant behind EngineSpec.                                            *)

OutTypes == out.tokens \in [Uids -> Seq(Vocab)] /\ out.admitted \in [Uids -> Nat]

\* The reply list exists while a batch is drained; it has at most one reply for
\* a request, which had not ended before and is not visited again.
RepliesOK ==
    /\ pc # "drain" => reply = <<>>
    /\ Distinct(reply)
    /\ \A i \in 1 .. Len(reply) :
         /\ req[reply[i].uid].n > 0
         /\ reply[i].uid \notin out.finished \cup out.error \cup out.acked
         /\ reply[i].finished => ~Held(reply[i].uid)
         /\ \A j \in 1 .. Len(drain) : drain[j].uid # reply[i].uid

\* A request is reported admitted once, at the launch of its first chunk.
Fresh(u) == Planning /\ \E i \in 1 .. Len(adder.reqs) : adder.reqs[i].uid = u /\ adder.reqs[i].fresh
AdmittedOK ==
    \A u \in Uids : out.admitted[u] = IF req[u].n = 0 \/ Fresh(u) THEN 0 ELSE 1

\* A request with an error was never queued, one that finished holds nothing.
EndedOK ==
    /\ \A u \in out.error : req[u].n = 0 /\ ~Queued(u) /\ u \notin inbox.user
    /\ \A u \in out.finished : req[u].n > 0 /\ ~Held(u)

\* An abort received is pending or acknowledged; tombstones and marks are of
\* requests whose abort was received.
AbortsOK ==
    \A u \in Uids :
        /\ u \in inbox.abort <=> u \notin pending_abort_acks \cup out.acked
        /\ req[u].aborted \/ u \in tombstones => u \notin inbox.abort

\* A request nobody aborted has not arrived, is over, is queued, holds a row, or
\* has its last reply on the list: it is never forgotten.
ServedOK ==
    \A u \in inbox.abort :
        \/ u \in inbox.user \cup out.finished \cup out.error
        \/ Queued(u) \/ Held(u)
        \/ \E i \in 1 .. Len(reply) : reply[i].uid = u /\ reply[i].finished

\* The rebuild received last is answered or queued.
RebuildsOK ==
    inbox.rebuilds = out.rebuilds + (IF pending_rebuild = NoRebuild THEN 0 ELSE 1)

ContractInv ==
    /\ OutTypes /\ RepliesOK /\ AdmittedOK /\ EndedOK /\ AbortsOK /\ ServedOK /\ RebuildsOK
==============================================================================
