-------------------------------- MODULE Engine --------------------------------
(***************************************************************************)
(* What the scheduler process promises the rest of the serve: the contract *)
(* between its two queues.  Scheduler implements it (SchedulerContract     *)
(* gives the mapping) and RequestFlow composes the frontend and the        *)
(* tokenizer workers with it.                                              *)
(***************************************************************************)
EXTENDS Naturals, FiniteSets

CONSTANT Uids

VARIABLES
    stage,              \* absent: not received; held: to be served; closing: aborted, with a
                        \* token perhaps still on the device; ended: out of every manager
    tombstones,         \* _abort_tombstones
    pending_abort_acks, \* aborts received and not yet acknowledged
    admitted,           \* requests whose PromptAdmittedMsg has been sent
    emitted,            \* DetokenizeMsgs sent for each request
    queued_rebuild      \* a rebuild waits for the scheduler to be idle

engine == <<stage, tombstones, pending_abort_acks, admitted, emitted, queued_rebuild>>

Init ==
    /\ stage = [u \in Uids |-> "absent"]
    /\ tombstones = {}
    /\ pending_abort_acks = {}
    /\ admitted = {}
    /\ emitted = [u \in Uids |-> 0]
    /\ queued_rebuild = FALSE

HeldRequests == {u \in Uids : stage[u] = "held"}

\* A UserMsg is dropped with its tombstone when the abort overtook it ...
UserDropped(u) ==
    /\ stage[u] = "absent" /\ u \in tombstones
    /\ tombstones' = tombstones \ {u}
    /\ stage' = [stage EXCEPT ![u] = "ended"]
    /\ UNCHANGED <<pending_abort_acks, admitted, emitted, queued_rebuild>>

\* ... answered with an error when its prompt is too long ...
UserRejected(u) ==
    /\ stage[u] = "absent" /\ u \notin tombstones
    /\ stage' = [stage EXCEPT ![u] = "ended"]
    /\ UNCHANGED <<tombstones, pending_abort_acks, admitted, emitted, queued_rebuild>>

\* ... and queued otherwise.
UserQueued(u) ==
    /\ stage[u] = "absent" /\ u \notin tombstones
    /\ stage' = [stage EXCEPT ![u] = "held"]
    /\ UNCHANGED <<tombstones, pending_abort_acks, admitted, emitted, queued_rebuild>>

\* An abort leaves a tombstone, takes the request out of every manager, and
\* will be acknowledged whether or not there was a request.  A request whose
\* output budget is spent has already left the running set: its last token is
\* still published, ahead of the acknowledgement.
AbortReceived(u) ==
    /\ tombstones' = tombstones \cup {u}
    /\ pending_abort_acks' = pending_abort_acks \cup {u}
    /\ stage' = [stage EXCEPT ![u] = IF @ # "held" THEN @
                                       ELSE IF u \in admitted THEN "closing" ELSE "ended"]
    /\ UNCHANGED <<admitted, emitted, queued_rebuild>>

\* The first prefill of some requests is launched: PromptAdmittedMsg.
PromptsAdmitted(S) ==
    /\ S # {} /\ S \subseteq HeldRequests \ admitted
    /\ admitted' = admitted \cup S
    /\ UNCHANGED <<stage, tombstones, pending_abort_acks, emitted, queued_rebuild>>

\* The end of an iteration: a token for each request of S, the last one for
\* those of F, then every pending acknowledgement.
Published(S, F) ==
    /\ S \subseteq {u \in admitted : stage[u] \in {"held", "closing"}} /\ F \subseteq S
    /\ emitted' = [u \in Uids |-> emitted[u] + (IF u \in S THEN 1 ELSE 0)]
    /\ stage' = [u \in Uids |-> IF u \in F \/ stage[u] = "closing" THEN "ended" ELSE stage[u]]
    /\ pending_abort_acks' = {}
    /\ UNCHANGED <<tombstones, admitted, queued_rebuild>>

\* A rebuild that meets work is answered busy; otherwise it is queued, to be
\* executed when nothing is held.
RebuildBusy ==
    /\ HeldRequests # {}
    /\ UNCHANGED engine

RebuildQueued ==
    /\ ~queued_rebuild
    /\ queued_rebuild' = TRUE
    /\ UNCHANGED <<stage, tombstones, pending_abort_acks, admitted, emitted>>

RebuildExecuted ==
    /\ queued_rebuild /\ HeldRequests = {}
    /\ queued_rebuild' = FALSE
    /\ UNCHANGED <<stage, tombstones, pending_abort_acks, admitted, emitted>>

Next ==
    \/ \E u \in Uids :
         \/ UserDropped(u) \/ UserRejected(u) \/ UserQueued(u) \/ AbortReceived(u)
    \/ \E S \in SUBSET Uids :
         \/ PromptsAdmitted(S)
         \/ \E F \in SUBSET S : Published(S, F)
    \/ RebuildQueued \/ RebuildExecuted

Spec == Init /\ [][Next]_engine
==============================================================================
