-------------------------- MODULE MCControlCenter --------------------------
(* Model-checking instance of the control center.  Its parts have a mutex    *)
(* each and share no state, so a behaviour is one of one of them: the        *)
(* instance explores their sum, not their product.                           *)
EXTENDS ReplayJobs, StateStream, RecorderControl, LiveRuntimes

CONSTANTS Parts, x, y

VARIABLE part

mcVars == <<jobVars, streamVars, controlVars, runtimeVars, part>>

MCRuns == {<<"a", {}>>, <<"a", {x, y}>>, <<"a", {y}>>, <<"b", {}>>}
MCByHand == {<<"a", {}>>}

StreamIdle ==
    /\ content = [s \in Sources |-> 1]
    /\ stream = [pc |-> "marker", left |-> Sources, current |-> Unread, previous |-> Unread,
                 built |-> Unread, view |-> content, signal |-> FALSE]

MCInit ==
    /\ part \in Parts
    /\ JobsInit /\ ControlInit /\ RuntimesInit
    /\ IF part = "stream" THEN StreamInit ELSE StreamIdle

Jobs(A) == part = "jobs" /\ A /\ UNCHANGED <<streamVars, controlVars, runtimeVars, part>>
Browser(A) == part = "stream" /\ A /\ UNCHANGED <<jobVars, controlVars, runtimeVars, part>>
Recorder(A) == part = "recorder" /\ A /\ UNCHANGED <<jobVars, streamVars, runtimeVars, part>>
Runtimes(A) == part = "runtimes" /\ A /\ UNCHANGED <<jobVars, streamVars, controlVars, part>>

MCNext == Jobs(JobsNext) \/ Browser(StreamNext) \/ Recorder(ControlNext) \/ Runtimes(RuntimesNext)

MCFairness == WF_mcVars(Browser(Stream))

MCSpec == MCInit /\ [][MCNext]_mcVars /\ MCFairness
=============================================================================
