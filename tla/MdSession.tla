----------------------------- MODULE MdSession -----------------------------
(***************************************************************************)
(* The market-data session that the CSV recorder, the arbitrage recorder   *)
(* and the live process each keep with the CTP front.  The main thread     *)
(* connects: it waits, with a time limit, for flags which callbacks of the *)
(* CTP thread set, and then subscribes.  A callback may come after the     *)
(* wait was given up, because a failed connect keeps its API object.       *)
(* The definitions are those of the CSV recorder; the other two modules    *)
(* name the copies in their programs.  Message texts are left out but for  *)
(* the three kinds of error that a caller tells apart.                     *)
(***************************************************************************)
EXTENDS Integers

CONSTANTS
    ReconnectEnabled,  \* reconnect_enabled
    Limits,            \* values of reconnect_max_attempts, 0 for no limit
    Batches,           \* SubscribeMarketData calls of one subscription
    MaxTicks,          \* bound on the ticks the front sends
    MaxTrouble         \* bound: time-outs, refusals, drops, failures

ASSUME ReconnectAssumption == ReconnectEnabled \in BOOLEAN
ASSUME LimitsAssumption == Limits \subseteq Nat
ASSUME BoundsAssumption == MaxTicks \in Nat /\ MaxTrouble \in Nat /\ Batches \in Nat \ {0}

VARIABLES
    md,      \* the session's fields, and what the front knows of it
    step,    \* where the main thread stands in ensure_ready and connect
    phase,   \* the program around it
    trouble  \* how often something went wrong

sessionVars == <<md, step, phase, trouble>>

Session == [api : BOOLEAN, front : BOOLEAN, login : BOOLEAN, ready : BOOLEAN,
            error : {"none", "dropped", "refused"},   \* last_error_
            asked : BOOLEAN,             \* a login request is unanswered (external)
            subscribed : 0 .. Batches,   \* calls the front accepted on this API object
            attempts : Nat, limit : Limits,
            resting : BOOLEAN]           \* less than the retry interval since the last attempt

Outcomes == {"connected", "gave_up", "refused"}
Steps == {"idle", "connect", "front", "login", "check", "subscribe"} \union Outcomes
Phases == {"startup", "waiting", "running", "stopping", "draining", "stopped", "failed"}

NoSession(limit) ==
             [api |-> FALSE, front |-> FALSE, login |-> FALSE, ready |-> FALSE,
              error |-> "none", asked |-> FALSE, subscribed |-> 0,
              attempts |-> 0, limit |-> limit, resting |-> FALSE]

SessionInit ==
    /\ \E limit \in Limits : md = NoSession(limit)
    /\ phase = "startup"
    /\ trouble = 0

SessionTypeOK ==
    /\ md \in Session /\ step \in Steps /\ phase \in Phases
    /\ trouble \in 0 .. MaxTrouble

KeepSession == UNCHANGED sessionVars

Trouble == trouble < MaxTrouble /\ trouble' = trouble + 1

\* disconnect() detaches the callbacks, then releases the API object.
Released(session) ==
    [session EXCEPT !.api = FALSE, !.front = FALSE, !.login = FALSE, !.ready = FALSE,
                    !.asked = FALSE]

Created(session) ==
    [Released(session) EXCEPT !.api = TRUE, !.error = "none", !.subscribed = 0]

\* In the loop the outcome of an attempt is only logged.
Return(outcome) == step' = IF phase = "running" THEN "idle" ELSE outcome

\* The messages of a time-out and of a dropped front are the retryable ones.
ConnectFails == Return(IF md.error = "refused" THEN "refused" ELSE "gave_up")

-----------------------------------------------------------------------------
(* The main thread.                                                        *)

MayAttempt == ReconnectEnabled /\ (md.limit = 0 \/ md.attempts < md.limit)

EnsureReadyAfterDrop ==
    /\ phase \in {"waiting", "running"} /\ step = "idle"
    /\ md.error = "dropped" /\ MayAttempt /\ ~md.resting
    /\ md' = [md EXCEPT !.attempts = @ + 1, !.resting = TRUE]
    /\ step' = "connect"
    /\ UNCHANGED <<phase, trouble>>

EnsureReady ==
    /\ phase \in {"waiting", "running"} /\ step = "idle"
    /\ ~md.ready /\ MayAttempt /\ ~md.resting
    /\ md' = [md EXCEPT !.attempts = @ + 1, !.resting = TRUE]
    /\ step' = "connect"
    /\ UNCHANGED <<phase, trouble>>

StartConnect ==
    /\ step = "connect"
    /\ md' = Created(md)
    /\ step' = "front"
    /\ UNCHANGED <<phase, trouble>>

CreateFails ==
    /\ step = "connect" /\ Trouble
    /\ md' = Released(md)
    /\ Return("refused")
    /\ UNCHANGED phase

FrontAwaited ==
    /\ step = "front" /\ md.front
    /\ md' = [md EXCEPT !.asked = TRUE]
    /\ step' = "login"
    /\ UNCHANGED <<phase, trouble>>

LoginAwaited ==
    /\ step = "login" /\ md.login
    /\ step' = "check"
    /\ UNCHANGED <<md, phase, trouble>>

\* A wait that is given up leaves the API object and its callbacks in place.
\* A login request that a drop of the front swallowed can only time out.
WaitTimesOut ==
    /\ \/ step = "front" /\ ~md.front
       \/ step = "login" /\ ~md.login
    /\ IF step = "login" /\ ~md.asked THEN UNCHANGED trouble ELSE Trouble
    /\ ConnectFails
    /\ UNCHANGED <<md, phase>>

\* ready() is read after the wait, under the mutex again.
CheckReady ==
    /\ step = "check"
    /\ IF md.ready THEN step' = "subscribe" ELSE ConnectFails
    /\ UNCHANGED <<md, phase, trouble>>

\* Only the first call is guarded by ready_.
MaySubscribe == md.ready \/ md.subscribed > 0

SubscribeBatch ==
    /\ step = "subscribe" /\ md.subscribed < Batches /\ MaySubscribe
    /\ md' = [md EXCEPT !.subscribed = @ + 1]
    /\ UNCHANGED <<step, phase, trouble>>

SubscribeFails ==
    /\ step = "subscribe" /\ md.subscribed < Batches
    /\ IF md.front /\ MaySubscribe THEN Trouble ELSE UNCHANGED trouble
    /\ Return("refused")
    /\ UNCHANGED <<md, phase>>

FinishConnect ==
    /\ step = "subscribe" /\ md.subscribed = Batches
    /\ md' = [md EXCEPT !.attempts = 0, !.error = "none"]
    /\ Return("connected")
    /\ UNCHANGED <<phase, trouble>>

Connect ==
    \/ StartConnect \/ CreateFails \/ FrontAwaited \/ LoginAwaited \/ WaitTimesOut
    \/ CheckReady \/ SubscribeBatch \/ SubscribeFails \/ FinishConnect

Rested ==
    /\ md.resting
    /\ md' = [md EXCEPT !.resting = FALSE]
    /\ UNCHANGED <<step, phase, trouble>>

-----------------------------------------------------------------------------
(* Callbacks of the CTP thread.                                            *)

\* The API reconnects by itself after a drop; nobody logs in again then.
OnFrontConnected ==
    /\ md.api /\ ~md.front
    /\ md' = [md EXCEPT !.front = TRUE]
    /\ UNCHANGED <<step, phase, trouble>>

OnFrontDisconnected ==
    /\ md.front /\ Trouble
    /\ md' = [md EXCEPT !.front = FALSE, !.login = FALSE, !.ready = FALSE,
                        !.error = "dropped", !.asked = FALSE]
    /\ UNCHANGED <<step, phase>>

OnRspUserLogin ==
    /\ md.asked
    /\ \/ /\ md' = [md EXCEPT !.ready = TRUE, !.login = TRUE, !.asked = FALSE]
          /\ UNCHANGED trouble
       \/ /\ md' = [md EXCEPT !.ready = FALSE, !.login = TRUE, !.asked = FALSE,
                              !.error = "refused"]
          /\ Trouble
    /\ UNCHANGED <<step, phase>>

\* OnRspError and a refused OnRspSubMarketData only keep the message.
OnRspError ==
    /\ md.front /\ Trouble
    /\ md' = [md EXCEPT !.error = "refused"]
    /\ UNCHANGED <<step, phase>>

Callback == OnFrontConnected \/ OnFrontDisconnected \/ OnRspUserLogin \/ OnRspError

SessionNext == EnsureReady \/ Connect \/ Rested \/ Callback

\* The loop runs, the waits end by the flag or by the clock, and the front
\* answers what it received; it need not answer within the time limit.
SessionFairness ==
    /\ WF_sessionVars(EnsureReady)
    /\ WF_sessionVars(Connect)
    /\ WF_sessionVars(Rested)
    /\ WF_sessionVars(OnFrontConnected)
    /\ WF_sessionVars(OnRspUserLogin)

\* A program that runs and is not connected is connected again, or stops,
\* or has used up the attempts its configuration allows.
SessionReturns ==
    (phase = "running" /\ ~md.ready) ~>
        (md.ready \/ phase # "running" \/ ~MayAttempt)
=============================================================================
