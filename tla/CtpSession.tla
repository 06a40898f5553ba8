----------------------------- MODULE CtpSession -----------------------------
(***************************************************************************)
(* How live accounts get and lose the right to trade.  The main thread     *)
(* connects the accounts one after another, compares their positions with  *)
(* the broker and then loops: an account whose gateway is not ready is     *)
(* reconnected or paused, and after a reconnect all accounts are compared  *)
(* again.  connect() sends one request after another and waits, with a     *)
(* time limit, for flags that the callbacks of the CTP thread set under the *)
(* gateway's mutex; a callback may come after the wait was given up.       *)
(* The text of errors and stages and the order-ref sequence that a login   *)
(* seeds are left out.                                                     *)
(***************************************************************************)
EXTENDS Integers

CONSTANTS
    Accounts,
    NeedsAuth,         \* auth_code and app_id are configured
    ReconnectEnabled,  \* reconnect_enabled
    MaxAttempts,       \* reconnect_max_attempts, 0 for no limit
    MaxTrouble,        \* bound: drops, errors, late or refused answers, failed queries
    NoAccount

ASSUME SettingsAssumption == NeedsAuth \in BOOLEAN /\ ReconnectEnabled \in BOOLEAN
ASSUME MaxAttemptsAssumption == MaxAttempts \in Nat
ASSUME MaxTroubleAssumption == MaxTrouble \in Nat
ASSUME NoAccountAssumption == NoAccount \notin Accounts

Requests == {"auth", "login", "settle"}

VARIABLES
    gateway,   \* CtpTraderGateway of each account
    account,   \* LiveAccountState of each account
    main,      \* where the main thread stands
    trouble    \* how often the network or the broker misbehaved

vars == <<gateway, account, main, trouble>>

Gateway == [api : BOOLEAN, front : BOOLEAN, auth : BOOLEAN, login : BOOLEAN, settled : BOOLEAN,
            ready : BOOLEAN, error : BOOLEAN,
            asked : SUBSET Requests,   \* requests the broker has not answered (external)
            attempts : Nat,
            resting : BOOLEAN]         \* less than the retry interval since the last attempt

\* books: how the positions compare with the broker's since the session began.
Account == [connected : BOOLEAN, enabled : BOOLEAN,
            reason : {"none", "disconnected", "mismatch"},
            books : {"stale", "unanswered", "reconciled"}]

ConnectSteps == {"connect", "front", "front_up", "auth", "login", "logged_in",
                 "settle", "confirmed", "success"}
Waits        == {"front", "auth", "login", "settle"}
AccountSteps == ConnectSteps \union {"started", "ensure", "attempt"}
Main == [phase : {"startup", "live", "stopped"},
         pc : AccountSteps \union {"poll", "hydrate", "strategies"},
         account : Accounts \union {NoAccount},
         todo : SUBSET Accounts,     \* accounts this pass has still to visit
         rehydrate : BOOLEAN]        \* reconnect_requires_rehydrate

Init ==
    /\ gateway = [a \in Accounts |->
          [api |-> FALSE, front |-> FALSE, auth |-> FALSE, login |-> FALSE, settled |-> FALSE,
           ready |-> FALSE, error |-> FALSE, asked |-> {}, attempts |-> 0, resting |-> FALSE]]
    /\ account = [a \in Accounts |->
          [connected |-> FALSE, enabled |-> TRUE, reason |-> "none", books |-> "stale"]]
    /\ main = [phase |-> "startup", pc |-> "poll", account |-> NoAccount,
               todo |-> Accounts, rehydrate |-> FALSE]
    /\ trouble = 0

Trouble == trouble < MaxTrouble /\ trouble' = trouble + 1

At(pc) == main.phase # "stopped" /\ main.pc = pc
GoTo(pc) == main' = [main EXCEPT !.pc = pc]
NextAccountKeepingAccount(rehydrate) ==
    main' = [main EXCEPT !.pc = "poll", !.todo = @ \ {main.account}, !.rehydrate = rehydrate]
NextAccount(rehydrate) ==
    main' = [main EXCEPT !.pc = "poll", !.account = NoAccount,
                         !.todo = @ \ {main.account}, !.rehydrate = rehydrate]
Stop == main' = [main EXCEPT !.phase = "stopped"]

\* The gateway the main thread works on.
Current == gateway[main.account]

-----------------------------------------------------------------------------
(* connect(): drop the old session, then front, authentication, login and   *)
(* settlement confirmation, each waited for.                               *)

\* disconnect() detaches the callbacks and releases the API first.
StartConnect ==
    /\ At("connect")
    /\ gateway' = [gateway EXCEPT ![main.account] =
          [@ EXCEPT !.api = TRUE, !.front = FALSE, !.auth = ~NeedsAuth, !.login = FALSE,
                    !.settled = FALSE, !.ready = FALSE, !.error = FALSE, !.asked = {}]]
    /\ account' = [account EXCEPT ![main.account].books = "stale"]
    /\ GoTo("front")
    /\ UNCHANGED trouble

\* A request sent while the front is down is lost; its return code is not read.
Ask(request) ==
    gateway' = [gateway EXCEPT ![main.account].asked =
                    IF Current.front THEN @ \union {request} ELSE @]

FrontAwaited ==
    /\ At("front") /\ Current.front
    /\ GoTo("front_up")
    /\ UNCHANGED <<gateway, account, trouble>>

AskAuthOrLogin ==
    /\ At("front_up")
    /\ IF Current.auth THEN Ask("login") /\ GoTo("login") ELSE Ask("auth") /\ GoTo("auth")
    /\ UNCHANGED <<account, trouble>>

AuthAwaited ==
    /\ At("auth") /\ Current.auth
    /\ Ask("login") /\ GoTo("login")
    /\ UNCHANGED <<account, trouble>>

LoginAwaited ==
    /\ At("login") /\ Current.login
    /\ GoTo("logged_in")
    /\ UNCHANGED <<gateway, account, trouble>>

ConfirmSettlement ==
    /\ At("logged_in") /\ ~Current.error /\ Current.front
    /\ Ask("settle") /\ GoTo("settle")
    /\ UNCHANGED <<account, trouble>>

SettlementAwaited ==
    /\ At("settle") /\ Current.settled
    /\ GoTo("confirmed")
    /\ UNCHANGED <<gateway, account, trouble>>

ConfirmedReady ==
    /\ At("confirmed") /\ Current.ready
    /\ GoTo("success")
    /\ UNCHANGED <<gateway, account, trouble>>

-----------------------------------------------------------------------------
(* What the caller does with the result.  At startup a failure ends the     *)
(* process; in the loop it pauses the account.                             *)

Failed ==
    IF main.phase = "startup"
    THEN Stop /\ UNCHANGED account
    ELSE /\ account' = [account EXCEPT ![main.account] =
                            [@ EXCEPT !.enabled = FALSE, !.reason = "disconnected"]]
         /\ NextAccount(main.rehydrate)

Reconnected ==
    /\ account' = [account EXCEPT ![main.account] =
                       [@ EXCEPT !.connected = TRUE, !.enabled = TRUE, !.reason = "none"]]
    /\ NextAccount(TRUE)

\* No answer that the wait could still get: the time limit must end it.
Hopeless(pc) == pc # "front" /\ pc \notin Current.asked

Flag(pc) == CASE pc = "front" -> Current.front
              [] pc = "auth"  -> Current.auth
              [] pc = "login" -> Current.login
              [] OTHER        -> Current.settled

GiveUpWaiting ==
    /\ \E pc \in Waits :
          /\ At(pc) /\ ~Flag(pc)
          /\ IF Hopeless(pc) THEN UNCHANGED trouble ELSE Trouble
    /\ Failed
    /\ UNCHANGED gateway

\* The login left an error, the settlement request was not sent, or its answer
\* was an error.
ConnectFails ==
    /\ \/ At("logged_in") /\ (Current.error \/ ~Current.front)
       \/ At("confirmed") /\ ~Current.ready
    /\ Failed
    /\ UNCHANGED <<gateway, trouble>>

ConnectSucceeds ==
    /\ At("success")
    /\ gateway' = [gateway EXCEPT ![main.account].attempts = 0, ![main.account].error = FALSE]
    /\ IF main.phase = "startup" THEN GoTo("started") /\ UNCHANGED account ELSE Reconnected
    /\ UNCHANGED trouble

-----------------------------------------------------------------------------
(* run_live: startup, then the loop.                                       *)

StartAccount(a) ==
    /\ At("poll") /\ main.phase = "startup" /\ a \in main.todo
    /\ main' = [main EXCEPT !.pc = "connect", !.account = a]
    /\ UNCHANGED <<gateway, account, trouble>>

\* The session may be gone again when the flag is read.
AccountStarted ==
    /\ At("started")
    /\ account' = [account EXCEPT ![main.account] =
                       [@ EXCEPT !.connected = Current.ready, !.enabled = Current.ready]]
    /\ NextAccount(FALSE)
    /\ UNCHANGED <<gateway, trouble>>

PollReady(a) ==
    /\ At("poll") /\ main.phase = "live" /\ a \in main.todo /\ gateway[a].ready
    /\ account' = [account EXCEPT ![a].connected = TRUE]
    /\ main' = [main EXCEPT !.todo = @ \ {a}]
    /\ UNCHANGED <<gateway, trouble>>

PollNotReady(a) ==
    /\ At("poll") /\ main.phase = "live" /\ a \in main.todo /\ ~gateway[a].ready
    /\ account' = [account EXCEPT ![a].connected = FALSE]
    /\ main' = [main EXCEPT !.pc = "ensure", !.account = a]
    /\ UNCHANGED <<gateway, trouble>>

\* ensure_ready: the flag is read again, an answer may have come meanwhile.
EnsureReadyAtOnce ==
    /\ At("ensure") /\ Current.ready
    /\ Reconnected
    /\ UNCHANGED <<gateway, trouble>>

EnsureNotReady ==
    /\ At("ensure") /\ ~Current.ready
    /\ GoTo("attempt")
    /\ UNCHANGED <<gateway, account, trouble>>

MayReconnectWhenLimited ==
    ReconnectEnabled /\ Current.attempts < MaxAttempts /\ ~Current.resting
MayReconnectOnceMore ==
    /\ ReconnectEnabled
    /\ MaxAttempts = 0 \/ Current.attempts <= MaxAttempts
    /\ ~Current.resting
MayReconnect ==
    /\ ReconnectEnabled
    /\ MaxAttempts = 0 \/ Current.attempts < MaxAttempts
    /\ ~Current.resting

EnsureAttempts ==
    /\ At("attempt") /\ MayReconnect
    /\ gateway' = [gateway EXCEPT ![main.account] =
                       [@ EXCEPT !.attempts = Current.attempts + 1, !.resting = TRUE]]
    /\ GoTo("connect")
    /\ UNCHANGED <<account, trouble>>

EnsureRefuses ==
    /\ At("attempt") /\ ~MayReconnect
    /\ Failed
    /\ UNCHANGED <<gateway, trouble>>

HydrateWhenStarting == main.phase = "startup"
HydrateNeeded == main.phase = "startup" \/ main.rehydrate

\* All accounts were visited: compare positions, or go on to the strategies.
PassDone ==
    /\ At("poll") /\ main.todo = {}
    /\ main' = IF HydrateNeeded THEN [main EXCEPT !.pc = "hydrate", !.todo = Accounts]
                                ELSE [main EXCEPT !.pc = "strategies"]
    /\ UNCHANGED <<gateway, account, trouble>>

\* hydrate_live_positions_from_broker asks for each account's positions.
HydrateMatches(a) ==
    /\ At("hydrate") /\ a \in main.todo /\ gateway[a].ready
    /\ account' = [account EXCEPT ![a].books = "reconciled"]
    /\ main' = [main EXCEPT !.todo = @ \ {a}]
    /\ UNCHANGED <<gateway, trouble>>

\* A query that fails is a warning only; of a gateway that is down it must fail.
HydrateUnanswered(a) ==
    /\ At("hydrate") /\ a \in main.todo
    /\ IF gateway[a].ready THEN Trouble ELSE UNCHANGED trouble
    /\ account' = [account EXCEPT ![a].books =
                       IF gateway[a].ready /\ @ = "stale" THEN "unanswered" ELSE @]
    /\ main' = [main EXCEPT !.todo = @ \ {a}]
    /\ UNCHANGED gateway

\* A difference is an exception: it ends the startup, or pauses every account.
HydrateMismatch(a) ==
    /\ At("hydrate") /\ a \in main.todo /\ gateway[a].ready
    /\ Trouble
    /\ IF main.phase = "startup"
       THEN Stop /\ UNCHANGED account
       ELSE /\ account' = [b \in Accounts |->
                              [account[b] EXCEPT !.enabled = FALSE, !.reason = "mismatch"]]
            /\ main' = [main EXCEPT !.pc = "strategies", !.todo = {}]
    /\ UNCHANGED gateway

HydrateDone ==
    /\ At("hydrate") /\ main.todo = {}
    /\ GoTo("strategies")
    /\ UNCHANGED <<gateway, account, trouble>>

\* Ticks are dispatched, events drained, files written; the next round begins.
NextRound ==
    /\ At("strategies")
    /\ main' = [main EXCEPT !.phase = "live", !.pc = "poll", !.todo = Accounts, !.rehydrate = FALSE]
    /\ UNCHANGED <<gateway, account, trouble>>

RetryIntervalPasses(a) ==
    /\ gateway[a].resting
    /\ gateway' = [gateway EXCEPT ![a].resting = FALSE]
    /\ UNCHANGED <<account, main, trouble>>

-----------------------------------------------------------------------------
(* The callback thread of each gateway.                                    *)

OnFrontConnected(a) ==
    /\ gateway[a].api /\ ~gateway[a].front
    /\ gateway' = [gateway EXCEPT ![a].front = TRUE]
    /\ UNCHANGED <<account, main, trouble>>

\* Requests under way are lost.  notify_error records the disconnection.
OnFrontDisconnected(a) ==
    /\ gateway[a].api /\ gateway[a].front
    /\ Trouble
    /\ gateway' = [gateway EXCEPT ![a] =
          [@ EXCEPT !.front = FALSE, !.auth = FALSE, !.login = FALSE, !.settled = FALSE,
                    !.ready = FALSE, !.error = TRUE, !.asked = {}]]
    /\ account' = [account EXCEPT ![a].books = "stale"]
    /\ UNCHANGED main

Answered(a, request, ok) ==
    /\ gateway[a].api /\ request \in gateway[a].asked
    /\ IF ok THEN UNCHANGED trouble ELSE Trouble
    /\ UNCHANGED <<account, main>>

\* A refusal completes the wait too, and leaves an error that login trips over.
OnRspAuthenticate(a, ok) ==
    /\ Answered(a, "auth", ok)
    /\ gateway' = [gateway EXCEPT ![a] =
          [@ EXCEPT !.asked = gateway[a].asked \ {"auth"}, !.auth = TRUE,
                    !.error = gateway[a].error \/ ~ok]]

OnRspUserLogin(a, ok) ==
    /\ Answered(a, "login", ok)
    /\ gateway' = [gateway EXCEPT ![a] =
          [@ EXCEPT !.asked = gateway[a].asked \ {"login"}, !.login = TRUE,
                    !.ready = gateway[a].ready /\ ok, !.error = gateway[a].error \/ ~ok]]

OnRspSettlementInfoConfirm(a, ok) ==
    /\ Answered(a, "settle", ok)
    /\ gateway' = [gateway EXCEPT ![a] =
          [@ EXCEPT !.asked = gateway[a].asked \ {"settle"}, !.settled = TRUE,
                    !.ready = ok, !.error = gateway[a].error \/ ~ok]]

OnRspError(a) ==
    /\ gateway[a].front /\ ~gateway[a].error
    /\ Trouble
    /\ gateway' = [gateway EXCEPT ![a].error = TRUE]
    /\ UNCHANGED <<account, main>>

-----------------------------------------------------------------------------
Connect == \/ StartConnect \/ FrontAwaited \/ AskAuthOrLogin \/ AuthAwaited \/ LoginAwaited
           \/ ConfirmSettlement \/ SettlementAwaited \/ ConfirmedReady
           \/ GiveUpWaiting \/ ConnectFails \/ ConnectSucceeds
Ensure  == EnsureReadyAtOnce \/ EnsureNotReady \/ EnsureAttempts \/ EnsureRefuses
Loop    == \/ AccountStarted \/ PassDone \/ HydrateDone \/ NextRound
           \/ \E a \in Accounts : \/ StartAccount(a) \/ PollReady(a) \/ PollNotReady(a)
                                  \/ HydrateMatches(a) \/ HydrateUnanswered(a) \/ HydrateMismatch(a)
MainThread == Connect \/ Ensure \/ Loop

Answers(a) == \E ok \in BOOLEAN :
                  OnRspAuthenticate(a, ok) \/ OnRspUserLogin(a, ok) \/ OnRspSettlementInfoConfirm(a, ok)
Callbacks(a) == OnFrontConnected(a) \/ Answers(a)
Troubles(a)  == OnFrontDisconnected(a) \/ OnRspError(a)

Next == \/ MainThread
        \/ \E a \in Accounts : Callbacks(a) \/ Troubles(a) \/ RetryIntervalPasses(a)

SafeSpec == Init /\ [][Next]_vars

(* The main thread runs until the process ends, time passes, CTP dials the  *)
(* front again by itself and the broker answers the requests it received.  *)
Fairness == /\ WF_vars(MainThread)
            /\ \A a \in Accounts : WF_vars(Callbacks(a)) /\ WF_vars(RetryIntervalPasses(a))

Spec == SafeSpec /\ Fairness

-----------------------------------------------------------------------------
TypeOfGateways == gateway \in [Accounts -> Gateway]
TypeOfAccounts == account \in [Accounts -> Account]
TypeOfMain     == /\ main \in Main
                  /\ main.phase # "stopped" =>
                         (main.pc \in AccountSteps <=> main.account \in Accounts)

\* The flags of the gateways, the accounts and the main thread.
TypeOK == TypeOfGateways /\ TypeOfAccounts /\ TypeOfMain /\ trouble \in 0..MaxTrouble

\* The strategies run and an order of this account would reach the broker: the
\* risk gate checks enabled, submit_order checks ready.
CanTrade(a) == At("strategies") /\ account[a].enabled /\ gateway[a].ready

(* No account trades in a session whose positions the main loop has not even*)
(* asked the broker for: a session that became ready behind the loop's back *)
(* (an answer after the time limit) must not trade on the old books.       *)
TradingIsHydrated == \A a \in Accounts : CanTrade(a) => account[a].books # "stale"

(* reconnect_max_attempts limits the reconnects of a gateway.  The count    *)
(* survives failed connects and late answers and restarts with a success.  *)
AttemptsWithinLimit == MaxAttempts > 0 => \A a \in Accounts : gateway[a].attempts <= MaxAttempts

(* Without a limit the gateway of every account is ready again once network *)
(* and broker behave, whatever they did before, unless the startup failed. *)
Recovers == \A a \in Accounts : <>[](gateway[a].ready \/ main.phase = "stopped")

(* An account paused because its gateway is disconnected does not stay so  *)
(* while the gateway is ready.                                             *)
PausedWhileReady(a) == /\ main.phase = "live" /\ gateway[a].ready
                       /\ account[a].reason = "disconnected"
PauseEnds == \A a \in Accounts : PausedWhileReady(a) ~> ~PausedWhileReady(a)
=============================================================================
