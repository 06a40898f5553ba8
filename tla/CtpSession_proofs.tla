-------------------------- MODULE CtpSession_proofs --------------------------
(***************************************************************************)
(* Proofs about CtpSession: types, the limit on reconnects, that no        *)
(* account trades on books nobody compared in its session, and that only a *)
(* settlement answer after its time can leave an account paused while its  *)
(* gateway is ready.                                                       *)
(***************************************************************************)
EXTENDS CtpSession, TLAPS

\* connect() works on the account.
Connecting(a) == main.account = a /\ main.pc \in ConnectSteps

\* The main thread will ask for the account's positions before strategies run.
WillHydrate(a) ==
    \/ main.pc = "hydrate" /\ a \in main.todo
    \/ main.pc \in AccountSteps \union {"poll"} /\ HydrateNeeded

Running == main.phase # "stopped"

\* Books can be stale under a tradable session only while one of the two holds.
StaleIsPending ==
    Running => \A a \in Accounts :
        (account[a].enabled /\ gateway[a].ready /\ account[a].books = "stale")
            => WillHydrate(a) \/ Connecting(a)

\* An unanswered settlement request can make a session ready later: it is that
\* of a connect still waiting, or of an account that was paused for giving up.
LateAnswerIsHarmless ==
    \A a \in Accounts : "settle" \in gateway[a].asked =>
        /\ ~gateway[a].ready /\ ~gateway[a].settled
        /\ Running => ~account[a].enabled \/ Connecting(a)

BeforeSettlement ==
    \A a \in Accounts :
        (main.account = a /\ main.pc \in {"front", "front_up", "auth", "login", "logged_in"}) =>
            /\ "settle" \notin gateway[a].asked
            /\ ~gateway[a].ready /\ ~gateway[a].settled

AfterSettlement ==
    \A a \in Accounts :
        (main.account = a /\ main.pc \in {"confirmed", "success", "started"}) =>
            "settle" \notin gateway[a].asked

StartedAtStartup == main.pc = "started" => main.phase # "live"

IndInv == /\ TypeOK
          /\ StaleIsPending /\ LateAnswerIsHarmless
          /\ BeforeSettlement /\ AfterSettlement /\ StartedAtStartup

-----------------------------------------------------------------------------
(* Types.                                                                  *)

\* A step of connect, of ensure_ready or after them works on an account.
LEMMA StepHasAccount ==
    ASSUME TypeOfMain, NEW pc \in AccountSteps, At(pc)
    PROVE  main.account \in Accounts
BY DEF TypeOfMain, At

LEMMA AskKeepsType ==
    ASSUME TypeOfGateways, NEW request \in Requests, main.account \in Accounts, Ask(request)
    PROVE  TypeOfGateways'
<1> DEFINE g == gateway[main.account]
           asked == IF g.front THEN g.asked \union {request} ELSE g.asked
<1>1. g \in Gateway
  BY DEF TypeOfGateways
<1>2. [g EXCEPT !.asked = asked] \in Gateway
  BY <1>1 DEF Gateway
<1>3. gateway' = [gateway EXCEPT ![main.account] = [g EXCEPT !.asked = asked]]
  BY DEF Ask, Current
<1>4. QED
  BY <1>2, <1>3 DEF TypeOfGateways

\* The steps of both threads that touch a gateway.
LEMMA GatewaysKeepType ==
    ASSUME TypeOK, [Next]_vars
    PROVE  TypeOfGateways'
<1> USE DEF TypeOK
<1>1. CASE StartConnect
  <2> DEFINE g == gateway[main.account]
             new == [g EXCEPT !.api = TRUE, !.front = FALSE, !.auth = ~NeedsAuth, !.login = FALSE,
               !.settled = FALSE, !.ready = FALSE, !.error = FALSE, !.asked = {}]
  <2>1. main.account \in Accounts /\ g \in Gateway
    BY <1>1, StepHasAccount DEF StartConnect, AccountSteps, ConnectSteps, TypeOfGateways
  <2>2. new \in Gateway
    BY <2>1, SettingsAssumption DEF Gateway
  <2>3. gateway' = [gateway EXCEPT ![main.account] = new]
    BY <1>1, <2>1 DEF StartConnect, Current, TypeOfGateways, Gateway
  <2>4. QED
    BY <2>1, <2>2, <2>3 DEF TypeOfGateways
<1>2. CASE ConnectSucceeds
  <2> DEFINE g == gateway[main.account]
             new == [g EXCEPT !.attempts = 0, !.error = FALSE]
  <2>1. main.account \in Accounts /\ g \in Gateway
    BY <1>2, StepHasAccount DEF ConnectSucceeds, AccountSteps, ConnectSteps, TypeOfGateways
  <2>2. new \in Gateway
    BY <2>1, SettingsAssumption DEF Gateway
  <2>3. gateway' = [gateway EXCEPT ![main.account] = new]
    BY <1>2, <2>1 DEF ConnectSucceeds, Current, TypeOfGateways, Gateway
  <2>4. QED
    BY <2>1, <2>2, <2>3 DEF TypeOfGateways
<1>3. CASE EnsureAttempts
  <2> DEFINE g == gateway[main.account]
             new == [g EXCEPT !.attempts = g.attempts + 1, !.resting = TRUE]
  <2>1. main.account \in Accounts /\ g \in Gateway
    BY <1>3, StepHasAccount DEF EnsureAttempts, AccountSteps, ConnectSteps, TypeOfGateways
  <2>2. ASSUME NEW n \in Nat
        PROVE  [g EXCEPT !.attempts = n, !.resting = TRUE] \in Gateway
    BY <2>1 DEF Gateway
  <2>a. g.attempts + 1 \in Nat
    BY <2>1 DEF Gateway
  <2>3. gateway' = [gateway EXCEPT ![main.account] = new]
    BY <1>3, <2>1 DEF EnsureAttempts, Current, TypeOfGateways, Gateway
  <2>4. QED
    BY <2>1, <2>2, <2>a, <2>3 DEF TypeOfGateways
<1>4. ASSUME NEW a \in Accounts, RetryIntervalPasses(a)
      PROVE  TypeOfGateways'
  <2> DEFINE g == gateway[a]
             new == [g EXCEPT !.resting = FALSE]
  <2>1. new \in Gateway
    BY DEF Gateway, TypeOfGateways
  <2>2. gateway' = [gateway EXCEPT ![a] = new]
    BY <1>4 DEF RetryIntervalPasses
  <2>3. QED
    BY <2>1, <2>2 DEF TypeOfGateways
<1>5. ASSUME NEW a \in Accounts, OnFrontConnected(a)
      PROVE  TypeOfGateways'
  <2> DEFINE g == gateway[a]
             new == [g EXCEPT !.front = TRUE]
  <2>1. new \in Gateway
    BY DEF Gateway, TypeOfGateways
  <2>2. gateway' = [gateway EXCEPT ![a] = new]
    BY <1>5 DEF OnFrontConnected
  <2>3. QED
    BY <2>1, <2>2 DEF TypeOfGateways
<1>6. ASSUME NEW a \in Accounts, OnFrontDisconnected(a)
      PROVE  TypeOfGateways'
  <2> DEFINE g == gateway[a]
             new == [g EXCEPT !.front = FALSE, !.auth = FALSE, !.login = FALSE, !.settled = FALSE,
               !.ready = FALSE, !.error = TRUE, !.asked = {}]
  <2>1. new \in Gateway
    BY DEF Gateway, TypeOfGateways
  <2>2. gateway' = [gateway EXCEPT ![a] = new]
    BY <1>6 DEF OnFrontDisconnected
  <2>3. QED
    BY <2>1, <2>2 DEF TypeOfGateways
<1>7. ASSUME NEW a \in Accounts, OnRspError(a)
      PROVE  TypeOfGateways'
  <2> DEFINE g == gateway[a]
             new == [g EXCEPT !.error = TRUE]
  <2>1. new \in Gateway
    BY DEF Gateway, TypeOfGateways
  <2>2. gateway' = [gateway EXCEPT ![a] = new]
    BY <1>7 DEF OnRspError
  <2>3. QED
    BY <2>1, <2>2 DEF TypeOfGateways
<1>8. ASSUME NEW a \in Accounts, NEW ok \in BOOLEAN, OnRspAuthenticate(a, ok)
      PROVE  TypeOfGateways'
  <2> DEFINE g == gateway[a]
             new == [g EXCEPT !.asked = g.asked \ {"auth"}, !.auth = TRUE, !.error = g.error \/ ~ok]
  <2>1. new \in Gateway
    BY DEF Gateway, TypeOfGateways
  <2>2. gateway' = [gateway EXCEPT ![a] = new]
    BY <1>8 DEF OnRspAuthenticate, Answered
  <2>3. QED
    BY <2>1, <2>2 DEF TypeOfGateways
<1>9. ASSUME NEW a \in Accounts, NEW ok \in BOOLEAN, OnRspUserLogin(a, ok)
      PROVE  TypeOfGateways'
  <2> DEFINE g == gateway[a]
             new == [g EXCEPT !.asked = g.asked \ {"login"}, !.login = TRUE,
               !.ready = g.ready /\ ok, !.error = g.error \/ ~ok]
  <2>1. new \in Gateway
    BY DEF Gateway, TypeOfGateways
  <2>2. gateway' = [gateway EXCEPT ![a] = new]
    BY <1>9 DEF OnRspUserLogin, Answered
  <2>3. QED
    BY <2>1, <2>2 DEF TypeOfGateways
<1>10. ASSUME NEW a \in Accounts, NEW ok \in BOOLEAN, OnRspSettlementInfoConfirm(a, ok)
      PROVE  TypeOfGateways'
  <2> DEFINE g == gateway[a]
             new == [g EXCEPT !.asked = g.asked \ {"settle"}, !.settled = TRUE,
               !.ready = ok, !.error = g.error \/ ~ok]
  <2>1. new \in Gateway
    BY DEF Gateway, TypeOfGateways
  <2>2. gateway' = [gateway EXCEPT ![a] = new]
    BY <1>10 DEF OnRspSettlementInfoConfirm, Answered
  <2>3. QED
    BY <2>1, <2>2 DEF TypeOfGateways
<1>11. CASE AskAuthOrLogin \/ AuthAwaited \/ ConfirmSettlement
  BY <1>11, StepHasAccount, AskKeepsType
     DEF AskAuthOrLogin, AuthAwaited, ConfirmSettlement, AccountSteps, ConnectSteps, Requests
<1>12. CASE UNCHANGED gateway
  BY <1>12 DEF TypeOfGateways
<1>13. QED
  BY <1>1, <1>2, <1>3, <1>4, <1>5, <1>6, <1>7, <1>8, <1>9, <1>10, <1>11, <1>12
     DEF vars, Next, MainThread, Connect, Ensure, Loop, Callbacks, Answers, Troubles,
         FrontAwaited, LoginAwaited, SettlementAwaited, ConfirmedReady, GiveUpWaiting, ConnectFails, EnsureReadyAtOnce,
         EnsureNotReady, EnsureRefuses, AccountStarted, PassDone, HydrateDone, NextRound,
         StartAccount, PollReady, PollNotReady, HydrateMatches, HydrateUnanswered, HydrateMismatch

\* Only the main thread and a lost front write the accounts.
LEMMA AccountsKeepType ==
    ASSUME TypeOK, [Next]_vars
    PROVE  TypeOfAccounts'
<1> USE DEF TypeOK
<1>1. CASE StartConnect
  BY <1>1 DEF StartConnect, TypeOfAccounts, Account
<1>2. CASE Failed
  <2> DEFINE new == [account[main.account] EXCEPT !.enabled = FALSE, !.reason = "disconnected"]
  <2>1. account[main.account] \in Account => new \in Account
    BY DEF Account
  <2>2. QED
    BY <1>2, <2>1 DEF Failed, TypeOfAccounts
<1>3. CASE Reconnected
  <2> DEFINE new == [account[main.account] EXCEPT !.connected = TRUE, !.enabled = TRUE, !.reason = "none"]
  <2>1. account[main.account] \in Account => new \in Account
    BY DEF Account
  <2>2. QED
    BY <1>3, <2>1 DEF Reconnected, TypeOfAccounts
<1>4. CASE AccountStarted
  <2> DEFINE ready == gateway[main.account].ready
             new == [account[main.account] EXCEPT !.connected = ready, !.enabled = ready]
  <2>1. main.account \in Accounts
    BY <1>4, StepHasAccount DEF AccountStarted, AccountSteps
  <2>2. ready \in BOOLEAN
    BY <2>1 DEF TypeOfGateways, Gateway
  <2> HIDE DEF ready
  <2>3. new \in Account
    BY <2>1, <2>2 DEF Account, TypeOfAccounts
  <2>4. account' = [account EXCEPT ![main.account] = new]
    BY <1>4 DEF AccountStarted, Current, ready
  <2>5. QED
    BY <2>3, <2>4 DEF TypeOfAccounts
<1>5. ASSUME NEW a \in Accounts, PollReady(a) \/ PollNotReady(a) PROVE TypeOfAccounts'
  <2>1. ASSUME NEW up \in BOOLEAN
        PROVE  [account[a] EXCEPT !.connected = up] \in Account
    BY DEF TypeOfAccounts, Account
  <2>2. \/ account' = [account EXCEPT ![a] = [account[a] EXCEPT !.connected = TRUE]]
        \/ account' = [account EXCEPT ![a] = [account[a] EXCEPT !.connected = FALSE]]
    BY <1>5 DEF PollReady, PollNotReady
  <2>3. QED
    BY <2>1, <2>2 DEF TypeOfAccounts
<1>6. ASSUME NEW a \in Accounts, HydrateMatches(a) \/ HydrateUnanswered(a) PROVE TypeOfAccounts'
  BY <1>6 DEF HydrateMatches, HydrateUnanswered, TypeOfAccounts, Account
<1>7. ASSUME NEW a \in Accounts, HydrateMismatch(a) PROVE TypeOfAccounts'
  <2>1. ASSUME NEW b \in Accounts
        PROVE  [account[b] EXCEPT !.enabled = FALSE, !.reason = "mismatch"] \in Account
    BY DEF TypeOfAccounts, Account
  <2>2. QED
    BY <1>7, <2>1 DEF HydrateMismatch, TypeOfAccounts
<1>8. ASSUME NEW a \in Accounts, OnFrontDisconnected(a) PROVE TypeOfAccounts'
  BY <1>8 DEF OnFrontDisconnected, TypeOfAccounts, Account
<1>9. CASE UNCHANGED account
  BY <1>9 DEF TypeOfAccounts
<1>10. QED
  BY <1>1, <1>2, <1>3, <1>4, <1>5, <1>6, <1>7, <1>8, <1>9
     DEF vars, Next, MainThread, Connect, Ensure, Loop, Callbacks, Answers, Troubles, Answered,
         FrontAwaited, AskAuthOrLogin, AuthAwaited, LoginAwaited, ConfirmSettlement,
         SettlementAwaited, ConfirmedReady, GiveUpWaiting, ConnectFails, ConnectSucceeds,
         EnsureReadyAtOnce, EnsureNotReady, EnsureAttempts, EnsureRefuses,
         PassDone, HydrateDone, NextRound, StartAccount, RetryIntervalPasses,
         OnFrontConnected, OnRspAuthenticate, OnRspUserLogin, OnRspSettlementInfoConfirm, OnRspError

\* The main thread names an account exactly while it works on one.
LEMMA MainKeepsType ==
    ASSUME TypeOK, [Next]_vars
    PROVE  TypeOfMain'
<1> USE DEF TypeOK
<1>a. main \in Main
  BY DEF TypeOfMain
<1>1. ASSUME NEW pc \in AccountSteps, NEW next \in AccountSteps, At(pc), GoTo(next)
      PROVE  TypeOfMain'
  BY <1>1, <1>a, StepHasAccount DEF GoTo, At, TypeOfMain, Main
<1>2. ASSUME NEW pc \in AccountSteps, NEW rehydrate \in BOOLEAN, At(pc), NextAccount(rehydrate)
      PROVE  TypeOfMain'
  BY <1>2, <1>a, NoAccountAssumption DEF NextAccount, TypeOfMain, Main, AccountSteps, ConnectSteps
<1>3. CASE Stop
  BY <1>3, <1>a DEF Stop, TypeOfMain, Main
<1>4. ASSUME NEW pc \in AccountSteps, At(pc), Failed
      PROVE  TypeOfMain'
  <2>1. main.rehydrate \in BOOLEAN
    BY <1>a DEF Main
  <2>2. QED
    BY <1>2, <1>3, <1>4, <2>1 DEF Failed
<1>5. ASSUME NEW pc \in AccountSteps, At(pc), Reconnected
      PROVE  TypeOfMain'
  BY <1>2, <1>5 DEF Reconnected
<1>6. CASE Connect
  BY <1>6, <1>1, <1>4, <1>5
     DEF Connect, StartConnect, FrontAwaited, AskAuthOrLogin, AuthAwaited, LoginAwaited,
         ConfirmSettlement, SettlementAwaited, ConfirmedReady, GiveUpWaiting, ConnectFails,
         ConnectSucceeds, AccountSteps, ConnectSteps, Waits
<1>7. CASE Ensure
  BY <1>7, <1>1, <1>4, <1>5
     DEF Ensure, EnsureReadyAtOnce, EnsureNotReady, EnsureAttempts, EnsureRefuses,
         AccountSteps, ConnectSteps
<1>8. CASE AccountStarted
  BY <1>8, <1>2 DEF AccountStarted, AccountSteps
<1>9. CASE PassDone \/ HydrateDone \/ NextRound
  <2>1. CASE PassDone
    BY <2>1, <1>a DEF PassDone, At, TypeOfMain, Main, AccountSteps, ConnectSteps
  <2>2. CASE HydrateDone
    BY <2>2, <1>a DEF HydrateDone, GoTo, At, TypeOfMain, Main, AccountSteps, ConnectSteps
  <2>3. CASE NextRound
    BY <2>3, <1>a DEF NextRound, At, TypeOfMain, Main, AccountSteps, ConnectSteps
  <2>4. QED
    BY <1>9, <2>1, <2>2, <2>3
<1>10. ASSUME NEW a \in Accounts, StartAccount(a) \/ PollReady(a) \/ PollNotReady(a)
       PROVE  TypeOfMain'
  <2>1. CASE PollReady(a)
    BY <2>1, <1>a DEF PollReady, At, TypeOfMain, Main
  <2>2. ASSUME NEW pc \in {"connect", "ensure"}, At("poll"),
               main' = [main EXCEPT !.pc = pc, !.account = a]
        PROVE  TypeOfMain'
    BY <2>2, <1>a DEF At, TypeOfMain, Main, AccountSteps, ConnectSteps
  <2>3. QED
    BY <1>10, <2>1, <2>2 DEF StartAccount, PollNotReady
<1>11. ASSUME NEW a \in Accounts, HydrateMatches(a) \/ HydrateUnanswered(a)
       PROVE  TypeOfMain'
  BY <1>11, <1>a DEF HydrateMatches, HydrateUnanswered, At, TypeOfMain, Main
<1>12. ASSUME NEW a \in Accounts, HydrateMismatch(a)
       PROVE  TypeOfMain'
  BY <1>12, <1>a, <1>3, ZenonT(60)
     DEF HydrateMismatch, At, TypeOfMain, Main, AccountSteps, ConnectSteps
<1>13. CASE UNCHANGED main
  BY <1>13 DEF TypeOfMain
<1>14. QED
  BY <1>6, <1>7, <1>8, <1>9, <1>10, <1>11, <1>12, <1>13
     DEF vars, Next, MainThread, Loop, Callbacks, Answers, Troubles, Answered,
         RetryIntervalPasses, OnFrontConnected, OnFrontDisconnected,
         OnRspAuthenticate, OnRspUserLogin, OnRspSettlementInfoConfirm, OnRspError

LEMMA TroubleIsBounded ==
    ASSUME trouble \in 0..MaxTrouble, [Next]_vars
    PROVE  trouble' \in 0..MaxTrouble
<1>1. Trouble \/ UNCHANGED trouble
  BY DEF vars, Next, MainThread, Connect, Ensure, Loop, Callbacks, Answers, Troubles, Answered,
         StartConnect, FrontAwaited, AskAuthOrLogin, AuthAwaited, LoginAwaited, ConfirmSettlement,
         SettlementAwaited, ConfirmedReady, GiveUpWaiting, ConnectFails, ConnectSucceeds,
         EnsureReadyAtOnce, EnsureNotReady, EnsureAttempts, EnsureRefuses, AccountStarted,
         PassDone, HydrateDone, NextRound, StartAccount, PollReady, PollNotReady,
         HydrateMatches, HydrateUnanswered, HydrateMismatch, RetryIntervalPasses,
         OnFrontConnected, OnFrontDisconnected,
         OnRspAuthenticate, OnRspUserLogin, OnRspSettlementInfoConfirm, OnRspError
<1>2. QED
  BY <1>1, MaxTroubleAssumption DEF Trouble

LEMMA TypeStep ==
    ASSUME TypeOK, [Next]_vars
    PROVE  TypeOK'
BY GatewaysKeepType, AccountsKeepType, MainKeepsType, TroubleIsBounded DEF TypeOK


-----------------------------------------------------------------------------
(* The inductive invariant.  Facts about the main thread's record first.   *)

LEMMA GoToFields ==
    ASSUME TypeOfMain, NEW pc, GoTo(pc)
    PROVE  /\ main'.pc = pc /\ main'.phase = main.phase /\ main'.account = main.account
           /\ main'.todo = main.todo /\ main'.rehydrate = main.rehydrate
BY DEF GoTo, TypeOfMain, Main

LEMMA NextAccountFields ==
    ASSUME TypeOfMain, NEW rehydrate, NextAccount(rehydrate)
    PROVE  /\ main'.pc = "poll" /\ main'.phase = main.phase /\ main'.account = NoAccount
           /\ main'.rehydrate = rehydrate
BY DEF NextAccount, TypeOfMain, Main

LEMMA StopFields ==
    ASSUME TypeOfMain, Stop
    PROVE  /\ main'.phase = "stopped" /\ main'.pc = main.pc /\ main'.account = main.account
BY DEF Stop, TypeOfMain, Main

\* A failure pauses the account and leaves it, or ends the startup.
LEMMA FailedKeepsInv ==
    ASSUME IndInv, NEW pc \in AccountSteps, At(pc), Failed, UNCHANGED gateway
    PROVE  /\ StaleIsPending' /\ LateAnswerIsHarmless' /\ BeforeSettlement'
           /\ AfterSettlement' /\ StartedAtStartup'
<1> USE DEF IndInv, TypeOK
<1>0. main.account \in Accounts
  BY StepHasAccount
<1>1. CASE main.phase = "startup"
  BY <1>1, StopFields DEF Failed, Running, StaleIsPending, LateAnswerIsHarmless,
     BeforeSettlement, AfterSettlement, StartedAtStartup, Connecting
<1>2. CASE main.phase # "startup"
  <2>1. NextAccount(main.rehydrate)
    BY <1>2 DEF Failed
  <2>2. /\ ~account'[main.account].enabled
        /\ \A a \in Accounts \ {main.account} : account'[a] = account[a]
    <3> DEFINE new == [account[main.account] EXCEPT !.enabled = FALSE, !.reason = "disconnected"]
    <3>1. account' = [account EXCEPT ![main.account] = new]
      BY <1>2 DEF Failed
    <3>2. new.enabled = FALSE
      BY <1>0 DEF TypeOfAccounts, Account
    <3> HIDE DEF new
    <3>3. QED
      BY <1>0, <3>1, <3>2 DEF TypeOfAccounts
  <2>3. main.phase # "stopped" /\ main.pc = pc
    BY DEF At
  <2>4. /\ main'.pc = "poll" /\ main'.phase = main.phase /\ main'.account = NoAccount
        /\ main'.rehydrate = main.rehydrate
    BY <2>1, NextAccountFields
  <2>5. \A a \in Accounts \ {main.account} : ~Connecting(a) /\ (WillHydrate(a) => WillHydrate(a)')
    BY <2>3, <2>4 DEF Connecting, WillHydrate, HydrateNeeded, AccountSteps, ConnectSteps
  <2>6. StaleIsPending'
    BY <2>2, <2>3, <2>5 DEF StaleIsPending, Running
  <2>7. LateAnswerIsHarmless'
    BY <2>2, <2>3, <2>5 DEF LateAnswerIsHarmless, Running
  <2>8. BeforeSettlement' /\ AfterSettlement' /\ StartedAtStartup'
    BY <2>4 DEF BeforeSettlement, AfterSettlement, StartedAtStartup
  <2>9. QED
    BY <2>6, <2>7, <2>8
<1>3. QED
  BY <1>1, <1>2

\* A success enables the account and asks for all books to be compared.
LEMMA ReconnectedKeepsInv ==
    ASSUME IndInv, NEW pc \in AccountSteps, At(pc), Reconnected,
           "settle" \notin gateway[main.account].asked,
           \A a \in Accounts : /\ gateway'[a].asked = gateway[a].asked
                               /\ gateway'[a].ready = gateway[a].ready
                               /\ gateway'[a].settled = gateway[a].settled
    PROVE  /\ StaleIsPending' /\ LateAnswerIsHarmless' /\ BeforeSettlement'
           /\ AfterSettlement' /\ StartedAtStartup'
<1> USE DEF IndInv, TypeOK
<1>1. NextAccount(TRUE)
  BY DEF Reconnected
<1>2. \A a \in Accounts \ {main.account} : account'[a] = account[a]
  BY DEF Reconnected, TypeOfAccounts, Account
<1>3. main.phase # "stopped" /\ main.pc = pc
  BY DEF At
<1>4. StaleIsPending'
  BY <1>1, NextAccountFields DEF StaleIsPending, WillHydrate, HydrateNeeded, AccountSteps
<1>5. LateAnswerIsHarmless'
  BY <1>1, <1>2, <1>3, NextAccountFields DEF LateAnswerIsHarmless, Connecting, Running
<1>6. BeforeSettlement' /\ AfterSettlement' /\ StartedAtStartup'
  BY <1>1, NextAccountFields DEF BeforeSettlement, AfterSettlement, StartedAtStartup
<1>7. QED
  BY <1>4, <1>5, <1>6

\* A move from one step on an account to the next keeps what is pending for it.
LEMMA GoToKeepsPending ==
    ASSUME TypeOfMain, NEW pc \in AccountSteps, At(pc), NEW next \in AccountSteps, GoTo(next),
           NEW a \in Accounts
    PROVE  /\ WillHydrate(a) => WillHydrate(a)'
           /\ (Connecting(a) /\ next \in ConnectSteps) => Connecting(a)'
           /\ Running' = Running
BY GoToFields DEF At, WillHydrate, HydrateNeeded, Connecting, Running, AccountSteps, ConnectSteps

LEMMA AskFields ==
    ASSUME TypeOfGateways, main.account \in Accounts, NEW request, Ask(request), NEW a \in Accounts
    PROVE  /\ gateway'[a].ready = gateway[a].ready
           /\ gateway'[a].settled = gateway[a].settled
           /\ gateway'[a].asked \subseteq gateway[a].asked \union {request}
           /\ a # main.account => gateway'[a].asked = gateway[a].asked
BY DEF Ask, Current, TypeOfGateways, Gateway

\* A wait of connect() ends, or a request of it goes out.
LEMMA ConnectStepKeepsInv ==
    ASSUME IndInv, \/ FrontAwaited \/ AskAuthOrLogin \/ AuthAwaited \/ LoginAwaited
                   \/ ConfirmSettlement \/ SettlementAwaited \/ ConfirmedReady
    PROVE  /\ StaleIsPending' /\ LateAnswerIsHarmless' /\ BeforeSettlement'
           /\ AfterSettlement' /\ StartedAtStartup'
<1> USE DEF IndInv, TypeOK
<1>1. PICK pc \in ConnectSteps, next \in ConnectSteps :
          /\ At(pc) /\ GoTo(next)
          /\ next \notin {"confirmed", "success"} =>
                 pc \in {"front", "front_up", "auth", "login", "logged_in"}
  BY DEF FrontAwaited, AskAuthOrLogin, AuthAwaited, LoginAwaited, ConfirmSettlement,
         SettlementAwaited, ConfirmedReady, ConnectSteps
<1>2. /\ pc \in AccountSteps /\ next \in AccountSteps
      /\ main.account \in Accounts /\ UNCHANGED account
  BY <1>1, StepHasAccount
     DEF AccountSteps, FrontAwaited, AskAuthOrLogin, AuthAwaited, LoginAwaited,
         ConfirmSettlement, SettlementAwaited, ConfirmedReady
<1>3. main.pc = pc /\ main.phase # "stopped" /\ main'.pc = next /\ main'.phase = main.phase
      /\ main'.account = main.account
  BY <1>1, GoToFields DEF At
<1>4. \A a \in Accounts : /\ gateway'[a].ready = gateway[a].ready
                          /\ gateway'[a].settled = gateway[a].settled
                          /\ gateway'[a].asked \subseteq gateway[a].asked \union Requests
                          /\ a # main.account => gateway'[a].asked = gateway[a].asked
  BY <1>2, AskFields
     DEF FrontAwaited, AskAuthOrLogin, AuthAwaited, LoginAwaited, ConfirmSettlement,
         SettlementAwaited, ConfirmedReady, Requests
<1>5. "settle" \in gateway'[main.account].asked =>
          \/ "settle" \in gateway[main.account].asked
          \/ ConfirmSettlement
  BY <1>2, AskFields
     DEF FrontAwaited, AskAuthOrLogin, AuthAwaited, LoginAwaited, ConfirmSettlement,
         SettlementAwaited, ConfirmedReady
<1>6. StaleIsPending'
  BY <1>1, <1>2, <1>4, GoToKeepsPending DEF StaleIsPending
<1>7. LateAnswerIsHarmless'
  <2>1. ConfirmSettlement => ~gateway[main.account].ready /\ ~gateway[main.account].settled
    BY <1>2, <1>3 DEF ConfirmSettlement, At, BeforeSettlement
  <2>2. Connecting(main.account)'
    BY <1>3 DEF Connecting
  <2>3. \A a \in Accounts : Connecting(a) => a = main.account
    BY DEF Connecting
  <2>4. QED
    BY <1>2, <1>3, <1>4, <1>5, <2>1, <2>2, <2>3 DEF LateAnswerIsHarmless, Running
<1>8. BeforeSettlement'
  <2>1. next \in {"front", "front_up", "auth", "login", "logged_in"} => ~ConfirmSettlement
    BY <1>3, GoToFields DEF ConfirmSettlement
  <2>2. QED
    BY <1>1, <1>2, <1>3, <1>4, <1>5, <2>1 DEF BeforeSettlement
<1>9. AfterSettlement'
  <2>1. CASE SettlementAwaited
    BY <1>2, <1>3, <2>1 DEF SettlementAwaited, Current, LateAnswerIsHarmless, AfterSettlement
  <2>2. CASE ConfirmedReady
    BY <1>2, <1>3, <2>2 DEF ConfirmedReady, At, AfterSettlement
  <2>3. CASE FrontAwaited \/ AskAuthOrLogin \/ AuthAwaited \/ LoginAwaited \/ ConfirmSettlement
    BY <1>3, <2>3, GoToFields
       DEF FrontAwaited, AskAuthOrLogin, AuthAwaited, LoginAwaited, ConfirmSettlement, AfterSettlement
  <2>4. QED
    BY <2>1, <2>2, <2>3
<1>10. StartedAtStartup'
  BY <1>3 DEF StartedAtStartup, ConnectSteps
<1>11. QED
  BY <1>6, <1>7, <1>8, <1>9, <1>10

\* connect() begins by forgetting the old session and its requests.
LEMMA StartConnectKeepsInv ==
    ASSUME IndInv, StartConnect
    PROVE  /\ StaleIsPending' /\ LateAnswerIsHarmless' /\ BeforeSettlement'
           /\ AfterSettlement' /\ StartedAtStartup'
<1> USE DEF IndInv, TypeOK
<1>1. /\ main.pc = "connect" /\ main'.pc = "front" /\ main'.account = main.account
      /\ main'.phase = main.phase /\ main.phase # "stopped" /\ GoTo("front") /\ At("connect")
  BY GoToFields DEF StartConnect, At
<1>2. main.account \in Accounts
  BY <1>1, StepHasAccount DEF AccountSteps, ConnectSteps
<1>3. /\ ~gateway'[main.account].ready /\ ~gateway'[main.account].settled
      /\ gateway'[main.account].asked = {}
      /\ \A a \in Accounts \ {main.account} : gateway'[a] = gateway[a]
  BY <1>2 DEF StartConnect, TypeOfGateways, Gateway
<1>4. \A a \in Accounts \ {main.account} : account'[a] = account[a]
  BY <1>2 DEF StartConnect, TypeOfAccounts, Account
<1>5. \A a \in Accounts : /\ WillHydrate(a) => WillHydrate(a)'
                          /\ Connecting(a) => Connecting(a)'
                          /\ Running' = Running
  BY <1>1, GoToKeepsPending DEF AccountSteps, ConnectSteps
<1>6. StaleIsPending'
  BY <1>3, <1>4, <1>5 DEF StaleIsPending
<1>7. LateAnswerIsHarmless'
  BY <1>3, <1>4, <1>5 DEF LateAnswerIsHarmless
<1>8. BeforeSettlement' /\ AfterSettlement' /\ StartedAtStartup'
  BY <1>1, <1>3 DEF BeforeSettlement, AfterSettlement, StartedAtStartup
<1>9. QED
  BY <1>6, <1>7, <1>8

LEMMA ConnectSucceedsKeepsInv ==
    ASSUME IndInv, ConnectSucceeds
    PROVE  /\ StaleIsPending' /\ LateAnswerIsHarmless' /\ BeforeSettlement'
           /\ AfterSettlement' /\ StartedAtStartup'
<1> USE DEF IndInv, TypeOK
<1>1. main.pc = "success" /\ main.phase # "stopped" /\ At("success")
  BY DEF ConnectSucceeds, At
<1>2. main.account \in Accounts
  BY <1>1, StepHasAccount DEF AccountSteps, ConnectSteps
<1>3. "settle" \notin gateway[main.account].asked
  BY <1>1, <1>2 DEF AfterSettlement
<1>4. \A a \in Accounts : /\ gateway'[a].asked = gateway[a].asked
                          /\ gateway'[a].ready = gateway[a].ready
                          /\ gateway'[a].settled = gateway[a].settled
  BY <1>2 DEF ConnectSucceeds, TypeOfGateways, Gateway
<1>5. CASE main.phase # "startup"
  BY <1>1, <1>3, <1>4, <1>5, ReconnectedKeepsInv DEF ConnectSucceeds, AccountSteps, ConnectSteps
<1>6. CASE main.phase = "startup"
  <2>1. GoTo("started") /\ UNCHANGED account
    BY <1>6 DEF ConnectSucceeds
  <2>2. main'.pc = "started" /\ main'.phase = "startup" /\ main'.account = main.account
    BY <1>6, <2>1, GoToFields
  <2>3. StaleIsPending'
    BY <2>2 DEF StaleIsPending, WillHydrate, HydrateNeeded, AccountSteps
  <2>4. LateAnswerIsHarmless'
    BY <1>1, <1>3, <1>4, <2>1, <2>2 DEF LateAnswerIsHarmless, Connecting, Running
  <2>5. BeforeSettlement' /\ AfterSettlement' /\ StartedAtStartup'
    BY <1>3, <1>4, <2>2 DEF BeforeSettlement, AfterSettlement, StartedAtStartup
  <2>6. QED
    BY <2>3, <2>4, <2>5
<1>7. QED
  BY <1>5, <1>6

\* ensure_ready before it connects.
LEMMA EnsureKeepsInv ==
    ASSUME IndInv, EnsureNotReady \/ EnsureAttempts
    PROVE  /\ StaleIsPending' /\ LateAnswerIsHarmless' /\ BeforeSettlement'
           /\ AfterSettlement' /\ StartedAtStartup'
<1> USE DEF IndInv, TypeOK
<1>1. PICK pc \in {"ensure", "attempt"}, next \in {"attempt", "connect"} :
          At(pc) /\ GoTo(next) /\ UNCHANGED account
  BY DEF EnsureNotReady, EnsureAttempts
<1>2. /\ main.pc = pc /\ main.phase # "stopped" /\ main'.pc = next
      /\ main'.phase = main.phase /\ main'.account = main.account
  BY <1>1, GoToFields DEF At
<1>3. main.account \in Accounts
  BY <1>1, StepHasAccount DEF AccountSteps
<1>4. \A a \in Accounts : /\ gateway'[a].asked = gateway[a].asked
                          /\ gateway'[a].ready = gateway[a].ready
                          /\ gateway'[a].settled = gateway[a].settled
  <2>1. CASE EnsureAttempts
    <3> DEFINE g == gateway[main.account]
               n == g.attempts + 1
               new == [g EXCEPT !.attempts = n, !.resting = TRUE]
    <3>1. gateway' = [gateway EXCEPT ![main.account] = new]
      BY <2>1 DEF EnsureAttempts, Current
    <3> HIDE DEF n
    <3>2. new.asked = g.asked /\ new.ready = g.ready /\ new.settled = g.settled
      BY <1>3 DEF TypeOfGateways, Gateway
    <3> HIDE DEF new
    <3>3. QED
      BY <1>3, <3>1, <3>2 DEF TypeOfGateways
  <2>2. QED
    BY <2>1 DEF EnsureNotReady
<1>5. \A a \in Accounts : (WillHydrate(a) => WillHydrate(a)') /\ ~Connecting(a) /\ Running' = Running
  BY <1>1, <1>2, GoToKeepsPending DEF Connecting, AccountSteps, ConnectSteps
<1>6. StaleIsPending' /\ LateAnswerIsHarmless'
  BY <1>1, <1>4, <1>5 DEF StaleIsPending, LateAnswerIsHarmless
<1>7. BeforeSettlement' /\ AfterSettlement' /\ StartedAtStartup'
  BY <1>2 DEF BeforeSettlement, AfterSettlement, StartedAtStartup
<1>8. QED
  BY <1>6, <1>7

LEMMA AccountStartedKeepsInv ==
    ASSUME IndInv, AccountStarted
    PROVE  /\ StaleIsPending' /\ LateAnswerIsHarmless' /\ BeforeSettlement'
           /\ AfterSettlement' /\ StartedAtStartup'
<1> USE DEF IndInv, TypeOK
<1>1. main.pc = "started" /\ main.phase = "startup" /\ At("started") /\ NextAccount(FALSE)
  BY DEF AccountStarted, At, StartedAtStartup, TypeOfMain, Main
<1>2. main.account \in Accounts
  BY <1>1, StepHasAccount DEF AccountSteps
<1>3. main'.pc = "poll" /\ main'.phase = "startup" /\ main'.account = NoAccount
  BY <1>1, NextAccountFields
<1>4. "settle" \notin gateway[main.account].asked
  BY <1>1, <1>2 DEF AfterSettlement
<1>5. \A a \in Accounts \ {main.account} : account'[a] = account[a]
  BY DEF AccountStarted, TypeOfAccounts, Account
<1>6. \A a \in Accounts : gateway'[a] = gateway[a] /\ ~Connecting(a) /\ Running
  BY <1>1 DEF AccountStarted, Connecting, ConnectSteps, Running
<1>7. StaleIsPending'
  BY <1>3 DEF StaleIsPending, WillHydrate, HydrateNeeded
<1>8. LateAnswerIsHarmless'
  BY <1>4, <1>5, <1>6 DEF LateAnswerIsHarmless
<1>9. BeforeSettlement' /\ AfterSettlement' /\ StartedAtStartup'
  BY <1>3 DEF BeforeSettlement, AfterSettlement, StartedAtStartup
<1>10. QED
  BY <1>7, <1>8, <1>9

\* Steps between accounts: the next one, the end of a pass, the next round.
LEMMA LoopKeepsInv ==
    ASSUME IndInv, \/ PassDone \/ HydrateDone \/ NextRound
                   \/ \E a \in Accounts : StartAccount(a) \/ PollReady(a) \/ PollNotReady(a)
    PROVE  /\ StaleIsPending' /\ LateAnswerIsHarmless' /\ BeforeSettlement'
           /\ AfterSettlement' /\ StartedAtStartup'
<1> USE DEF IndInv, TypeOK
<1>1. /\ main.phase # "stopped" /\ main'.phase # "stopped"
      /\ main.pc \in {"poll", "hydrate", "strategies"}
      /\ main'.pc \in {"poll", "hydrate", "strategies", "connect", "ensure"}
      /\ UNCHANGED gateway
  BY DEF PassDone, HydrateDone, NextRound, StartAccount, PollReady, PollNotReady, At, GoTo,
         TypeOfMain, Main
<1>2. \A a \in Accounts : account'[a].enabled = account[a].enabled
                          /\ account'[a].books = account[a].books
  <2>1. ASSUME NEW x \in Accounts, PollReady(x) \/ PollNotReady(x), NEW a \in Accounts
        PROVE  account'[a].enabled = account[a].enabled /\ account'[a].books = account[a].books
    <3>1. PICK up \in BOOLEAN : account' = [account EXCEPT ![x].connected = up]
      BY <2>1 DEF PollReady, PollNotReady
    <3>2. QED
      BY <3>1 DEF TypeOfAccounts, Account
  <2>2. QED
    BY <2>1 DEF PassDone, HydrateDone, NextRound, StartAccount
<1>3. \A a \in Accounts : ~Connecting(a)
  BY <1>1 DEF Connecting, ConnectSteps
<1>4. \A a \in Accounts : WillHydrate(a) => WillHydrate(a)'
  <2>1. CASE PassDone
    BY <2>1 DEF PassDone, At, WillHydrate, HydrateNeeded, TypeOfMain, Main
  <2>2. CASE HydrateDone \/ NextRound
    BY <2>2 DEF HydrateDone, NextRound, At, WillHydrate, HydrateNeeded, AccountSteps, ConnectSteps
  <2>3. ASSUME NEW a \in Accounts, StartAccount(a) \/ PollReady(a) \/ PollNotReady(a)
        PROVE  /\ main.pc = "poll" /\ main'.pc \in AccountSteps \union {"poll"}
               /\ main'.phase = main.phase /\ main'.rehydrate = main.rehydrate
    BY <2>3 DEF StartAccount, PollReady, PollNotReady, At, AccountSteps, ConnectSteps,
       TypeOfMain, Main
  <2>4. QED
    BY <2>1, <2>2, <2>3 DEF WillHydrate, HydrateNeeded
<1>5. StaleIsPending' /\ LateAnswerIsHarmless'
  BY <1>1, <1>2, <1>3, <1>4 DEF StaleIsPending, LateAnswerIsHarmless, Running
<1>6. BeforeSettlement' /\ AfterSettlement' /\ StartedAtStartup'
  BY <1>1 DEF BeforeSettlement, AfterSettlement, StartedAtStartup
<1>7. QED
  BY <1>5, <1>6

\* The comparison of one account's books.
LEMMA HydrateKeepsInv ==
    ASSUME IndInv, NEW x \in Accounts, HydrateMatches(x) \/ HydrateUnanswered(x) \/ HydrateMismatch(x)
    PROVE  /\ StaleIsPending' /\ LateAnswerIsHarmless' /\ BeforeSettlement'
           /\ AfterSettlement' /\ StartedAtStartup'
<1> USE DEF IndInv, TypeOK
<1>1. main.pc = "hydrate" /\ main.phase # "stopped" /\ UNCHANGED gateway
  BY DEF HydrateMatches, HydrateUnanswered, HydrateMismatch, At
<1>2. \A a \in Accounts : ~Connecting(a)
  BY <1>1 DEF Connecting, ConnectSteps
<1>3. CASE HydrateMatches(x) \/ HydrateUnanswered(x)
  <2>1. /\ main'.pc = "hydrate" /\ main'.phase = main.phase /\ main'.account = main.account
        /\ main'.todo = main.todo \ {x}
    BY <1>1, <1>3 DEF HydrateMatches, HydrateUnanswered, TypeOfMain, Main
  <2>2. /\ \A a \in Accounts : account'[a].enabled = account[a].enabled
        /\ \A a \in Accounts \ {x} : account'[a].books = account[a].books
        /\ gateway[x].ready => account'[x].books # "stale"
    BY <1>3 DEF HydrateMatches, HydrateUnanswered, TypeOfAccounts, Account
  <2>3. StaleIsPending'
    BY <1>1, <1>2, <2>1, <2>2
       DEF StaleIsPending, WillHydrate, Running, AccountSteps, ConnectSteps
  <2>4. LateAnswerIsHarmless'
    BY <1>1, <1>2, <2>1, <2>2 DEF LateAnswerIsHarmless, Running
  <2>5. QED
    BY <2>1, <2>3, <2>4 DEF BeforeSettlement, AfterSettlement, StartedAtStartup
<1>4. CASE HydrateMismatch(x)
  <2>1. CASE main.phase = "startup"
    <3>1. main'.phase = "stopped" /\ main'.pc = main.pc
      BY <1>4, <2>1, StopFields DEF HydrateMismatch
    <3>2. QED
      BY <1>1, <3>1
         DEF StaleIsPending, LateAnswerIsHarmless, BeforeSettlement, AfterSettlement, StartedAtStartup, Running
  <2>2. CASE main.phase # "startup"
    <3>1. main'.pc = "strategies"
      BY <1>4, <2>2 DEF HydrateMismatch, TypeOfMain, Main
    <3>2. \A a \in Accounts : ~account'[a].enabled
      <4>1. ASSUME NEW a \in Accounts
            PROVE  account'[a] = [account[a] EXCEPT !.enabled = FALSE, !.reason = "mismatch"]
        BY <1>4, <2>2 DEF HydrateMismatch
      <4>2. QED
        BY <4>1 DEF TypeOfAccounts, Account
    <3>3. QED
      BY <1>1, <3>1, <3>2
         DEF StaleIsPending, LateAnswerIsHarmless, BeforeSettlement, AfterSettlement, StartedAtStartup
  <2>3. QED
    BY <2>1, <2>2
<1>5. QED
  BY <1>3, <1>4

\* Callbacks that leave the session's readiness alone or take it away.
LEMMA CallbackKeepsInv ==
    ASSUME IndInv, UNCHANGED main,
           \A a \in Accounts :
              /\ account'[a].enabled = account[a].enabled
              /\ gateway'[a].asked \subseteq gateway[a].asked
              /\ gateway'[a].ready => gateway[a].ready /\ account'[a].books = account[a].books
              /\ gateway'[a].settled => gateway[a].settled
    PROVE  /\ StaleIsPending' /\ LateAnswerIsHarmless' /\ BeforeSettlement'
           /\ AfterSettlement' /\ StartedAtStartup'
<1> USE DEF IndInv, TypeOK
<1>1. \A a \in Accounts : /\ WillHydrate(a)' <=> WillHydrate(a)
                          /\ Connecting(a)' <=> Connecting(a)
                          /\ Running' <=> Running
  BY DEF WillHydrate, HydrateNeeded, Connecting, Running
<1>2. \A a \in Accounts : /\ gateway[a].ready \in BOOLEAN /\ gateway'[a].ready => gateway[a].ready
                          /\ gateway[a].settled \in BOOLEAN
  BY DEF TypeOfGateways, Gateway
<1>3. StaleIsPending'
  BY <1>1 DEF StaleIsPending
<1>4. LateAnswerIsHarmless'
  BY <1>1, <1>2 DEF LateAnswerIsHarmless
<1>5. BeforeSettlement'
  BY <1>2 DEF BeforeSettlement
<1>6. AfterSettlement' /\ StartedAtStartup'
  BY DEF AfterSettlement, StartedAtStartup
<1>7. QED
  BY <1>3, <1>4, <1>5, <1>6

\* The answer that may make a session ready behind the main thread's back.
LEMMA SettlementKeepsInv ==
    ASSUME IndInv, NEW x \in Accounts, NEW ok \in BOOLEAN, OnRspSettlementInfoConfirm(x, ok)
    PROVE  /\ StaleIsPending' /\ LateAnswerIsHarmless' /\ BeforeSettlement'
           /\ AfterSettlement' /\ StartedAtStartup'
<1> USE DEF IndInv, TypeOK
<1>1. "settle" \in gateway[x].asked /\ UNCHANGED <<account, main>>
  BY DEF OnRspSettlementInfoConfirm, Answered
<1>2. "settle" \notin gateway'[x].asked /\ \A a \in Accounts \ {x} : gateway'[a] = gateway[a]
  BY DEF OnRspSettlementInfoConfirm, TypeOfGateways, Gateway
<1>3. \A a \in Accounts : /\ WillHydrate(a)' <=> WillHydrate(a)
                          /\ Connecting(a)' <=> Connecting(a)
                          /\ Running' <=> Running
  BY <1>1 DEF WillHydrate, HydrateNeeded, Connecting, Running
<1>4. Running => ~account[x].enabled \/ Connecting(x)
  BY <1>1 DEF LateAnswerIsHarmless
<1>5. StaleIsPending'
  BY <1>1, <1>2, <1>3, <1>4 DEF StaleIsPending
<1>6. LateAnswerIsHarmless'
  BY <1>1, <1>2, <1>3 DEF LateAnswerIsHarmless
<1>7. BeforeSettlement'
  BY <1>1, <1>2 DEF BeforeSettlement
<1>8. AfterSettlement' /\ StartedAtStartup'
  BY <1>1, <1>2 DEF AfterSettlement, StartedAtStartup
<1>9. QED
  BY <1>5, <1>6, <1>7, <1>8

LEMMA InvStep ==
    ASSUME IndInv, [Next]_vars
    PROVE  IndInv'
<1> DEFINE Goal == /\ StaleIsPending' /\ LateAnswerIsHarmless' /\ BeforeSettlement'
                   /\ AfterSettlement' /\ StartedAtStartup'
<1> SUFFICES Goal
  BY TypeStep DEF IndInv
<1>t. TypeOfGateways /\ TypeOfAccounts /\ TypeOfMain
  BY DEF IndInv, TypeOK
<1>1. CASE Connect
  <2>1. CASE GiveUpWaiting \/ ConnectFails
    <3>1. PICK pc \in ConnectSteps : At(pc) /\ Failed /\ UNCHANGED gateway
      BY <2>1 DEF GiveUpWaiting, ConnectFails, Waits, ConnectSteps
    <3>2. pc \in AccountSteps
      BY DEF AccountSteps
    <3>3. QED
      BY <3>1, <3>2, FailedKeepsInv
  <2>2. QED
    BY <1>1, <2>1, ConnectStepKeepsInv, StartConnectKeepsInv, ConnectSucceedsKeepsInv DEF Connect
<1>2. CASE Ensure
  <2>1. CASE EnsureReadyAtOnce
    <3>1. At("ensure") /\ "ensure" \in AccountSteps /\ Reconnected /\ UNCHANGED gateway
      BY <2>1 DEF EnsureReadyAtOnce, AccountSteps
    <3>2. "settle" \notin gateway[main.account].asked
      BY <1>t, <2>1, <3>1, StepHasAccount DEF EnsureReadyAtOnce, Current, IndInv, LateAnswerIsHarmless
    <3>3. QED
      BY <3>1, <3>2, ReconnectedKeepsInv
  <2>2. CASE EnsureRefuses
    BY <2>2, FailedKeepsInv DEF EnsureRefuses, AccountSteps
  <2>3. QED
    BY <1>2, <2>1, <2>2, EnsureKeepsInv DEF Ensure
<1>3. CASE Loop
  BY <1>3, AccountStartedKeepsInv, LoopKeepsInv, HydrateKeepsInv DEF Loop
<1>4. ASSUME NEW x \in Accounts, Callbacks(x) \/ Troubles(x) \/ RetryIntervalPasses(x)
      PROVE  Goal
  <2>1. CASE OnFrontConnected(x) \/ OnRspError(x) \/ RetryIntervalPasses(x)
    <3>1. \/ gateway' = [gateway EXCEPT ![x].front = TRUE]
          \/ gateway' = [gateway EXCEPT ![x].error = TRUE]
          \/ gateway' = [gateway EXCEPT ![x].resting = FALSE]
      BY <2>1 DEF OnFrontConnected, OnRspError, RetryIntervalPasses
    <3>2. \A a \in Accounts : /\ gateway'[a].asked = gateway[a].asked
                              /\ gateway'[a].ready = gateway[a].ready
                              /\ gateway'[a].settled = gateway[a].settled
      BY <1>t, <3>1 DEF TypeOfGateways, Gateway
    <3>3. UNCHANGED <<account, main>>
      BY <2>1 DEF OnFrontConnected, OnRspError, RetryIntervalPasses
    <3>4. QED
      BY <3>2, <3>3, CallbackKeepsInv
  <2>2. CASE OnFrontDisconnected(x)
    <3>1. /\ gateway'[x].asked = {} /\ ~gateway'[x].ready /\ ~gateway'[x].settled
          /\ \A a \in Accounts \ {x} : gateway'[a] = gateway[a]
      BY <1>t, <2>2 DEF OnFrontDisconnected, TypeOfGateways, Gateway
    <3>2. /\ UNCHANGED main /\ account'[x].enabled = account[x].enabled
          /\ \A a \in Accounts \ {x} : account'[a] = account[a]
      BY <1>t, <2>2 DEF OnFrontDisconnected, TypeOfAccounts, Account
    <3>3. QED
      BY <3>1, <3>2, CallbackKeepsInv
  <2>3. ASSUME NEW ok \in BOOLEAN, OnRspAuthenticate(x, ok) \/ OnRspUserLogin(x, ok)
        PROVE  Goal
    <3>1. /\ gateway'[x].asked \subseteq gateway[x].asked
          /\ gateway'[x].ready => gateway[x].ready
          /\ gateway'[x].settled = gateway[x].settled
          /\ \A a \in Accounts \ {x} : gateway'[a] = gateway[a]
      <4> DEFINE g == gateway[x]
      <4>1. g \in Gateway
        BY <1>t DEF TypeOfGateways
      <4>2. ASSUME NEW error \in BOOLEAN
            PROVE  LET new == [g EXCEPT !.asked = g.asked \ {"auth"}, !.auth = TRUE, !.error = error]
                   IN  new.asked \subseteq g.asked /\ new.ready = g.ready /\ new.settled = g.settled
        BY <4>1 DEF Gateway
      <4>3. ASSUME NEW error \in BOOLEAN, NEW ready \in BOOLEAN
            PROVE  LET new == [g EXCEPT !.asked = g.asked \ {"login"}, !.login = TRUE,
                                        !.ready = ready, !.error = error]
                   IN  new.asked \subseteq g.asked /\ new.ready = ready /\ new.settled = g.settled
        BY <4>1 DEF Gateway
      <4>4. (g.error \/ ~ok) \in BOOLEAN /\ (g.ready /\ ok) \in BOOLEAN /\ (g.ready /\ ok => g.ready)
        BY <4>1 DEF Gateway
      <4>5. CASE OnRspAuthenticate(x, ok)
        BY <1>t, <4>2, <4>4, <4>5 DEF OnRspAuthenticate, TypeOfGateways
      <4>6. CASE OnRspUserLogin(x, ok)
        BY <1>t, <4>3, <4>4, <4>6 DEF OnRspUserLogin, TypeOfGateways
      <4>7. QED
        BY <2>3, <4>5, <4>6
    <3>2. UNCHANGED <<account, main>>
      BY <2>3 DEF OnRspAuthenticate, OnRspUserLogin, Answered
    <3>3. QED
      BY <3>1, <3>2, CallbackKeepsInv
  <2>4. QED
    BY <1>4, <2>1, <2>2, <2>3, SettlementKeepsInv DEF Callbacks, Troubles, Answers
<1>5. CASE UNCHANGED vars
  BY <1>5, CallbackKeepsInv DEF vars
<1>6. QED
  BY <1>1, <1>2, <1>3, <1>4, <1>5 DEF Next, MainThread

LEMMA InitEstablishesInv == Init => IndInv
<1> SUFFICES ASSUME Init PROVE IndInv
  OBVIOUS
<1>1. TypeOfGateways /\ TypeOfAccounts
  BY DEF Init, TypeOfGateways, TypeOfAccounts, Gateway, Account
<1>2. TypeOfMain /\ trouble \in 0..MaxTrouble
  BY NoAccountAssumption, MaxTroubleAssumption
     DEF Init, TypeOfMain, Main, AccountSteps, ConnectSteps
<1>3. StaleIsPending /\ LateAnswerIsHarmless /\ BeforeSettlement /\ AfterSettlement /\ StartedAtStartup
  BY DEF Init, StaleIsPending, LateAnswerIsHarmless, BeforeSettlement, AfterSettlement, StartedAtStartup
<1>4. QED
  BY <1>1, <1>2, <1>3 DEF IndInv, TypeOK

-----------------------------------------------------------------------------
(* Where a session that became ready behind the loop's back can stand: its *)
(* account is paused, or the loop is about to compare its books.           *)
THEOREM ReadinessIsTracked == SafeSpec => []IndInv
<1>1. Init => IndInv
  BY InitEstablishesInv
<1>2. IndInv /\ [Next]_vars => IndInv'
  BY InvStep
<1>3. QED
  BY <1>1, <1>2, PTL DEF SafeSpec

(* The records of gateways, accounts and main thread keep their types.     *)
THEOREM TypeCorrect == SafeSpec => []TypeOK
<1>1. IndInv => TypeOK
  BY DEF IndInv
<1>2. QED
  BY <1>1, ReadinessIsTracked, PTL

(* No account trades in a session whose positions the loop did not ask for, *)
(* whatever the broker's answers, drops and errors, for any number of      *)
(* accounts and whatever the settings of reconnects.                       *)
THEOREM TradingIsAlwaysHydrated == SafeSpec => []TradingIsHydrated
<1>1. IndInv => TradingIsHydrated
  BY DEF IndInv, StaleIsPending, TradingIsHydrated, CanTrade, At, Running,
         WillHydrate, Connecting, AccountSteps, ConnectSteps
<1>2. QED
  BY <1>1, ReadinessIsTracked, PTL

(* reconnect_max_attempts bounds the reconnects between two successes.     *)
THEOREM AttemptsAreLimited == SafeSpec => []AttemptsWithinLimit
<1> DEFINE Inv == TypeOK /\ AttemptsWithinLimit
<1>1. Init => Inv
  BY InitEstablishesInv, MaxAttemptsAssumption DEF IndInv, Init, AttemptsWithinLimit
<1>2. Inv /\ [Next]_vars => Inv'
  <2> SUFFICES ASSUME Inv, [Next]_vars PROVE Inv'
    OBVIOUS
  <2>1. TypeOfGateways /\ TypeOfMain
    BY DEF TypeOK
  <2>2. \A a \in Accounts : \/ gateway'[a].attempts = gateway[a].attempts
                            \/ gateway'[a].attempts = 0
                            \/ /\ gateway'[a].attempts = gateway[a].attempts + 1
                               /\ MaxAttempts = 0 \/ gateway[a].attempts < MaxAttempts
    <3>1. CASE EnsureAttempts
      <4> DEFINE g == gateway[main.account]
                 n == g.attempts + 1
                 new == [g EXCEPT !.attempts = n, !.resting = TRUE]
      <4>1. main.account \in Accounts
        BY <2>1, <3>1, StepHasAccount DEF EnsureAttempts, AccountSteps
      <4>2. gateway' = [gateway EXCEPT ![main.account] = new]
        BY <3>1 DEF EnsureAttempts, Current
      <4>3. MaxAttempts = 0 \/ g.attempts < MaxAttempts
        BY <3>1 DEF EnsureAttempts, MayReconnect, Current
      <4> HIDE DEF n
      <4>4. new.attempts = n
        BY <2>1, <4>1 DEF TypeOfGateways, Gateway
      <4> HIDE DEF new
      <4>5. \A a \in Accounts : gateway'[a] = IF a = main.account THEN new ELSE gateway[a]
        BY <2>1, <4>1, <4>2 DEF TypeOfGateways
      <4>6. QED
        BY <4>3, <4>4, <4>5 DEF n
    <3>2. CASE ConnectSucceeds
      BY <2>1, <3>2 DEF ConnectSucceeds, TypeOfGateways, Gateway
    <3>3. CASE StartConnect
      BY <2>1, <3>3 DEF StartConnect, TypeOfGateways, Gateway
    <3>4. ASSUME NEW request, Ask(request)
          PROVE  \A a \in Accounts : gateway'[a].attempts = gateway[a].attempts
      BY <2>1, <3>4 DEF Ask, TypeOfGateways, Gateway
    <3>5. ASSUME NEW x \in Accounts, Callbacks(x) \/ Troubles(x) \/ RetryIntervalPasses(x)
          PROVE  \A a \in Accounts : gateway'[a].attempts = gateway[a].attempts
      <4>1. CASE OnFrontConnected(x) \/ OnFrontDisconnected(x) \/ OnRspError(x) \/ RetryIntervalPasses(x)
        <5>1. CASE OnFrontDisconnected(x)
          BY <2>1, <5>1 DEF OnFrontDisconnected, TypeOfGateways, Gateway
        <5>2. CASE OnFrontConnected(x) \/ OnRspError(x) \/ RetryIntervalPasses(x)
          <6>1. \/ gateway' = [gateway EXCEPT ![x].front = TRUE]
                \/ gateway' = [gateway EXCEPT ![x].error = TRUE]
                \/ gateway' = [gateway EXCEPT ![x].resting = FALSE]
            BY <5>2 DEF OnFrontConnected, OnRspError, RetryIntervalPasses
          <6>2. QED
            BY <2>1, <6>1 DEF TypeOfGateways, Gateway
        <5>3. QED
          BY <4>1, <5>1, <5>2
      <4>2. ASSUME NEW ok \in BOOLEAN, OnRspAuthenticate(x, ok)
            PROVE  \A a \in Accounts : gateway'[a].attempts = gateway[a].attempts
        BY <2>1, <4>2 DEF OnRspAuthenticate, TypeOfGateways, Gateway
      <4>3. ASSUME NEW ok \in BOOLEAN, OnRspUserLogin(x, ok)
            PROVE  \A a \in Accounts : gateway'[a].attempts = gateway[a].attempts
        BY <2>1, <4>3 DEF OnRspUserLogin, TypeOfGateways, Gateway
      <4>4. ASSUME NEW ok \in BOOLEAN, OnRspSettlementInfoConfirm(x, ok)
            PROVE  \A a \in Accounts : gateway'[a].attempts = gateway[a].attempts
        BY <2>1, <4>4 DEF OnRspSettlementInfoConfirm, TypeOfGateways, Gateway
      <4>5. QED
        BY <3>5, <4>1, <4>2, <4>3, <4>4 DEF Callbacks, Troubles, Answers
    <3>6. QED
      BY <3>1, <3>2, <3>3, <3>4, <3>5
         DEF vars, Next, MainThread, Connect, Ensure, Loop, FrontAwaited, AskAuthOrLogin, AuthAwaited,
             LoginAwaited, ConfirmSettlement, SettlementAwaited, ConfirmedReady, GiveUpWaiting,
             ConnectFails, EnsureReadyAtOnce, EnsureNotReady, EnsureRefuses, AccountStarted,
             PassDone, HydrateDone, NextRound, StartAccount, PollReady, PollNotReady,
             HydrateMatches, HydrateUnanswered, HydrateMismatch
  <2>3. \A a \in Accounts : gateway[a].attempts \in Nat
    BY <2>1 DEF TypeOfGateways, Gateway
  <2>4. QED
    BY <2>2, <2>3, TypeStep, MaxAttemptsAssumption DEF AttemptsWithinLimit
<1>3. QED
  BY <1>1, <1>2, PTL DEF SafeSpec

-----------------------------------------------------------------------------
(* What makes a pause outlast the disconnection it is for: finding 1.      *)

\* connect() gave up, and the answer to its last request comes after all.
LateAnswer(a) == ~Connecting(a) /\ OnRspSettlementInfoConfirm(a, TRUE)

\* The gateway is ready, nobody is reconnecting it, and the pause stands.
PauseOutlasts(a) == PausedWhileReady(a) /\ ~Connecting(a)
NoPauseOutlasts == \A a \in Accounts : ~PauseOutlasts(a)

ReadyIsSettled == \A a \in Accounts : gateway[a].ready => gateway[a].settled

StaysDown ==
    Running => \A a \in Accounts :
        (main.account = a /\ main.pc \in {"ensure", "attempt"}) => ~gateway[a].ready

NoPauseAtStartup ==
    main.phase = "startup" => \A a \in Accounts : account[a].reason # "disconnected"

PromptInv == IndInv /\ ReadyIsSettled /\ StaysDown /\ NoPauseAtStartup /\ NoPauseOutlasts

FailedStep == GiveUpWaiting \/ ConnectFails \/ EnsureRefuses

(* A gateway becomes ready with the settlement's answer and no other way.  *)
LEMMA ReadinessMoves ==
    ASSUME IndInv, [Next]_vars, NEW a \in Accounts
    PROVE  \/ /\ gateway'[a].ready => gateway[a].ready
              /\ gateway'[a].ready => gateway'[a].settled = gateway[a].settled
           \/ OnRspSettlementInfoConfirm(a, TRUE) /\ gateway'[a].settled /\ UNCHANGED <<account, main>>
<1> DEFINE Goal == \/ /\ gateway'[a].ready => gateway[a].ready
                      /\ gateway'[a].ready => gateway'[a].settled = gateway[a].settled
                   \/ /\ OnRspSettlementInfoConfirm(a, TRUE) /\ gateway'[a].settled
                      /\ UNCHANGED <<account, main>>
<1>t. TypeOfGateways /\ TypeOfMain /\ gateway[a] \in Gateway
  BY DEF IndInv, TypeOK, TypeOfGateways
<1>1. CASE UNCHANGED gateway
  BY <1>1
<1>2. CASE StartConnect
  BY <1>t, <1>2 DEF StartConnect, TypeOfGateways, Gateway
<1>3. CASE AskAuthOrLogin \/ AuthAwaited \/ ConfirmSettlement
  BY <1>t, <1>3, StepHasAccount, AskFields
     DEF AskAuthOrLogin, AuthAwaited, ConfirmSettlement, AccountSteps, ConnectSteps
<1>4. CASE ConnectSucceeds
  BY <1>t, <1>4 DEF ConnectSucceeds, TypeOfGateways, Gateway
<1>5. CASE EnsureAttempts
  <2> DEFINE g == gateway[main.account]
             n == g.attempts + 1
             new == [g EXCEPT !.attempts = n, !.resting = TRUE]
  <2>1. main.account \in Accounts
    BY <1>t, <1>5, StepHasAccount DEF EnsureAttempts, AccountSteps
  <2>2. gateway' = [gateway EXCEPT ![main.account] = new]
    BY <1>5 DEF EnsureAttempts, Current
  <2> HIDE DEF n
  <2>3. new.ready = g.ready /\ new.settled = g.settled
    BY <1>t, <2>1 DEF TypeOfGateways, Gateway
  <2> HIDE DEF new
  <2> QED
    BY <1>t, <2>1, <2>2, <2>3 DEF TypeOfGateways
<1>6. ASSUME NEW x \in Accounts, OnFrontConnected(x) \/ OnRspError(x) \/ RetryIntervalPasses(x)
      PROVE  Goal
  <2>1. \/ gateway' = [gateway EXCEPT ![x].front = TRUE]
        \/ gateway' = [gateway EXCEPT ![x].error = TRUE]
        \/ gateway' = [gateway EXCEPT ![x].resting = FALSE]
    BY <1>6 DEF OnFrontConnected, OnRspError, RetryIntervalPasses
  <2>2. gateway'[a].ready = gateway[a].ready /\ gateway'[a].settled = gateway[a].settled
    <3>1. CASE gateway' = [gateway EXCEPT ![x].front = TRUE]
      BY <1>t, <3>1 DEF TypeOfGateways, Gateway
    <3>2. CASE gateway' = [gateway EXCEPT ![x].error = TRUE]
      BY <1>t, <3>2 DEF TypeOfGateways, Gateway
    <3>3. CASE gateway' = [gateway EXCEPT ![x].resting = FALSE]
      BY <1>t, <3>3 DEF TypeOfGateways, Gateway
    <3> QED
      BY <2>1, <3>1, <3>2, <3>3
  <2> QED
    BY <2>2
<1>7. ASSUME NEW x \in Accounts, OnFrontDisconnected(x)
      PROVE  Goal
  BY <1>t, <1>7 DEF OnFrontDisconnected, TypeOfGateways, Gateway
<1>8. ASSUME NEW x \in Accounts, NEW ok \in BOOLEAN, OnRspAuthenticate(x, ok)
      PROVE  Goal
  BY <1>t, <1>8 DEF OnRspAuthenticate, TypeOfGateways, Gateway
<1>9. ASSUME NEW x \in Accounts, NEW ok \in BOOLEAN, OnRspUserLogin(x, ok)
      PROVE  Goal
  BY <1>t, <1>9 DEF OnRspUserLogin, TypeOfGateways, Gateway
<1>10. ASSUME NEW x \in Accounts, NEW ok \in BOOLEAN, OnRspSettlementInfoConfirm(x, ok)
       PROVE  Goal
  <2>1. /\ gateway'[x].settled /\ gateway'[x].ready = ok
        /\ \A b \in Accounts \ {x} : gateway'[b] = gateway[b]
    BY <1>t, <1>10 DEF OnRspSettlementInfoConfirm, TypeOfGateways, Gateway
  <2>2. UNCHANGED <<account, main>>
    BY <1>10 DEF OnRspSettlementInfoConfirm, Answered
  <2>3. CASE a = x /\ ok
    BY <1>10, <2>1, <2>2, <2>3
  <2>4. CASE a # x \/ ~ok
    BY <2>1, <2>4
  <2> QED
    BY <2>3, <2>4
<1>11. QED
  BY <1>1, <1>2, <1>3, <1>4, <1>5, <1>6, <1>7, <1>8, <1>9, <1>10
     DEF vars, Next, MainThread, Connect, Ensure, Loop, Callbacks, Answers, Troubles,
         FrontAwaited, LoginAwaited, SettlementAwaited, ConfirmedReady, GiveUpWaiting, ConnectFails,
         EnsureReadyAtOnce, EnsureNotReady, EnsureRefuses, AccountStarted, PassDone, HydrateDone,
         NextRound, StartAccount, PollReady, PollNotReady, HydrateMatches, HydrateUnanswered,
         HydrateMismatch

(* Only a failure of the loop pauses an account for a disconnection.       *)
LEMMA ReasonMoves ==
    ASSUME IndInv, [Next]_vars, NEW a \in Accounts
    PROVE  \/ account'[a].reason = "disconnected" => account[a].reason = "disconnected"
           \/ FailedStep /\ Failed /\ a = main.account /\ main.phase # "startup"
<1> DEFINE Goal == \/ account'[a].reason = "disconnected" => account[a].reason = "disconnected"
                   \/ FailedStep /\ Failed /\ a = main.account /\ main.phase # "startup"
<1>t. TypeOfAccounts /\ TypeOfGateways /\ TypeOfMain /\ account[a] \in Account
  BY DEF IndInv, TypeOK, TypeOfAccounts
<1>1. CASE FailedStep
  <2>1. Failed
    BY <1>1 DEF FailedStep, GiveUpWaiting, ConnectFails, EnsureRefuses
  <2>2. CASE a = main.account /\ main.phase # "startup"
    BY <1>1, <2>1, <2>2
  <2>3. CASE a # main.account \/ main.phase = "startup"
    BY <1>t, <2>1, <2>3 DEF Failed, TypeOfAccounts
  <2> QED
    BY <2>2, <2>3
<1>2. CASE Reconnected
  BY <1>t, <1>2 DEF Reconnected, TypeOfAccounts, Account
<1>3. ASSUME NEW x, account' = [account EXCEPT ![x].books = "stale"]
      PROVE  Goal
  BY <1>t, <1>3 DEF TypeOfAccounts, Account
<1>4. CASE AccountStarted
  <2> DEFINE ready == gateway[main.account].ready
             new == [account[main.account] EXCEPT !.connected = ready, !.enabled = ready]
  <2>1. main.account \in Accounts
    BY <1>t, <1>4, StepHasAccount DEF AccountStarted, AccountSteps
  <2>2. account' = [account EXCEPT ![main.account] = new]
    BY <1>4 DEF AccountStarted, Current
  <2> HIDE DEF ready
  <2>3. new.reason = account[main.account].reason
    BY <1>t, <2>1 DEF TypeOfAccounts, Account
  <2> HIDE DEF new
  <2> QED
    BY <1>t, <2>1, <2>2, <2>3 DEF TypeOfAccounts
<1>5. ASSUME NEW x \in Accounts, PollReady(x) \/ PollNotReady(x)
      PROVE  Goal
  <2>1. PICK up \in BOOLEAN : account' = [account EXCEPT ![x].connected = up]
    BY <1>5 DEF PollReady, PollNotReady
  <2> QED
    BY <1>t, <2>1 DEF TypeOfAccounts, Account
<1>6. ASSUME NEW x \in Accounts, HydrateMatches(x) \/ HydrateUnanswered(x)
      PROVE  Goal
  BY <1>t, <1>6 DEF HydrateMatches, HydrateUnanswered, TypeOfAccounts, Account
<1>7. ASSUME NEW x \in Accounts, HydrateMismatch(x)
      PROVE  Goal
  <2>1. CASE UNCHANGED account
    BY <2>1
  <2>2. CASE main.phase # "startup"
    <3>1. account'[a] = [account[a] EXCEPT !.enabled = FALSE, !.reason = "mismatch"]
      BY <1>7, <2>2 DEF HydrateMismatch
    <3> QED
      BY <1>t, <3>1 DEF Account
  <2> QED
    BY <1>7, <2>1, <2>2 DEF HydrateMismatch
<1>8. CASE UNCHANGED account
  BY <1>8
<1>9. QED
  BY <1>1, <1>2, <1>3, <1>4, <1>5, <1>6, <1>7, <1>8
     DEF vars, Next, MainThread, Connect, Ensure, Loop, Callbacks, Answers, Troubles, Answered,
         FailedStep, StartConnect, FrontAwaited, AskAuthOrLogin, AuthAwaited, LoginAwaited,
         ConfirmSettlement, SettlementAwaited, ConfirmedReady, ConnectSucceeds,
         EnsureReadyAtOnce, EnsureNotReady, EnsureAttempts, PassDone, HydrateDone, NextRound,
         StartAccount, RetryIntervalPasses, OnFrontConnected, OnFrontDisconnected,
         OnRspAuthenticate, OnRspUserLogin, OnRspSettlementInfoConfirm, OnRspError

(* How the main thread comes to an account that is not ready, and leaves   *)
(* the one it connects.                                                    *)
LEMMA MainMoves ==
    ASSUME IndInv, [Next]_vars, NEW a \in Accounts
    PROVE  /\ main'.phase = "live" => main.phase # "stopped"
           /\ main'.phase = "startup" => main.phase = "startup"
           /\ (main'.account = a /\ main'.pc \in {"ensure", "attempt"} /\ main'.phase # "stopped") =>
                  \/ UNCHANGED main
                  \/ PollNotReady(a)
                  \/ EnsureNotReady /\ main.account = a
           /\ (Connecting(a) /\ ~Connecting(a)' /\ main'.phase = "live") =>
                  FailedStep \/ (ConnectSucceeds /\ main.phase # "startup")
<1> DEFINE Goal == /\ main'.phase = "live" => main.phase # "stopped"
                   /\ main'.phase = "startup" => main.phase = "startup"
                   /\ (main'.account = a /\ main'.pc \in {"ensure", "attempt"}
                          /\ main'.phase # "stopped") =>
                          \/ UNCHANGED main
                          \/ PollNotReady(a)
                          \/ EnsureNotReady /\ main.account = a
                   /\ (Connecting(a) /\ ~Connecting(a)' /\ main'.phase = "live") =>
                          FailedStep \/ (ConnectSucceeds /\ main.phase # "startup")
<1>t. TypeOfMain
  BY DEF IndInv, TypeOK
<1>1. CASE UNCHANGED main
  BY <1>1 DEF Connecting
<1>2. CASE Stop
  BY <1>t, <1>2, StopFields DEF Connecting
<1>3. ASSUME NEW pc \in AccountSteps, NEW next \in ConnectSteps, At(pc), GoTo(next)
      PROVE  Goal
  BY <1>t, <1>3, GoToFields DEF At, Connecting, ConnectSteps
<1>4. ASSUME NEW rehydrate, NEW pc \in AccountSteps, At(pc), NextAccount(rehydrate),
             pc \in ConnectSteps => FailedStep \/ (ConnectSucceeds /\ main.phase # "startup")
      PROVE  Goal
  BY <1>t, <1>4, NextAccountFields, NoAccountAssumption DEF At, Connecting
<1>5. CASE FailedStep
  <2>1. PICK pc \in AccountSteps : At(pc) /\ Failed
    BY <1>5 DEF FailedStep, GiveUpWaiting, ConnectFails, EnsureRefuses, AccountSteps, ConnectSteps, Waits
  <2> QED
    BY <1>2, <1>4, <1>5, <2>1 DEF Failed
<1>6. CASE ConnectSucceeds
  <2>1. CASE main.phase = "startup"
    <3>1. GoTo("started") /\ At("success")
      BY <1>6, <2>1 DEF ConnectSucceeds
    <3> QED
      BY <1>t, <2>1, <3>1, GoToFields DEF At
  <2>2. CASE main.phase # "startup"
    <3>1. At("success") /\ NextAccount(TRUE) /\ "success" \in AccountSteps
      BY <1>6, <2>2 DEF ConnectSucceeds, Reconnected, AccountSteps, ConnectSteps
    <3> QED
      BY <1>4, <1>6, <2>2, <3>1
  <2> QED
    BY <2>1, <2>2
<1>7. CASE EnsureReadyAtOnce
  <2>1. At("ensure") /\ NextAccount(TRUE) /\ "ensure" \in AccountSteps /\ "ensure" \notin ConnectSteps
    BY <1>7 DEF EnsureReadyAtOnce, Reconnected, AccountSteps, ConnectSteps
  <2> QED
    BY <1>4, <2>1
<1>8. CASE AccountStarted
  <2>1. At("started") /\ NextAccount(FALSE) /\ "started" \in AccountSteps /\ "started" \notin ConnectSteps
    BY <1>8 DEF AccountStarted, AccountSteps, ConnectSteps
  <2> QED
    BY <1>4, <2>1
<1>9. CASE EnsureNotReady
  <2>1. At("ensure") /\ GoTo("attempt")
    BY <1>9 DEF EnsureNotReady
  <2> QED
    BY <1>t, <1>9, <2>1, GoToFields DEF At, Connecting, ConnectSteps
<1>10. ASSUME At("poll") \/ At("hydrate") \/ At("strategies"),
              main'.pc \in {"poll", "hydrate", "strategies", "connect"}, main'.phase # "startup" \/ main'.phase = main.phase
       PROVE  Goal
  BY <1>10 DEF At, Connecting, ConnectSteps
<1>11. CASE PassDone \/ HydrateDone \/ NextRound
  <2>1. PassDone => main'.pc \in {"hydrate", "strategies"} /\ main'.phase = main.phase
    BY <1>t DEF PassDone, TypeOfMain, Main
  <2>2. HydrateDone => main'.pc = "strategies" /\ main'.phase = main.phase
    BY <1>t, GoToFields DEF HydrateDone
  <2>3. NextRound => main'.pc = "poll" /\ main'.phase = "live"
    BY <1>t DEF NextRound, TypeOfMain, Main
  <2> QED
    BY <1>10, <1>11, <2>1, <2>2, <2>3 DEF PassDone, HydrateDone, NextRound
<1>12. ASSUME NEW x \in Accounts, \/ StartAccount(x) \/ PollReady(x) \/ PollNotReady(x)
                                  \/ HydrateMatches(x) \/ HydrateUnanswered(x) \/ HydrateMismatch(x)
       PROVE  Goal
  <2>1. StartAccount(x) => At("poll") /\ main'.pc = "connect" /\ main'.phase = main.phase
    BY <1>t DEF StartAccount, TypeOfMain, Main
  <2>2. PollReady(x) => At("poll") /\ main'.pc = "poll" /\ main'.phase = main.phase
    BY <1>t DEF PollReady, TypeOfMain, Main, At
  <2>3. PollNotReady(x) => At("poll") /\ main'.pc = "ensure" /\ main'.account = x /\ main'.phase = main.phase
    BY <1>t DEF PollNotReady, TypeOfMain, Main
  <2>4. HydrateMatches(x) \/ HydrateUnanswered(x) =>
            At("hydrate") /\ main'.pc = "hydrate" /\ main'.phase = main.phase
    BY <1>t DEF HydrateMatches, HydrateUnanswered, TypeOfMain, Main, At
  <2>5. HydrateMismatch(x) =>
            At("hydrate") /\ (Stop \/ (main'.pc = "strategies" /\ main'.phase = main.phase))
    BY <1>t DEF HydrateMismatch, TypeOfMain, Main
  <2>6. CASE PollNotReady(x)
    BY <2>3, <2>6 DEF At, Connecting, ConnectSteps
  <2> QED
    BY <1>2, <1>10, <1>12, <2>1, <2>2, <2>4, <2>5, <2>6
<1>13. CASE Connect
  <2>1. CASE \/ StartConnect \/ FrontAwaited \/ AskAuthOrLogin \/ AuthAwaited \/ LoginAwaited
             \/ ConfirmSettlement \/ SettlementAwaited \/ ConfirmedReady
    <3>1. PICK pc \in AccountSteps, next \in ConnectSteps : At(pc) /\ GoTo(next)
      BY <2>1 DEF StartConnect, FrontAwaited, AskAuthOrLogin, AuthAwaited, LoginAwaited,
             ConfirmSettlement, SettlementAwaited, ConfirmedReady, AccountSteps, ConnectSteps
    <3> QED
      BY <1>3, <3>1
  <2> QED
    BY <1>5, <1>6, <1>13, <2>1 DEF Connect, FailedStep
<1>14. CASE Ensure
  <2>1. CASE EnsureAttempts
    <3>1. At("attempt") /\ GoTo("connect") /\ "attempt" \in AccountSteps /\ "connect" \in ConnectSteps
      BY <2>1 DEF EnsureAttempts, AccountSteps, ConnectSteps
    <3> QED
      BY <1>3, <3>1
  <2> QED
    BY <1>5, <1>7, <1>9, <1>14, <2>1 DEF Ensure, FailedStep
<1>15. QED
  BY <1>1, <1>8, <1>11, <1>12, <1>13, <1>14
     DEF vars, Next, MainThread, Loop, Callbacks, Answers, Troubles, Answered,
         RetryIntervalPasses, OnFrontConnected, OnFrontDisconnected,
         OnRspAuthenticate, OnRspUserLogin, OnRspSettlementInfoConfirm, OnRspError

(* connect() fails, and ensure_ready refuses, with a gateway that is down. *)
LEMMA FailuresAreDown ==
    ASSUME PromptInv, FailedStep
    PROVE  ~gateway[main.account].ready /\ UNCHANGED gateway
<1>t. TypeOfGateways /\ TypeOfMain
  BY DEF PromptInv, IndInv, TypeOK
<1>1. CASE GiveUpWaiting
  <2>1. PICK pc \in Waits : At(pc) /\ ~Flag(pc)
    BY <1>1 DEF GiveUpWaiting
  <2>2. main.account \in Accounts /\ main.pc = pc
    BY <1>t, <2>1, StepHasAccount DEF Waits, AccountSteps, ConnectSteps, At
  <2>3. pc = "settle" => ~gateway[main.account].settled
    BY <2>1 DEF Flag, Current
  <2>4. ~gateway[main.account].ready
    BY <2>2, <2>3 DEF PromptInv, IndInv, BeforeSettlement, ReadyIsSettled, Waits
  <2> QED
    BY <1>1, <2>4 DEF GiveUpWaiting
<1>2. CASE ConnectFails
  <2>1. main.account \in Accounts
    BY <1>t, <1>2, StepHasAccount DEF ConnectFails, AccountSteps, ConnectSteps
  <2> QED
    BY <1>2, <2>1 DEF ConnectFails, At, Current, PromptInv, IndInv, BeforeSettlement
<1>3. CASE EnsureRefuses
  <2>1. main.account \in Accounts /\ main.pc = "attempt"
    BY <1>t, <1>3, StepHasAccount DEF EnsureRefuses, AccountSteps, At
  <2> QED
    BY <1>3, <2>1 DEF EnsureRefuses, At, PromptInv, StaysDown, Running
<1> QED
  BY <1>1, <1>2, <1>3 DEF FailedStep

LEMMA PromptStep ==
    ASSUME PromptInv, [Next]_vars, \A a \in Accounts : ~LateAnswer(a)
    PROVE  PromptInv'
<1>t. IndInv /\ IndInv' /\ TypeOfAccounts /\ TypeOfMain
  BY InvStep DEF PromptInv, IndInv, TypeOK
<1>1. ReadyIsSettled'
  BY <1>t, ReadinessMoves DEF PromptInv, ReadyIsSettled
<1>2. NoPauseAtStartup'
  BY <1>t, ReasonMoves, MainMoves DEF PromptInv, NoPauseAtStartup
<1>3. StaysDown'
  <2> SUFFICES ASSUME NEW a \in Accounts, main'.phase # "stopped", main'.account = a,
                      main'.pc \in {"ensure", "attempt"}, gateway'[a].ready
               PROVE  FALSE
    BY DEF StaysDown, Running
  <2>1. main.phase # "stopped"
    BY <1>t, MainMoves DEF IndInv, TypeOK, TypeOfMain, Main
  <2>2. CASE UNCHANGED main
    <3>1. ~gateway[a].ready /\ ~Connecting(a)
      BY <2>1, <2>2 DEF PromptInv, StaysDown, Running, Connecting, ConnectSteps
    <3> QED
      BY <1>t, <3>1, ReadinessMoves DEF LateAnswer
  <2>3. CASE PollNotReady(a)
    BY <2>3 DEF PollNotReady
  <2>4. CASE EnsureNotReady /\ main.account = a
    BY <2>4 DEF EnsureNotReady, Current
  <2> QED
    BY <1>t, <2>2, <2>3, <2>4, MainMoves
<1>4. NoPauseOutlasts'
  <2> SUFFICES ASSUME NEW a \in Accounts, main'.phase = "live", gateway'[a].ready,
                      account'[a].reason = "disconnected", ~Connecting(a)'
               PROVE  FALSE
    BY DEF NoPauseOutlasts, PauseOutlasts, PausedWhileReady
  <2>1. ~(FailedStep /\ a = main.account)
    BY FailuresAreDown
  <2>2. account[a].reason = "disconnected"
    BY <1>t, <2>1, ReasonMoves
  <2>3. main.phase = "live"
    BY <1>t, <2>2, MainMoves DEF PromptInv, NoPauseAtStartup, TypeOfMain, Main
  <2>4. CASE gateway[a].ready
    <3>1. Connecting(a)
      BY <2>2, <2>3, <2>4 DEF PromptInv, NoPauseOutlasts, PauseOutlasts, PausedWhileReady
    <3>2. ConnectSucceeds /\ main.phase # "startup" /\ a = main.account
      BY <1>t, <2>1, <3>1, MainMoves DEF Connecting
    <3>3. Reconnected
      BY <3>2 DEF ConnectSucceeds
    <3> QED
      BY <1>t, <3>2, <3>3 DEF Reconnected, TypeOfAccounts, Account
  <2>5. CASE ~gateway[a].ready
    <3>1. OnRspSettlementInfoConfirm(a, TRUE) /\ UNCHANGED main
      BY <1>t, <2>5, ReadinessMoves
    <3> QED
      BY <3>1 DEF LateAnswer, Connecting
  <2> QED
    BY <2>4, <2>5
<1> QED
  BY <1>t, <1>1, <1>2, <1>3, <1>4 DEF PromptInv

(* Finding 1 has one cause.  If no settlement answer comes after connect()  *)
(* gave up waiting for it, the gateway of an account that is paused for a   *)
(* disconnection is down or being reconnected, whatever is lost, refused or *)
(* limited: run_live enables every account whose session is back.           *)
THEOREM OnlyLateAnswersOutlast ==
    SafeSpec /\ [][\A a \in Accounts : ~LateAnswer(a)]_vars => []NoPauseOutlasts
<1>1. Init => PromptInv
  BY InitEstablishesInv
     DEF Init, PromptInv, ReadyIsSettled, StaysDown, NoPauseAtStartup, NoPauseOutlasts,
         PauseOutlasts, PausedWhileReady
<1>2. PromptInv /\ [Next]_vars /\ [\A a \in Accounts : ~LateAnswer(a)]_vars => PromptInv'
  <2>1. PromptInv /\ UNCHANGED vars => PromptInv'
    BY InvStep
       DEF vars, PromptInv, ReadyIsSettled, StaysDown, Running, NoPauseAtStartup, NoPauseOutlasts,
           PauseOutlasts, PausedWhileReady, Connecting
  <2> QED
    BY <2>1, PromptStep
<1>3. PromptInv => NoPauseOutlasts
  BY DEF PromptInv
<1> QED
  BY <1>1, <1>2, <1>3, PTL DEF SafeSpec
=============================================================================
