---------------------------- MODULE DeviceProofs ----------------------------
(***************************************************************************)
(* Proofs about the tablet, for every set of accounts and any number of    *)
(* connections: what a send stands on when the overlay begins it, and the  *)
(* type of everything.                                                     *)
(***************************************************************************)
EXTENDS Device, TLAPS

\* A send that is deferred was pressed since the overlay was opened.
PressedInv == pending = "send" => pressed

\* What is selected, and what can be selected, is an account that was not
\* removed.  Rows may be of a removed one only while they are not shown, or
\* about to be replaced.
RemovedInv ==
    /\ accounts \cap removed = {} /\ None \notin removed
    /\ call = "logout" => arg # None
    /\ target \notin removed
    /\ mode = "pick" => rows \cap removed = {} \/ call = "targets.list"

\* The type of the connections, and of the call the overlay is in.
ConnInv == conns \in [Conns -> Served] /\ call \in Methods \cup {"none", "show"}

-----------------------------------------------------------------------------
(* What the overlay's functions leave alone.                               *)

\* A function of the overlay goes on behind its call, whatever the answer.
Returned == \/ \E r : \/ GotStatus(r) \/ GotAccounts(r) \/ GotCode(r) \/ GotPoll(r)
                      \/ GotTargets(r) \/ GotSend(r)
            \/ GotLogout

\* No answer presses Send or replaces what is deferred, and none begins a send.
LEMMA ReturnedKeeps ==
    Returned => UNCHANGED <<pending, pressed>> /\ call' # "send"
BY DEF Returned, GotStatus, GotAccounts, GotCode, GotPoll, GotTargets, GotSend, GotLogout, Returns,
       StartPairing

\* Every failure and every answer is one of these.
LEMMA FailedReturned == Failed => Returned
BY DEF Failed, Returned

LEMMA AnswersReturned == Answers => Returned
BY DEF Answers, StatusAnswer, PairStartAnswer, PairPollAnswer, TargetsAnswer, SendAnswer, LogoutAnswer,
       Returned

-----------------------------------------------------------------------------
(* A send is pressed for.                                                  *)

LEMMA PressedInit == DeviceInit => PressedInv
BY DEF DeviceInit, OverlayInit, PressedInv

LEMMA PressedStep == PressedInv /\ [DeviceNext]_deviceVars => PressedInv'
<1> SUFFICES ASSUME PressedInv, [DeviceNext]_deviceVars PROVE PressedInv'
  OBVIOUS
<1> USE DEF PressedInv
<1>1. CASE UserActs
  BY <1>1 DEF UserActs, Taps, Open, Dismiss, TapSend, TapResync, Search, TapRefresh, TapAccounts, TapAdd,
              TapRow, TapRemove, StartPairing, Defer, shared
<1>2. CASE DeferFires
  BY <1>2 DEF DeferFires, DeferTimer
<1>3. CASE Returned
  BY <1>3, ReturnedKeeps
<1>4. CASE UNCHANGED overlayVars
  BY <1>4 DEF overlayVars, shared
<1>5. CASE PollFires
  BY <1>5 DEF PollFires, PollTimer, shared
<1>6. CASE Dial \/ DaemonLives \/ (Broker /\ UNCHANGED <<overlayVars, serverVars, accounts, removed>>)
  BY <1>6, <1>4 DEF Dial, DaemonLives
<1>7. CASE NobodyListens \/ (\E c \in Conns : ClientGivesUp(c)) \/ DaemonKilled
  BY <1>7, <1>3, <1>4, FailedReturned DEF NobodyListens, ClientGivesUp, DaemonKilled
<1>8. CASE \E c \in Conns : HandlerReturns(c) \/ DropsUnwatched(c)
  BY <1>8, <1>3, <1>4, AnswersReturned DEF HandlerReturns, DropsUnwatched
<1>9. CASE UNCHANGED deviceVars
  BY <1>9, <1>4 DEF deviceVars
<1> QED BY <1>1, <1>2, <1>5, <1>6, <1>7, <1>8, <1>9 DEF DeviceNext

\* A send begins when the timer for it fires, and otherwise in no step.
LEMMA SendBegins ==
    ASSUME [DeviceNext]_deviceVars, call # "send", call' = "send"
    PROVE  pending = "send"
<1>1. CASE UserActs
  BY <1>1 DEF UserActs, Taps, Open, Dismiss, TapSend, TapResync, Search, TapRefresh, TapAccounts, TapAdd,
              TapRow, TapRemove, StartPairing, Defer, shared
<1>2. CASE DeferFires
  BY <1>2 DEF DeferFires, DeferTimer
<1>3. ~Returned
  BY ReturnedKeeps
<1>4. ~UNCHANGED overlayVars
  BY DEF overlayVars
<1>5. CASE PollFires
  BY <1>5 DEF PollFires, PollTimer
<1>6. CASE Dial \/ DaemonLives \/ (Broker /\ UNCHANGED <<overlayVars, serverVars, accounts, removed>>)
  BY <1>6, <1>4 DEF Dial, DaemonLives
<1>7. CASE NobodyListens \/ (\E c \in Conns : ClientGivesUp(c)) \/ DaemonKilled
  BY <1>7, <1>3, <1>4, FailedReturned DEF NobodyListens, ClientGivesUp, DaemonKilled
<1>8. CASE \E c \in Conns : HandlerReturns(c) \/ DropsUnwatched(c)
  BY <1>8, <1>3, <1>4, AnswersReturned DEF HandlerReturns, DropsUnwatched
<1>9. CASE UNCHANGED deviceVars
  BY <1>9, <1>4 DEF deviceVars
<1> QED BY <1>1, <1>2, <1>5, <1>6, <1>7, <1>8, <1>9 DEF DeviceNext

\* A send the overlay begins is one the user pressed Send for, once, in this
\* notebook, for every set of accounts and of connections (qmd:88-110, 201-213).
THEOREM SendIsAsPressed == DeviceSpec => SendsAsPressed
<1>1. PressedInv /\ [DeviceNext]_deviceVars => [call # "send" /\ call' = "send" => pressed]_deviceVars
  BY SendBegins DEF PressedInv
<1> QED BY <1>1, PressedInit, PressedStep, PTL DEF DeviceSpec, SendsAsPressed

-----------------------------------------------------------------------------
(* Nothing is sent to an account that was removed.                         *)

LEMMA RemovedInit == DeviceInit => RemovedInv
BY OverlayAssumption DEF DeviceInit, OverlayInit, RemovedInv

\* What becomes of accounts when an overlay function fails: the world may have
\* moved on behind it, in one of the ways of Unanswered.
LEMMA FailedKeepsRemoved ==
    ASSUME RemovedInv, Failed, Unanswered \/ (accounts' = accounts /\ removed' = removed)
    PROVE  RemovedInv'
<1> USE OverlayAssumption DEF RemovedInv
<1>1. accounts' \cap removed' = {} /\ None \notin removed'
  BY DEF Unanswered
<1>2. CASE call = "logout"
  <2>1. GotLogout
    BY <1>2 DEF Failed, GotStatus, GotAccounts, GotCode, GotPoll, GotTargets, GotSend
  <2> QED BY <1>1, <2>1 DEF GotLogout, Deselected
<1>3. CASE call # "logout"
  <2>1. removed' \subseteq removed
    BY <1>3 DEF Unanswered
  <2>2. /\ target' = target /\ call' # "logout"
        /\ mode' # "pick" \/ call' = "targets.list" \/ (call = "pair.poll" /\ UNCHANGED <<mode, rows>>)
    BY <1>3 DEF Failed, GotStatus, GotAccounts, GotCode, GotPoll, GotTargets, GotSend, GotLogout, Returns
  <2> QED BY <1>1, <2>1, <2>2
<1> QED BY <1>2, <1>3

LEMMA AnswersKeepRemoved == RemovedInv /\ Answers => RemovedInv'
<1> SUFFICES ASSUME RemovedInv, Answers PROVE RemovedInv'
  OBVIOUS
<1> USE OverlayAssumption DEF RemovedInv
<1>1. CASE StatusAnswer
  BY <1>1 DEF StatusAnswer, GotStatus, GotAccounts, StartPairing, Returns
<1>2. CASE PairStartAnswer
  BY <1>2 DEF PairStartAnswer, GotCode, Returns
<1>3. CASE PairPollAnswer
  BY <1>3 DEF PairPollAnswer, GotPoll, Returns, world
<1>4. CASE TargetsAnswer
  BY <1>4 DEF TargetsAnswer, GotTargets, Returns
<1>5. CASE SendAnswer
  BY <1>5 DEF SendAnswer, GotSend, Returns
<1>6. CASE LogoutAnswer
  BY <1>6 DEF LogoutAnswer, GotLogout, Deselected
<1> QED BY <1>1, <1>2, <1>3, <1>4, <1>5, <1>6 DEF Answers

LEMMA RemovedStep == RemovedInv /\ [DeviceNext]_deviceVars => RemovedInv'
<1> SUFFICES ASSUME RemovedInv, [DeviceNext]_deviceVars PROVE RemovedInv'
  OBVIOUS
<1>1. CASE UserActs
  BY <1>1, OverlayAssumption
     DEF RemovedInv, UserActs, Taps, Open, Dismiss, TapSend, TapResync, Search, TapRefresh, TapAccounts,
         TapAdd, TapRow, TapRemove, Tap, Idle, StartPairing, shared
<1>2. CASE DeferFires
  BY <1>2 DEF RemovedInv, DeferFires, DeferTimer, Idle, world
<1>3. CASE PollFires
  BY <1>3 DEF RemovedInv, PollFires, PollTimer, Idle, shared, world
<1>4. CASE UNCHANGED overlayVars /\ removed' = removed /\ accounts' \subseteq accounts
  BY <1>4 DEF RemovedInv, overlayVars, shared
<1>5. CASE Dial \/ DaemonLives \/ (Broker /\ UNCHANGED <<overlayVars, serverVars, accounts, removed>>)
  BY <1>5, <1>4 DEF Dial, DaemonLives, world
<1>6. CASE NobodyListens \/ (\E c \in Conns : ClientGivesUp(c))
  BY <1>6, FailedKeepsRemoved DEF NobodyListens, ClientGivesUp, world
<1>7. CASE DaemonKilled
  BY <1>7, <1>4, FailedKeepsRemoved DEF DaemonKilled, world
<1>8. ASSUME NEW c \in Conns, HandlerReturns(c) \/ DropsUnwatched(c) PROVE RemovedInv'
  BY <1>8, <1>4, AnswersKeepRemoved DEF HandlerReturns, DropsUnwatched, world
<1>9. CASE UNCHANGED deviceVars
  BY <1>9, <1>4 DEF deviceVars, world
<1> QED BY <1>1, <1>2, <1>3, <1>5, <1>6, <1>7, <1>8, <1>9 DEF DeviceNext

\* Nothing is sent to an account the user has removed, whatever is listed,
\* deferred or fails meanwhile, for every set of accounts and of connections
\* (qmd:187-191).
THEOREM NothingIsSentToRemoved == DeviceSpec => NeverSendsToRemoved
<1>1. RemovedInv /\ [DeviceNext]_deviceVars
          => [call # "send" /\ call' = "send" => target \notin removed]_deviceVars
  BY DEF RemovedInv
<1> QED BY <1>1, RemovedInit, RemovedStep, PTL DEF DeviceSpec, NeverSendsToRemoved

-----------------------------------------------------------------------------
(* What everything is.                                                     *)

LEMMA ConnInit == DeviceInit => ConnInv
BY DEF DeviceInit, OverlayInit, ServerInit, Served, ConnInv

\* The calls the overlay may be in.
Called == call \in Methods \cup {"none", "show"}

LEMMA ReturnedCalls == Called /\ Returned => Called'
BY DEF Called, Returned, GotStatus, GotAccounts, GotCode, GotPoll, GotTargets, GotSend, GotLogout, Returns,
       StartPairing, Methods

LEMMA CalledStep == Called /\ [DeviceNext]_deviceVars => Called'
<1> SUFFICES ASSUME Called, [DeviceNext]_deviceVars PROVE Called'
  OBVIOUS
<1>1. CASE UserActs
  BY <1>1 DEF UserActs, Taps, Open, Dismiss, TapSend, TapResync, Search, TapRefresh, TapAccounts, TapAdd,
         TapRow, TapRemove, StartPairing, shared, Called, Methods
<1>2. CASE DeferFires \/ PollFires
  BY <1>2 DEF DeferFires, DeferTimer, PollFires, PollTimer, Called, Methods
<1>3. CASE Returned
  BY <1>3, ReturnedCalls
<1>4. CASE UNCHANGED overlayVars
  BY <1>4 DEF overlayVars, Called
<1>5. CASE Dial \/ DaemonLives \/ (Broker /\ UNCHANGED <<overlayVars, serverVars, accounts, removed>>)
  BY <1>4, <1>5 DEF Dial, DaemonLives
<1>6. CASE NobodyListens \/ (\E c \in Conns : ClientGivesUp(c)) \/ DaemonKilled
  BY <1>3, <1>4, <1>6, FailedReturned DEF NobodyListens, ClientGivesUp, DaemonKilled
<1>7. CASE \E c \in Conns : HandlerReturns(c) \/ DropsUnwatched(c)
  BY <1>3, <1>4, <1>7, AnswersReturned DEF HandlerReturns, DropsUnwatched
<1>8. CASE UNCHANGED deviceVars
  BY <1>4, <1>8 DEF deviceVars
<1> QED BY <1>1, <1>2, <1>5, <1>6, <1>7, <1>8 DEF DeviceNext

\* A connection serves the call that is dialled, or is left to nothing.
LEMMA ConnsStep ==
    Called /\ conns \in [Conns -> Served] /\ [DeviceNext]_deviceVars => conns' \in [Conns -> Served]
<1> SUFFICES ASSUME Called, conns \in [Conns -> Served], [DeviceNext]_deviceVars
             PROVE  conns' \in [Conns -> Served]
  OBVIOUS
<1>1. /\ {"none", "silent", "unwatched"} \subseteq Served
      /\ ~Idle => Method \in Served
  BY DEF Called, Idle, Method, Methods, Served
<1>2. CASE UNCHANGED conns
  BY <1>2
<1>3. CASE UserActs \/ DeferFires \/ PollFires \/ NobodyListens \/ UNCHANGED deviceVars
  BY <1>2, <1>3 DEF UserActs, DeferFires, PollFires, NobodyListens, deviceVars, serverVars
<1>4. CASE Broker /\ UNCHANGED <<overlayVars, serverVars, accounts, removed>>
  BY <1>2, <1>4 DEF serverVars
<1>5. CASE Dial
  BY <1>1, <1>5 DEF Dial, Serve
<1>6. ASSUME NEW c \in Conns, HandlerReturns(c) \/ ClientGivesUp(c) \/ DropsUnwatched(c)
      PROVE  conns' \in [Conns -> Served]
  BY <1>1, <1>2, <1>6 DEF HandlerReturns, HandlerEnds, ClientGivesUp, GiveUp, DropsUnwatched, serverVars
<1>7. CASE DaemonLives
  BY <1>1, <1>7 DEF DaemonLives, Start, Close, Closed, ConnectSilently, ReadTimesOut, Serve
<1>8. CASE DaemonKilled
  BY <1>1, <1>8 DEF DaemonKilled, Killed
<1> QED BY <1>3, <1>4, <1>5, <1>6, <1>7, <1>8 DEF DeviceNext

LEMMA ConnStep == ConnInv /\ [DeviceNext]_deviceVars => ConnInv'
BY CalledStep, ConnsStep DEF ConnInv, Called

\* The overlay's part of the type invariant, but for the call it is in.
ScreenTyped ==
    /\ visible \in BOOLEAN /\ {polling, pressed} \subseteq BOOLEAN /\ mode \in Modes
    /\ {target, arg} \subseteq Accounts \cup {None}
    /\ rows \subseteq Accounts /\ shown \subseteq Accounts
    /\ pending \in {"none", "refresh", "send", "search", "resync"}

WorldTyped ==
    /\ accounts \subseteq Accounts /\ removed \subseteq Accounts
    /\ pairing \in {"none", "open", "approved", "over"}
    /\ server \in {"up", "closing", "down"}

LEMMA TypesInit == DeviceInit => ScreenTyped /\ WorldTyped
BY DEF DeviceInit, OverlayInit, ServerInit, Modes, ScreenTyped, WorldTyped

\* What the overlay lists when it goes on is what it listed, or accounts that
\* are connected.
Listed == rows' \in {rows} \cup SUBSET accounts /\ shown' \in {shown} \cup SUBSET accounts

LEMMA FailedLists == Failed => Listed
BY DEF Failed, Listed, GotStatus, GotAccounts, GotCode, GotPoll, GotTargets, GotSend, GotLogout

LEMMA AnswersList == Answers => Listed
<1> SUFFICES ASSUME Answers PROVE Listed
  OBVIOUS
<1>1. CASE StatusAnswer
  BY <1>1 DEF StatusAnswer, GotStatus, GotAccounts, Listed
<1>2. CASE TargetsAnswer
  BY <1>2 DEF TargetsAnswer, GotTargets, Listed
<1>3. CASE PairStartAnswer \/ PairPollAnswer \/ SendAnswer \/ LogoutAnswer
  BY <1>3 DEF PairStartAnswer, PairPollAnswer, SendAnswer, LogoutAnswer, GotCode, GotPoll, GotSend, GotLogout,
         Listed
<1> QED BY <1>1, <1>2, <1>3 DEF Answers

\* Going on, the overlay stays of its type when it lists accounts.
LEMMA ReturnedTyped == ScreenTyped /\ WorldTyped /\ Returned /\ Listed => ScreenTyped'
<1> SUFFICES ASSUME ScreenTyped, WorldTyped, Returned, Listed PROVE ScreenTyped'
  OBVIOUS
<1>1. rows' \subseteq Accounts /\ shown' \subseteq Accounts
  BY DEF ScreenTyped, WorldTyped, Listed
<1>2. UNCHANGED <<visible, pending, pressed>>
  BY DEF Returned, GotStatus, GotAccounts, GotCode, GotPoll, GotTargets, GotSend, GotLogout
<1>3. /\ mode' \in {mode} \cup Modes /\ polling' \in {polling, TRUE, FALSE}
      /\ target' \in {target, None} /\ arg' \in {arg, None}
  BY DEF Returned, GotStatus, GotAccounts, GotCode, GotPoll, GotTargets, GotSend, GotLogout, StartPairing,
         Deselected, Modes
<1> QED BY <1>1, <1>2, <1>3 DEF ScreenTyped

LEMMA ScreenStep == ScreenTyped /\ WorldTyped /\ [DeviceNext]_deviceVars => ScreenTyped'
<1> SUFFICES ASSUME ScreenTyped, WorldTyped, [DeviceNext]_deviceVars PROVE ScreenTyped'
  OBVIOUS
<1>1. CASE UserActs
  <2>1. CASE Open \/ Dismiss
    BY <1>1, <2>1 DEF Open, Dismiss, Defer, ScreenTyped
  <2>2. CASE TapSend \/ TapResync \/ Search \/ TapRefresh
    BY <1>1, <2>2 DEF TapSend, TapResync, Search, TapRefresh, Defer, Modes, ScreenTyped
  <2>3. CASE TapAccounts \/ TapAdd
    BY <1>1, <2>3 DEF TapAccounts, TapAdd, StartPairing, shared, Modes, ScreenTyped
  <2>4. ASSUME NEW a \in Accounts, TapRow(a) \/ TapRemove(a) PROVE ScreenTyped'
    BY <1>1, <2>4 DEF TapRow, TapRemove, shared, ScreenTyped
  <2> QED BY <1>1, <2>1, <2>2, <2>3, <2>4 DEF UserActs, Taps
<1>2. CASE DeferFires
  BY <1>2 DEF DeferFires, DeferTimer, Modes, ScreenTyped
<1>3. CASE PollFires
  BY <1>3 DEF PollFires, PollTimer, shared, ScreenTyped
<1>4. CASE UNCHANGED overlayVars
  BY <1>4 DEF overlayVars, shared, ScreenTyped
<1>5. CASE Dial \/ DaemonLives \/ (Broker /\ UNCHANGED <<overlayVars, serverVars, accounts, removed>>)
  BY <1>4, <1>5 DEF Dial, DaemonLives
<1>6. CASE NobodyListens \/ (\E c \in Conns : ClientGivesUp(c)) \/ DaemonKilled
  BY <1>4, <1>6, FailedReturned, FailedLists, ReturnedTyped DEF NobodyListens, ClientGivesUp, DaemonKilled
<1>7. CASE \E c \in Conns : HandlerReturns(c) \/ DropsUnwatched(c)
  BY <1>4, <1>7, AnswersReturned, AnswersList, ReturnedTyped DEF HandlerReturns, DropsUnwatched
<1>8. CASE UNCHANGED deviceVars
  BY <1>4, <1>8 DEF deviceVars
<1> QED BY <1>1, <1>2, <1>3, <1>5, <1>6, <1>7, <1>8 DEF DeviceNext

LEMMA AnswersKeepWorld ==
    ASSUME ScreenTyped, WorldTyped, call = "logout" => arg # None, Answers, server' = server
    PROVE  WorldTyped'
<1>1. CASE StatusAnswer \/ PairStartAnswer
  BY <1>1 DEF StatusAnswer, PairStartAnswer, WorldTyped
<1>2. CASE PairPollAnswer
  BY <1>2 DEF PairPollAnswer, world, WorldTyped
<1>3. CASE TargetsAnswer \/ SendAnswer
  BY <1>3 DEF TargetsAnswer, SendAnswer, WorldTyped
<1>4. CASE LogoutAnswer
  BY <1>4 DEF LogoutAnswer, GotLogout, ScreenTyped, WorldTyped
<1> QED BY <1>1, <1>2, <1>3, <1>4 DEF Answers

\* What is removed is an account: a logout has one, which RemovedInv says.
LEMMA WorldStep == ScreenTyped /\ WorldTyped /\ RemovedInv /\ [DeviceNext]_deviceVars => WorldTyped'
<1> SUFFICES ASSUME ScreenTyped, WorldTyped, RemovedInv, [DeviceNext]_deviceVars PROVE WorldTyped'
  OBVIOUS
<1>1. call = "logout" => arg # None
  BY DEF RemovedInv
<1>2. CASE UserActs \/ NobodyListens
  BY <1>2 DEF UserActs, NobodyListens, serverVars, WorldTyped
<1>3. CASE DeferFires \/ PollFires
  BY <1>3 DEF DeferFires, PollFires, serverVars, world, WorldTyped
<1>4. CASE Dial \/ \E c \in Conns : ClientGivesUp(c)
  BY <1>4 DEF Dial, ClientGivesUp, Serve, GiveUp, world, WorldTyped
<1>5. ASSUME NEW c \in Conns, HandlerReturns(c) \/ DropsUnwatched(c) PROVE WorldTyped'
  <2>1. server' = server
    BY <1>5 DEF HandlerReturns, HandlerEnds, DropsUnwatched, serverVars
  <2>2. CASE Answers
    BY <1>1, <2>1, <2>2, AnswersKeepWorld
  <2>3. CASE accounts' \subseteq accounts /\ UNCHANGED <<pairing, removed>>
    BY <2>1, <2>3 DEF WorldTyped
  <2> QED BY <1>5, <2>2, <2>3 DEF HandlerReturns, DropsUnwatched, world
<1>6. CASE Broker /\ UNCHANGED <<overlayVars, serverVars, accounts, removed>>
  BY <1>6 DEF Broker, Approve, Expire, serverVars, WorldTyped
<1>7. CASE DaemonLives
  BY <1>7 DEF DaemonLives, Start, Close, Closed, ConnectSilently, ReadTimesOut, Serve, world, WorldTyped
<1>8. CASE DaemonKilled
  <2>1. server' = "down"
    BY <1>8 DEF DaemonKilled, Killed
  <2>2. CASE UNCHANGED world
    BY <2>1, <2>2 DEF world, WorldTyped
  <2>3. CASE Unanswered
    BY <1>1, <2>1, <2>3 DEF Unanswered, ScreenTyped, WorldTyped
  <2> QED BY <1>8, <2>2, <2>3 DEF DaemonKilled
<1>9. CASE UNCHANGED deviceVars
  BY <1>9 DEF deviceVars, serverVars, world, WorldTyped
<1> QED BY <1>2, <1>3, <1>4, <1>5, <1>6, <1>7, <1>8, <1>9 DEF DeviceNext

\* Every variable of the tablet keeps its type, for every set of accounts and any
\* number of connections: the modes and calls of the qmd, what is listed and
\* connected, the connections of socket.go.
THEOREM DeviceTypeCorrect == DeviceSpec => []DeviceTypeOK
<1>1. ScreenTyped /\ WorldTyped /\ ConnInv => DeviceTypeOK
  BY DEF ScreenTyped, WorldTyped, ConnInv, DeviceTypeOK
<1> QED BY <1>1, TypesInit, ScreenStep, WorldStep, RemovedInit, RemovedStep, ConnInit, ConnStep,
           PTL DEF DeviceSpec

=============================================================================
