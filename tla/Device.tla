------------------------------- MODULE Device -------------------------------
(***************************************************************************)
(* The tablet: the overlay calls the daemon through its socket.  What the  *)
(* handlers answer is as much of bridge.go and pair.go as the overlay can  *)
(* tell apart; Bridge and Send have the handlers themselves.               *)
(***************************************************************************)
EXTENDS Overlay, SocketServer

VARIABLES
    accounts,  \* the accounts that are connected
    pairing,   \* rmnDeviceCode at the broker: "none", "open", "approved" or "over"
    removed    \* history: accounts the user removed and has not connected again

world == <<accounts, pairing, removed>>
deviceVars == <<overlayVars, serverVars, world>>

DeviceTypeOK ==
    /\ visible \in BOOLEAN /\ {polling, pressed} \subseteq BOOLEAN /\ mode \in Modes
    /\ {target, arg} \subseteq Accounts \cup {None}
    /\ rows \subseteq Accounts /\ shown \subseteq Accounts
    /\ accounts \subseteq Accounts /\ removed \subseteq Accounts
    /\ pending \in {"none", "refresh", "send", "search", "resync"}
    /\ call \in Methods \cup {"none", "show"}
    /\ pairing \in {"none", "open", "approved", "over"}
    /\ server \in {"up", "closing", "down"}
    /\ conns \in [Conns -> Served]

DeviceInit ==
    /\ OverlayInit /\ ServerInit
    /\ accounts \in SUBSET Accounts /\ pairing = "none" /\ removed = {}

\* The user.  StartPairing forgets the code there was.
UserActs ==
    /\ Dismiss \/ Taps \/ Open
    /\ pairing' = IF call' = "pair.start" THEN "none" ELSE pairing
    /\ UNCHANGED <<serverVars, accounts, removed>>

DeferFires == DeferTimer /\ UNCHANGED <<serverVars, world>>
PollFires == PollTimer /\ UNCHANGED <<serverVars, world>>

-----------------------------------------------------------------------------
(* The call.                                                               *)

Method == IF call = "show" THEN "status" ELSE call
Dialed == \E c \in Conns : conns[c] \in Methods

\* clientCall: the daemon takes the connection, or nobody listens.
Dial ==
    /\ ~Idle /\ ~Dialed
    /\ \E c \in Conns : Serve(c, Method)
    /\ UNCHANGED <<overlayVars, world>>
NobodyListens ==
    /\ ~Idle /\ ~Dialed /\ server # "up"
    /\ Failed
    /\ pairing' = IF call' = "pair.start" THEN "none" ELSE pairing
    /\ UNCHANGED <<serverVars, accounts, removed>>

StatusAnswer ==
    /\ GotStatus(accounts) \/ GotAccounts(accounts)
    /\ pairing' = IF call' = "pair.start" THEN "none" ELSE pairing
    /\ UNCHANGED <<accounts, removed>>

PairStartAnswer ==
    /\ \/ GotCode("code") /\ pairing' = "open"
       \/ GotCode(Error) /\ UNCHANGED pairing
    /\ UNCHANGED <<accounts, removed>>

\* pair.Poll: what the broker says of the code, or that it could not be asked.
\* Without a code there is an error.
PollResults ==
    {Error} \cup CASE pairing = "open" -> {"pending"}
                   [] pairing = "approved" -> {"ok"}
                   [] pairing = "over" -> {"expired"}
                   [] OTHER -> {}

\* The token is handed out once: when it cannot be stored, or the answer is
\* lost, the pairing is over all the same.
PairPollAnswer ==
    \/ \E r \in PollResults \ {"ok"} : GotPoll(r) /\ UNCHANGED world
    \/ /\ "ok" \in PollResults /\ pairing' = "over"
       /\ \/ GotPoll("ok")
             /\ \E a \in Accounts : accounts' = accounts \cup {a} /\ removed' = removed \ {a}
          \/ GotPoll(Error) /\ UNCHANGED <<accounts, removed>>

\* Pages arrive from some accounts; one that was revoked is dropped.
TargetsAnswer ==
    /\ \/ \E got \in SUBSET accounts, kept \in SUBSET accounts :
              accounts # {} /\ got \subseteq kept /\ accounts' = kept /\ GotTargets(got)
       \/ accounts' \in SUBSET accounts /\ GotTargets(Error)
    /\ UNCHANGED <<pairing, removed>>

SendAnswer ==
    /\ \/ target \in accounts /\ GotSend("ok") /\ UNCHANGED accounts
       \/ accounts' \in {accounts, accounts \ {target}} /\ GotSend(Error)
    /\ UNCHANGED <<pairing, removed>>

LogoutAnswer ==
    /\ GotLogout
    /\ \/ accounts' = accounts \ {arg} /\ removed' = removed \cup {arg}
       \/ UNCHANGED <<accounts, removed>>
    /\ UNCHANGED pairing

Answers ==
    \/ StatusAnswer \/ PairStartAnswer \/ PairPollAnswer \/ TargetsAnswer \/ SendAnswer \/ LogoutAnswer

\* A handler ends.  Its client has its answer, or has gone, and then what the
\* handler did is not told.
HandlerReturns(c) ==
    /\ HandlerEnds(c)
    /\ IF conns[c] \in Methods THEN Answers ELSE UNCHANGED <<overlayVars, world>>

\* A handler whose client has gone is still at it, and told that an account was
\* revoked: one the user may have seen listed meanwhile, and be sending to.
DropsUnwatched(c) ==
    /\ conns[c] = "unwatched" /\ \E a \in accounts : accounts' = accounts \ {a}
    /\ UNCHANGED <<overlayVars, serverVars, pairing, removed>>

ClientGivesUp(c) ==
    /\ GiveUp(c) /\ Failed
    /\ UNCHANGED world

-----------------------------------------------------------------------------
(* The daemon and the world.                                               *)

\* The phone approves the code, or its window closes.
Approve == pairing = "open" /\ pairing' = "approved"
Expire == pairing \in {"open", "approved"} /\ pairing' = "over"
Broker == Approve \/ Expire

DaemonLives ==
    /\ Start \/ Close \/ Closed \/ \E c \in Conns : ConnectSilently(c) \/ ReadTimesOut(c)
    /\ UNCHANGED <<overlayVars, world>>

\* What the handler has done when the daemon is killed under it: nothing yet,
\* or all but the answer, or it has fetched a token and not stored it, or
\* dropped accounts that were revoked.
Unanswered ==
    \/ pairing' = (IF call' = "pair.start" THEN "none" ELSE pairing) /\ UNCHANGED <<accounts, removed>>
    \/ call = "logout" /\ accounts' = accounts \ {arg} /\ removed' = removed \cup {arg} /\ UNCHANGED pairing
    \/ call = "send" /\ accounts' = accounts \ {target} /\ UNCHANGED <<pairing, removed>>
    \/ /\ call \in {"targets.list", "targets.refresh"} /\ accounts' \in SUBSET accounts
       /\ UNCHANGED <<pairing, removed>>
    \/ /\ call = "pair.poll" /\ pairing = "approved" /\ pairing' = "over"
       /\ \/ \E a \in Accounts : accounts' = accounts \cup {a} /\ removed' = removed \ {a}
          \/ UNCHANGED <<accounts, removed>>

\* A call that was under way fails.
DaemonKilled ==
    /\ Killed
    /\ IF Dialed THEN Failed /\ Unanswered ELSE UNCHANGED <<overlayVars, world>>

DeviceNext ==
    \/ UserActs \/ DeferFires \/ PollFires \/ Dial \/ NobodyListens
    \/ \E c \in Conns : HandlerReturns(c) \/ ClientGivesUp(c) \/ DropsUnwatched(c)
    \/ Broker /\ UNCHANGED <<overlayVars, serverVars, accounts, removed>>
    \/ DaemonLives \/ DaemonKilled

DeviceSpec == DeviceInit /\ [][DeviceNext]_deviceVars

Call == Dial \/ NobodyListens

\* Timers fire when the overlay is idle long enough, again and again if other
\* calls come first; a window closes.  A handler ends: what it asks of others has
\* a deadline, and the pages it reads and renders are finitely many.
FairDeviceSpec ==
    /\ DeviceSpec
    /\ SF_deviceVars(DeferFires) /\ WF_deviceVars(PollFires) /\ SF_deviceVars(Call)
    /\ WF_deviceVars(\E c \in Conns : HandlerReturns(c))
    /\ WF_deviceVars(\E c \in Conns : ReadTimesOut(c) /\ UNCHANGED <<overlayVars, world>>)
    /\ WF_deviceVars(Closed /\ UNCHANGED <<overlayVars, world>>)
    /\ WF_deviceVars(Expire /\ UNCHANGED <<overlayVars, serverVars, accounts, removed>>)

-----------------------------------------------------------------------------
(* Properties.                                                             *)

\* A send the overlay begins is one the user pressed Send for, once, in this
\* notebook: what was deferred for a notebook that was closed
\* since then is dropped (qmd:88-110, 201-213).
SendsAsPressed == [][call # "send" /\ call' = "send" => pressed]_deviceVars

\* Nothing is sent to an account the user has removed, though its rows may be
\* listed still, a send be deferred or the removal fail (qmd:187-191).
NeverSendsToRemoved == [][call # "send" /\ call' = "send" => target \notin removed]_deviceVars

\* A screen that waits is never the last one: "Checking connection", the QR code
\* and "Sending" give way to something the user can act on, or he closes the
\* overlay (qmd:107-221).
OverlayMovesOn ==
    visible /\ mode \in {"checking", "pair", "sending"} ~>
        ~visible \/ mode \in {"pick", "accounts", "done", "error"}

\* Close comes to an end, whatever is connected (socket.go:112-125).
CloseReturns == server = "closing" ~> server # "closing"

=============================================================================
