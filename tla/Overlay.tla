------------------------------ MODULE Overlay -------------------------------
(***************************************************************************)
(* The overlay (send-to-notion.qmd): what is on the screen, the two timers *)
(* and the functions that call the daemon.                                 *)
(*                                                                         *)
(* A call is synchronous: nothing else happens in the overlay until it     *)
(* returns, and what timers and taps have queued meanwhile runs after it   *)
(* in any order.  A row stands for the account its page belongs to.  The   *)
(* notebook is the one the overlay was opened for.                         *)
(***************************************************************************)
EXTENDS Naturals

CONSTANTS
    Accounts,  \* identifiers of accounts
    None,      \* no account
    Error      \* the answer that is no result

ASSUME OverlayAssumption == None \notin Accounts

VARIABLES
    visible,    \* the overlay covers the notebook
    mode,       \* rmnMode
    target,     \* rmnSelectedTarget: the account of the page that is selected
    rows,       \* rmnAccounts: the accounts whose pages the picker lists
    shown,      \* rmnAccountList
    pending,    \* rmnPendingAction while the timer for it runs, else "none"
    polling,    \* rmnPollTimer runs
    call,       \* the call the overlay is in: "none", a method, or "show"
    arg,        \* the account of a logout
    pressed     \* history: Send was pressed for this notebook and nothing is sent yet

shared == <<visible, mode, target, rows, shown, pending, polling>>
overlayVars == <<shared, call, arg, pressed>>

Modes == {"checking", "pair", "pick", "accounts", "sending", "done", "error"}

OverlayInit ==
    /\ visible = FALSE /\ mode = "checking" /\ target = None /\ rows = {} /\ shown = {}
    /\ pending = "none" /\ polling = FALSE /\ call = "none" /\ arg = None /\ pressed = FALSE

Idle == call = "none"

\* Mutated form: an action that waits is kept.
DeferBehind(action) == pending' = IF pending = "none" THEN action ELSE pending

\* rmnDefer: one timer, so the action that waits for it is replaced.
Defer(action) == pending' = action

-----------------------------------------------------------------------------
(* Opening, closing and taps.                                              *)

\* rmnOpen: mode and what is listed stay what they were.
Open ==
    /\ Idle /\ ~visible
    /\ visible' = TRUE /\ target' = None /\ pressed' = FALSE
    /\ Defer("refresh")
    /\ UNCHANGED <<mode, rows, shown, polling, call, arg>>

\* rmnDismiss stops the poll timer, not the other one.
Dismiss ==
    /\ Idle /\ visible
    /\ visible' = FALSE /\ polling' = FALSE
    /\ UNCHANGED <<mode, target, rows, shown, pending, call, arg, pressed>>

\* What can be tapped is what the mode shows.
Tap(m) == Idle /\ visible /\ mode = m

TapRow(a) ==
    /\ Tap("pick") /\ a \in rows
    /\ target' = a
    /\ UNCHANGED <<visible, mode, rows, shown, pending, polling, call, arg, pressed>>

TapSend ==
    /\ Tap("pick") /\ target # None
    /\ mode' = "sending" /\ Defer("send") /\ pressed' = TRUE
    /\ UNCHANGED <<visible, target, rows, shown, polling, call, arg>>

\* rmnResync, and Enter in the search field.
TapResync ==
    /\ Tap("pick")
    /\ mode' = "checking" /\ Defer("resync")
    /\ UNCHANGED <<visible, target, rows, shown, polling, call, arg, pressed>>
Search ==
    /\ Tap("pick")
    /\ Defer("search")
    /\ UNCHANGED <<visible, mode, target, rows, shown, polling, call, arg, pressed>>

\* "Done" among the accounts, "Try again" under an error.
TapRefresh ==
    /\ Tap("accounts") \/ Tap("error")
    /\ Defer("refresh")
    /\ UNCHANGED <<visible, mode, target, rows, shown, polling, call, arg, pressed>>

\* rmnShowAccounts.
TapAccounts ==
    /\ Tap("pick")
    /\ call' = "show"
    /\ UNCHANGED <<shared, arg, pressed>>

\* rmnRemoveAccount.
TapRemove(a) ==
    /\ Tap("accounts") /\ a \in shown
    /\ call' = "logout" /\ arg' = a
    /\ UNCHANGED <<shared, pressed>>

\* rmnStartPairing.  It does not stop a poll timer that runs.
StartPairing == mode' = "pair" /\ call' = "pair.start"

TapAdd ==
    /\ Tap("accounts")
    /\ StartPairing
    /\ UNCHANGED <<visible, target, rows, shown, pending, polling, arg, pressed>>

Taps ==
    \/ TapSend \/ TapResync \/ Search \/ TapRefresh \/ TapAccounts \/ TapAdd
    \/ \E a \in Accounts : TapRow(a) \/ TapRemove(a)

-----------------------------------------------------------------------------
(* The timers.                                                             *)

\* rmnDoSend throws when nothing is selected any more.
DeferTimer ==
    /\ Idle /\ pending # "none"
    /\ pending' = "none"
    /\ \/ pending = "refresh" /\ mode' = "checking" /\ call' = "status" /\ UNCHANGED pressed
       \/ pending = "send" /\ target # None /\ call' = "send" /\ pressed' = FALSE /\ UNCHANGED mode
       \/ pending = "send" /\ target = None /\ pressed' = FALSE /\ UNCHANGED <<mode, call>>
       \/ pending = "search" /\ call' = "targets.list" /\ UNCHANGED <<mode, pressed>>
       \/ pending = "resync" /\ call' = "targets.refresh" /\ UNCHANGED <<mode, pressed>>
    /\ UNCHANGED <<visible, target, rows, shown, polling, arg>>

\* rmnPollPairing.
PollTimer ==
    /\ Idle /\ polling
    /\ call' = "pair.poll"
    /\ UNCHANGED <<shared, arg, pressed>>

-----------------------------------------------------------------------------
(* What the functions do with an answer.                                   *)

Returns == call' = "none"

\* The rest of rmnRefreshStatus.
GotStatus(r) ==
    /\ call = "status"
    /\ \/ r = Error /\ mode' = "error" /\ Returns /\ UNCHANGED shown
       \/ r # Error /\ shown' = r
          /\ IF r # {} THEN mode' = "pick" /\ call' = "targets.list" ELSE StartPairing
    /\ UNCHANGED <<visible, target, rows, pending, polling, arg, pressed>>

GotAccounts(r) ==
    /\ call = "show" /\ Returns
    /\ mode' = "accounts"
    /\ shown' = IF r = Error THEN shown ELSE r
    /\ UNCHANGED <<visible, target, rows, pending, polling, arg, pressed>>

\* Mutated form: the poll timer is left as it is.
GotCodeOnly(r) ==
    /\ call = "pair.start" /\ Returns
    /\ mode' = IF r = Error THEN "error" ELSE mode
    /\ UNCHANGED <<visible, target, rows, shown, pending, polling, arg, pressed>>

GotCode(r) ==
    /\ call = "pair.start" /\ Returns
    /\ mode' = IF r = Error THEN "error" ELSE mode
    /\ polling' = IF r = Error THEN polling ELSE TRUE
    /\ UNCHANGED <<visible, target, rows, shown, pending, arg, pressed>>

GotPoll(r) ==
    /\ call = "pair.poll"
    /\ \/ r \in {Error, "expired"} /\ polling' = FALSE /\ mode' = "error" /\ Returns
       \/ r = "ok" /\ polling' = FALSE /\ mode' = "pick" /\ call' = "targets.list"
       \/ r = "pending" /\ Returns /\ UNCHANGED <<polling, mode>>
    /\ UNCHANGED <<visible, target, rows, shown, pending, arg, pressed>>

GotTargets(r) ==
    /\ call \in {"targets.list", "targets.refresh"} /\ Returns
    /\ \/ r = Error /\ mode' = "error" /\ UNCHANGED rows
       \/ r # Error /\ mode' = "pick" /\ rows' = r
    /\ UNCHANGED <<visible, target, shown, pending, polling, arg, pressed>>

GotSend(r) ==
    /\ call = "send" /\ Returns
    /\ mode' = IF r = Error THEN "error" ELSE "done"
    /\ UNCHANGED <<visible, target, rows, shown, pending, polling, arg, pressed>>

\* Mutated form: what was selected stays selected.
NothingDeselected == target

Deselected == None

\* The rest of rmnRemoveAccount, whatever logout answered.
GotLogout ==
    /\ call = "logout"
    /\ target' = Deselected /\ mode' = "checking" /\ call' = "status" /\ arg' = None
    /\ UNCHANGED <<visible, rows, shown, pending, polling, pressed>>

Failed ==
    \/ GotStatus(Error) \/ GotAccounts(Error) \/ GotCode(Error) \/ GotPoll(Error)
    \/ GotTargets(Error) \/ GotSend(Error) \/ GotLogout

=============================================================================
