---------------------------- MODULE AccountList -----------------------------
(***************************************************************************)
(* What the account store of the daemon promises its callers, whatever it  *)
(* does with its files: the list of connected Notion accounts is one       *)
(* object.  An operation takes effect at one instant between its call and  *)
(* its answer, an operation that answers an error changed nothing unless   *)
(* it is RemoveAllAccounts, and a device paired before there was a list    *)
(* is adopted into it once.                                                *)
(***************************************************************************)
EXTENDS Accounts

VARIABLES
    accounts,  \* the connected accounts, by identifier
    legacy,    \* the account of a device paired before there was a list
    calls,     \* calls[p]: the operation p is in, or None
    answers    \* answers[p]: what the operation will answer, or None

listVars == <<accounts, legacy, calls, answers>>

\* The workspace names an answer to Accounts carries.
NamesOf(m) == [id \in DOMAIN m |-> m[id].workspace]

-----------------------------------------------------------------------------
Invoke(p, op) ==
    /\ calls[p] = None
    /\ calls' = [calls EXCEPT ![p] = op]
    /\ UNCHANGED <<accounts, legacy, answers>>

InProgress(p, kind) == calls[p] # None /\ calls[p].kind = kind /\ answers[p] = None

Answer(p, v) == answers' = [answers EXCEPT ![p] = v] /\ UNCHANGED calls

\* The account of the old format joins the empty list, once and for all.
Adopt(p) ==
    /\ \E kind \in {"Accounts", "TokenFor", "AddAccount", "SetWorkspace", "RemoveAccount"} :
          InProgress(p, kind)
    /\ legacy # None
    /\ \E id \in Ids : accounts' = Put(EmptyMap, id, legacy)
    /\ legacy' = None
    /\ UNCHANGED <<calls, answers>>

ListAccounts(p) ==
    /\ InProgress(p, "Accounts") /\ legacy = None
    /\ Answer(p, Answered(NamesOf(accounts)))
    /\ UNCHANGED <<accounts, legacy>>

ReadToken(p) ==
    /\ InProgress(p, "TokenFor") /\ legacy = None
    /\ LET id == calls[p].id
       IN  Answer(p, Answered(IF id \in DOMAIN accounts THEN accounts[id].token ELSE None))
    /\ UNCHANGED <<accounts, legacy>>

\* A workspace of that name keeps its identifier and gets the new token.
RefreshToken(p) ==
    /\ InProgress(p, "AddAccount") /\ legacy = None
    /\ \E id \in DOMAIN accounts :
          /\ accounts[id].workspace = calls[p].workspace /\ calls[p].workspace # NoName
          /\ accounts' = Put(accounts, id, Entry(accounts[id].workspace, calls[p].token))
          /\ Answer(p, Answered(id))
    /\ UNCHANGED legacy

\* A workspace whose name is new, or unknown, is a further account.
Join(p) ==
    /\ InProgress(p, "AddAccount") /\ legacy = None
    /\ calls[p].workspace # NoName =>
          \A id \in DOMAIN accounts : accounts[id].workspace # calls[p].workspace
    /\ \E id \in Ids \ DOMAIN accounts :
          /\ accounts' = Put(accounts, id, Entry(calls[p].workspace, calls[p].token))
          /\ Answer(p, Answered(id))
    /\ UNCHANGED legacy

Rename(p) ==
    /\ InProgress(p, "SetWorkspace") /\ legacy = None
    /\ LET id == calls[p].id
       IN  accounts' = IF id \in DOMAIN accounts
                       THEN Put(accounts, id, Entry(calls[p].workspace, accounts[id].token))
                       ELSE accounts
    /\ Answer(p, Answered(None))
    /\ UNCHANGED legacy

Remove(p) ==
    /\ InProgress(p, "RemoveAccount") /\ legacy = None
    /\ accounts' = Without(accounts, {calls[p].id})
    /\ Answer(p, Answered(None))
    /\ UNCHANGED legacy

\* Forgetting everything takes effect before it answers, even when it then
\* answers an error.
Clear(p) ==
    /\ InProgress(p, "RemoveAllAccounts")
    /\ accounts' = EmptyMap /\ legacy' = None
    /\ UNCHANGED <<calls, answers>>

Cleared(p) ==
    /\ InProgress(p, "RemoveAllAccounts") /\ accounts = EmptyMap /\ legacy = None
    /\ Answer(p, Answered(None))
    /\ UNCHANGED <<accounts, legacy>>

\* An operation that writes may fail.
Fail(p) ==
    /\ \E kind \in {"AddAccount", "SetWorkspace", "RemoveAccount", "RemoveAllAccounts"} :
          InProgress(p, kind)
    /\ Answer(p, Failed)
    /\ UNCHANGED <<accounts, legacy>>

\* The caller has its answer, or the process died before giving it.
Finish(p) ==
    /\ calls[p] # None
    /\ calls' = [calls EXCEPT ![p] = None]
    /\ answers' = [answers EXCEPT ![p] = None]
    /\ UNCHANGED <<accounts, legacy>>

ListInit ==
    /\ accounts = EmptyMap
    /\ legacy \in {None} \cup Account
    /\ calls = [p \in Procs |-> None]
    /\ answers = [p \in Procs |-> None]

ListNext ==
    \E p \in Procs :
        \/ \E op \in Operations : Invoke(p, op)
        \/ Adopt(p)
        \/ ListAccounts(p) \/ ReadToken(p)
        \/ RefreshToken(p) \/ Join(p) \/ Rename(p) \/ Remove(p)
        \/ Clear(p) \/ Cleared(p)
        \/ Fail(p) \/ Finish(p)

ListSpec == ListInit /\ [][ListNext]_listVars

=============================================================================
