---------------------------- MODULE QuotaLedger ----------------------------
(***************************************************************************)
(* What kotary promises, without caches, queues, workers or failures: a    *)
(* ledger of what each namespace has been granted.  An amount is granted   *)
(* in one step, only if somebody in the namespace asks for it, only within *)
(* the limit for one namespace, and only if all that is granted then fits  *)
(* in the over-committed cluster.                                          *)
(*                                                                         *)
(* The last condition is lost once a decision has been taken on a view of  *)
(* the ledger that was out of date: the promise says so openly, with the   *)
(* flag `misled'.  Requests may be withdrawn or forgotten at any time.     *)
(***************************************************************************)
CONSTANTS Namespace,        \* the namespaces
          Amount,           \* what may be asked for
          None,             \* nothing granted
          WithinLimit(_),   \* an amount is not too much for one namespace
          Fits(_)           \* a ledger is not too much for the cluster

VARIABLES requests,     \* pairs of a namespace and an amount it asks for
          granted,      \* what each namespace may use
          misled        \* a decision was taken on an outdated view

ledgerVars == <<requests, granted, misled>>

LedgerInit ==
    /\ requests = {}
    /\ granted \in [Namespace -> Amount \cup {None}]
    /\ \A ns \in Namespace : granted[ns] # None => WithinLimit(granted[ns])
    /\ Fits(granted)
    /\ misled = FALSE

Withdraw ==
    /\ requests' \subseteq requests
    /\ UNCHANGED <<granted, misled>>

\* One more request, of any amount.
Ask ==
    /\ \E request \in requests' : /\ request \in Namespace \X Amount
                                  /\ requests' \ {request} \subseteq requests
    /\ UNCHANGED <<granted, misled>>

Grant(ns, amount) ==
    /\ <<ns, amount>> \in requests
    /\ WithinLimit(amount)
    /\ granted' = [granted EXCEPT ![ns] = amount]
    /\ misled \/ Fits(granted')
    /\ requests' \subseteq requests
    /\ UNCHANGED misled

Revoke(ns) ==
    /\ granted' = [granted EXCEPT ![ns] = None]
    /\ requests' \subseteq requests
    /\ UNCHANGED misled

LoseSight ==
    /\ misled' = TRUE
    /\ requests' \subseteq requests
    /\ UNCHANGED granted

LedgerNext ==
    \/ Withdraw \/ Ask \/ LoseSight
    \/ \E request \in requests : Grant(request[1], request[2])
    \/ \E ns \in Namespace : Revoke(ns)

LedgerSpec == LedgerInit /\ [][LedgerNext]_ledgerVars
=============================================================================
