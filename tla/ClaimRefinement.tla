-------------------------- MODULE ClaimRefinement --------------------------
(***************************************************************************)
(* The claim controller implements the ledger.  A namespace asks for an    *)
(* amount as long as a claim for it is anywhere: in the API, in an event,  *)
(* in the cache or in the hands of a worker.  What is granted is the       *)
(* spec.hard of the managed-quota.                                         *)
(***************************************************************************)
EXTENDS ClaimProperties

\* The claims to be found anywhere, with their namespaces.
ClaimsAnywhere ==
    {<<k[1], claims[k]>> : k \in Key}
    \cup {<<k[1], claimCache[k]>> : k \in Key}
    \cup {<<claimEvents[i].name[1], claimEvents[i].object>> : i \in DOMAIN claimEvents}
    \cup {<<NamespaceOf(w), worker[w].claim>> : w \in {v \in ClaimWorker : Busy(v)}}

RequestsMade == {<<x[1], x[2].spec>> : x \in {y \in ClaimsAnywhere : y[2] # None}}

QuotasGranted == [ns \in Namespace |-> IF quotas[ns] = None THEN None ELSE quotas[ns].hard]

AllowedToOne(amount) == Covers(allocationLimit(WholeCluster), amount)

AllowedTogether(ledger) ==
    Covers(applyOverProvisioning(WholeCluster),
           Total([ns \in {m \in Namespace : ledger[m] # None} |-> ledger[ns]]))

Ledger == INSTANCE QuotaLedger
          WITH WithinLimit <- AllowedToOne, Fits <- AllowedTogether,
               requests <- RequestsMade, granted <- QuotasGranted, misled <- lagged

\* Every behaviour of the claim controller, with its lagging caches, failing
\* calls and crashes, is one of the ledger: no quota appears that nobody claims,
\* none is above the limit, and together they fit unless a check was misled
\* (syncHandlerClaim from the read of the claim to updateResourceQuota; with the
\* one claim worker that main starts).
ImplementsLedger == Ledger!LedgerSpec
=============================================================================
