------------------------------- MODULE Fetch -------------------------------
(***************************************************************************)
(* pulse/mbta.py fetch_predictions and _get_with_retry for one batch,      *)
(* against the live collection of the MBTA API (external), which changes   *)
(* between two pages.  Seconds count what the fetch sleeps between         *)
(* attempts; the time its requests take is left out.                       *)
(***************************************************************************)
EXTENDS Integers, Sequences, SequencesExt, FiniteSets

CONSTANTS
  Predictions,          \* the predictions that may exist
  PageLimit,            \* page[limit]
  MaxPages,             \* MAX_PAGES_PER_BATCH
  MaxRetries,           \* MAX_RETRIES_PER_REQUEST
  DefaultBackoff,       \* DEFAULT_BACKOFF_SECONDS
  MaxHonoredRetryAfter, \* MAX_HONORED_RETRY_AFTER_SECONDS
  RetryAfters,          \* values the API sends as Retry-After
  MaxChanges,           \* bound: changes of the collection during the fetch
  MaxSlept              \* bound: seconds of back-off counted

ASSUME FetchAssumption ==
  /\ IsFiniteSet(Predictions)
  /\ PageLimit \in Nat \ {0}
  /\ MaxPages \in Nat \ {0}
  /\ MaxRetries \in Nat
  /\ DefaultBackoff \in Nat
  /\ MaxHonoredRetryAfter \in Nat
  /\ RetryAfters \subseteq Int
  /\ MaxChanges \in Nat
  /\ MaxSlept \in Nat

VARIABLES
  live,        \* the collection, in the API's order
  changes,     \* changes so far
  pc,
  page,        \* the page the loop is at
  offset,      \* page[offset] of the next request
  attempt,     \* attempts of the current GET that failed
  slept,       \* seconds slept in back-offs
  all_data,    \* predictions merged into the payload
  hit_page_cap,
  violations,  \* a page broke the contract
  stable,      \* history: predictions live ever since the first page
  removed      \* history: predictions removed since the first page

apiVars == <<live, changes>>
fetchVars == <<pc, page, offset, attempt, slept, all_data, hit_page_cap, violations>>
vars == <<apiVars, fetchVars, stable, removed>>

FetchInit ==
  /\ live \in {s \in SeqOf(Predictions, Cardinality(Predictions)) : IsInjective(s)}
  /\ changes = 0
  /\ pc = "get"
  /\ page = 1
  /\ offset = 0
  /\ attempt = 0
  /\ slept = 0
  /\ all_data = {}
  /\ hit_page_cap = FALSE
  /\ violations = FALSE
  /\ stable = Range(live)
  /\ removed = 0

-----------------------------------------------------------------------------
(* The collection: a prediction appears anywhere or goes away.  What happens *)
(* before the first page is part of the initial state.                       *)
Appear(p) ==
  /\ page > 1
  /\ changes < MaxChanges
  /\ p \notin Range(live)
  /\ \E i \in 1 .. Len(live) + 1 : live' = InsertAt(live, i, p)
  /\ changes' = changes + 1
  /\ UNCHANGED <<fetchVars, stable, removed>>

Disappear(i) ==
  /\ page > 1
  /\ changes < MaxChanges
  /\ live' = RemoveAt(live, i)
  /\ changes' = changes + 1
  /\ stable' = stable \ {live[i]}
  /\ removed' = removed + 1
  /\ UNCHANGED fetchVars

-----------------------------------------------------------------------------
Page == Range(SubSeq(live, offset + 1, Min({offset + PageLimit, Len(live)})))

(* links.next is there while predictions lie beyond the page. *)
NextLink == Len(live) > offset + PageLimit

(* A page goes into the payload unless it breaks the contract. *)
MergePage ==
  /\ pc = "get"
  /\ attempt' = 0
  /\ \/ all_data' = all_data \cup Page /\ UNCHANGED violations
     \/ violations' = TRUE /\ UNCHANGED all_data
  /\ UNCHANGED <<apiVars, slept, stable, removed>>

LastPage ==
  /\ ~NextLink
  /\ MergePage
  /\ pc' = "done"
  /\ UNCHANGED <<page, offset, hit_page_cap>>

(* Mutated form: the loop ends at the cap as if it were the last page. *)
CapUnnoticed ==
  /\ NextLink /\ page = MaxPages
  /\ MergePage
  /\ pc' = "done"
  /\ UNCHANGED <<page, offset, hit_page_cap>>

CapReached ==
  /\ NextLink /\ page = MaxPages
  /\ MergePage
  /\ hit_page_cap' = TRUE
  /\ pc' = "done"
  /\ UNCHANGED <<page, offset>>

FollowNext ==
  /\ NextLink /\ page < MaxPages
  /\ MergePage
  /\ page' = page + 1
  /\ offset' = offset + PageLimit
  /\ UNCHANGED <<pc, hit_page_cap>>

(* Mutated form: the server's number is slept as it came. *)
BackoffsUnclamped == {DefaultBackoff} \cup {Max({0, r}) : r \in RetryAfters}

(* The back-off after a timeout, or an answer without Retry-After or with one *)
(* that is no number, is the default; a number is clamped.                    *)
Backoffs ==
  {DefaultBackoff} \cup
    {Max({0, Min({r, MaxHonoredRetryAfter})}) : r \in RetryAfters}

(* Mutated form: a failed request starts the whole batch again, at once. *)
RetryBatch ==
  /\ pc = "get"
  /\ page' = 1 /\ offset' = 0 /\ attempt' = 0
  /\ UNCHANGED <<apiVars, pc, slept, all_data, hit_page_cap, violations, stable, removed>>

(* Mutated form: one attempt more than the allowance. *)
RetryOnceMore ==
  /\ pc = "get" /\ attempt <= MaxRetries
  /\ attempt' = attempt + 1
  /\ \E b \in Backoffs : slept' = Min({slept + b, MaxSlept})
  /\ UNCHANGED <<apiVars, pc, page, offset, all_data, hit_page_cap, violations,
                 stable, removed>>

(* A timeout or one of RETRYABLE_STATUS_CODES. *)
Retry ==
  /\ pc = "get" /\ attempt < MaxRetries
  /\ attempt' = attempt + 1
  /\ \E b \in Backoffs : slept' = Min({slept + b, MaxSlept})
  /\ UNCHANGED <<apiVars, pc, page, offset, all_data, hit_page_cap, violations,
                 stable, removed>>

(* Mutated form: a failed page ends the loop and what was merged is returned. *)
RaiseSwallowed ==
  /\ pc = "get"
  /\ pc' = "done"
  /\ UNCHANGED <<apiVars, page, offset, attempt, slept, all_data, hit_page_cap,
                 violations, stable, removed>>

(* The last attempt failed, or the failure is not one to retry (another      *)
(* status, a refused connection, no JSON): fetch_predictions raises and what *)
(* it had merged is lost.                                                    *)
Raise ==
  /\ pc = "get"
  /\ pc' = "failed"
  /\ all_data' = {}
  /\ UNCHANGED <<apiVars, page, offset, attempt, slept, hit_page_cap, violations,
                 stable, removed>>

Fetching == LastPage \/ CapReached \/ FollowNext \/ Retry \/ Raise

FetchNext ==
  \/ Fetching
  \/ \E p \in Predictions : Appear(p)
  \/ \E i \in 1 .. Len(live) : Disappear(i)

(* A request answers or times out, a sleep ends. *)
FetchSpec == FetchInit /\ [][FetchNext]_vars /\ WF_vars(Fetching)

-----------------------------------------------------------------------------
FetchTypeOK ==
  /\ live \in Seq(Predictions)
  /\ changes \in 0 .. MaxChanges
  /\ pc \in {"get", "done", "failed"}
  /\ page \in 1 .. MaxPages
  /\ offset \in Nat
  /\ attempt \in 0 .. MaxRetries
  /\ slept \in 0 .. MaxSlept
  /\ all_data \subseteq Predictions
  /\ hit_page_cap \in BOOLEAN
  /\ violations \in BOOLEAN
  /\ stable \subseteq Predictions
  /\ removed \in Nat

(* The caveat at lines 160-171, made exact: a fetch that reports neither the  *)
(* cap nor a violation misses at most one lasting prediction for every        *)
(* prediction that went away between its pages; arrivals, in whatever place,  *)
(* cost nothing.                                                              *)
MissedAtMostRemoved ==
  pc = "done" /\ ~hit_page_cap /\ ~violations =>
    Cardinality(stable \ all_data) <= removed

(* mbta.py, lines 36-46: every GET has an allowance of its own and an answer's *)
(* Retry-After is clamped, so what one batch sleeps is bounded by the product, *)
(* whatever the API sends and however its pages grow.                          *)
BackoffIsBounded ==
  slept <= MaxPages * MaxRetries * Max({DefaultBackoff, MaxHonoredRetryAfter})

(* What run_cycle sees of a fetch: nothing until it returns or raises. *)
Read == INSTANCE BatchRead WITH
  lasting <- stable,
  gone <- removed,
  fate <- IF pc = "get" THEN "reading" ELSE IF pc = "done" THEN "landed" ELSE "failed",
  payload <- IF pc = "get" THEN {} ELSE all_data,
  reported <- pc = "done" /\ (hit_page_cap \/ violations)

(* poll.py takes a batch as one step that lands or fails (lines 165-193), and *)
(* mbta.py has it span pages, retries and a collection that moves: seen from  *)
(* the cycle they are the same.  A fetch that raises leaves nothing behind,   *)
(* one that returns is final, and only what it reports, or what left the      *)
(* collection meanwhile, accounts for a prediction it lacks.                  *)
FetchIsOneRead == Read!ReadSpec

(* GETs the page cap and the allowance of every GET leave to the batch. *)
RequestsLeft ==
  IF pc = "get"
    THEN (MaxPages - page) * (MaxRetries + 1) + (MaxRetries - attempt) + 1
    ELSE 0

(* Why a fetch ends, mbta.py:36-46: every step it takes uses up a GET, none   *)
(* gives one back (an answer starts a new allowance only by giving up the     *)
(* rest of a page), and whatever the collection does costs none.              *)
RequestsRunDown ==
  [][ IF UNCHANGED fetchVars
        THEN RequestsLeft' = RequestsLeft
        ELSE RequestsLeft' < RequestsLeft ]_vars

(* However often requests fail and the collection grows, the fetch ends. *)
FetchEnds == <>(pc # "get")
=============================================================================
