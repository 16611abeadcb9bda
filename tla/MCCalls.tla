------------------------------ MODULE MCCalls ------------------------------
(***************************************************************************)
(* How the services call others: through circuit breakers, bulkheads and   *)
(* retry budgets, from the queue of ingestion commands, by fetching and    *)
(* scraping, and with the token that MCP tools share.  The parts share no  *)
(* state, so that a behaviour follows the one that the variable part names *)
(* and leaves the others at their initial state.                           *)
(***************************************************************************)
EXTENDS CircuitBreaker, TLC

CONSTANTS
  Calls, MaxConcurrency, MaxQueue, MaxRetryTokens, WindowSeconds, CallClock, CallThreshold,
  MaxCommands, Runners, MaxFailures, QueueClock,
  Urls, Positions, Fetchers, Scrapes, FetchAttempts, Slots, Limit, MaxScrapes, MaxSwaps,
  Tools, MaxLogins, MaxLapses

ASSUME CallsAssumption ==
  /\ MaxConcurrency \in Nat \ {0} /\ MaxQueue \in Nat
  /\ MaxRetryTokens \in Nat \ {0} /\ WindowSeconds \in Nat \ {0}
  /\ CallClock \in Nat /\ CallThreshold \in Nat \ {0}

ASSUME QueueAssumption == QueueClock \in Nat

ASSUME FetchingAssumption ==
  /\ "none" \notin Urls
  /\ FetchAttempts \in Nat \ {0} /\ Slots \in Nat \ {0} /\ Limit \in Nat
  /\ MaxScrapes \in Nat /\ MaxSwaps \in Nat

ASSUME ToolsAssumption == "nobody" \notin Tools /\ MaxLogins \in Nat /\ MaxLapses \in Nat

VARIABLE part

\* The bits of the middle URL are covered by those of the other two.
MCPositions == "u1" :> {1, 2} @@ "u2" :> {2, 3} @@ "u3" :> {3, 4}

VARIABLES
  rePc, reAttempt, reInflight, reWaiting, reWaiters, reNotified, reTimestamps,
  reRetries, reNow, reBreakerState, reBreakerFailures, reBreakerSuccesses, reElapsed

RE == INSTANCE Resilience WITH
  MaxClock <- CallClock, FailureThreshold <- CallThreshold,
  pc <- rePc, attempt <- reAttempt, inflight <- reInflight, waiting <- reWaiting,
  waiters <- reWaiters, notified <- reNotified, timestamps <- reTimestamps,
  retries <- reRetries, now <- reNow, breakerState <- reBreakerState,
  breakerFailures <- reBreakerFailures, breakerSuccesses <- reBreakerSuccesses,
  elapsed <- reElapsed

VARIABLES
  jqHeap, jqUrgency, jqClock, jqDoing, jqDraining, jqDone, jqRaised, jqCancelled, jqOrder

JQ == INSTANCE JobQueue WITH
  MaxClock <- QueueClock, heap <- jqHeap, urgency <- jqUrgency, clock <- jqClock,
  doing <- jqDoing, draining <- jqDraining, done <- jqDone, raised <- jqRaised,
  cancelled <- jqCancelled, order <- jqOrder

VARIABLES
  feFilter, feSwaps, feFetch, feFetched, feTwice, feMet, feKind, feSeen, feScrape,
  feAdded, feReturned, feDropped, feScrapes

FE == INSTANCE Fetching WITH
  MaxRetries <- FetchAttempts,
  filter <- feFilter, swaps <- feSwaps, fetch <- feFetch,
  fetched <- feFetched, twice <- feTwice, met <- feMet, kind <- feKind, seen <- feSeen,
  scrape <- feScrape, added <- feAdded, returned <- feReturned, dropped <- feDropped,
  scrapes <- feScrapes

VARIABLES
  mcPc, mcCached, mcExpired, mcLock, mcToken, mcAccepted, mcLogins, mcLapses, mcRejected,
  mcSpent, mcFailures

MC == INSTANCE McpClient WITH
  Callers <- Tools, pc <- mcPc,
  cached <- mcCached, expired <- mcExpired, lock <- mcLock, token <- mcToken,
  accepted <- mcAccepted, logins <- mcLogins, lapses <- mcLapses,
  rejected <- mcRejected, spent <- mcSpent, failures <- mcFailures

-----------------------------------------------------------------------------
callVars ==
  <<rePc, reAttempt, reInflight, reWaiting, reWaiters, reNotified, reTimestamps,
    reRetries, reNow, reBreakerState, reBreakerFailures, reBreakerSuccesses, reElapsed>>
queueVars ==
  <<jqHeap, jqUrgency, jqClock, jqDoing, jqDraining, jqDone, jqRaised, jqCancelled,
    jqOrder>>
fetchVars ==
  <<feFilter, feSwaps, feFetch, feFetched, feTwice, feMet, feKind, feSeen, feScrape,
    feAdded, feReturned, feDropped, feScrapes>>
toolVars ==
  <<mcPc, mcCached, mcExpired, mcLock, mcToken, mcAccepted, mcLogins, mcLapses, mcRejected,
    mcSpent, mcFailures>>
allVars == <<part, vars, callVars, queueVars, fetchVars, toolVars>>

\* The kinds of breaker and of scraper do not vary where they are not followed.
MCInit ==
  /\ part \in {"breaker", "call", "queue", "dedup", "scrape", "tool"}
  /\ Init /\ RE!Init /\ JQ!Init /\ FE!Init /\ MC!Init
  /\ part # "breaker" => style = "probe"
  /\ part # "scrape" => feKind = "http"

MCNext ==
  /\ UNCHANGED part
  /\ \/ part = "breaker" /\ Next /\ UNCHANGED <<callVars, queueVars, fetchVars, toolVars>>
     \/ part = "call" /\ RE!Next /\ UNCHANGED <<vars, queueVars, fetchVars, toolVars>>
     \/ part = "queue" /\ JQ!Next /\ UNCHANGED <<vars, callVars, fetchVars, toolVars>>
     \/ part = "dedup" /\ FE!DedupStep /\ UNCHANGED <<vars, callVars, queueVars, toolVars>>
     \/ /\ part = "scrape" /\ FE!ScrapeStep
        /\ UNCHANGED <<vars, callVars, queueVars, toolVars>>
     \/ part = "tool" /\ MC!Next /\ UNCHANGED <<vars, callVars, queueVars, fetchVars>>

\* The fairness of the modules, for the part that is followed.
MCFairness ==
  /\ \A c \in Callers : WF_vars(part = "breaker" /\ Step(c))
  /\ WF_vars(part = "breaker" /\ TimeoutElapses)
  /\ \A c \in Calls : WF_callVars(part = "call" /\ RE!CallStep(c))

MCSpec == MCInit /\ [][MCNext]_allVars /\ MCFairness

-----------------------------------------------------------------------------
\* No window holds more retries than the budget, and the bulkhead's counters
\* are the calls that hold a slot and that wait (retry.py RetryBudget,
\* bulkhead.py AsyncBulkhead.run); and MCP tools log in no more often than
\* expiry, refusals and failures explain (auth_client.py get_valid_token).
BudgetHolds ==
  /\ part = "call" => RE!TypeOK /\ RE!BudgetHolds /\ RE!SlotsAreUsed
  /\ part = "tool" => MC!TypeOK /\ MC!LoginsAreNeeded

\* Every call through bulkhead, retry and breaker ends, although a freed slot is
\* not reserved for the waiter that is told of it (bulkhead.py).
CallsEnd == part = "call" => RE!CallsEnd

\* The queue starts the most urgent command first, at the time it starts it, and
\* none is lost or run twice, however its runners overlap (jobs/queue.py
\* PriorityJobQueue).
MostUrgentFirst == part = "queue" => JQ!TypeOK /\ JQ!MostUrgentFirst

\* What is skipped as seen was fetched, and what a scraper marked as seen was
\* returned, except what a loop or an attempt that fails later, or BrowserScraper's
\* limit, loses (fetch.py fetch_dedup, scrapers/).
SeenIsFetched ==
  /\ part = "dedup" => FE!TypeOK /\ FE!SeenIsFetched
  /\ part = "scrape" => FE!TypeOK /\ FE!ScrapedOnce
=============================================================================
