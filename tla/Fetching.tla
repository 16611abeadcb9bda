------------------------------ MODULE Fetching ------------------------------
(***************************************************************************)
(* Fetching with URL deduplication (services/ingestor/fetch.py) and the    *)
(* scrapers (services/ingestor/scrapers/).  The two parts share only the   *)
(* idea: a filter of seen URLs that is asked before a request and told     *)
(* after it, with awaits in between.                                       *)
(*                                                                         *)
(* The hash functions are external: Positions gives the bits of each URL,  *)
(* and may let URLs collide.  Delays are left out; a retry is a later step *)
(* of the same call.                                                       *)
(***************************************************************************)
EXTENDS Naturals, Sequences, FiniteSets, SequencesExt

CONSTANTS Urls,
          Positions,    \* [Urls -> non-empty sets of bits]: _positions
          Fetchers,     \* concurrent fetch_dedup calls
          Scrapes,      \* concurrent scrape() calls on one scraper
          MaxRetries,   \* attempts of one call: 3 in the code
          Slots,        \* _SEMAPHORE_LIMIT
          Limit,        \* scrape(limit)
          MaxScrapes,   \* bound on scrape() calls
          MaxSwaps      \* bound on reset and set_url_filter

VARIABLES
  filter,     \* the default strategy: kind, identity, bits or URLs it holds
  swaps,
  fetch,      \* fetch_dedup calls
  fetched,    \* history: URLs fetched under the present filter since its reset
  twice,      \* history: those fetched more than once
  met,        \* history: URLs two calls have worked on at once
  kind,       \* which scraper class
  seen,       \* BloomFilter._bits of the scraper
  scrape,     \* scrape() calls
  added,      \* history: URLs the scraper marked as seen
  returned,   \* history: how often each URL was returned
  dropped,    \* history: URLs marked by an attempt or a loop that failed later, or
              \* cut by the limit
  scrapes

dedupVars == <<filter, swaps, fetch, fetched, twice, met>>
scraperVars == <<kind, seen, scrape, added, returned, dropped, scrapes>>
fetchVars == <<dedupVars, scraperVars>>

NoFetch == [url |-> "none", id |-> 0, attempt |-> 0]
NoScrape == [pc |-> "idle", attempt |-> 0, todo |-> <<>>, items |-> <<>>]

Init ==
  /\ filter = [kind |-> "bloom_filter", id |-> 0, holds |-> {}]
  /\ swaps = 0
  /\ fetch = [f \in Fetchers |-> NoFetch]
  /\ fetched = {} /\ twice = {} /\ met = {}
  /\ kind \in {"http", "html", "browser"}
  /\ seen = {}
  /\ scrape = [s \in Scrapes |-> NoScrape]
  /\ added = {} /\ returned = [u \in Urls |-> 0] /\ dropped = {}
  /\ scrapes = 0

----------------------------------------------------------------------------
(* fetch_dedup and its strategies                                          *)

\* What mark_seen adds: BitArrayBloomFilter, InMemorySetFilter, NoOpFilter.
Marks(strategy, url) ==
  CASE strategy = "bloom_filter"  -> Positions[url]
    [] strategy = "in_memory_set" -> {url}
    [] strategy = "no_op"         -> {}

IsSeen(url) ==
  filter.kind # "no_op" /\ Marks(filter.kind, url) \subseteq filter.holds

Reset ==
  /\ swaps < MaxSwaps
  /\ swaps' = swaps + 1
  /\ filter' = [filter EXCEPT !.holds = {}]
  /\ fetched' = {} /\ twice' = {}
  /\ UNCHANGED <<fetch, met, scraperVars>>

\* A call in flight keeps the strategy it started with.
SetUrlFilter(strategy) ==
  /\ swaps < MaxSwaps
  /\ swaps' = swaps + 1
  /\ filter' = [kind |-> strategy, id |-> filter.id + 1, holds |-> {}]
  /\ fetched' = {} /\ twice' = {}
  /\ UNCHANGED <<fetch, met, scraperVars>>

\* A seen URL is answered None; another one starts its attempts.
FetchDedup(f, url) ==
  /\ fetch[f] = NoFetch
  /\ ~IsSeen(url)
  /\ fetch' = [fetch EXCEPT ![f] = [url |-> url, id |-> filter.id, attempt |-> 0]]
  /\ met' = IF \E g \in Fetchers : fetch[g].url = url THEN met \cup {url} ELSE met
  /\ UNCHANGED <<filter, swaps, fetched, twice, scraperVars>>

\* Mutant: mark_seen keeps only the last URL.
Marking_LastOnly(f) == [filter EXCEPT !.holds = Marks(filter.kind, fetch[f].url)]

\* The URL is marked when, and only when, an attempt has succeeded.
Marking(f) == [filter EXCEPT !.holds = @ \cup Marks(filter.kind, fetch[f].url)]

FetchSucceeds(f) ==
  LET url == fetch[f].url IN
  /\ fetch[f] # NoFetch
  /\ fetch' = [fetch EXCEPT ![f] = NoFetch]
  /\ IF fetch[f].id = filter.id
     THEN /\ filter' = Marking(f)
          /\ fetched' = fetched \cup {url}
          /\ twice' = IF url \in fetched THEN twice \cup {url} ELSE twice
     ELSE UNCHANGED <<filter, fetched, twice>>
  /\ UNCHANGED <<swaps, met, scraperVars>>

\* fetch_with_retry: attempts 0..max_retries - 1, then the last exception.
FetchAttemptFails(f) ==
  LET next == fetch[f].attempt + 1 IN
  /\ fetch[f] # NoFetch
  /\ fetch' = [fetch EXCEPT ![f] =
       IF next < MaxRetries THEN [@ EXCEPT !.attempt = next] ELSE NoFetch]
  /\ UNCHANGED <<filter, swaps, fetched, twice, met, scraperVars>>

----------------------------------------------------------------------------
(* The scrapers                                                            *)

Holding == {s \in Scrapes : scrape[s].pc # "idle"}

Release(s) == scrape' = [scrape EXCEPT ![s] = NoScrape]

\* scrape(): async with self._semaphore.
Scrape(s) ==
  /\ scrape[s] = NoScrape
  /\ scrapes < MaxScrapes
  /\ Cardinality(Holding) < Slots
  /\ scrapes' = scrapes + 1
  /\ scrape' = [scrape EXCEPT ![s].pc = "fetching"]
  /\ UNCHANGED <<dedupVars, kind, seen, added, returned, dropped>>

\* An attempt of _fetch_with_backoff fails and the next one starts over, or
\* None leaves scrape() with an empty list; so does an error outside
\* httpx.HTTPError, and in HttpScraper the wait_for timeout, by raising.
ScrapeAttemptFails(s) ==
  /\ s \in Holding
  /\ \/ /\ scrape[s].attempt + 1 < MaxRetries
        /\ scrape' = [scrape EXCEPT ![s] =
                        [NoScrape EXCEPT !.pc = "fetching",
                                         !.attempt = scrape[s].attempt + 1]]
     \/ Release(s)
  /\ dropped' = dropped \cup ToSet(scrape[s].items)
  /\ UNCHANGED <<dedupVars, kind, seen, added, returned, scrapes>>

\* The rows that the loop over posts or rows keeps: BloomFilter's __contains__
\* finds some bit that neither the filter nor an earlier row has set.
Fresh(page, bits) ==
  {i \in DOMAIN page :
     ~(Positions[page[i]] \subseteq bits \cup UNION {Positions[page[j]] : j \in 1..i - 1})}

\* The filter after the loop, which adds what it keeps.
Collect(page, bits) == bits \cup UNION {Positions[page[i]] : i \in DOMAIN page}

Return(urls) == returned' = [u \in Urls |-> returned[u] + IF u \in urls THEN 1 ELSE 0]

Pages == UNION {[1..n -> Urls] : n \in 0..Limit + 1}

Cut(urls) == SubSeq(urls, 1, IF Len(urls) < Limit THEN Len(urls) ELSE Limit)

\* Mutant: the cut comes after the marking.
Scraped_CutLate(page) ==
  LET kept == Fresh(page, seen) IN
  [bits |-> Collect(page, seen), marked |-> {page[i] : i \in kept},
   items |-> {page[i] : i \in {k \in kept : Cardinality({j \in kept : j < k}) < Limit}}]

\* HtmlScraper cuts the rows before it looks at them; HttpScraper asks the service
\* for `limit` posts and takes what it gets.  The loop runs without an await.
Scraped(page) ==
  LET rows == IF kind = "html" THEN Cut(page) ELSE page
      kept == {rows[i] : i \in Fresh(rows, seen)}
  IN [bits |-> Collect(rows, seen), marked |-> kept, items |-> kept]

ScrapePage(s, page) ==
  LET got == Scraped(page) IN
  /\ kind # "browser"
  /\ scrape[s].pc = "fetching"
  /\ Release(s)
  /\ seen' = got.bits
  /\ added' = added \cup got.marked
  /\ Return(got.items)
  /\ UNCHANGED <<dedupVars, kind, dropped, scrapes>>

\* HttpScraper's loop raises at a post without 'id', with the posts before it,
\* `page`, already marked.
ScrapePageFails(s, page) ==
  LET got == Scraped(page) IN
  /\ kind = "http"
  /\ scrape[s].pc = "fetching"
  /\ Release(s)
  /\ seen' = got.bits
  /\ added' = added \cup got.marked
  /\ dropped' = dropped \cup got.marked
  /\ UNCHANGED <<dedupVars, kind, returned, scrapes>>

\* BrowserScraper: page.goto and query_selector_all.
BrowserGoto(s, page) ==
  /\ kind = "browser"
  /\ scrape[s].pc = "fetching"
  /\ scrape' = [scrape EXCEPT ![s].pc = "reading", ![s].todo = page]
  /\ UNCHANGED <<dedupVars, kind, seen, added, returned, dropped, scrapes>>

\* One element: its text is awaited, then it is marked and kept.
BrowserElement(s) ==
  LET url == Head(scrape[s].todo)
      new == Fresh(<<url>>, seen) # {}
  IN /\ scrape[s].pc = "reading" /\ scrape[s].todo # <<>>
     /\ seen' = Collect(<<url>>, seen)
     /\ added' = IF new THEN added \cup {url} ELSE added
     /\ scrape' = [scrape EXCEPT ![s].todo = Tail(@),
                                 ![s].items = IF new THEN Append(@, url) ELSE @]
     /\ UNCHANGED <<dedupVars, kind, returned, dropped, scrapes>>

\* browser.close() and items[:limit]: what is cut has been marked as seen.
BrowserDone(s) ==
  LET items == scrape[s].items IN
  /\ scrape[s].pc = "reading" /\ scrape[s].todo = <<>>
  /\ Release(s)
  /\ Return(ToSet(Cut(items)))
  /\ dropped' = dropped \cup (ToSet(items) \ ToSet(Cut(items)))
  /\ UNCHANGED <<dedupVars, kind, seen, added, scrapes>>

----------------------------------------------------------------------------

DedupStep ==
  \/ Reset
  \/ \E strategy \in {"bloom_filter", "in_memory_set", "no_op"} : SetUrlFilter(strategy)
  \/ \E f \in Fetchers : \/ \E url \in Urls : FetchDedup(f, url)
                         \/ FetchSucceeds(f) \/ FetchAttemptFails(f)

ScrapeStep ==
  \E s \in Scrapes :
    \/ Scrape(s) \/ ScrapeAttemptFails(s)
    \/ \E page \in Pages : \/ ScrapePage(s, page) \/ ScrapePageFails(s, page)
                           \/ BrowserGoto(s, page)
    \/ BrowserElement(s) \/ BrowserDone(s)

Next == DedupStep \/ ScrapeStep

Spec == Init /\ [][Next]_fetchVars

----------------------------------------------------------------------------

TypeOK ==
  /\ filter.kind \in {"bloom_filter", "in_memory_set", "no_op"}
  /\ \A f \in Fetchers : fetch[f].attempt \in 0..MaxRetries - 1
  /\ fetched \subseteq Urls /\ twice \subseteq fetched /\ met \subseteq Urls
  /\ \A s \in Scrapes : scrape[s].attempt \in 0..MaxRetries - 1
  /\ returned \in [Urls -> Nat] /\ added \subseteq Urls /\ dropped \subseteq added
  /\ Cardinality(Holding) <= Slots

\* The filter holds exactly the URLs that were fetched with success since
\* it was emptied: a failed fetch can be tried again, a fetched URL is never
\* reported unseen, and what is skipped without having been fetched is a
\* collision of bits only.  A URL is fetched twice only when two calls were
\* under way for it at once, both having asked before either was marked
\* (fetch.py:383-391, 485-524).
SeenIsFetched ==
  /\ filter.holds = UNION {Marks(filter.kind, u) : u \in fetched}
  /\ filter.kind # "no_op" => twice \subseteq met

\* A scraper returns a URL at most once in its life, and every URL it marked as seen
\* was returned, is about to be, or is lost to it for good.  HtmlScraper loses none;
\* HttpScraper loses the posts that its loop had marked when a later one made it
\* raise, and BrowserScraper what an attempt that failed later had read and what is
\* beyond the limit (scrapers/__init__.py:54-98, http_scraper.py:116-128,
\* browser_scraper.py:48-139).
ScrapedOnce ==
  LET pending == UNION {ToSet(scrape[s].items) : s \in Scrapes} IN
  /\ \A u \in Urls : returned[u] <= 1
  /\ added \subseteq {u \in Urls : returned[u] = 1} \cup pending \cup dropped
  /\ \A u \in dropped : returned[u] = 0
  /\ kind = "html" => dropped = {}

=============================================================================
