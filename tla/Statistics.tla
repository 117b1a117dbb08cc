----------------------------- MODULE Statistics -----------------------------
(***************************************************************************)
(* The statistics per device of internal/querylog/stats.go: what           *)
(* getDeviceStatsQuery computes of the rows that handleRequest logs, here  *)
(* of the queries module Resolver has answered, which are the rows of the  *)
(* period asked for.  Percentages are in hundredths, as the query rounds   *)
(* them; response times are left out.                                      *)
(***************************************************************************)
EXTENDS Resolver, Functions

CONSTANT Limit       \* LIMIT 10 of the lists of domains

\* No text of a row is a NULL: neither a domain nor the literals below.
ASSUME StatisticsAssumption ==
  /\ Limit \in Nat \ {0}
  /\ Nil \notin Name \cup {"rdns-private-ip", "category", "upstream"}

-----------------------------------------------------------------------------
\* The QueryLog of a handler that has written its response.  Every refusal has
\* a reason, and a response that was forwarded names the upstream.
QueryLog(c) ==
  [hostname     |-> call[c].client,
   domain       |-> call[c].name,
   cached       |-> sent[c].cached,
   blocked      |-> sent[c].kind = "blocked",
   block_reason |-> IF sent[c].kind # "blocked" THEN Nil
                    ELSE IF IsPrivateReverse(call[c].name) THEN "rdns-private-ip" ELSE "category",
   upstream     |-> IF sent[c].forwarded THEN "upstream" ELSE Nil,
   prefetched   |-> sent[c].prefetched]

\* The rows of one device, a function from the queries to their rows.
queries(host) ==
  [c \in {d \in Conn : sent[d] # Nil /\ call[d].client = host} |-> QueryLog(c)]

\* SUM(CASE WHEN ... THEN 1 ELSE 0 END)
CountIf(rows, column) == Cardinality({i \in DOMAIN rows : rows[i][column]})

\* ROUND(part * 100.0 / whole, 2), or 0 of nothing
Percentage(part, whole) ==
  IF whole > 0 THEN (20000 * part + whole) \div (2 * whole) ELSE 0

\* SELECT value, COUNT(*) ... GROUP BY value, without the NULLs
Histogram(rows, column) ==
  [v \in {rows[i][column] : i \in DOMAIN rows} \ {Nil} |->
     Cardinality({i \in DOMAIN rows : rows[i][column] = v})]

\* ORDER BY cnt DESC LIMIT 10: any of the choices the order leaves.
MostFrequent(counts) ==
  {Restrict(counts, S) : S \in
     {S \in SUBSET DOMAIN counts :
        /\ Cardinality(S) = Min({Limit, Cardinality(DOMAIN counts)})
        /\ \A v \in S, w \in DOMAIN counts \ S : counts[v] >= counts[w]}}

DomainsOf(rows, isBlockedRow) ==
  MostFrequent(Histogram(
    Restrict(rows, {i \in DOMAIN rows : rows[i].blocked = isBlockedRow}), "domain"))

\* A row of the result.  resolved_domains and blocked_domains are sets of
\* possible outcomes.
DeviceStats(host) ==
  LET rows       == queries(host)
      total      == Cardinality(DOMAIN rows)
      cached     == CountIf(rows, "cached")
      refused    == CountIf(rows, "blocked")
      prefetched == CountIf(rows, "prefetched")
  IN [total_queries      |-> total,
      unique_domains     |-> Cardinality({rows[i].domain : i \in DOMAIN rows}),
      cached_queries     |-> cached,
      cache_hit_ratio    |-> Percentage(cached, total - refused),
      blocked_queries    |-> refused,
      block_ratio        |-> Percentage(refused, total),
      prefetched_queries |-> prefetched,
      prefetched_ratio   |-> Percentage(prefetched, total - refused),
      block_reasons      |-> Histogram(rows, "block_reason"),
      upstreams          |-> Histogram(rows, "upstream"),
      resolved_domains   |-> DomainsOf(rows, FALSE),
      blocked_domains    |-> DomainsOf(rows, TRUE)]

\* SELECT ... GROUP BY hostname
GetDeviceStats ==
  [host \in {call[c].client : c \in {d \in Conn : sent[d] # Nil}} |-> DeviceStats(host)]

-----------------------------------------------------------------------------
\* What the entries of a histogram add up to.
Total(counts) == FoldFunction(+, 0, counts)

\* The columns of one row fit together.
AddsUp(s) ==
  /\ s.total_queries = s.cached_queries + s.blocked_queries + Total(s.upstreams)
  /\ Total(s.block_reasons) = s.blocked_queries
  /\ s.prefetched_queries <= s.cached_queries
  /\ s.cache_hit_ratio <= 10000 /\ s.prefetched_ratio <= s.cache_hit_ratio
  /\ s.unique_domains <= Limit =>
       \A resolved \in s.resolved_domains, refused \in s.blocked_domains :
         /\ Total(resolved) + Total(refused) = s.total_queries
         /\ Cardinality(DOMAIN resolved \cup DOMAIN refused) = s.unique_domains

\* The statistics add up, though cached, blocked, upstream and prefetched are
\* set at different returns of process and resolve: every query of a device was
\* refused for one reason, came out of the cache or was forwarded to an
\* upstream, and no two of them; only cached answers were prefetched; no
\* percentage exceeds 100; and the lists of domains miss none that fits
\* (stats.go:9-94, resolver.go:46-69).
StatsAddUp == \A host \in DOMAIN GetDeviceStats : AddsUp(GetDeviceStats[host])
=============================================================================
