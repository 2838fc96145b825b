------------------------------- MODULE MCAudit -------------------------------
(* Four labels, two of them of one page, one an auth route, one an endpoint;  *)
(* each has one of five kinds of traffic.                                      *)
EXTENDS Audit

MCNames == <<"/a", "/a/page", "/flags", "/login">>
MCRaw == {"/a", "/a/page", "/flags", "/login"}
MCCanon == [r \in MCRaw |-> IF r = "/a/page" THEN "/a" ELSE r]

Quiet == [requests |-> 0, hits |-> 0, stale |-> 0, gets |-> 0, methods |-> 0, p95 |-> 0, runs |-> 0,
          errors |-> 0, edge5xx |-> 0, starts |-> 0, cold |-> 0, writes |-> 0, reads |-> 0,
          samples |-> 0, lcp |-> 0, inp |-> 0, cls |-> 0]
Busy == [Quiet EXCEPT !.requests = 3000, !.hits = 2500, !.gets = 2900, !.methods = 3000, !.runs = 3000, !.p95 = 200]
Slow == [Busy EXCEPT !.p95 = 900, !.starts = 1500, !.cold = 900]
Uncached == [Busy EXCEPT !.hits = 300, !.stale = 200, !.errors = 1200, !.edge5xx = 100]
Failing == [Busy EXCEPT !.p95 = 1800, !.errors = 1600, !.edge5xx = 1500, !.hits = 0]
Rewritten == [Busy EXCEPT !.writes = 800, !.reads = 900, !.samples = 60, !.lcp = 5000]

Profiles == {Quiet, Slow, Uncached, Failing, Rewritten}
Settings == [readable |-> TRUE, fluid |-> TRUE, bot |-> TRUE, botShare |-> 0, edge |-> 0, middleware |-> 0,
             events |-> 0, build |-> 0, turbo |-> FALSE, pins |-> 0, routes |-> 4]
Troubled == [Settings EXCEPT !.fluid = FALSE, !.bot = FALSE, !.botShare = 30, !.middleware = 6000, !.events = 25,
                             !.build = 20, !.pins = 2, !.routes = 30]
Clean == [p \in {"/a", "/flags", "/login"} |-> [cache_header_gap |-> 0, rendering_candidate |-> 0, use_cache_date_stamp |-> 0]]
Found == [Clean EXCEPT !["/a"] = [cache_header_gap |-> 2, rendering_candidate |-> 3, use_cache_date_stamp |-> 0],
                       !["/login"] = [cache_header_gap |-> 1, rendering_candidate |-> 0, use_cache_date_stamp |-> 1]]

Around == {[host |-> [p75 |-> 0, calls |-> 0], acct |-> Settings, found |-> Clean],
           [host |-> [p75 |-> 0, calls |-> 0], acct |-> [Settings EXCEPT !.bot = FALSE, !.botShare = 10], found |-> Clean],
           [host |-> [p75 |-> 2500, calls |-> 800], acct |-> Troubled, found |-> Found]}

MCSites == {[row |-> row, host |-> a.host, acct |-> a.acct, found |-> a.found, functions |-> TRUE] :
              row \in [MCRaw -> Profiles], a \in Around}

MCCollected == {[groups |-> {1, 2, 3}, billed |-> TRUE], [groups |-> {1}, billed |-> TRUE],
                [groups |-> {2, 3}, billed |-> FALSE], [groups |-> {}, billed |-> TRUE]}

MCBudgets == {[size |-> 6, diverse |-> TRUE], [size |-> 2, diverse |-> TRUE], [size |-> 1, diverse |-> FALSE]}

MCDrift == {[Busy EXCEPT !.p95 = 100, !.hits = 2900], [Busy EXCEPT !.gets = 100, !.p95 = 1500, !.errors = 2000]}

Good == [abstain |-> FALSE, observed |-> "none", unsafe |-> FALSE, failed |-> "none", poor |-> FALSE,
         review |-> FALSE, fix |-> "own", score |-> 1]
MCDrafts == {Good, [Good EXCEPT !.fix = "shared"], [Good EXCEPT !.fix = "shared", !.score = 2],
             [Good EXCEPT !.abstain = TRUE], [Good EXCEPT !.abstain = TRUE, !.observed = "safe"],
             [Good EXCEPT !.abstain = TRUE, !.observed = "unsafe"], [Good EXCEPT !.unsafe = TRUE],
             [Good EXCEPT !.failed = "semantic_safety"], [Good EXCEPT !.failed = "pass_rate_below_threshold"],
             [Good EXCEPT !.poor = TRUE], [Good EXCEPT !.review = TRUE]}
MCLeftovers == {[ref |-> <<"slow_route", "/old">>, rec |-> Good], [ref |-> <<"slow_route", "/a">>, rec |-> Good]}
MCFollowed == {<<"slow_route", "/a">>, <<"uncached_route", "/a">>, <<"route_errors", "/login">>,
               <<"platform_bot_protection", "account">>}
=============================================================================
