------------------------------ MODULE AuditProofs ------------------------------
(***************************************************************************)
(* What the audit guarantees for every set of routes, every collection and *)
(* every budget: from the gates to the recommendations that are ready.     *)
(***************************************************************************)
EXTENDS Audit, FiniteSetTheorems, TLAPS

-----------------------------------------------------------------------------
(* Arranging a finite set                                                   *)

StrictOrder(S, R) ==
  /\ \A x \in S : <<x, x>> \notin R
  /\ \A x, y \in S : x # y => <<x, y>> \in R \/ <<y, x>> \in R
  /\ \A x, y, z \in S : <<x, y>> \in R /\ <<y, z>> \in R => <<x, z>> \in R

Before(S, R, x) == {y \in S : <<y, x>> \in R}

LEMMA RankTyped ==
  ASSUME NEW S, NEW R, IsFiniteSet(S), StrictOrder(S, R), NEW x \in S
  PROVE  Cardinality(Before(S, R, x)) \in 0..(Cardinality(S) - 1)
<1>1. Before(S, R, x) \subseteq S \ {x}
  BY DEF Before, StrictOrder
<1>2. IsFiniteSet(S \ {x}) /\ Cardinality(S \ {x}) = Cardinality(S) - 1
  BY FS_RemoveElement
<1>3. /\ IsFiniteSet(Before(S, R, x))
      /\ Cardinality(Before(S, R, x)) <= Cardinality(S \ {x})
  BY <1>1, <1>2, FS_Subset
<1> QED
  BY <1>2, <1>3, FS_CardinalityType

LEMMA RankGrows ==
  ASSUME NEW S, NEW R, IsFiniteSet(S), StrictOrder(S, R), NEW x \in S, NEW y \in S, <<x, y>> \in R
  PROVE  Cardinality(Before(S, R, x)) < Cardinality(Before(S, R, y))
<1>1. Before(S, R, x) \subseteq Before(S, R, y) /\ x \in Before(S, R, y) /\ x \notin Before(S, R, x)
  BY DEF Before, StrictOrder
<1>2. IsFiniteSet(Before(S, R, y))
  <2>1. Before(S, R, y) \subseteq S
    BY DEF Before
  <2> QED BY <2>1, FS_Subset
<1>3. /\ Cardinality(Before(S, R, x)) <= Cardinality(Before(S, R, y))
      /\ Cardinality(Before(S, R, y)) # Cardinality(Before(S, R, x))
  BY <1>1, <1>2, FS_Subset
<1> QED
  BY <1>3, RankTyped

LEMMA RanksTaken ==
  ASSUME NEW S, NEW R, IsFiniteSet(S), StrictOrder(S, R), NEW n \in 1..Cardinality(S)
  PROVE  \E x \in S : Cardinality(Before(S, R, x)) = n - 1
<1> DEFINE places == 0..(Cardinality(S) - 1)
           rank == [x \in S |-> Cardinality(Before(S, R, x))]
<1>1. Cardinality(S) \in Nat
  BY FS_CardinalityType
<1>2. IsFiniteSet(places) /\ Cardinality(places) = Cardinality(S)
  <2>1. 0 \in Int /\ Cardinality(S) - 1 \in Int
    BY <1>1
  <2>2. IsFiniteSet(places) /\ Cardinality(places) = IF 0 > Cardinality(S) - 1 THEN 0 ELSE (Cardinality(S) - 1) - 0 + 1
    BY <2>1, FS_Interval
  <2> HIDE DEF places
  <2> QED BY <1>1, <2>2
<1>3. rank \in [S -> places]
  BY RankTyped
<1>4. ASSUME NEW x \in S, NEW y \in S, x # y PROVE rank[x] # rank[y]
  <2>1. rank[x] \in Int /\ rank[y] \in Int
    BY <1>3
  <2>2. CASE <<x, y>> \in R
    BY <2>1, <2>2, RankGrows
  <2>3. CASE <<y, x>> \in R
    BY <2>1, <2>3, RankGrows
  <2> QED BY <1>4, <2>2, <2>3 DEF StrictOrder
<1>5. rank \in Injection(S, places)
  BY <1>3, <1>4 DEF Injection, IsInjective
<1>6. rank \in Surjection(S, places)
  BY <1>2, <1>5, FS_Injection
<1>7. n - 1 \in places
  BY <1>1
<1>8. PICK x \in S : rank[x] = n - 1
  BY <1>6, <1>7 DEF Surjection
<1> QED BY <1>8

\* Every member has one place, and the places keep the order.
LEMMA Arranged ==
  ASSUME NEW S, NEW R, IsFiniteSet(S), StrictOrder(S, R)
  PROVE  /\ Cardinality(S) \in Nat
         /\ DOMAIN Arrange(S, R) = 1..Cardinality(S)
         /\ Arrange(S, R) \in [1..Cardinality(S) -> S]
         /\ \A x \in S : \E n \in 1..Cardinality(S) : Arrange(S, R)[n] = x
         /\ \A m, n \in 1..Cardinality(S) : m < n => <<Arrange(S, R)[m], Arrange(S, R)[n]>> \in R
         /\ \A m, n \in 1..Cardinality(S) : m # n => Arrange(S, R)[m] # Arrange(S, R)[n]
         /\ \A m, n \in 1..Cardinality(S) : <<Arrange(S, R)[m], Arrange(S, R)[n]>> \in R => m < n
<1> DEFINE a == Arrange(S, R)
           N == Cardinality(S)
           rank(x) == Cardinality(Before(S, R, x))
<1>1. N \in Nat
  BY FS_CardinalityType
<1>2. a = [n \in 1..N |-> CHOOSE x \in S : rank(x) = n - 1]
  BY DEF Arrange, Before
<1>3. \A n \in 1..N : a[n] \in S /\ rank(a[n]) = n - 1
  <2> SUFFICES ASSUME NEW n \in 1..N PROVE a[n] \in S /\ rank(a[n]) = n - 1
    OBVIOUS
  <2>1. \E x \in S : rank(x) = n - 1
    BY RanksTaken
  <2>2. a[n] = CHOOSE x \in S : rank(x) = n - 1
    BY <1>2
  <2> HIDE DEF rank, a
  <2> QED BY <2>1, <2>2
<1>4. a \in [1..N -> S] /\ DOMAIN a = 1..N
  BY <1>2, <1>3
<1>5. \A x, y \in S : <<x, y>> \in R => rank(x) < rank(y)
  BY RankGrows
<1>6. \A x \in S : rank(x) \in 0..(N - 1)
  BY RankTyped
<1>7. \A x, y \in S : x # y => rank(x) # rank(y)
  <2> SUFFICES ASSUME NEW x \in S, NEW y \in S, x # y PROVE rank(x) # rank(y)
    OBVIOUS
  <2>1. <<x, y>> \in R \/ <<y, x>> \in R
    BY DEF StrictOrder
  <2>2. rank(x) \in Int /\ rank(y) \in Int
    BY <1>6
  <2> HIDE DEF rank
  <2> QED BY <1>5, <2>1, <2>2
<1> HIDE DEF rank, a, N
<1>8. \A x \in S : \E n \in 1..N : a[n] = x
  <2> SUFFICES ASSUME NEW x \in S PROVE \E n \in 1..N : a[n] = x
    OBVIOUS
  <2>1. rank(x) + 1 \in 1..N /\ rank(x) \in Int
    BY <1>1, <1>6
  <2>2. a[rank(x) + 1] = x
    BY <1>3, <1>7, <2>1
  <2> QED BY <2>1, <2>2
<1>9. \A m, n \in 1..N : <<a[m], a[n]>> \in R => m < n
  BY <1>1, <1>3, <1>5
<1>10. \A m, n \in 1..N : m # n => a[m] # a[n]
  BY <1>1, <1>3
<1>11. \A m, n \in 1..N : m < n => <<a[m], a[n]>> \in R
  <2> SUFFICES ASSUME NEW m \in 1..N, NEW n \in 1..N, m < n PROVE <<a[m], a[n]>> \in R
    OBVIOUS
  <2>1. a[m] # a[n] /\ a[m] \in S /\ a[n] \in S
    BY <1>1, <1>3, <1>10
  <2>2. <<a[n], a[m]>> \notin R
    BY <1>1, <1>9
  <2> QED BY <2>1, <2>2 DEF StrictOrder
<1> QED
  BY <1>1, <1>4, <1>8, <1>9, <1>10, <1>11 DEF a, N

-----------------------------------------------------------------------------
(* Keeping some places of a sequence                                        *)

Rising(places) == {ij \in places \X places : ij[1] < ij[2]}

LEMMA RisingStrict ==
  ASSUME NEW places \in SUBSET Int
  PROVE  StrictOrder(places, Rising(places))
BY DEF StrictOrder, Rising

\* What is kept are the members at these places, each once, in their order.
LEMMA Kept ==
  ASSUME NEW X, NEW seq \in Seq(X), NEW places \in SUBSET (DOMAIN seq)
  PROVE  /\ IsFiniteSet(places) /\ Cardinality(places) \in Nat
         /\ Keep(seq, places) \in Seq(X)
         /\ DOMAIN Keep(seq, places) = 1..Cardinality(places)
         /\ Len(Keep(seq, places)) = Cardinality(places)
         /\ \E order \in [1..Cardinality(places) -> places] :
              /\ \A n \in 1..Cardinality(places) : Keep(seq, places)[n] = seq[order[n]]
              /\ \A i \in places : \E n \in 1..Cardinality(places) : order[n] = i
              /\ \A m, n \in 1..Cardinality(places) : m < n => order[m] < order[n]
<1> DEFINE order == Arrange(places, Rising(places))
           N == Cardinality(places)
<1>1. DOMAIN seq = 1..Len(seq) /\ Len(seq) \in Nat /\ \A i \in DOMAIN seq : seq[i] \in X
  OBVIOUS
<1>2. places \subseteq Int /\ IsFiniteSet(places)
  <2>1. IsFiniteSet(1..Len(seq))
    BY <1>1, FS_Interval
  <2> QED BY <1>1, <2>1, FS_Subset
<1>3. /\ N \in Nat
      /\ order \in [1..N -> places]
      /\ DOMAIN order = 1..N
      /\ \A i \in places : \E n \in 1..N : order[n] = i
      /\ \A m, n \in 1..N : m < n => <<order[m], order[n]>> \in Rising(places)
  BY <1>2, RisingStrict, Arranged
<1>4. Keep(seq, places) = [n \in 1..N |-> seq[order[n]]]
  <2>1. Keep(seq, places) = [n \in DOMAIN order |-> seq[order[n]]]
    BY DEF Keep, Rising
  <2> QED BY <1>3, <2>1
<1> HIDE DEF order, N
<1>5. Keep(seq, places) \in [1..N -> X]
  BY <1>1, <1>3, <1>4
<1>6. Keep(seq, places) \in Seq(X) /\ Len(Keep(seq, places)) = N
  BY <1>3, <1>5
<1>7. \A m, n \in 1..N : m < n => order[m] < order[n]
  BY <1>3 DEF Rising
<1> QED
  BY <1>2, <1>3, <1>4, <1>5, <1>6, <1>7 DEF N

LEMMA KeptMembers ==
  ASSUME NEW X, NEW seq \in Seq(X), NEW places \in SUBSET (DOMAIN seq)
  PROVE  ToSet(Keep(seq, places)) = {seq[i] : i \in places}
<1> DEFINE N == Cardinality(places)
           kept == Keep(seq, places)
<1>1. PICK order \in [1..N -> places] :
        /\ DOMAIN kept = 1..N
        /\ \A n \in 1..N : kept[n] = seq[order[n]]
        /\ \A i \in places : \E n \in 1..N : order[n] = i
  BY Kept
<1> HIDE DEF N, kept
<1>2. \A x \in ToSet(kept) : x \in {seq[i] : i \in places}
  BY <1>1 DEF ToSet
<1>3. \A x \in {seq[i] : i \in places} : x \in ToSet(kept)
  BY <1>1 DEF ToSet
<1> QED
  BY <1>2, <1>3 DEF kept

\* A sequence without some places, and those places: nothing is lost.
LEMMA KeptApart ==
  ASSUME NEW X, NEW seq \in Seq(X), NEW some \in SUBSET (DOMAIN seq), NEW part \in SUBSET some
  PROVE  Cardinality(some \ part) = Cardinality(some) - Cardinality(part)
<1>1. IsFiniteSet(some) /\ Cardinality(some) \in Nat
  BY Kept
<1>2. Cardinality(some \ part) = Cardinality(some) - Cardinality(some \cap part)
  BY <1>1, FS_Difference
<1>3. some \cap part = part
  OBVIOUS
<1> QED BY <1>2, <1>3
-----------------------------------------------------------------------------
(* The gates                                                                *)

Labels == Raw \cup Pages \cup {Host, Account}
Candidates == [kind : ToSet(Kinds), label : Labels, target : Labels, priority : Int,
               count : Int, strong : BOOLEAN, disqualified : BOOLEAN]

\* What one gate raises: candidates of its kind, at most one for a label.
Raises(kind, labels, S) ==
  /\ \A c \in S : c \in Candidates /\ c.kind = kind /\ c.label \in labels /\ c.target = c.label
  /\ \A c, d \in S : c.label = d.label => c = d

LEMMA KindsKnown == ToSet(Kinds) = {"build_minutes_fanout", "cache_header_gap", "cold_start", "cwv_poor",
           "external_api_slow", "isr_overrevalidation", "middleware_heavy",
           "observability_events_attribution", "platform_bot_protection",
           "platform_fluid_compute", "region_misconfig", "rendering_candidate",
           "route_errors", "slow_route", "uncached_route", "use_cache_date_stamp"}
<1>1. DOMAIN Kinds = 1..16
  BY DEF Kinds
<1> QED BY <1>1 DEF Kinds, ToSet

LEMMA Rounding == \A n \in Nat : Rounded(n, 1000) \in Int
BY DEF Rounded

LEMMA Raised ==
  ASSUME NEW kind \in ToSet(Kinds), NEW label \in Labels, NEW priority \in Int
  PROVE  LET c == Candidate(kind, label, priority) IN
         /\ c \in Candidates /\ c.kind = kind /\ c.label = label /\ c.target = label
         /\ ~c.disqualified /\ c.strong
BY DEF Candidate, Candidates

LEMMA MarkedUnsound ==
  ASSUME NEW c \in Candidates, NEW b \in BOOLEAN
  PROVE  LET d == [c EXCEPT !.disqualified = b] IN
         /\ d \in Candidates /\ d.kind = c.kind /\ d.label = c.label /\ d.target = c.target
         /\ d.disqualified = b /\ d.strong = c.strong /\ d.count = c.count /\ d.priority = c.priority
BY DEF Candidates

LEMMA MarkedStrong ==
  ASSUME NEW c \in Candidates, NEW b \in BOOLEAN
  PROVE  LET d == [c EXCEPT !.strong = b] IN
         d \in Candidates /\ d.kind = c.kind /\ d.label = c.label /\ d.target = c.target
BY DEF Candidates

LEMMA MarkedCount ==
  ASSUME NEW c \in Candidates, NEW b \in BOOLEAN, NEW n \in Int
  PROVE  LET d == [c EXCEPT !.count = n, !.strong = b] IN
         d \in Candidates /\ d.kind = c.kind /\ d.label = c.label /\ d.target = c.target /\ d.count = n
BY DEF Candidates

LEMMA MarkedTarget ==
  ASSUME NEW c \in Candidates, NEW t \in Labels
  PROVE  LET d == [c EXCEPT !.target = t] IN
         /\ d \in Candidates /\ d.kind = c.kind /\ d.label = c.label /\ d.target = t
         /\ d.disqualified = c.disqualified /\ d.strong = c.strong /\ d.count = c.count /\ d.priority = c.priority
BY DEF Candidates

LEMMA Places ==
  /\ Raw \subseteq Labels /\ Pages \subseteq Labels /\ Host \in Labels /\ Account \in Labels
  /\ Account \notin Raw \cup Pages /\ Host # Account
BY NamesAssumption DEF Labels, Host, Account

LEMMA Measured ==
  ASSUME NEW w \in Windows, NEW r \in Raw
  PROVE  \A f \in Fields : w.row[r][f] \in Nat
BY DEF Windows

LEMMA UncachedRouteRaises ==
  ASSUME NEW w \in Windows
  PROVE  Raises("uncached_route", Raw, uncachedRoute(w))
<1> DEFINE plain(r) == Candidate("uncached_route", r, w.row[r].requests - w.row[r].hits)
           made(r) == [plain(r) EXCEPT !.disqualified = w.row[r].methods = 0]
<1>1. \A r \in Raw : plain(r) \in Candidates /\ plain(r).kind = "uncached_route" /\ plain(r).label = r /\ plain(r).target = r
  <2> SUFFICES ASSUME NEW r \in Raw
               PROVE  plain(r) \in Candidates /\ plain(r).kind = "uncached_route" /\ plain(r).label = r /\ plain(r).target = r
    OBVIOUS
  <2>1. w.row[r].requests - w.row[r].hits \in Int
    BY Measured DEF Fields
  <2> QED BY <2>1, Raised, KindsKnown, Places
<1>2. \A r \in Raw : made(r) \in Candidates /\ made(r).kind = "uncached_route" /\ made(r).label = r /\ made(r).target = r
  <2> SUFFICES ASSUME NEW r \in Raw
               PROVE  made(r) \in Candidates /\ made(r).kind = "uncached_route" /\ made(r).label = r /\ made(r).target = r
    OBVIOUS
  <2>1. plain(r) \in Candidates /\ plain(r).kind = "uncached_route" /\ plain(r).label = r /\ plain(r).target = r
    BY <1>1
  <2> HIDE DEF plain
  <2> QED BY <2>1, MarkedUnsound
<1>3. \A c \in uncachedRoute(w) : \E r \in Raw : c = made(r)
  BY DEF uncachedRoute
<1> HIDE DEF made
<1> QED BY <1>2, <1>3 DEF Raises

LEMMA SlowRouteRaises ==
  ASSUME NEW w \in Windows
  PROVE  Raises("slow_route", Raw, slowRoute(w))
<1> DEFINE plain(r) == Candidate("slow_route", r, Rounded(w.row[r].p95 * w.row[r].requests, 1000))
           failing(r) == 2 * w.row[r].errors > w.row[r].runs
           made(r) == [plain(r) EXCEPT !.disqualified = failing(r)]
<1>1. \A r \in Raw : plain(r) \in Candidates /\ plain(r).kind = "slow_route" /\ plain(r).label = r /\ plain(r).target = r
  <2> SUFFICES ASSUME NEW r \in Raw
               PROVE  plain(r) \in Candidates /\ plain(r).kind = "slow_route" /\ plain(r).label = r /\ plain(r).target = r
    OBVIOUS
  <2>1. Rounded(w.row[r].p95 * w.row[r].requests, 1000) \in Int
    <3>1. w.row[r].p95 \in Nat /\ w.row[r].requests \in Nat
      BY Measured DEF Fields
    <3>2. w.row[r].p95 * w.row[r].requests \in Nat
      BY <3>1
    <3> QED BY <3>2, Rounding
  <2> QED BY <2>1, Raised, KindsKnown, Places
<1>2. \A r \in Raw : made(r) \in Candidates /\ made(r).kind = "slow_route" /\ made(r).label = r /\ made(r).target = r
  <2> SUFFICES ASSUME NEW r \in Raw
               PROVE  made(r) \in Candidates /\ made(r).kind = "slow_route" /\ made(r).label = r /\ made(r).target = r
    OBVIOUS
  <2>1. plain(r) \in Candidates /\ plain(r).kind = "slow_route" /\ plain(r).label = r /\ plain(r).target = r
    BY <1>1
  <2>2. failing(r) \in BOOLEAN
    BY Measured DEF Fields
  <2> HIDE DEF plain, failing
  <2> QED BY <2>1, <2>2, MarkedUnsound
<1>3. \A c \in slowRoute(w) : \E r \in Raw : c = made(r)
  BY DEF slowRoute
<1> HIDE DEF made
<1> QED BY <1>2, <1>3 DEF Raises

LEMMA ColdStartRaises ==
  ASSUME NEW w \in Windows
  PROVE  Raises("cold_start", Raw, coldStart(w))
<1> DEFINE plain(r) == Candidate("cold_start", r, w.row[r].cold)
           made(r) == plain(r)
<1>1. \A r \in Raw : plain(r) \in Candidates /\ plain(r).kind = "cold_start" /\ plain(r).label = r /\ plain(r).target = r
  <2> SUFFICES ASSUME NEW r \in Raw
               PROVE  plain(r) \in Candidates /\ plain(r).kind = "cold_start" /\ plain(r).label = r /\ plain(r).target = r
    OBVIOUS
  <2>1. w.row[r].cold \in Int
    BY Measured DEF Fields
  <2> QED BY <2>1, Raised, KindsKnown, Places
<1>2. \A r \in Raw : made(r) \in Candidates /\ made(r).kind = "cold_start" /\ made(r).label = r /\ made(r).target = r
  BY <1>1
<1>3. \A c \in coldStart(w) : \E r \in Raw : c = made(r)
  BY DEF coldStart
<1> HIDE DEF made
<1> QED BY <1>2, <1>3 DEF Raises

LEMMA IsrOverrevalidationRaises ==
  ASSUME NEW w \in Windows
  PROVE  Raises("isr_overrevalidation", Raw, isrOverrevalidation(w))
<1> DEFINE plain(r) == Candidate("isr_overrevalidation", r, w.row[r].writes)
           made(r) == plain(r)
<1>1. \A r \in Raw : plain(r) \in Candidates /\ plain(r).kind = "isr_overrevalidation" /\ plain(r).label = r /\ plain(r).target = r
  <2> SUFFICES ASSUME NEW r \in Raw
               PROVE  plain(r) \in Candidates /\ plain(r).kind = "isr_overrevalidation" /\ plain(r).label = r /\ plain(r).target = r
    OBVIOUS
  <2>1. w.row[r].writes \in Int
    BY Measured DEF Fields
  <2> QED BY <2>1, Raised, KindsKnown, Places
<1>2. \A r \in Raw : made(r) \in Candidates /\ made(r).kind = "isr_overrevalidation" /\ made(r).label = r /\ made(r).target = r
  BY <1>1
<1>3. \A c \in isrOverrevalidation(w) : \E r \in Raw : c = made(r)
  BY DEF isrOverrevalidation
<1> HIDE DEF made
<1> QED BY <1>2, <1>3 DEF Raises

LEMMA RouteErrorsRaises ==
  ASSUME NEW w \in Windows
  PROVE  Raises("route_errors", Raw, routeErrors(w))
<1> DEFINE count(r) == IF w.functions THEN w.row[r].errors ELSE w.row[r].edge5xx
           plain(r) == Candidate("route_errors", r, count(r))
           made(r) == [plain(r) EXCEPT !.count = count(r), !.strong = count(r) >= 1000]
<1>1. \A r \in Raw : plain(r) \in Candidates /\ plain(r).kind = "route_errors" /\ plain(r).label = r /\ plain(r).target = r
  <2> SUFFICES ASSUME NEW r \in Raw
               PROVE  plain(r) \in Candidates /\ plain(r).kind = "route_errors" /\ plain(r).label = r /\ plain(r).target = r
    OBVIOUS
  <2>1. count(r) \in Int
    BY Measured DEF Fields
  <2> QED BY <2>1, Raised, KindsKnown, Places
<1>2. \A r \in Raw : made(r) \in Candidates /\ made(r).kind = "route_errors" /\ made(r).label = r /\ made(r).target = r
  <2> SUFFICES ASSUME NEW r \in Raw
               PROVE  made(r) \in Candidates /\ made(r).kind = "route_errors" /\ made(r).label = r /\ made(r).target = r
    OBVIOUS
  <2>1. plain(r) \in Candidates /\ plain(r).kind = "route_errors" /\ plain(r).label = r /\ plain(r).target = r
    BY <1>1
  <2>2. count(r) \in Int /\ (count(r) >= 1000) \in BOOLEAN
    BY Measured DEF Fields
  <2> DEFINE many == count(r) >= 1000
  <2>3. many \in BOOLEAN
    BY <2>2
  <2> DEFINE p == plain(r)
             n == count(r)
             d == [p EXCEPT !.count = n, !.strong = many]
  <2>4. made(r) = d
    OBVIOUS
  <2>5. p \in Candidates /\ n \in Int
    BY <2>1, <2>2
  <2> HIDE DEF p, n, many
  <2>6. d \in Candidates /\ d.kind = p.kind /\ d.label = p.label /\ d.target = p.target
    BY <2>3, <2>5 DEF Candidates
  <2> HIDE DEF d, made
  <2>7. p.kind = "route_errors" /\ p.label = r /\ p.target = r
    BY <2>1 DEF p
  <2> QED BY <2>4, <2>6, <2>7
<1>3. \A c \in routeErrors(w) : \E r \in Raw : c = made(r)
  <2> DEFINE total(r) == IF w.functions THEN w.row[r].runs ELSE w.row[r].requests
             raised == {r \in Raw : count(r) > 250 \/ (total(r) >= 1000 /\ 100 * count(r) > total(r))}
  <2>1. routeErrors(w) = {made(r) : r \in raised}
    BY DEF routeErrors
  <2>2. raised \subseteq Raw
    OBVIOUS
  <2> HIDE DEF made, raised
  <2> QED BY <2>1, <2>2
<1> HIDE DEF made
<1> QED BY <1>2, <1>3 DEF Raises

LEMMA CwvPoorRaises ==
  ASSUME NEW w \in Windows
  PROVE  Raises("cwv_poor", Raw, cwvPoor(w))
<1> DEFINE over(value, threshold) == IF value > threshold THEN (10 * value) \div threshold ELSE 0
           weight(m) == over(m.lcp, 2500) + over(m.inp, 200) + over(m.cls, 10)
           plain(r) == Candidate("cwv_poor", r, weight(w.row[r]))
           made(r) == plain(r)
<1>1. \A r \in Raw : plain(r) \in Candidates /\ plain(r).kind = "cwv_poor" /\ plain(r).label = r /\ plain(r).target = r
  <2> SUFFICES ASSUME NEW r \in Raw
               PROVE  plain(r) \in Candidates /\ plain(r).kind = "cwv_poor" /\ plain(r).label = r /\ plain(r).target = r
    OBVIOUS
  <2>1. weight(w.row[r]) \in Int
    <3>1. w.row[r].lcp \in Nat /\ w.row[r].inp \in Nat /\ w.row[r].cls \in Nat
      BY Measured DEF Fields
    <3>2. \A value \in Nat : over(value, 2500) \in Int /\ over(value, 200) \in Int /\ over(value, 10) \in Int
      OBVIOUS
    <3> HIDE DEF over
    <3> QED BY <3>1, <3>2
  <2> QED BY <2>1, Raised, KindsKnown, Places
<1>2. \A r \in Raw : made(r) \in Candidates /\ made(r).kind = "cwv_poor" /\ made(r).label = r /\ made(r).target = r
  BY <1>1
<1>3. \A c \in cwvPoor(w) : \E r \in Raw : c = made(r)
  BY DEF cwvPoor
<1> HIDE DEF made
<1> QED BY <1>2, <1>3 DEF Raises

LEMMA ExternalApiSlowRaises ==
  ASSUME NEW w \in Windows
  PROVE  Raises("external_api_slow", {Host}, externalApiSlow(w))
<1> DEFINE priority == Rounded(w.host.p75 * w.host.calls, 1000)
           made == Candidate("external_api_slow", Host, priority)
<1>1. priority \in Int
  <2>1. w.host.p75 \in Nat /\ w.host.calls \in Nat
    BY DEF Windows
  <2>2. w.host.p75 * w.host.calls \in Nat
    BY <2>1
  <2> QED BY <2>2, Rounding
<1>2. \A c \in externalApiSlow(w) : c = made
  BY DEF externalApiSlow
<1> HIDE DEF priority
<1>3. made \in Candidates /\ made.kind = "external_api_slow" /\ made.label = Host /\ made.target = Host
  BY <1>1, Raised, KindsKnown, Places
<1> HIDE DEF made
<1> QED BY <1>2, <1>3 DEF Raises

LEMMA PlatformFluidComputeRaises ==
  ASSUME NEW w \in Windows
  PROVE  Raises("platform_fluid_compute", {Account}, platformFluidCompute(w))
<1> DEFINE priority == 50
           made == Candidate("platform_fluid_compute", Account, priority)
<1>1. priority \in Int
  BY DEF Windows, Accounts
<1>2. \A c \in platformFluidCompute(w) : c = made
  BY DEF platformFluidCompute
<1> HIDE DEF priority
<1>3. made \in Candidates /\ made.kind = "platform_fluid_compute" /\ made.label = Account /\ made.target = Account
  BY <1>1, Raised, KindsKnown, Places
<1> HIDE DEF made
<1> QED BY <1>2, <1>3 DEF Raises

LEMMA PlatformBotProtectionRaises ==
  ASSUME NEW w \in Windows
  PROVE  Raises("platform_bot_protection", {Account}, platformBotProtection(w))
<1> DEFINE priority == (IF w.acct.edge = 0 THEN 30 ELSE IF w.acct.edge < 20 THEN 20 ELSE w.acct.edge)
                         + IF w.acct.botShare > 20 THEN 20 ELSE 0
           made == Candidate("platform_bot_protection", Account, priority)
<1>1. priority \in Int
  BY DEF Windows, Accounts
<1>2. \A c \in platformBotProtection(w) : c = made
  BY DEF platformBotProtection
<1> HIDE DEF priority
<1>3. made \in Candidates /\ made.kind = "platform_bot_protection" /\ made.label = Account /\ made.target = Account
  BY <1>1, Raised, KindsKnown, Places
<1> HIDE DEF made
<1> QED BY <1>2, <1>3 DEF Raises

LEMMA MiddlewareHeavyRaises ==
  ASSUME NEW w \in Windows
  PROVE  Raises("middleware_heavy", {Account}, middlewareHeavy(w))
<1> DEFINE priority == Rounded(w.acct.middleware, 1000)
           made == Candidate("middleware_heavy", Account, priority)
<1>1. priority \in Int
  BY Rounding DEF Windows, Accounts
<1>2. \A c \in middlewareHeavy(w) : c = made
  BY DEF middlewareHeavy
<1> HIDE DEF priority
<1>3. made \in Candidates /\ made.kind = "middleware_heavy" /\ made.label = Account /\ made.target = Account
  BY <1>1, Raised, KindsKnown, Places
<1> HIDE DEF made
<1> QED BY <1>2, <1>3 DEF Raises

LEMMA ObservabilityEventsRaises ==
  ASSUME NEW w \in Windows
  PROVE  Raises("observability_events_attribution", {Account}, observabilityEvents(w))
<1> DEFINE priority == IF w.acct.events > 30 THEN 70 ELSE 55
           made == Candidate("observability_events_attribution", Account, priority)
<1>1. priority \in Int
  BY DEF Windows, Accounts
<1>2. \A c \in observabilityEvents(w) : c = made
  BY DEF observabilityEvents
<1> HIDE DEF priority
<1>3. made \in Candidates /\ made.kind = "observability_events_attribution" /\ made.label = Account /\ made.target = Account
  BY <1>1, Raised, KindsKnown, Places
<1> HIDE DEF made
<1> QED BY <1>2, <1>3 DEF Raises

LEMMA BuildMinutesFanoutRaises ==
  ASSUME NEW w \in Windows
  PROVE  Raises("build_minutes_fanout", {Account}, buildMinutesFanout(w))
<1> DEFINE priority == IF w.acct.turbo THEN 65 ELSE 50
           made == Candidate("build_minutes_fanout", Account, priority)
<1>1. priority \in Int
  BY DEF Windows, Accounts
<1>2. \A c \in buildMinutesFanout(w) : c = made
  BY DEF buildMinutesFanout
<1> HIDE DEF priority
<1>3. made \in Candidates /\ made.kind = "build_minutes_fanout" /\ made.label = Account /\ made.target = Account
  BY <1>1, Raised, KindsKnown, Places
<1> HIDE DEF made
<1> QED BY <1>2, <1>3 DEF Raises

LEMMA RegionMisconfigRaises ==
  ASSUME NEW w \in Windows
  PROVE  Raises("region_misconfig", {Account}, regionMisconfig(w))
<1> DEFINE priority == IF w.acct.pins = 1 THEN 42 ELSE 38
           made == Candidate("region_misconfig", Account, priority)
<1>1. priority \in Int
  BY DEF Windows, Accounts
<1>2. \A c \in regionMisconfig(w) : c = made
  BY DEF regionMisconfig
<1> HIDE DEF priority
<1>3. made \in Candidates /\ made.kind = "region_misconfig" /\ made.label = Account /\ made.target = Account
  BY <1>1, Raised, KindsKnown, Places
<1> HIDE DEF made
<1> QED BY <1>2, <1>3 DEF Raises

LEMMA ScannerRaises ==
  ASSUME NEW w \in Windows
  PROVE  /\ \A c \in scannerDriven(w) :
               c \in Candidates /\ c.kind \in Findings /\ c.target = c.label /\ c.label \in Pages
         /\ \A c, d \in scannerDriven(w) : c.kind = d.kind /\ c.label = d.label => c = d
<1> DEFINE busy(p) == Traffic(w, p).runs > 0 \/ Traffic(w, p).requests > 0
           cached(p) == LET t == Traffic(w, p) IN
                        t.requests > 0 /\ Rounded(100 * t.hits, t.requests) >= 90
           strong(k, p) == LET t == Traffic(w, p) IN
                           /\ k = "cache_header_gap" => t.runs >= 50000 \/ t.p95 >= 2000
                           /\ k = "rendering_candidate" => t.runs >= 50000
           priority(kp) == SCANNER_GATES[kp[1]].priority
                             + IF w.found[kp[2]][kp[1]] < 10 THEN w.found[kp[2]][kp[1]] ELSE 10
           plain(kp) == Candidate(kp[1], kp[2], priority(kp))
           made(kp) == [plain(kp) EXCEPT !.strong = strong(kp[1], kp[2])]
           raised == {kp \in Findings \X Pages :
                        /\ w.found[kp[2]][kp[1]] >= SCANNER_GATES[kp[1]].threshold
                        /\ busy(kp[2])
                        /\ kp[1] = "cache_header_gap" => ~cached(kp[2])}
<1>1. scannerDriven(w) = {made(kp) : kp \in raised}
  BY DEF scannerDriven
<1>2. \A kp \in Findings \X Pages :
        made(kp) \in Candidates /\ made(kp).kind = kp[1] /\ made(kp).label = kp[2] /\ made(kp).target = kp[2]
  <2> SUFFICES ASSUME NEW k \in Findings, NEW p \in Pages
               PROVE  LET m == made(<<k, p>>) IN m \in Candidates /\ m.kind = k /\ m.label = p /\ m.target = p
    OBVIOUS
  <2>1. priority(<<k, p>>) \in Int
    <3>1. w.found[p][k] \in Nat
      BY DEF Windows
    <3>2. SCANNER_GATES[k].priority \in Int
      BY DEF SCANNER_GATES, Findings
    <3> QED BY <3>1, <3>2
  <2>2. strong(k, p) \in BOOLEAN
    OBVIOUS
  <2> DEFINE c == Candidate(k, p, priority(<<k, p>>))
             b == strong(k, p)
  <2>3. made(<<k, p>>) = [c EXCEPT !.strong = b]
    OBVIOUS
  <2> HIDE DEF made, priority, b
  <2>4. c \in Candidates /\ c.kind = k /\ c.label = p /\ c.target = p
    BY <2>1, Raised, KindsKnown, Places DEF Findings
  <2>5. b \in BOOLEAN
    BY <2>2 DEF b
  <2> HIDE DEF c, strong
  <2> QED BY <2>3, <2>4, <2>5, MarkedStrong
<1>3. raised \subseteq Findings \X Pages
  OBVIOUS
<1> HIDE DEF made, raised
<1>4. ASSUME NEW c \in scannerDriven(w)
      PROVE  /\ c = made(<<c.kind, c.label>>)
             /\ c \in Candidates /\ c.kind \in Findings /\ c.target = c.label /\ c.label \in Pages
  <2>1. PICK kp \in raised : c = made(kp)
    BY <1>1
  <2>2. kp = <<kp[1], kp[2]>> /\ kp[1] \in Findings /\ kp[2] \in Pages
    BY <1>3
  <2> QED BY <1>2, <2>1, <2>2
<1> QED BY <1>4

\* A gate and a label tell a candidate.
LEMMA SeedsTyped ==
  ASSUME NEW w \in Windows
  PROVE  /\ \A c \in Seeds(w) : c \in Candidates /\ c.target = c.label
         /\ \A c \in Seeds(w) : c.label = Host <=> c.kind = "external_api_slow"
         /\ \A c, d \in Seeds(w) : c.kind = d.kind /\ c.label = d.label => c = d
<1> USE UncachedRouteRaises, SlowRouteRaises, RouteErrorsRaises, ColdStartRaises, IsrOverrevalidationRaises,
        CwvPoorRaises, ExternalApiSlowRaises, ScannerRaises, PlatformFluidComputeRaises,
        PlatformBotProtectionRaises, MiddlewareHeavyRaises, ObservabilityEventsRaises,
        BuildMinutesFanoutRaises, RegionMisconfigRaises
<1>1. \A c \in Seeds(w) : c \in Candidates /\ c.target = c.label
  BY DEF Seeds, Raises
<1>2. \A c \in Seeds(w) : c.label = Host <=> c.kind = "external_api_slow"
  BY Places, NamesAssumption DEF Seeds, Raises, Findings
<1>3. ASSUME NEW c \in Seeds(w), NEW d \in Seeds(w), c.kind = d.kind, c.label = d.label
      PROVE  c = d
  BY <1>3 DEF Seeds, Raises, Findings
<1> QED BY <1>1, <1>2, <1>3

-----------------------------------------------------------------------------
(* Sorting                                                                  *)

Annotated(w) == {applyAuthDisqualifier(c) : c \in Seeds(w)}
Name(c) == <<c.kind, c.label>>

LEMMA SeedsFinite ==
  ASSUME NEW w \in Windows
  PROVE  IsFiniteSet(Seeds(w))
<1> DEFINE T == ToSet(Kinds) \X Labels
           f == [c \in Seeds(w) |-> <<c.kind, c.label>>]
<1>1. IsFiniteSet(T)
  <2>1. IsFiniteSet(ToSet(Kinds))
    <3>1. IsFiniteSet(1..16)
      <4>1. 1 \in Int /\ 16 \in Int
        OBVIOUS
      <4> QED BY <4>1, FS_Interval
    <3> DEFINE g == [i \in 1..16 |-> Kinds[i]]
    <3>2. DOMAIN Kinds = 1..16
      BY DEF Kinds
    <3>3. g \in Surjection(1..16, ToSet(Kinds))
      BY <3>2 DEF Surjection, ToSet
    <3> QED BY <3>1, <3>3, FS_Surjection
  <2>2. IsFiniteSet(Raw)
    BY NamesAssumption
  <2>3. IsFiniteSet(Pages)
    <3> DEFINE g == [r \in Raw |-> Canon[r]]
    <3>1. g \in Surjection(Raw, Pages)
      BY DEF Surjection, Pages
    <3> QED BY <2>2, <3>1, FS_Surjection
  <2>4. IsFiniteSet({Host, Account})
    <3>1. IsFiniteSet({Host})
      BY FS_Singleton
    <3>2. {Host, Account} = {Host} \cup {Account}
      OBVIOUS
    <3> QED BY <3>1, <3>2, FS_AddElement
  <2>5. IsFiniteSet(Labels)
    BY <2>2, <2>3, <2>4, FS_Union DEF Labels
  <2> QED BY <2>1, <2>5, FS_Product
<1>2. f \in Injection(Seeds(w), T)
  BY SeedsTyped DEF Injection, IsInjective, Candidates
<1> QED BY <1>1, <1>2, FS_Injection

LEMMA AnnotatedFrom ==
  ASSUME NEW w \in Windows
  PROVE  /\ \A c \in Annotated(w) : c \in Candidates /\ c.target = c.label
         /\ \A c \in Annotated(w) : (c.label = Host) <=> (c.kind = "external_api_slow")
         /\ \A c, d \in Annotated(w) : Name(c) = Name(d) => c = d
         /\ {Name(c) : c \in Annotated(w)} = {Name(c) : c \in Seeds(w)}
         /\ IsFiniteSet(Annotated(w)) /\ Cardinality(Annotated(w)) = Cardinality(Seeds(w))
<1> DEFINE f == [c \in Seeds(w) |-> applyAuthDisqualifier(c)]
<1>1. \A c \in Candidates :
        LET a == applyAuthDisqualifier(c) IN
        a \in Candidates /\ a.kind = c.kind /\ a.label = c.label /\ a.target = c.target
  BY MarkedUnsound DEF applyAuthDisqualifier
<1>2. \A a \in Annotated(w) : \E c \in Seeds(w) :
        a = applyAuthDisqualifier(c) /\ a \in Candidates /\ a.kind = c.kind /\ a.label = c.label /\ a.target = c.target
  BY <1>1, SeedsTyped DEF Annotated
<1>3. \A c \in Seeds(w) :
        LET a == applyAuthDisqualifier(c) IN a \in Annotated(w) /\ a.kind = c.kind /\ a.label = c.label
  BY <1>1, SeedsTyped DEF Annotated
<1>4. f \in Bijection(Seeds(w), Annotated(w))
  <2>1. f \in Surjection(Seeds(w), Annotated(w))
    BY DEF Surjection, Annotated
  <2>2. f \in Injection(Seeds(w), Annotated(w))
    BY <1>3, SeedsTyped DEF Injection, IsInjective
  <2> QED BY <2>1, <2>2 DEF Bijection
<1>5. IsFiniteSet(Annotated(w)) /\ Cardinality(Annotated(w)) = Cardinality(Seeds(w))
  BY <1>4, SeedsFinite, FS_Bijection DEF ExistsBijection
<1>6. /\ \A c \in Annotated(w) : c \in Candidates /\ c.target = c.label
      /\ \A c \in Annotated(w) : (c.label = Host) <=> (c.kind = "external_api_slow")
  BY <1>2, SeedsTyped
<1>7. \A c, d \in Annotated(w) : Name(c) = Name(d) => c = d
  BY <1>2, SeedsTyped DEF Name
<1>8. {Name(c) : c \in Annotated(w)} = {Name(c) : c \in Seeds(w)}
  BY <1>2, <1>3 DEF Name
<1> QED BY <1>5, <1>6, <1>7, <1>8

LEMMA AnnotatedTyped ==
  ASSUME NEW w \in Windows, NEW c \in Annotated(w)
  PROVE  /\ c \in Candidates /\ c.target = c.label
         /\ (c.label = Host) <=> (c.kind = "external_api_slow")
BY AnnotatedFrom

LEMMA AnnotatedFinite ==
  ASSUME NEW w \in Windows
  PROVE  IsFiniteSet(Annotated(w)) /\ Cardinality(Annotated(w)) = Cardinality(Seeds(w))
BY AnnotatedFrom

LEMMA AnnotatedApart ==
  ASSUME NEW w \in Windows, NEW c \in Annotated(w), NEW d \in Annotated(w), c.kind = d.kind, c.label = d.label
  PROVE  c = d
BY AnnotatedFrom DEF Name

LEMMA PlacesDiffer ==
  ASSUME NEW seq, NEW x \in ToSet(seq), NEW y \in ToSet(seq), DOMAIN seq = 1..Len(seq), Len(seq) \in Nat
  PROVE  PlaceIn(x, seq) \in Nat \ {0} /\ (PlaceIn(x, seq) = PlaceIn(y, seq) => x = y)
<1>1. \A z \in ToSet(seq) : PlaceIn(z, seq) \in 1..Len(seq) /\ seq[PlaceIn(z, seq)] = z
  BY DEF PlaceIn, ToSet
<1> QED BY <1>1

LEMMA KindsPlaced ==
  \A k, l \in ToSet(Kinds) :
    PlaceIn(k, Kinds) \in Nat \ {0} /\ (PlaceIn(k, Kinds) = PlaceIn(l, Kinds) => k = l)
<1>1. DOMAIN Kinds = 1..Len(Kinds) /\ Len(Kinds) \in Nat
  BY DEF Kinds
<1> QED BY <1>1, PlacesDiffer

LEMMA NamesPlaced ==
  /\ ToSet(Names) = Raw \cup Pages
  /\ \A p, q \in Raw \cup Pages :
       PlaceIn(p, Names) \in Nat \ {0} /\ (PlaceIn(p, Names) = PlaceIn(q, Names) => p = q)
<1>1. DOMAIN Names = 1..Len(Names) /\ Len(Names) \in Nat
  BY NamesAssumption
<1>2. ToSet(Names) = Raw \cup Pages
  BY <1>1, NamesAssumption DEF ToSet
<1> QED BY <1>1, <1>2, PlacesDiffer

RouteRank(c) == IF c.target \in ToSet(Names) THEN PlaceIn(c.target, Names) ELSE 0

LEMMA Ranked ==
  ASSUME NEW w \in Windows, NEW c \in Annotated(w), NEW d \in Annotated(w)
  PROVE  /\ c.priority \in Int /\ PlaceIn(c.kind, Kinds) \in Int /\ RouteRank(c) \in Int
         /\ PlaceIn(c.kind, Kinds) = PlaceIn(d.kind, Kinds) /\ RouteRank(c) = RouteRank(d) => c = d
<1>1. /\ c.kind \in ToSet(Kinds) /\ d.kind \in ToSet(Kinds)
      /\ c.target \in Labels /\ d.target \in Labels /\ c.target = c.label /\ d.target = d.label
      /\ c.priority \in Int
  BY AnnotatedTyped DEF Candidates
<1>2. PlaceIn(c.kind, Kinds) \in Int /\ (PlaceIn(c.kind, Kinds) = PlaceIn(d.kind, Kinds) => c.kind = d.kind)
  BY <1>1, KindsPlaced
<1>3. RouteRank(c) \in Int
  BY <1>1, NamesPlaced DEF RouteRank
<1>4. ASSUME c.kind = d.kind, RouteRank(c) = RouteRank(d) PROVE c.label = d.label
  <2>1. CASE c.target \in Raw \cup Pages
    <3>1. PlaceIn(c.target, Names) # 0
      BY <2>1, NamesPlaced
    <3>2. d.target \in Raw \cup Pages
      BY <1>4, <2>1, <3>1, NamesPlaced DEF RouteRank
    <3> QED BY <1>1, <1>4, <2>1, <3>2, NamesPlaced DEF RouteRank
  <2>2. CASE c.target \notin Raw \cup Pages
    <3>1. d.target \notin Raw \cup Pages
      BY <1>4, <2>2, NamesPlaced DEF RouteRank
    <3>2. c.target \in {Host, Account} /\ d.target \in {Host, Account}
      BY <1>1, <2>2, <3>1 DEF Labels
    <3> QED BY <1>1, <1>4, <3>2, AnnotatedTyped
  <2> QED BY <2>1, <2>2
<1> QED
  BY <1>1, <1>2, <1>3, <1>4, AnnotatedApart

Compared(S) == {cd \in S \X S : stableCompare(cd[1], cd[2])}

LEMMA ComparedStrict ==
  ASSUME NEW w \in Windows
  PROVE  StrictOrder(Annotated(w), Compared(Annotated(w)))
<1> DEFINE S == Annotated(w)
           k(c) == PlaceIn(c.kind, Kinds)
           r(c) == RouteRank(c)
           lt(c, d) == \/ c.priority > d.priority
                       \/ c.priority = d.priority /\ k(c) < k(d)
                       \/ c.priority = d.priority /\ k(c) = k(d) /\ r(c) < r(d)
<1>1. \A c, d \in S : <<c, d>> \in Compared(S) <=> lt(c, d)
  BY DEF Compared, stableCompare, RouteRank
<1>2. \A c \in S : c.priority \in Int /\ k(c) \in Int /\ r(c) \in Int
  BY Ranked
<1>3. \A c, d \in S : k(c) = k(d) /\ r(c) = r(d) => c = d
  BY Ranked
<1> HIDE DEF S, k, r
<1>4. \A c \in S : ~lt(c, c)
  BY <1>2
<1>5. \A c, d \in S : c # d => lt(c, d) \/ lt(d, c)
  BY <1>2, <1>3
<1>6. \A c, d, e \in S : lt(c, d) /\ lt(d, e) => lt(c, e)
  BY <1>2
<1> HIDE DEF lt
<1> QED BY <1>1, <1>4, <1>5, <1>6 DEF StrictOrder, S

\* The sorted candidates: each annotated one once.
Ranking(w) == Sorted(Annotated(w))

LEMMA SortedCandidates ==
  ASSUME NEW w \in Windows
  PROVE  /\ Ranking(w) \in Seq(Candidates)
         /\ Len(Ranking(w)) = Cardinality(Seeds(w))
         /\ ToSet(Ranking(w)) = Annotated(w)
         /\ \A i, j \in DOMAIN Ranking(w) : Ranking(w)[i] = Ranking(w)[j] => i = j
<1> DEFINE N == Cardinality(Annotated(w))
<1>1. Ranking(w) = Arrange(Annotated(w), Compared(Annotated(w)))
  BY DEF Ranking, Sorted, Compared
<1>2. IsFiniteSet(Annotated(w)) /\ N = Cardinality(Seeds(w)) /\ Annotated(w) \subseteq Candidates
  BY AnnotatedFinite, AnnotatedTyped
<1>3. /\ N \in Nat
      /\ DOMAIN Ranking(w) = 1..N
      /\ Ranking(w) \in [1..N -> Annotated(w)]
      /\ \A c \in Annotated(w) : \E n \in 1..N : Ranking(w)[n] = c
      /\ \A m, n \in 1..N : m # n => Ranking(w)[m] # Ranking(w)[n]
  BY <1>1, <1>2, ComparedStrict, Arranged
<1> HIDE DEF N
<1>4. Ranking(w) \in [1..N -> Candidates]
  BY <1>2, <1>3
<1>5. Ranking(w) \in Seq(Candidates) /\ Len(Ranking(w)) = N
  BY <1>3, <1>4
<1>6. ToSet(Ranking(w)) = Annotated(w)
  BY <1>3 DEF ToSet
<1> QED BY <1>2, <1>3, <1>5, <1>6

-----------------------------------------------------------------------------
(* Deduplication                                                            *)

\* What the pipeline makes of a seed: it may be renamed and disqualified.
Derived(w) == {c \in Candidates : \E s \in Seeds(w) :
                 /\ c.kind = s.kind /\ c.label = s.label /\ c.count = s.count /\ c.strong = s.strong
                 /\ s.disqualified => c.disqualified}

LEMMA PageTyped == \A t \in Labels : Page(t) \in Labels
BY NamesAssumption, Places DEF Page

LEMMA CanonicalKeeps ==
  ASSUME NEW seq \in Seq(Candidates), NEW i \in DOMAIN seq
  PROVE  LET c == Canonical(seq, i) IN
         /\ c \in Candidates /\ c.kind = seq[i].kind /\ c.label = seq[i].label
         /\ c.disqualified = seq[i].disqualified /\ c.strong = seq[i].strong /\ c.count = seq[i].count
         /\ c.target \in {Page(seq[i].target), Page(Page(seq[i].target))}
<1> DEFINE absorbs == \E j \in (i + 1)..Len(seq) : candidateKey(seq[j]) = candidateKey(seq[i])
           t == IF absorbs THEN Page(Page(seq[i].target)) ELSE Page(seq[i].target)
<1>1. seq[i] \in Candidates
  OBVIOUS
<1>2. seq[i].target \in Labels
  BY <1>1 DEF Candidates
<1>3. t \in Labels
  BY <1>2, PageTyped
<1>4. t \in {Page(seq[i].target), Page(Page(seq[i].target))}
  OBVIOUS
<1>5. Canonical(seq, i) = [seq[i] EXCEPT !.target = t]
  BY DEF Canonical
<1> HIDE DEF t
<1> QED BY <1>1, <1>3, <1>4, <1>5, MarkedTarget

LEMMA AnnotatedDerived ==
  ASSUME NEW w \in Windows
  PROVE  Annotated(w) \subseteq Derived(w)
<1> SUFFICES ASSUME NEW s \in Seeds(w) PROVE applyAuthDisqualifier(s) \in Derived(w)
  BY DEF Annotated
<1>1. s \in Candidates
  BY SeedsTyped
<1>2. CASE applyAuthDisqualifier(s) = s
  BY <1>1, <1>2 DEF Derived
<1>3. CASE applyAuthDisqualifier(s) = [s EXCEPT !.disqualified = TRUE]
  <2> DEFINE d == [s EXCEPT !.disqualified = TRUE]
  <2>1. /\ d \in Candidates /\ d.kind = s.kind /\ d.label = s.label
        /\ d.disqualified = TRUE /\ d.strong = s.strong /\ d.count = s.count
    BY <1>1, MarkedUnsound
  <2> HIDE DEF d
  <2>2. d \in Derived(w)
    BY <2>1 DEF Derived
  <2> QED BY <1>3, <2>2 DEF d
<1> QED BY <1>2, <1>3 DEF applyAuthDisqualifier

\* Under its page's name or not, a candidate descends from the same seed.
LEMMA Deduped ==
  ASSUME NEW w \in Windows
  PROVE  LET u == Deduplicated(w) IN
         /\ u.deduped \in Seq(Derived(w)) /\ u.dropped \in Seq(Derived(w))
         /\ Len(u.deduped) + Len(u.dropped) = Cardinality(Seeds(w))
         /\ {Name(c) : c \in ToSet(u.deduped) \cup ToSet(u.dropped)} = {Name(c) : c \in Seeds(w)}
         /\ \A c \in ToSet(u.deduped) : \E d \in Annotated(w) :
              c.label = d.label /\ c.target \in {Page(d.target), Page(Page(d.target))}
<1> DEFINE seq == Ranking(w)
           canon == [i \in DOMAIN seq |-> Canonical(seq, i)]
           first == Survivors(seq)
           kept == Keep(canon, first)
           gone == Keep(seq, DOMAIN seq \ first)
<1>1. /\ seq \in Seq(Candidates) /\ Len(seq) = Cardinality(Seeds(w)) /\ ToSet(seq) = Annotated(w)
  BY SortedCandidates
<1>2. Deduplicated(w).deduped = kept /\ Deduplicated(w).dropped = gone
  BY DEF Deduplicated, Ranking, Annotated, dedupeCandidates
<1>3. DOMAIN seq = 1..Len(seq) /\ Len(seq) \in Nat /\ \A i \in DOMAIN seq : seq[i] \in Annotated(w)
  BY <1>1 DEF ToSet
<1>4. seq \in Seq(Derived(w))
  <2>1. seq \in [1..Len(seq) -> Derived(w)]
    BY <1>1, <1>3, AnnotatedDerived
  <2> QED BY <1>3, <2>1
<1>5. first \subseteq DOMAIN seq
  BY DEF Survivors
<1> HIDE DEF seq, first
<1>6. \A i \in DOMAIN seq : /\ canon[i] \in Derived(w) /\ Name(canon[i]) = Name(seq[i])
                            /\ canon[i].label = seq[i].label
                            /\ canon[i].target \in {Page(seq[i].target), Page(Page(seq[i].target))}
  <2> SUFFICES ASSUME NEW i \in DOMAIN seq
               PROVE  /\ canon[i] \in Derived(w) /\ Name(canon[i]) = Name(seq[i])
                      /\ canon[i].label = seq[i].label
                      /\ canon[i].target \in {Page(seq[i].target), Page(Page(seq[i].target))}
    OBVIOUS
  <2> DEFINE c == Canonical(seq, i)
  <2>1. /\ c \in Candidates /\ c.kind = seq[i].kind /\ c.label = seq[i].label
        /\ c.disqualified = seq[i].disqualified /\ c.strong = seq[i].strong /\ c.count = seq[i].count
        /\ c.target \in {Page(seq[i].target), Page(Page(seq[i].target))}
    BY <1>1, CanonicalKeeps
  <2>2. seq[i] \in Derived(w)
    BY <1>3, AnnotatedDerived
  <2>3. canon[i] = c
    OBVIOUS
  <2> HIDE DEF c, canon
  <2> QED BY <2>1, <2>2, <2>3 DEF Derived, Name
<1>7. canon \in Seq(Derived(w)) /\ DOMAIN canon = DOMAIN seq
  <2>1. canon \in [1..Len(seq) -> Derived(w)]
    BY <1>3, <1>6
  <2> QED BY <1>3, <2>1
<1> HIDE DEF canon
<1>8. kept \in Seq(Derived(w)) /\ Len(kept) = Cardinality(first)
  BY <1>5, <1>7, Kept
<1>9. gone \in Seq(Derived(w)) /\ Len(gone) = Cardinality(DOMAIN seq \ first)
  BY <1>4, Kept
<1>10. ToSet(kept) = {canon[i] : i \in first} /\ ToSet(gone) = {seq[i] : i \in DOMAIN seq \ first}
  BY <1>4, <1>5, <1>7, KeptMembers
<1>11. Len(kept) + Len(gone) = Cardinality(Seeds(w))
  <2>1. IsFiniteSet(first) /\ Cardinality(first) \in Nat
    BY <1>4, <1>5, Kept
  <2>2. Cardinality(DOMAIN seq \ first) = Cardinality(DOMAIN seq) - Cardinality(first)
    BY <1>4, <1>5, KeptApart
  <2>3. Cardinality(DOMAIN seq) = Len(seq)
    <3>1. 1 \in Int /\ Len(seq) \in Int
      BY <1>3
    <3> QED BY <1>3, <3>1, FS_Interval
  <2> QED BY <1>1, <1>3, <1>8, <1>9, <2>1, <2>2, <2>3
<1> HIDE DEF kept, gone
<1>12. {Name(c) : c \in ToSet(kept) \cup ToSet(gone)} = {Name(c) : c \in Annotated(w)}
  <2>1. \A c \in ToSet(kept) \cup ToSet(gone) : \E i \in DOMAIN seq : Name(c) = Name(seq[i])
    BY <1>5, <1>6, <1>10
  <2>2. \A i \in DOMAIN seq : \E c \in ToSet(kept) \cup ToSet(gone) : Name(c) = Name(seq[i])
    BY <1>5, <1>6, <1>10
  <2>3. \A c \in Annotated(w) : \E i \in DOMAIN seq : c = seq[i]
    BY <1>1 DEF ToSet
  <2>4. \A i \in DOMAIN seq : seq[i] \in Annotated(w)
    BY <1>3
  <2> HIDE DEF Name
  <2> QED BY <2>1, <2>2, <2>3, <2>4
<1>13. {Name(c) : c \in Annotated(w)} = {Name(c) : c \in Seeds(w)}
  BY AnnotatedFrom
<1>14. \A c \in ToSet(kept) : \E d \in Annotated(w) :
              c.label = d.label /\ c.target \in {Page(d.target), Page(Page(d.target))}
  BY <1>3, <1>5, <1>6, <1>10
<1> QED BY <1>2, <1>8, <1>9, <1>11, <1>12, <1>13, <1>14

-----------------------------------------------------------------------------
(* Selection                                                                *)

LEMMA PassKnown ==
  ASSUME NEW pool, NEW i
  PROVE  Pass(pool, i) \in 1..3
BY DEF Pass

InTurn(S, pool, diversify) == {ij \in S \X S : Sooner(pool, ij[1], ij[2], diversify)}

LEMMA SoonerStrict ==
  ASSUME NEW pool, NEW S \in SUBSET Int, NEW diversify \in BOOLEAN
  PROVE  StrictOrder(S, InTurn(S, pool, diversify))
<1> DEFINE p(i) == Pass(pool, i)
           lt(i, j) == (diversify /\ p(i) < p(j)) \/ ((diversify => p(i) = p(j)) /\ i < j)
<1>1. \A i \in S : i \in Int /\ p(i) \in Int
  BY PassKnown
<1>2. \A i, j \in S : <<i, j>> \in InTurn(S, pool, diversify) <=> lt(i, j)
  BY DEF InTurn, Sooner
<1> HIDE DEF p
<1>3. \A i \in S : ~lt(i, i)
  BY <1>1
<1>4. \A i, j \in S : i # j => lt(i, j) \/ lt(j, i)
  BY <1>1
<1>5. \A i, j, k \in S : lt(i, j) /\ lt(j, k) => lt(i, k)
  BY <1>1
<1> HIDE DEF lt
<1> QED BY <1>2, <1>3, <1>4, <1>5 DEF StrictOrder

LEMMA PlacesFinite ==
  ASSUME NEW X, NEW pool \in Seq(X)
  PROVE  /\ IsFiniteSet(DOMAIN pool) /\ Cardinality(DOMAIN pool) = Len(pool)
         /\ DOMAIN pool = 1..Len(pool) /\ Len(pool) \in Nat
<1>1. DOMAIN pool = 1..Len(pool) /\ Len(pool) \in Nat
  OBVIOUS
<1>2. 1 \in Int /\ Len(pool) \in Int
  BY <1>1
<1>3. IsFiniteSet(1..Len(pool)) /\ Cardinality(1..Len(pool)) = Len(pool)
  BY <1>1, <1>2, FS_Interval
<1> QED BY <1>1, <1>3

\* Everybody has one turn, the earlier passes first.
LEMMA TurnsTaken ==
  ASSUME NEW X, NEW pool \in Seq(X), NEW diversify \in BOOLEAN
  PROVE  LET turns == Turns(pool, diversify) IN
         /\ turns \in [1..Len(pool) -> DOMAIN pool]
         /\ \A i \in DOMAIN pool : \E t \in 1..Len(pool) : turns[t] = i
         /\ \A t, u \in 1..Len(pool) : t # u => turns[t] # turns[u]
         /\ \A t, u \in 1..Len(pool) : t < u => Sooner(pool, turns[t], turns[u], diversify)
<1> DEFINE turns == Turns(pool, diversify)
           N == Cardinality(DOMAIN pool)
<1>1. turns = Arrange(DOMAIN pool, InTurn(DOMAIN pool, pool, diversify))
  BY DEF Turns, InTurn
<1>2. IsFiniteSet(DOMAIN pool) /\ N = Len(pool) /\ DOMAIN pool \in SUBSET Int
  BY PlacesFinite
<1>3. /\ turns \in [1..N -> DOMAIN pool]
      /\ \A i \in DOMAIN pool : \E t \in 1..N : turns[t] = i
      /\ \A t, u \in 1..N : t # u => turns[t] # turns[u]
      /\ \A t, u \in 1..N : t < u => <<turns[t], turns[u]>> \in InTurn(DOMAIN pool, pool, diversify)
  BY <1>1, <1>2, SoonerStrict, Arranged
<1> HIDE DEF turns, N
<1>4. \A t, u \in 1..N : t < u => Sooner(pool, turns[t], turns[u], diversify)
  BY <1>3 DEF InTurn
<1> QED BY <1>2, <1>3, <1>4 DEF turns

\* Who is selected and who is skipped: together everybody, and nobody is
\* skipped before the budget is spent.
Chosen(pool, budget, diversify) == selectLaunchCandidates(pool, budget, diversify).selected
Skipped(pool, budget, diversify) == selectLaunchCandidates(pool, budget, diversify).skipped

SelectionFacts(X, pool, budget, diversify) ==
  LET chosen == Chosen(pool, budget, diversify)
      skipped == Skipped(pool, budget, diversify)
      turns == Turns(pool, diversify) IN
  /\ chosen \in Seq(X) /\ skipped \in Seq(X)
  /\ Len(chosen) + Len(skipped) = Len(pool)
  /\ ToSet(chosen) \cup ToSet(skipped) = ToSet(pool)
  /\ Len(chosen) <= Len(pool)
  /\ \A t \in 1..Len(chosen) : chosen[t] = pool[turns[t]]
  /\ \A c \in ToSet(skipped) : Len(chosen) = budget
  /\ \A c \in ToSet(skipped) : \E u \in (1..Len(pool)) \ (1..Len(chosen)) : c = pool[turns[u]]

LEMMA Selection ==
  ASSUME NEW X, NEW pool \in Seq(X), NEW budget \in Nat, NEW diversify \in BOOLEAN
  PROVE  SelectionFacts(X, pool, budget, diversify)
<1> DEFINE turns == Turns(pool, diversify)
           n == IF Len(pool) < budget THEN Len(pool) ELSE budget
           taken == {turns[t] : t \in 1..n}
           selected == [t \in 1..n |-> pool[turns[t]]]
           skipped == Keep(pool, DOMAIN pool \ taken)
<1>1. /\ DOMAIN pool = 1..Len(pool) /\ Len(pool) \in Nat
      /\ \A i \in DOMAIN pool : pool[i] \in X
  OBVIOUS
<1>2. n \in Nat /\ n <= Len(pool) /\ n <= budget /\ (n < Len(pool) => n = budget)
  <2>1. Len(pool) \in Nat
    BY <1>1
  <2> QED BY <2>1
<1>3. /\ turns \in [1..Len(pool) -> DOMAIN pool]
      /\ \A i \in DOMAIN pool : \E t \in 1..Len(pool) : turns[t] = i
      /\ \A t, u \in 1..Len(pool) : t # u => turns[t] # turns[u]
  BY TurnsTaken
<1>4. Chosen(pool, budget, diversify) = selected /\ Skipped(pool, budget, diversify) = skipped
  BY DEF selectLaunchCandidates, Chosen, Skipped
<1> HIDE DEF turns, n
<1>5. \A t \in 1..n : t \in 1..Len(pool) /\ turns[t] \in DOMAIN pool
  BY <1>1, <1>2, <1>3
<1>6. selected \in [1..n -> X]
  BY <1>1, <1>5
<1>7. selected \in Seq(X) /\ Len(selected) = n /\ DOMAIN selected = 1..n
  BY <1>2, <1>6
<1>8. taken \subseteq DOMAIN pool
  BY <1>5
<1>9. Cardinality(taken) = n
  <2> DEFINE f == [t \in 1..n |-> turns[t]]
  <2>1. IsFiniteSet(1..n) /\ Cardinality(1..n) = n
    <3>1. 1 \in Int /\ n \in Int
      BY <1>2
    <3> QED BY <1>2, <3>1, FS_Interval
  <2>2. f \in Bijection(1..n, taken)
    <3>1. f \in Surjection(1..n, taken)
      BY DEF Surjection
    <3>2. f \in Injection(1..n, taken)
      BY <1>3, <1>5 DEF Injection, IsInjective
    <3> QED BY <3>1, <3>2 DEF Bijection
  <2> QED BY <2>1, <2>2, FS_Bijection DEF ExistsBijection
<1> HIDE DEF taken, selected
<1>10. skipped \in Seq(X) /\ Len(skipped) = Len(pool) - n
  <2>1. skipped \in Seq(X) /\ Len(skipped) = Cardinality(DOMAIN pool \ taken)
    BY Kept
  <2>2. Cardinality(DOMAIN pool \ taken) = Cardinality(DOMAIN pool) - n
    BY <1>8, <1>9, KeptApart
  <2> QED BY <2>1, <2>2, PlacesFinite
<1>11. ToSet(skipped) = {pool[i] : i \in DOMAIN pool \ taken}
  BY KeptMembers
<1> HIDE DEF skipped
<1>12. ToSet(selected) = {pool[i] : i \in taken}
  BY <1>7 DEF ToSet, selected, taken
<1>13. ToSet(pool) = {pool[i] : i \in DOMAIN pool}
  BY DEF ToSet
<1>14. ToSet(selected) \cup ToSet(skipped) = ToSet(pool)
  BY <1>8, <1>11, <1>12, <1>13
<1>15. ASSUME NEW c \in ToSet(skipped)
       PROVE  n = budget /\ \E u \in (1..Len(pool)) \ (1..n) : c = pool[turns[u]]
  <2>1. PICK i \in DOMAIN pool : i \notin taken /\ c = pool[i]
    BY <1>11
  <2>2. PICK u \in 1..Len(pool) : turns[u] = i
    BY <1>3
  <2>3. u \notin 1..n
    BY <2>1, <2>2 DEF taken
  <2>4. n < u /\ n < Len(pool)
    BY <1>1, <1>2, <2>3
  <2> QED BY <1>2, <2>1, <2>2, <2>4
<1>16. \A t \in 1..n : selected[t] = pool[turns[t]]
  BY DEF selected
<1>17. /\ selected \in Seq(X) /\ skipped \in Seq(X)
       /\ Len(selected) + Len(skipped) = Len(pool)
       /\ Len(selected) <= Len(pool)
       /\ \A t \in 1..Len(selected) : selected[t] = pool[turns[t]]
       /\ \A c \in ToSet(skipped) : Len(selected) = budget
       /\ \A c \in ToSet(skipped) : \E u \in (1..Len(pool)) \ (1..Len(selected)) : c = pool[turns[u]]
  BY <1>1, <1>2, <1>7, <1>10, <1>15, <1>16
<1> QED BY <1>4, <1>14, <1>17 DEF turns, SelectionFacts

-----------------------------------------------------------------------------
(* The gate's result                                                        *)

LEMMA Wrapped ==
  ASSUME NEW X, NEW seq \in Seq(X), NEW why
  PROVE  /\ Listed(why, seq) \in Seq([why : {why}, of : X]) /\ Len(Listed(why, seq)) = Len(seq)
         /\ ToSet(Listed(why, seq)) = {[why |-> why, of |-> c] : c \in ToSet(seq)}
<1>1. DOMAIN seq = 1..Len(seq) /\ Len(seq) \in Nat /\ \A i \in DOMAIN seq : seq[i] \in X
  OBVIOUS
<1>2. Listed(why, seq) \in [1..Len(seq) -> [why : {why}, of : X]]
  <2> DEFINE item(i) == [why |-> why, of |-> seq[i]]
  <2>1. \A i \in 1..Len(seq) : item(i) \in [why : {why}, of : X]
    BY <1>1
  <2>2. Listed(why, seq) = [n \in 1..Len(seq) |-> item(n)]
    BY <1>1 DEF Listed
  <2> HIDE DEF item
  <2> QED BY <2>1, <2>2
<1> DEFINE items == [why : {why}, of : X]
           list == Listed(why, seq)
<1> HIDE DEF items, list
<1>3. list \in Seq(items) /\ Len(list) = Len(seq)
  <2>1. list \in [1..Len(seq) -> items]
    BY <1>2 DEF items, list
  <2> QED BY <1>1, <2>1
<1>4. ToSet(Listed(why, seq)) = {[why |-> why, of |-> c] : c \in ToSet(seq)}
  BY DEF Listed, ToSet
<1> QED BY <1>3, <1>4 DEF items, list

LEMMA Joined ==
  ASSUME NEW X, NEW s \in Seq(X), NEW t \in Seq(X)
  PROVE  s \o t \in Seq(X) /\ Len(s \o t) = Len(s) + Len(t) /\ ToSet(s \o t) = ToSet(s) \cup ToSet(t)
<1>1. s \o t \in Seq(X) /\ Len(s \o t) = Len(s) + Len(t)
  OBVIOUS
<1>2. \A x \in ToSet(s \o t) : x \in ToSet(s) \cup ToSet(t)
  BY DEF ToSet
<1>3. \A x \in ToSet(s) : x \in ToSet(s \o t)
  <2> SUFFICES ASSUME NEW i \in DOMAIN s PROVE s[i] \in ToSet(s \o t)
    BY DEF ToSet
  <2>1. i \in DOMAIN (s \o t) /\ (s \o t)[i] = s[i]
    OBVIOUS
  <2> QED BY <2>1 DEF ToSet
<1>4. \A x \in ToSet(t) : x \in ToSet(s \o t)
  <2> SUFFICES ASSUME NEW i \in DOMAIN t PROVE t[i] \in ToSet(s \o t)
    BY DEF ToSet
  <2>1. i + Len(s) \in DOMAIN (s \o t) /\ (s \o t)[i + Len(s)] = t[i]
    OBVIOUS
  <2> QED BY <2>1 DEF ToSet
<1> QED BY <1>1, <1>2, <1>3, <1>4

Reasons == {"disqualified", "hardGated", "skippedByBudget", "coveredBy"}

LEMMA WrappedAsReason ==
  ASSUME NEW X, NEW seq \in Seq(X), NEW why \in Reasons
  PROVE  /\ Listed(why, seq) \in Seq([why : Reasons, of : X]) /\ Len(Listed(why, seq)) = Len(seq)
         /\ {x.of : x \in ToSet(Listed(why, seq))} = ToSet(seq)
         /\ \A x \in ToSet(Listed(why, seq)) : x.why = why /\ x.of \in ToSet(seq)
<1>1. /\ Listed(why, seq) \in Seq([why : {why}, of : X]) /\ Len(Listed(why, seq)) = Len(seq)
      /\ ToSet(Listed(why, seq)) = {[why |-> why, of |-> c] : c \in ToSet(seq)}
  BY Wrapped
<1>2. [why : {why}, of : X] \subseteq [why : Reasons, of : X]
  OBVIOUS
<1>3. Listed(why, seq) \in Seq([why : Reasons, of : X])
  <2> DEFINE A == [why : {why}, of : X]
             B == [why : Reasons, of : X]
             list == Listed(why, seq)
  <2>1. list \in Seq(A) /\ A \subseteq B
    BY <1>1, <1>2
  <2> HIDE DEF A, B, list
  <2>2. list \in [1..Len(list) -> B] /\ Len(list) \in Nat
    BY <2>1
  <2>3. list \in Seq(B)
    BY <2>2
  <2> QED BY <2>3 DEF B, list
<1>4. \A x \in ToSet(Listed(why, seq)) : x.why = why /\ x.of \in ToSet(seq)
  BY <1>1
<1>5. \A c \in ToSet(seq) : \E x \in ToSet(Listed(why, seq)) : x.of = c
  <2> SUFFICES ASSUME NEW c \in ToSet(seq) PROVE \E x \in ToSet(Listed(why, seq)) : x.of = c
    OBVIOUS
  <2> DEFINE y == [why |-> why, of |-> c]
  <2>1. y \in ToSet(Listed(why, seq))
    BY <1>1
  <2>2. y.of = c
    OBVIOUS
  <2> HIDE DEF y
  <2> QED BY <2>1, <2>2
<1>6. {x.of : x \in ToSet(Listed(why, seq))} = ToSet(seq)
  BY <1>4, <1>5
<1> QED BY <1>1, <1>3, <1>4, <1>6

\* The places of the deduplicated candidates, told apart as the gate does.
HardPlaces(all) == {i \in DOMAIN all : hardGated(all[i])}
UnsoundPlaces(all) == {i \in DOMAIN all \ HardPlaces(all) : all[i].disqualified}
SoundPlaces(all) == DOMAIN all \ (HardPlaces(all) \cup UnsoundPlaces(all))
PlatformPlaces(all) == {i \in SoundPlaces(all) : scopeOf(all[i]) = "account"}
Pool(all) == Keep(all, SoundPlaces(all) \ PlatformPlaces(all))

LEMMA PlacesApart ==
  ASSUME NEW X, NEW all \in Seq(X)
  PROVE  /\ HardPlaces(all) \subseteq DOMAIN all /\ UnsoundPlaces(all) \subseteq DOMAIN all
         /\ PlatformPlaces(all) \subseteq DOMAIN all
         /\ SoundPlaces(all) \ PlatformPlaces(all) \subseteq DOMAIN all
         /\ HardPlaces(all) \cup UnsoundPlaces(all) \cup PlatformPlaces(all)
              \cup (SoundPlaces(all) \ PlatformPlaces(all)) = DOMAIN all
         /\ Cardinality(HardPlaces(all)) + Cardinality(UnsoundPlaces(all)) + Cardinality(PlatformPlaces(all))
              + Cardinality(SoundPlaces(all) \ PlatformPlaces(all)) = Len(all)
<1> DEFINE H == HardPlaces(all)
           U == UnsoundPlaces(all)
           S == SoundPlaces(all)
           P == PlatformPlaces(all)
<1>1. H \subseteq DOMAIN all /\ U \subseteq DOMAIN all \ H /\ S = DOMAIN all \ (H \cup U) /\ P \subseteq S
  BY DEF HardPlaces, UnsoundPlaces, SoundPlaces, PlatformPlaces
<1>2. Cardinality(DOMAIN all) = Len(all) /\ Len(all) \in Nat
  BY PlacesFinite
<1> HIDE DEF H, U, S, P
<1>3. /\ Cardinality(H) \in Nat /\ Cardinality(U) \in Nat /\ Cardinality(S) \in Nat
      /\ Cardinality(P) \in Nat /\ Cardinality(H \cup U) \in Nat
  BY <1>1, Kept
<1>4. Cardinality(S) = Cardinality(DOMAIN all) - Cardinality(H \cup U)
  BY <1>1, KeptApart
<1>5. Cardinality((H \cup U) \ H) = Cardinality(H \cup U) - Cardinality(H)
  BY <1>1, KeptApart
<1>6. (H \cup U) \ H = U
  BY <1>1
<1>7. Cardinality(S \ P) = Cardinality(S) - Cardinality(P)
  BY <1>1, KeptApart
<1>8. Cardinality(H) + Cardinality(U) + Cardinality(P) + Cardinality(S \ P) = Len(all)
  <2> DEFINE h == Cardinality(H)
             u == Cardinality(U)
             s == Cardinality(S)
             p == Cardinality(P)
             hu == Cardinality(H \cup U)
             rest == Cardinality(S \ P)
             n == Len(all)
  <2>1. /\ h \in Nat /\ u \in Nat /\ s \in Nat /\ p \in Nat /\ hu \in Nat /\ n \in Nat
        /\ s = n - hu /\ u = hu - h /\ rest = s - p
    BY <1>2, <1>3, <1>4, <1>5, <1>6, <1>7
  <2> HIDE DEF h, u, s, p, hu, rest, n
  <2>2. h + u + p + rest = n
    BY <2>1
  <2> QED BY <2>2 DEF h, u, p, rest, n
<1>9. H \cup U \cup P \cup (S \ P) = DOMAIN all
  BY <1>1
<1> QED BY <1>1, <1>8, <1>9 DEF H, U, S, P

\* What the gate makes of the candidates: the selection from the sound ones
\* that have a route, the account's, and a list of the others.
LEMMA GateShape ==
  ASSUME NEW w \in Windows, NEW budget \in Nat, NEW diversify \in BOOLEAN
  PROVE  LET g == GateResult(w, budget, diversify)
             all == Deduplicated(w).deduped IN
         /\ g.toLaunch = Chosen(Pool(all), budget, diversify)
         /\ g.platform = Keep(all, PlatformPlaces(all))
         /\ g.gated = Listed("disqualified", Keep(all, UnsoundPlaces(all)))
                        \o Listed("hardGated", Keep(all, HardPlaces(all)))
                        \o Listed("skippedByBudget", Skipped(Pool(all), budget, diversify))
                        \o Listed("coveredBy", Deduplicated(w).dropped)
BY DEF GateResult, Chosen, Skipped, Pool, HardPlaces, UnsoundPlaces, SoundPlaces, PlatformPlaces

LEMMA PoolMembers ==
  ASSUME NEW X, NEW all \in Seq(X)
  PROVE  /\ Pool(all) \in Seq(X)
         /\ Len(Pool(all)) = Cardinality(SoundPlaces(all) \ PlatformPlaces(all))
         /\ ToSet(Pool(all)) = {all[i] : i \in SoundPlaces(all) \ PlatformPlaces(all)}
         /\ \A c \in ToSet(Pool(all)) : ~c.disqualified /\ scopeOf(c) = "route" /\ ~hardGated(c)
<1>1. SoundPlaces(all) \ PlatformPlaces(all) \subseteq DOMAIN all
  BY PlacesApart
<1>2. /\ Pool(all) \in Seq(X)
      /\ Len(Pool(all)) = Cardinality(SoundPlaces(all) \ PlatformPlaces(all))
      /\ ToSet(Pool(all)) = {all[i] : i \in SoundPlaces(all) \ PlatformPlaces(all)}
  BY <1>1, Kept, KeptMembers DEF Pool
<1>3. \A i \in SoundPlaces(all) \ PlatformPlaces(all) :
        ~all[i].disqualified /\ scopeOf(all[i]) # "account" /\ ~hardGated(all[i])
  BY DEF SoundPlaces, PlatformPlaces, HardPlaces, UnsoundPlaces
<1>4. \A c : scopeOf(c) \in {"account", "route"}
  BY DEF scopeOf
<1> QED BY <1>2, <1>3, <1>4

LEMMA GateLists ==
  ASSUME NEW w \in Windows, NEW budget \in Nat, NEW diversify \in BOOLEAN
  PROVE  LET g == GateResult(w, budget, diversify)
             D == Derived(w)
             all == Deduplicated(w).deduped
             dropped == Deduplicated(w).dropped IN
         /\ g.toLaunch \in Seq(D) /\ g.platform \in Seq(D) /\ g.gated \in Seq([why : Reasons, of : D])
         /\ Len(g.toLaunch) + Len(g.platform) + Len(g.gated) = Len(all) + Len(dropped)
         /\ ToSet(g.toLaunch) \cup ToSet(g.platform) \cup {x.of : x \in ToSet(g.gated)}
              = ToSet(all) \cup ToSet(dropped)
         /\ \A x \in ToSet(g.gated) : x.why = "skippedByBudget" => x.of \in ToSet(Skipped(Pool(all), budget, diversify))
<1> DEFINE g == GateResult(w, budget, diversify)
           D == Derived(w)
           all == Deduplicated(w).deduped
           dropped == Deduplicated(w).dropped
           chosen == Chosen(Pool(all), budget, diversify)
           left == Skipped(Pool(all), budget, diversify)
           I == [why : Reasons, of : D]
           H == HardPlaces(all)
           U == UnsoundPlaces(all)
           P == PlatformPlaces(all)
           R == SoundPlaces(all) \ P
           l1 == Listed("disqualified", Keep(all, U))
           l2 == Listed("hardGated", Keep(all, H))
           l3 == Listed("skippedByBudget", left)
           l4 == Listed("coveredBy", dropped)
<1>1. all \in Seq(D) /\ dropped \in Seq(D)
  BY Deduped
<1>2. g.toLaunch = chosen /\ g.platform = Keep(all, P) /\ g.gated = l1 \o l2 \o l3 \o l4
  BY GateShape
<1> HIDE DEF g, D, all, dropped
<1>3. /\ H \subseteq DOMAIN all /\ U \subseteq DOMAIN all /\ P \subseteq DOMAIN all /\ R \subseteq DOMAIN all
      /\ H \cup U \cup P \cup R = DOMAIN all
      /\ Cardinality(H) + Cardinality(U) + Cardinality(P) + Cardinality(R) = Len(all)
  BY <1>1, PlacesApart
<1>4. /\ chosen \in Seq(D) /\ left \in Seq(D)
      /\ Len(chosen) + Len(left) = Cardinality(R)
      /\ ToSet(chosen) \cup ToSet(left) = {all[i] : i \in R}
  <2> DEFINE pool == Pool(all)
  <2>1. pool \in Seq(D) /\ Len(pool) = Cardinality(R) /\ ToSet(pool) = {all[i] : i \in R}
    BY <1>1, PoolMembers
  <2> HIDE DEF pool, R
  <2>2. /\ chosen \in Seq(D) /\ left \in Seq(D)
        /\ Len(chosen) + Len(left) = Len(pool)
        /\ ToSet(chosen) \cup ToSet(left) = ToSet(pool)
    <3>1. SelectionFacts(D, pool, budget, diversify)
      BY <2>1, Selection
    <3> QED BY <3>1 DEF SelectionFacts, pool
  <2> QED BY <2>1, <2>2
<1> HIDE DEF chosen, left, H, U, P, R
<1>5. /\ Keep(all, U) \in Seq(D) /\ Len(Keep(all, U)) = Cardinality(U) /\ ToSet(Keep(all, U)) = {all[i] : i \in U}
      /\ Keep(all, H) \in Seq(D) /\ Len(Keep(all, H)) = Cardinality(H) /\ ToSet(Keep(all, H)) = {all[i] : i \in H}
      /\ Keep(all, P) \in Seq(D) /\ Len(Keep(all, P)) = Cardinality(P) /\ ToSet(Keep(all, P)) = {all[i] : i \in P}
      /\ Cardinality(U) \in Nat /\ Cardinality(H) \in Nat /\ Cardinality(P) \in Nat /\ Cardinality(R) \in Nat
  <2>1. ASSUME NEW part, part \subseteq DOMAIN all
        PROVE  /\ Keep(all, part) \in Seq(D) /\ Len(Keep(all, part)) = Cardinality(part)
               /\ ToSet(Keep(all, part)) = {all[i] : i \in part} /\ Cardinality(part) \in Nat
    BY <1>1, <2>1, Kept, KeptMembers
  <2> QED BY <1>3, <2>1
<1>6. /\ l1 \in Seq(I) /\ Len(l1) = Cardinality(U) /\ {x.of : x \in ToSet(l1)} = {all[i] : i \in U}
      /\ \A x \in ToSet(l1) : x.why = "disqualified"
  BY <1>5, WrappedAsReason DEF Reasons
<1>7. /\ l2 \in Seq(I) /\ Len(l2) = Cardinality(H) /\ {x.of : x \in ToSet(l2)} = {all[i] : i \in H}
      /\ \A x \in ToSet(l2) : x.why = "hardGated"
  BY <1>5, WrappedAsReason DEF Reasons
<1>8. /\ l3 \in Seq(I) /\ Len(l3) = Len(left)
      /\ {x.of : x \in ToSet(l3)} = ToSet(left)
      /\ \A x \in ToSet(l3) : x.of \in ToSet(left)
  BY <1>4, WrappedAsReason DEF Reasons
<1>9. /\ l4 \in Seq(I) /\ Len(l4) = Len(dropped) /\ {x.of : x \in ToSet(l4)} = ToSet(dropped)
      /\ \A x \in ToSet(l4) : x.why = "coveredBy"
  BY <1>1, WrappedAsReason DEF Reasons
<1> HIDE DEF l1, l2, l3, l4, I
<1>10. /\ g.gated \in Seq(I)
       /\ Len(g.gated) = Len(l1) + Len(l2) + Len(l3) + Len(l4)
       /\ ToSet(g.gated) = ToSet(l1) \cup ToSet(l2) \cup ToSet(l3) \cup ToSet(l4)
  <2>1. l1 \o l2 \in Seq(I) /\ Len(l1 \o l2) = Len(l1) + Len(l2) /\ ToSet(l1 \o l2) = ToSet(l1) \cup ToSet(l2)
    BY <1>6, <1>7, Joined
  <2> DEFINE m == l1 \o l2
  <2> HIDE DEF m
  <2>2. m \o l3 \in Seq(I) /\ Len(m \o l3) = Len(m) + Len(l3) /\ ToSet(m \o l3) = ToSet(m) \cup ToSet(l3)
    <3>1. m \in Seq(I)
      BY <2>1 DEF m
    <3> QED BY <1>8, <3>1, Joined
  <2> DEFINE n == m \o l3
  <2> HIDE DEF n
  <2>3. n \o l4 \in Seq(I) /\ Len(n \o l4) = Len(n) + Len(l4) /\ ToSet(n \o l4) = ToSet(n) \cup ToSet(l4)
    <3>1. n \in Seq(I)
      BY <2>2 DEF n
    <3> QED BY <1>9, <3>1, Joined
  <2>4. g.gated = n \o l4
    BY <1>2 DEF m, n
  <2>5. Len(n) = Len(l1) + Len(l2) + Len(l3) /\ ToSet(n) = ToSet(l1) \cup ToSet(l2) \cup ToSet(l3)
    BY <2>1, <2>2 DEF m, n
  <2> QED BY <2>3, <2>4, <2>5
<1>11. Len(g.toLaunch) + Len(g.platform) + Len(g.gated) = Len(all) + Len(dropped)
  <2>1. Len(chosen) \in Nat /\ Len(left) \in Nat /\ Len(dropped) \in Nat /\ Len(all) \in Nat
    BY <1>1, <1>4
  <2> DEFINE h == Cardinality(H)
             u == Cardinality(U)
             p == Cardinality(P)
             rest == Cardinality(R)
             selected == Len(chosen)
             skipped == Len(left)
             covered == Len(dropped)
             n == Len(all)
  <2>2. /\ h \in Nat /\ u \in Nat /\ p \in Nat /\ rest \in Nat
        /\ selected \in Nat /\ skipped \in Nat /\ covered \in Nat /\ n \in Nat
        /\ h + u + p + rest = n /\ selected + skipped = rest
    BY <1>3, <1>4, <1>5, <2>1
  <2>3. Len(g.gated) = u + h + skipped + covered /\ Len(g.platform) = p /\ Len(g.toLaunch) = selected
    BY <1>2, <1>5, <1>6, <1>7, <1>8, <1>9, <1>10
  <2> HIDE DEF h, u, p, rest, selected, skipped, covered, n
  <2>4. Len(g.toLaunch) + Len(g.platform) + Len(g.gated) = n + covered
    BY <2>2, <2>3
  <2> QED BY <2>4 DEF n, covered
<1>12. {x.of : x \in ToSet(g.gated)} = {x.of : x \in ToSet(l1)} \cup {x.of : x \in ToSet(l2)}
                                       \cup {x.of : x \in ToSet(l3)} \cup {x.of : x \in ToSet(l4)}
  BY <1>10
<1>13. ToSet(all) = {all[i] : i \in DOMAIN all}
  BY DEF ToSet
<1>14. ToSet(g.toLaunch) \cup ToSet(g.platform) \cup {x.of : x \in ToSet(g.gated)} = ToSet(all) \cup ToSet(dropped)
  <2> DEFINE gatedOnes == {x.of : x \in ToSet(g.gated)}
  <2>1. gatedOnes = {all[i] : i \in U} \cup {all[i] : i \in H} \cup ToSet(left) \cup ToSet(dropped)
    BY <1>6, <1>7, <1>8, <1>9, <1>12
  <2> HIDE DEF gatedOnes
  <2>2. ToSet(g.toLaunch) \cup ToSet(g.platform) \cup gatedOnes
          = {all[i] : i \in R} \cup {all[i] : i \in P} \cup {all[i] : i \in U} \cup {all[i] : i \in H} \cup ToSet(dropped)
    BY <1>2, <1>4, <1>5, <2>1
  <2>3. ToSet(all) = {all[i] : i \in R} \cup {all[i] : i \in P} \cup {all[i] : i \in U} \cup {all[i] : i \in H}
    BY <1>3, <1>13
  <2> QED BY <2>2, <2>3 DEF gatedOnes
<1>15. \A x \in ToSet(g.gated) : x.why = "skippedByBudget" => x.of \in ToSet(left)
  BY <1>6, <1>7, <1>8, <1>9, <1>10
<1> QED
  BY <1>2, <1>4, <1>5, <1>10, <1>11, <1>14, <1>15 DEF g, D, all, dropped, chosen, left, I

-----------------------------------------------------------------------------
(* What the scripts leave for the gate                                      *)

LEMMA MaskedWindow ==
  ASSUME NEW w \in Windows, NEW groups, NEW billed
  PROVE  Masked(w, groups, billed) \in Windows
<1> DEFINE read(n) == IF 3 \in groups THEN n ELSE 0
           paid(n) == IF billed THEN n ELSE 0
           row == [r \in Raw |-> [f \in Fields |-> IF Group(f) \in groups THEN w.row[r][f] ELSE 0]]
           host == [p75 |-> read(w.host.p75), calls |-> read(w.host.calls)]
           acct == [w.acct EXCEPT !.botShare = read(@), !.middleware = read(@),
                                  !.edge = paid(@), !.events = paid(@), !.build = paid(@)]
<1>1. \A n \in Nat : read(n) \in Nat /\ paid(n) \in Nat
  OBVIOUS
<1>2. row \in [Raw -> [Fields -> Nat]]
  BY Measured
<1>3. w.host \in [p75 : Nat, calls : Nat] /\ w.acct \in Accounts /\ w.found \in [Pages -> [Findings -> Nat]]
  BY DEF Windows
<1>4. Masked(w, groups, billed)
        = [row |-> row, host |-> host, acct |-> acct, found |-> w.found, functions |-> 3 \in groups]
  BY DEF Masked
<1> HIDE DEF read, paid, row
<1>5. host \in [p75 : Nat, calls : Nat]
  BY <1>1, <1>3
<1>6. acct \in Accounts
  BY <1>1, <1>3 DEF Accounts
<1> HIDE DEF host, acct
<1> QED BY <1>2, <1>3, <1>4, <1>5, <1>6 DEF Windows

\* The window the gate looks at, and what it made of it.
GateInv ==
  /\ stage \in {"collected", "gated"} => site \in Windows
  /\ stage = "gated" => \E b \in Budgets : gate = [budget |-> b, result |-> GateResult(site, b.size, b.diverse)]

\* The result of the gate is that of the collection, until it is used.
THEOREM GateTyped == Spec => []GateInv
<1>1. Init => GateInv
  BY MaskedWindow, AuditAssumption DEF Init, GateInv
<1>2. GateInv /\ [Next]_vars => GateInv'
  <2> SUFFICES ASSUME GateInv, [Next]_vars PROVE GateInv'
    OBVIOUS
  <2> USE DEF GateInv
  <2>1. CASE GateInvestigations
    BY <2>1 DEF GateInvestigations
  <2>2. CASE reconcileInvestigation
    BY <2>2 DEF reconcileInvestigation
  <2>3. ASSUME NEW i \in 1..MaxBriefs, Write(i) PROVE GateInv'
    BY <2>3 DEF Write
  <2>4. CASE CleanUp
    BY <2>4 DEF CleanUp
  <2>5. CASE CollectOutputs
    BY <2>5 DEF CollectOutputs
  <2>6. ASSUME NEW i \in DOMAIN records, Regenerate(i) PROVE GateInv'
    BY <2>6 DEF Regenerate
  <2>7. CASE RenderReport
    BY <2>7 DEF RenderReport
  <2>8. CASE UNCHANGED vars
    BY <2>8 DEF vars
  <2> QED BY <2>1, <2>2, <2>3, <2>4, <2>5, <2>6, <2>7, <2>8 DEF Next
<1> QED BY <1>1, <1>2, PTL DEF Spec

\* Every candidate the gates raised is launched, raised for the account, or
\* listed with a reason, once, whatever the window holds (gate-investigations).
THEOREM EveryCandidateAccounted == Spec => []GateAccountsForAll
<1>1. GateInv => GateAccountsForAll
  <2> SUFFICES ASSUME GateInv, stage = "gated" PROVE GateAccountsForAll
    BY DEF GateAccountsForAll
  <2>1. site \in Windows
    BY DEF GateInv
  <2>2. PICK b \in Budgets : gate = [budget |-> b, result |-> GateResult(site, b.size, b.diverse)]
    BY DEF GateInv
  <2>3. b.size \in Nat /\ b.diverse \in BOOLEAN
    BY AuditAssumption
  <2> DEFINE g == gate.result
             all == Deduplicated(site).deduped
             dropped == Deduplicated(site).dropped
             raised == ToSet(g.toLaunch) \cup ToSet(g.platform) \cup {x.of : x \in ToSet(g.gated)}
  <2>4. g = GateResult(site, b.size, b.diverse)
    BY <2>2
  <2> HIDE DEF g
  <2>5. /\ Len(g.toLaunch) + Len(g.platform) + Len(g.gated) = Len(all) + Len(dropped)
        /\ raised = ToSet(all) \cup ToSet(dropped)
    BY <2>1, <2>3, <2>4, GateLists
  <2>6. /\ Len(all) + Len(dropped) = Cardinality(Seeds(site))
        /\ {Name(c) : c \in ToSet(all) \cup ToSet(dropped)} = {Name(c) : c \in Seeds(site)}
    BY <2>1, Deduped
  <2> HIDE DEF all, dropped, raised
  <2>7. {Name(c) : c \in raised} = {Name(c) : c \in Seeds(site)}
    BY <2>5, <2>6
  <2> QED BY <2>5, <2>6, <2>7 DEF GateAccountsForAll, Name, g, raised
<1> QED BY <1>1, GateTyped, PTL

-----------------------------------------------------------------------------
(* The diversified selection                                                *)

\* Up to a strong candidate, its kind has a first one, a second one, ...
LEMMA EarlierOfKind ==
  ASSUME NEW X, NEW pool \in Seq(X), NEW j \in DOMAIN pool, NEW m \in 1..Cardinality(SameKind(pool, j))
  PROVE  \E i \in DOMAIN pool : /\ pool[i].kind = pool[j].kind /\ pool[i].strong
                                /\ Cardinality(SameKind(pool, i)) = m
<1> DEFINE S == SameKind(pool, j)
<1>1. S \subseteq DOMAIN pool /\ \A i \in S : i <= j /\ pool[i].kind = pool[j].kind /\ pool[i].strong
  BY DEF SameKind
<1>2. IsFiniteSet(S) /\ S \in SUBSET Int
  <2>1. S \in SUBSET (DOMAIN pool)
    BY <1>1
  <2> HIDE DEF S
  <2> QED BY <2>1, Kept, PlacesFinite
<1>3. PICK i \in S : Cardinality(Before(S, Rising(S), i)) = m - 1
  BY <1>2, RisingStrict, RanksTaken
<1>4. SameKind(pool, i) = Before(S, Rising(S), i) \cup {i}
  <2>1. \A y \in SameKind(pool, i) : y \in S /\ (y < i \/ y = i)
    BY <1>1, <1>2 DEF SameKind
  <2>2. \A y \in S : y < i \/ y = i => y \in SameKind(pool, i)
    BY <1>1, <1>2 DEF SameKind
  <2>3. \A y : y \in Before(S, Rising(S), i) <=> y \in S /\ y < i
    BY DEF Before, Rising
  <2> HIDE DEF S
  <2> QED BY <2>1, <2>2, <2>3
<1>5. i \notin Before(S, Rising(S), i) /\ IsFiniteSet(Before(S, Rising(S), i))
  <2>1. Before(S, Rising(S), i) \subseteq S
    BY DEF Before
  <2>2. i \notin Before(S, Rising(S), i)
    BY <1>2 DEF Before, Rising
  <2> QED BY <1>2, <2>1, <2>2, FS_Subset
<1>6. Cardinality(SameKind(pool, i)) = m
  <2> DEFINE B == Before(S, Rising(S), i)
  <2> HIDE DEF B, S
  <2>1. Cardinality(B \cup {i}) = Cardinality(B) + 1
    BY <1>5, FS_AddElement DEF B
  <2> QED BY <1>3, <1>4, <2>1 DEF B
<1> QED BY <1>1, <1>6

\* The first of a kind is the only one its first pass takes.
LEMMA FirstOfKind ==
  ASSUME NEW X, NEW pool \in Seq(X), NEW i \in DOMAIN pool, NEW j \in DOMAIN pool,
         Pass(pool, i) = 1, Pass(pool, j) = 1, pool[i].kind = pool[j].kind
  PROVE  i = j
<1>1. pool[i].strong /\ pool[j].strong
  BY DEF Pass
<1>2. Cardinality(SameKind(pool, i)) = 1 /\ Cardinality(SameKind(pool, j)) = 1
  BY DEF Pass
<1>3. i \in SameKind(pool, i) /\ j \in SameKind(pool, j)
  BY <1>1 DEF SameKind
<1>4. ASSUME NEW a \in DOMAIN pool, NEW b \in DOMAIN pool, a < b, Cardinality(SameKind(pool, b)) = 1,
             a \in SameKind(pool, b), b \in SameKind(pool, b)
      PROVE  FALSE
  <2>1. IsFiniteSet(SameKind(pool, b))
    <3>1. SameKind(pool, b) \subseteq DOMAIN pool
      BY DEF SameKind
    <3> QED BY <3>1, Kept
  <2>2. PICK x : SameKind(pool, b) = {x}
    BY <1>4, <2>1, FS_Singleton
  <2> QED BY <1>4, <2>2
<1>5. i < j => i \in SameKind(pool, j)
  BY <1>1 DEF SameKind
<1>6. j < i => j \in SameKind(pool, i)
  BY <1>1 DEF SameKind
<1>7. ~(i < j) /\ ~(j < i)
  BY <1>2, <1>3, <1>4, <1>5, <1>6
<1> QED BY <1>7

LEMMA PassRules ==
  ASSUME NEW pool, NEW i
  PROVE  /\ Pass(pool, i) \in 1..3
         /\ Pass(pool, i) = 1 => pool[i].strong
         /\ Pass(pool, i) < 3 => pool[i].strong
         /\ pool[i].strong /\ Cardinality(SameKind(pool, i)) = 1 => Pass(pool, i) = 1
         /\ pool[i].strong /\ Cardinality(SameKind(pool, i)) <= DEFAULT_KIND_CAPS(pool[i].kind) => Pass(pool, i) < 3
         /\ pool[i].strong /\ Pass(pool, i) = 3 => ~(Cardinality(SameKind(pool, i)) <= DEFAULT_KIND_CAPS(pool[i].kind))
<1> DEFINE cap == DEFAULT_KIND_CAPS(pool[i].kind)
           card == Cardinality(SameKind(pool, i))
           strong == pool[i].strong
<1>1. Pass(pool, i) = IF ~strong THEN 3 ELSE IF card = 1 THEN 1 ELSE IF card <= cap THEN 2 ELSE 3
  BY DEF Pass
<1>2. cap \in {1, 2}
  BY DEF DEFAULT_KIND_CAPS
<1> HIDE DEF cap, card, strong
<1>3. /\ Pass(pool, i) \in 1..3
      /\ Pass(pool, i) = 1 => strong
      /\ Pass(pool, i) < 3 => strong
      /\ strong /\ card = 1 => Pass(pool, i) = 1
      /\ strong /\ card <= cap => Pass(pool, i) < 3
      /\ strong /\ Pass(pool, i) = 3 => ~(card <= cap)
  BY <1>1, <1>2
<1> QED BY <1>3 DEF cap, card, strong

\* (as a predicate of its own: the provers take a Boolean fact for a rewrite)
Diversified(b) == b = TRUE

LEMMA SoonerPass ==
  ASSUME NEW pool, NEW i, NEW j, NEW diversify \in BOOLEAN, Diversified(diversify), Sooner(pool, i, j, diversify)
  PROVE  ~(Pass(pool, j) < Pass(pool, i))
<1> DEFINE p == Pass(pool, i)
           q == Pass(pool, j)
<1>1. p \in 1..3 /\ q \in 1..3
  BY PassKnown
<1>2. (p < q) \/ (p = q /\ i < j)
  BY DEF Sooner, Diversified
<1> HIDE DEF p, q
<1>3. ~(q < p)
  BY <1>1, <1>2
<1> QED BY <1>3 DEF p, q

\* Whoever has a place in an earlier pass than one of the selected is selected.
LEMMA EarlierPassSelected ==
  ASSUME NEW X, NEW pool \in Seq(X), NEW n \in Nat, n <= Len(pool), NEW t \in 1..n, NEW diversify \in BOOLEAN, Diversified(diversify),
         NEW i \in DOMAIN pool, Pass(pool, i) < Pass(pool, Turns(pool, diversify)[t])
  PROVE  \E u \in 1..n : Turns(pool, diversify)[u] = i
<1> DEFINE turns == Turns(pool, diversify)
<1>1. /\ turns \in [1..Len(pool) -> DOMAIN pool]
      /\ \A k \in DOMAIN pool : \E u \in 1..Len(pool) : turns[u] = k
      /\ \A v, u \in 1..Len(pool) : v < u => Sooner(pool, turns[v], turns[u], diversify)
  BY TurnsTaken
<1>2. Len(pool) \in Nat
  OBVIOUS
<1> HIDE DEF turns
<1>3. PICK u \in 1..Len(pool) : turns[u] = i
  BY <1>1
<1>4. ~(t < u)
  <2> SUFFICES ASSUME t < u PROVE FALSE
    OBVIOUS
  <2>1. t \in 1..Len(pool)
    BY <1>2
  <2>2. Sooner(pool, turns[t], turns[u], diversify)
    BY <1>1, <2>1
  <2> QED BY <1>3, <2>2, SoonerPass DEF turns
<1>5. u \in 1..n
  BY <1>2, <1>4
<1> QED BY <1>3, <1>5 DEF turns

LEMMA EveryTurn ==
  ASSUME NEW X, NEW pool \in Seq(X), NEW diversify \in BOOLEAN, NEW t \in 1..Len(pool)
  PROVE  Turns(pool, diversify)[t] \in DOMAIN pool
BY TurnsTaken

LEMMA TurnsDiffer ==
  ASSUME NEW X, NEW pool \in Seq(X), NEW diversify \in BOOLEAN, NEW t \in 1..Len(pool), NEW u \in 1..Len(pool), t # u
  PROVE  Turns(pool, diversify)[t] # Turns(pool, diversify)[u]
BY TurnsTaken

LEMMA TurnsRise ==
  ASSUME NEW X, NEW pool \in Seq(X), NEW diversify \in BOOLEAN, NEW t \in 1..Len(pool), NEW u \in 1..Len(pool), t < u
  PROVE  Sooner(pool, Turns(pool, diversify)[t], Turns(pool, diversify)[u], diversify)
BY TurnsTaken

OfKind(launched, k) == {i \in DOMAIN launched : launched[i].kind = k}
SpendsWell(launched, c) ==
  /\ OfKind(launched, c.kind) = {} => \A i, j \in DOMAIN launched : launched[i].kind = launched[j].kind => i = j
  /\ Cardinality(OfKind(launched, c.kind)) < DEFAULT_KIND_CAPS(c.kind)
       => \A i \in DOMAIN launched : launched[i].strong

\* While a strong candidate of a kind is skipped: without one launched of its
\* kind, no kind has two; below the cap of its kind, no weak one is launched.
LEMMA WellSpent ==
  ASSUME NEW X, NEW pool \in Seq(X), NEW budget \in Nat, NEW diversify \in BOOLEAN, Diversified(diversify),
         NEW c \in ToSet(Skipped(pool, budget, diversify)), c.strong
  PROVE  SpendsWell(Chosen(pool, budget, diversify), c)
<1> DEFINE launched == Chosen(pool, budget, diversify)
           turns == Turns(pool, diversify)
           n == Len(launched)
           cap == DEFAULT_KIND_CAPS(c.kind)
<1>1. /\ launched \in Seq(X) /\ n <= Len(pool)
      /\ \A t \in 1..n : launched[t] = pool[turns[t]]
  <2>1. SelectionFacts(X, pool, budget, diversify)
    BY Selection
  <2> QED BY <2>1 DEF SelectionFacts
<1>2. \E u \in (1..Len(pool)) \ (1..n) : c = pool[turns[u]]
  <2> DEFINE skipped == Skipped(pool, budget, diversify)
  <2>1. \A d \in ToSet(skipped) : \E u \in (1..Len(pool)) \ (1..n) : d = pool[turns[u]]
    BY Selection DEF SelectionFacts
  <2>2. c \in ToSet(skipped)
    OBVIOUS
  <2> HIDE DEF skipped, n, turns
  <2> QED BY <2>1, <2>2
<1>3. n \in Nat /\ Len(pool) \in Nat /\ DOMAIN launched = 1..n /\ n <= Len(pool)
  BY <1>1
<1>4. PICK u \in 1..Len(pool) : n < u /\ c = pool[turns[u]]
  <2>1. PICK u \in (1..Len(pool)) \ (1..n) : c = pool[turns[u]]
    BY <1>2
  <2>2. u \in 1..Len(pool) /\ n < u
    BY <1>3, <2>1
  <2> HIDE DEF n, turns
  <2> QED BY <2>1, <2>2
<1>5. turns[u] \in DOMAIN pool /\ \A t \in 1..n : t \in 1..Len(pool) /\ turns[t] \in DOMAIN pool
  <2>1. \A t \in 1..Len(pool) : turns[t] \in DOMAIN pool
    BY EveryTurn
  <2> HIDE DEF turns, n
  <2> QED BY <1>3, <2>1
<1> HIDE DEF launched, turns, n
<1>6. turns[u] \in SameKind(pool, turns[u]) /\ IsFiniteSet(SameKind(pool, turns[u]))
      /\ Cardinality(SameKind(pool, turns[u])) \in Nat
  <2>1. turns[u] \in SameKind(pool, turns[u])
    BY <1>4, <1>5 DEF SameKind
  <2>2. SameKind(pool, turns[u]) \subseteq DOMAIN pool
    BY <1>5 DEF SameKind
  <2> QED BY <2>1, <2>2, Kept
<1>7. Cardinality(SameKind(pool, turns[u])) >= 1
  <2>1. Cardinality(SameKind(pool, turns[u])) # 0
    BY <1>6, FS_EmptySet
  <2> QED BY <1>6, <2>1
<1>8. \A t \in 1..n : ~(Pass(pool, turns[u]) < Pass(pool, turns[t]))
  <2> SUFFICES ASSUME NEW t \in 1..n PROVE ~(Pass(pool, turns[u]) < Pass(pool, turns[t]))
    OBVIOUS
  <2>1. Sooner(pool, turns[t], turns[u], diversify)
    <3>1. t \in 1..Len(pool) /\ t < u
      BY <1>3, <1>4, <1>5
    <3> QED BY <3>1, TurnsRise DEF turns
  <2> QED BY <2>1, SoonerPass
<1>9. ASSUME OfKind(launched, c.kind) = {}, NEW i \in DOMAIN launched, NEW j \in DOMAIN launched,
             launched[i].kind = launched[j].kind
      PROVE  i = j
  <2>1. PICK first \in DOMAIN pool : /\ pool[first].kind = c.kind /\ pool[first].strong
                                     /\ Cardinality(SameKind(pool, first)) = 1
    BY <1>4, <1>5, <1>6, <1>7, EarlierOfKind
  <2>2. Pass(pool, first) = 1
    BY <2>1, PassRules
  <2>3. ASSUME NEW t \in 1..n PROVE Pass(pool, turns[t]) = 1
    <3>1. CASE Pass(pool, turns[t]) > 1
      <4>1. PICK v \in 1..n : turns[v] = first
        <5>1. Pass(pool, first) < Pass(pool, Turns(pool, diversify)[t])
          BY <2>2, <3>1, PassKnown DEF turns
        <5> QED BY <1>3, <5>1, EarlierPassSelected DEF turns
      <4>2. v \in OfKind(launched, c.kind)
        BY <1>1, <1>3, <2>1, <4>1 DEF OfKind, launched, n, turns
      <4> QED BY <1>9, <4>2
    <3> QED BY <3>1, PassKnown
  <2>4. i \in 1..n /\ j \in 1..n /\ pool[turns[i]].kind = pool[turns[j]].kind
    BY <1>1, <1>3, <1>9 DEF launched, n, turns
  <2>5. turns[i] = turns[j]
    BY <1>5, <2>3, <2>4, FirstOfKind
  <2> QED BY <1>5, <2>4, <2>5, TurnsDiffer DEF turns
<1>10. ASSUME Cardinality(OfKind(launched, c.kind)) < cap, NEW i \in DOMAIN launched, ~launched[i].strong
       PROVE  FALSE
  <2>1. i \in 1..n /\ ~pool[turns[i]].strong
    BY <1>1, <1>3, <1>10 DEF launched, n, turns
  <2>2. Pass(pool, turns[i]) = 3
    BY <2>1, PassRules
  <2>3. Pass(pool, turns[u]) = 3
    BY <1>8, <2>1, <2>2, PassKnown
  <2>4. cap \in {1, 2}
    BY DEF DEFAULT_KIND_CAPS
  <2> DEFINE early(m, t) == pool[turns[t]].kind = c.kind /\ Cardinality(SameKind(pool, turns[t])) = m
             f == [m \in 1..cap |-> CHOOSE t \in 1..n : early(m, t)]
             T == OfKind(launched, c.kind)
  <2>5. \A m \in 1..cap : \E t \in 1..n : early(m, t)
    <3> SUFFICES ASSUME NEW m \in 1..cap PROVE \E t \in 1..n : early(m, t)
      OBVIOUS
    <3>1. ~(Cardinality(SameKind(pool, turns[u])) <= cap)
      BY <1>4, <2>3, PassRules
    <3>2. m \in 1..Cardinality(SameKind(pool, turns[u])) /\ m <= cap
      BY <1>6, <2>4, <3>1
    <3>3. PICK k \in DOMAIN pool : /\ pool[k].kind = c.kind /\ pool[k].strong
                                   /\ Cardinality(SameKind(pool, k)) = m
      BY <1>4, <1>5, <3>2, EarlierOfKind
    <3>4. Pass(pool, k) < 3
      BY <3>2, <3>3, PassRules
    <3>5. PICK t \in 1..n : turns[t] = k
      BY <1>3, <2>1, <2>2, <3>4, EarlierPassSelected DEF turns
    <3> QED BY <3>3, <3>5
  <2> HIDE DEF cap
  <2>6. \A m \in 1..cap : f[m] \in 1..n /\ early(m, f[m])
    <3> SUFFICES ASSUME NEW m \in 1..cap PROVE f[m] \in 1..n /\ early(m, f[m])
      OBVIOUS
    <3>1. \E t \in 1..n : early(m, t)
      BY <2>5
    <3>2. f[m] = CHOOSE t \in 1..n : early(m, t)
      OBVIOUS
    <3> HIDE DEF early, f
    <3> QED BY <3>1, <3>2
  <2>7. f \in Injection(1..cap, T)
    <3>1. DOMAIN f = 1..cap
      OBVIOUS
    <3> HIDE DEF f
    <3>2. \A m \in 1..cap : f[m] \in T
      BY <1>1, <1>3, <2>6 DEF OfKind, launched, n, turns
    <3>3. \A k, m \in 1..cap : f[k] = f[m] => k = m
      BY <2>6
    <3>4. f = [m \in 1..cap |-> f[m]]
      BY DEF f
    <3>5. f \in [1..cap -> T]
      BY <3>2, <3>4
    <3> QED BY <3>3, <3>5 DEF Injection, IsInjective
  <2>8. IsFiniteSet(T)
    <3>1. IsFiniteSet(DOMAIN launched)
      BY <1>1, PlacesFinite DEF launched, n
    <3>2. T \subseteq DOMAIN launched
      BY DEF OfKind
    <3> QED BY <3>1, <3>2, FS_Subset
  <2>9. Cardinality(1..cap) = cap
    <3>1. 1 \in Int /\ cap \in Int /\ cap >= 1
      BY <2>4
    <3>2. Cardinality(1..cap) = cap
      BY <3>1, FS_Interval
    <3> QED BY <3>2
  <2>10. Cardinality(1..cap) <= Cardinality(T)
    BY <2>7, <2>8, FS_Injection
  <2>11. Cardinality(T) \in Nat
    BY <2>8, FS_CardinalityType
  <2> QED BY <1>10, <2>4, <2>9, <2>10, <2>11 DEF cap
<1> QED BY <1>9, <1>10 DEF launched, SpendsWell

\* The budget is spent before anything is skipped for it, and a diversified
\* choice leaves no strong candidate of a kind without one for the second of
\* another, nor below its cap for a weak one (select-candidates).
THEOREM BudgetSpentWell == Spec => []BudgetIsWellSpent
<1>1. GateInv => BudgetIsWellSpent
  <2> SUFFICES ASSUME GateInv, stage = "gated" PROVE BudgetIsWellSpent
    BY DEF BudgetIsWellSpent
  <2>1. site \in Windows
    BY DEF GateInv
  <2>2. PICK b \in Budgets : gate = [budget |-> b, result |-> GateResult(site, b.size, b.diverse)]
    BY DEF GateInv
  <2>3. b.size \in Nat /\ b.diverse \in BOOLEAN
    BY AuditAssumption
  <2> DEFINE g == gate.result
             launched == g.toLaunch
             skipped == {x.of : x \in {x \in ToSet(g.gated) : x.why = "skippedByBudget"}}
             pool == Pool(Deduplicated(site).deduped)
             chosen == Chosen(pool, b.size, b.diverse)
             left == ToSet(Skipped(pool, b.size, b.diverse))
             D == Derived(site)
  <2>4. g = GateResult(site, b.size, b.diverse) /\ gate.budget = b
    BY <2>2
  <2> HIDE DEF g
  <2>5. launched = chosen
    BY <2>1, <2>3, <2>4, GateShape
  <2>6. \A x \in ToSet(g.gated) : x.why = "skippedByBudget" => x.of \in left
    BY <2>1, <2>3, <2>4, GateLists
  <2>7. pool \in Seq(D)
    <3>1. Deduplicated(site).deduped \in Seq(D)
      BY <2>1, Deduped
    <3> HIDE DEF D
    <3> QED BY <3>1, PoolMembers
  <2> HIDE DEF pool, D
  <2>8. SelectionFacts(D, pool, b.size, b.diverse)
    BY <2>3, <2>7, Selection
  <2>9. \A c \in left : Len(chosen) = b.size
    BY <2>8 DEF SelectionFacts
  <2>10. skipped \subseteq left
    BY <2>6
  <2>11. ASSUME b.diverse, NEW c \in left, c.strong
         PROVE  SpendsWell(chosen, c)
    <3>1. Diversified(b.diverse)
      BY <2>3, <2>11 DEF Diversified
    <3> DEFINE size == b.size
               diverse == b.diverse
    <3>2. size \in Nat /\ diverse \in BOOLEAN /\ Diversified(diverse) /\ c \in ToSet(Skipped(pool, size, diverse))
      BY <2>3, <3>1
    <3> HIDE DEF size, diverse
    <3>3. SpendsWell(Chosen(pool, size, diverse), c)
      BY <2>7, <2>11, <3>2, WellSpent
    <3> QED BY <3>3 DEF size, diverse
  <2> HIDE DEF chosen, left
  <2>12. skipped # {} => Len(launched) = gate.budget.size
    BY <2>4, <2>5, <2>9, <2>10
  <2>13. ASSUME gate.budget.diverse, NEW c \in {c \in skipped : c.strong}
         PROVE  SpendsWell(launched, c)
    BY <2>4, <2>5, <2>10, <2>11, <2>13
  <2> QED BY <2>12, <2>13 DEF BudgetIsWellSpent, SpendsWell, OfKind, g
<1> QED BY <1>1, GateTyped, PTL

-----------------------------------------------------------------------------
(* The follow-up and the gates                                              *)

LEMMA SeedOfKind ==
  ASSUME NEW w \in Windows, NEW s \in Seeds(w)
  PROVE  /\ s.kind = "slow_route" => s \in slowRoute(w)
         /\ s.kind = "route_errors" => s \in routeErrors(w)
         /\ s.kind = "uncached_route" => s \in uncachedRoute(w)
         /\ s.kind = "isr_overrevalidation" => s \in isrOverrevalidation(w)
BY UncachedRouteRaises, SlowRouteRaises, RouteErrorsRaises, ColdStartRaises, IsrOverrevalidationRaises,
   CwvPoorRaises, ExternalApiSlowRaises, ScannerRaises, PlatformFluidComputeRaises,
   PlatformBotProtectionRaises, MiddlewareHeavyRaises, ObservabilityEventsRaises,
   BuildMinutesFanoutRaises, RegionMisconfigRaises DEF Seeds, Raises, Findings

LEMMA SlowSeed ==
  ASSUME NEW w \in Windows, NEW s \in slowRoute(w), ~s.disqualified
  PROVE  LET row == w.row[s.label] IN row.p95 > 500 /\ ~(2 * row.errors > row.runs)
<1> DEFINE plain(r) == Candidate("slow_route", r, Rounded(w.row[r].p95 * w.row[r].requests, 1000))
           failing(r) == 2 * w.row[r].errors > w.row[r].runs
           made(r) == [plain(r) EXCEPT !.disqualified = failing(r)]
<1>1. PICK r \in Raw : /\ s = made(r)
                       /\ \/ w.row[r].p95 > 500 /\ w.row[r].requests >= 1400
                          \/ w.row[r].p95 > 1500 /\ w.row[r].requests >= 250
  BY DEF slowRoute
<1>2. w.row[r].p95 \in Nat
  BY Measured DEF Fields
<1>3. s.label = r /\ s.disqualified = failing(r)
  <2>1. s = [plain(r) EXCEPT !.disqualified = failing(r)]
    BY <1>1
  <2>2. plain(r) = [kind |-> "slow_route", label |-> r, target |-> r,
                    priority |-> Rounded(w.row[r].p95 * w.row[r].requests, 1000),
                    count |-> 0, strong |-> TRUE, disqualified |-> FALSE]
    BY DEF Candidate
  <2> HIDE DEF failing, plain
  <2> QED BY <2>1, <2>2
<1>4. ~failing(r)
  BY <1>3
<1> QED BY <1>1, <1>2, <1>3, <1>4

LEMMA ErrorsSeed ==
  ASSUME NEW w \in Windows, NEW s \in routeErrors(w)
  PROVE  s.count = w.row[s.label].errors \/ s.count = w.row[s.label].edge5xx
<1> DEFINE count(r) == IF w.functions THEN w.row[r].errors ELSE w.row[r].edge5xx
           plain(r) == Candidate("route_errors", r, count(r))
           made(r) == [plain(r) EXCEPT !.count = count(r), !.strong = count(r) >= 1000]
           total(r) == IF w.functions THEN w.row[r].runs ELSE w.row[r].requests
           raised == {r \in Raw : count(r) > 250 \/ (total(r) >= 1000 /\ 100 * count(r) > total(r))}
<1>1. PICK r \in Raw : s = made(r)
  <2>1. routeErrors(w) = {made(r) : r \in raised}
    BY DEF routeErrors
  <2>2. raised \subseteq Raw
    OBVIOUS
  <2> HIDE DEF made, raised
  <2> QED BY <2>1, <2>2
<1>2. s.label = r /\ s.count = count(r)
  <2> DEFINE b == count(r) >= 1000
             n == count(r)
  <2>1. s = [plain(r) EXCEPT !.count = n, !.strong = b]
    BY <1>1
  <2>2. plain(r) = [kind |-> "route_errors", label |-> r, target |-> r, priority |-> n,
                    count |-> 0, strong |-> TRUE, disqualified |-> FALSE]
    BY DEF Candidate
  <2> HIDE DEF n, b, plain
  <2>3. s.label = r /\ s.count = n
    BY <2>1, <2>2
  <2> QED BY <2>3 DEF n
<1> QED BY <1>2

LEMMA UncachedSeed ==
  ASSUME NEW w \in Windows, NEW s \in uncachedRoute(w), ~s.disqualified
  PROVE  LET row == w.row[s.label] IN
         2 * row.hits < row.requests /\ row.methods # 0 /\ 5 * row.gets > row.methods
<1> DEFINE plain(r) == Candidate("uncached_route", r, w.row[r].requests - w.row[r].hits)
           unread(r) == w.row[r].methods = 0
           made(r) == [plain(r) EXCEPT !.disqualified = unread(r)]
<1>1. PICK r \in Raw : /\ s = made(r)
                       /\ w.row[r].requests > 500 /\ 2 * w.row[r].hits < w.row[r].requests
                       /\ w.row[r].methods = 0 \/ 5 * w.row[r].gets > w.row[r].methods
  BY DEF uncachedRoute
<1>2. s.label = r /\ s.disqualified = unread(r)
  <2> DEFINE n == w.row[r].requests - w.row[r].hits
  <2>1. s = [plain(r) EXCEPT !.disqualified = unread(r)]
    BY <1>1
  <2>2. plain(r) = [kind |-> "uncached_route", label |-> r, target |-> r, priority |-> n,
                    count |-> 0, strong |-> TRUE, disqualified |-> FALSE]
    BY DEF Candidate
  <2> HIDE DEF n, unread, plain
  <2> QED BY <2>1, <2>2
<1> QED BY <1>1, <1>2

LEMMA RewrittenSeed ==
  ASSUME NEW w \in Windows, NEW s \in isrOverrevalidation(w)
  PROVE  LET row == w.row[s.label] IN row.writes > 100 /\ row.reads > 0 /\ 2 * row.writes > row.reads
<1> DEFINE plain(r) == Candidate("isr_overrevalidation", r, w.row[r].writes)
<1>1. PICK r \in Raw : s = plain(r) /\ w.row[r].writes > 100 /\ w.row[r].reads > 0 /\ 2 * w.row[r].writes > w.row[r].reads
  BY DEF isrOverrevalidation
<1>2. s.label = r
  BY <1>1 DEF Candidate
<1> QED BY <1>1, <1>2

\* What a follow-up that repeats the broad pass says of a candidate.
Repeats(c, w) ==
  Disproved(c, w.row[c.label], FALSE) =>
    LET row == w.row[c.label] IN
    \/ c.kind = "uncached_route" /\ row.stale > 0
    \/ c.kind = "route_errors" /\ row.edge5xx > 0 /\ 10 * row.edge5xx < row.errors

LEMMA RepeatedWindow ==
  ASSUME NEW w \in Windows, NEW c \in Derived(w), ~c.disqualified, c.label \in Raw
  PROVE  Repeats(c, w)
<1>1. PICK s \in Seeds(w) : /\ c.kind = s.kind /\ c.label = s.label /\ c.count = s.count
                            /\ s.disqualified => c.disqualified
  BY DEF Derived
<1>2. ~s.disqualified
  BY <1>1
<1> DEFINE row == w.row[c.label]
<1>3. /\ row.requests \in Nat /\ row.hits \in Nat /\ row.stale \in Nat /\ row.gets \in Nat /\ row.methods \in Nat
      /\ row.p95 \in Nat /\ row.runs \in Nat /\ row.errors \in Nat /\ row.edge5xx \in Nat
      /\ row.writes \in Nat /\ row.reads \in Nat
  BY Measured DEF Fields
<1>4. CASE c.kind = "slow_route"
  <2>1. s \in slowRoute(w)
    BY <1>1, <1>4, SeedOfKind
  <2>2. row.p95 > 500 /\ ~(2 * row.errors > row.runs)
    BY <1>1, <1>2, <2>1, SlowSeed
  <2> HIDE DEF row
  <2>3. ~slowRouteDisproved(row, FALSE)
    BY <1>3, <2>2 DEF slowRouteDisproved
  <2> QED BY <1>4, <2>3 DEF Repeats, Disproved, row
<1>5. CASE c.kind = "route_errors"
  <2>1. s \in routeErrors(w)
    BY <1>1, <1>5, SeedOfKind
  <2>2. c.count = row.errors \/ c.count = row.edge5xx
    BY <1>1, <2>1, ErrorsSeed
  <2> HIDE DEF row
  <2>3. routeErrorsDisproved(c, row) => row.edge5xx > 0 /\ 10 * row.edge5xx < row.errors
    <3> DEFINE count == c.count
    <3>1. count \in Nat /\ (count = row.errors \/ count = row.edge5xx)
      BY <1>3, <2>2
    <3> HIDE DEF count
    <3>2. SUFFICES ASSUME routeErrorsDisproved(c, row) PROVE row.edge5xx > 0 /\ 10 * row.edge5xx < row.errors
      OBVIOUS
    <3>3. /\ count >= 1000
          /\ 10 * (IF row.edge5xx > 0 THEN row.edge5xx ELSE row.errors) < count
      BY <3>2 DEF routeErrorsDisproved, count
    <3>4. CASE row.edge5xx > 0
      BY <1>3, <3>1, <3>3, <3>4
    <3>5. CASE ~(row.edge5xx > 0)
      BY <1>3, <3>1, <3>3, <3>5
    <3> QED BY <3>4, <3>5
  <2> QED BY <1>5, <2>3 DEF Repeats, Disproved, row
<1>6. CASE c.kind = "uncached_route"
  <2>1. s \in uncachedRoute(w)
    BY <1>1, <1>6, SeedOfKind
  <2>2. 2 * row.hits < row.requests /\ row.methods # 0 /\ 5 * row.gets > row.methods
    BY <1>1, <1>2, <2>1, UncachedSeed
  <2> HIDE DEF row
  <2>3. uncachedRouteDisproved(row) => row.stale > 0
    BY <1>3, <2>2 DEF uncachedRouteDisproved
  <2> QED BY <1>6, <2>3 DEF Repeats, Disproved, row
<1>7. CASE c.kind = "isr_overrevalidation"
  <2>1. s \in isrOverrevalidation(w)
    BY <1>1, <1>7, SeedOfKind
  <2>2. row.writes > 100 /\ row.reads > 0 /\ 2 * row.writes > row.reads
    BY <1>1, <2>1, RewrittenSeed
  <2> HIDE DEF row
  <2>3. ~isrDisproved(row)
    BY <1>3, <2>2 DEF isrDisproved
  <2> QED BY <1>7, <2>3 DEF Repeats, Disproved, row
<1>8. CASE c.kind \notin {"slow_route", "route_errors", "uncached_route", "isr_overrevalidation"}
  BY <1>8 DEF Repeats, Disproved
<1> QED BY <1>4, <1>5, <1>6, <1>7, <1>8

\* A follow-up that only repeats the broad pass disproves no candidate raised
\* under its page's own name, whatever the window holds and whatever of it was
\* read, with two exceptions (lib/gates, lib/reconcile-candidates.mjs).
THEOREM RepeatsAreKept == Spec => []RepeatIsKept
<1>1. GateInv => RepeatIsKept
  <2> SUFFICES ASSUME GateInv, stage = "gated",
                      NEW c \in ToSet(gate.result.toLaunch), c.label = c.target, c.target \in Raw,
                      Disproved(c, site.row[c.target], FALSE)
               PROVE  LET w == site.row[c.target] IN
                      \/ c.kind = "uncached_route" /\ w.stale > 0
                      \/ c.kind = "route_errors" /\ w.edge5xx > 0 /\ 10 * w.edge5xx < w.errors
    BY DEF RepeatIsKept
  <2>1. site \in Windows
    BY DEF GateInv
  <2>2. PICK b \in Budgets : gate = [budget |-> b, result |-> GateResult(site, b.size, b.diverse)]
    BY DEF GateInv
  <2>3. b.size \in Nat /\ b.diverse \in BOOLEAN
    BY AuditAssumption
  <2> DEFINE g == gate.result
             pool == Pool(Deduplicated(site).deduped)
             D == Derived(site)
             size == b.size
             diverse == b.diverse
  <2>4. g = GateResult(site, size, diverse)
    BY <2>2
  <2> HIDE DEF g
  <2>5. pool \in Seq(D) /\ \A d \in ToSet(pool) : ~d.disqualified
    <3>1. Deduplicated(site).deduped \in Seq(D)
      BY <2>1, Deduped
    <3> HIDE DEF D
    <3> QED BY <3>1, PoolMembers
  <2> HIDE DEF pool, D
  <2>6. SelectionFacts(D, pool, size, diverse)
    <3>1. size \in Nat /\ diverse \in BOOLEAN
      BY <2>3
    <3> HIDE DEF size, diverse
    <3> QED BY <2>5, <3>1, Selection
  <2>7. g.toLaunch = Chosen(pool, size, diverse)
    BY <2>1, <2>3, <2>4, GateShape DEF pool
  <2>8. ToSet(g.toLaunch) \subseteq ToSet(pool)
    BY <2>6, <2>7 DEF SelectionFacts
  <2>9. c \in ToSet(pool)
    BY <2>8 DEF g
  <2>10. c \in D
    BY <2>5, <2>9 DEF ToSet
  <2>11. Repeats(c, site)
    BY <2>1, <2>5, <2>9, <2>10, RepeatedWindow DEF D
  <2> QED BY <2>11 DEF Repeats
<1> QED BY <1>1, GateTyped, PTL

-----------------------------------------------------------------------------
(* From the gate to the records                                             *)

References == ToSet(Kinds) \X Labels
IsEntry(e) == e = [ref |-> e.ref, rec |-> e.rec]

JoinsAt(s, t, st, m) ==
  /\ \A i \in DOMAIN st : \/ i \in DOMAIN s /\ st[i] = s[i]
                          \/ i - m \in DOMAIN t /\ st[i] = t[i - m] /\ i \notin DOMAIN s /\ i \in Int
  /\ \A i \in DOMAIN s : i \in DOMAIN st /\ st[i] = s[i]
  /\ \A i \in DOMAIN t : i + m \in DOMAIN st /\ st[i + m] = t[i]

LEMMA JoinedAt ==
  ASSUME NEW X, NEW s \in Seq(X), NEW t \in Seq(X)
  PROVE  JoinsAt(s, t, s \o t, Len(s))
<1>1. /\ s \o t \in Seq(X) /\ Len(s \o t) = Len(s) + Len(t) /\ DOMAIN (s \o t) = 1..(Len(s) + Len(t))
      /\ DOMAIN s = 1..Len(s) /\ DOMAIN t = 1..Len(t) /\ Len(s) \in Nat /\ Len(t) \in Nat
  OBVIOUS
<1>2. \A i \in 1..(Len(s) + Len(t)) : (s \o t)[i] = IF i <= Len(s) THEN s[i] ELSE t[i - Len(s)]
  OBVIOUS
<1> DEFINE st == s \o t
           m == Len(s)
           n == Len(t)
<1> HIDE DEF st, m, n
<1>3. /\ DOMAIN st = 1..(m + n) /\ DOMAIN s = 1..m /\ DOMAIN t = 1..n /\ m \in Nat /\ n \in Nat
      /\ \A i \in 1..(m + n) : st[i] = IF i <= m THEN s[i] ELSE t[i - m]
  BY <1>1, <1>2 DEF st, m, n
<1>4. \A i \in DOMAIN st : \/ i \in DOMAIN s /\ st[i] = s[i]
                           \/ i - m \in DOMAIN t /\ st[i] = t[i - m] /\ i \notin DOMAIN s /\ i \in Int
  BY <1>3
<1>5. \A i \in DOMAIN s : i \in DOMAIN st /\ st[i] = s[i]
  BY <1>3
<1>6. \A i \in DOMAIN t : i + m \in DOMAIN st /\ st[i + m] = t[i]
  <2> SUFFICES ASSUME NEW i \in DOMAIN t PROVE i + m \in DOMAIN st /\ st[i + m] = t[i]
    OBVIOUS
  <2>1. i \in Int /\ i + m \in 1..(m + n) /\ ~(i + m <= m) /\ (i + m) - m = i
    BY <1>3
  <2> QED BY <1>3, <2>1
<1>7. JoinsAt(s, t, st, m)
  BY <1>4, <1>5, <1>6 DEF JoinsAt
<1> QED BY <1>7 DEF st, m

LEMMA Referred ==
  ASSUME NEW seq \in Seq(Candidates)
  PROVE  /\ Refs(seq) \in Seq(References) /\ DOMAIN Refs(seq) = DOMAIN seq /\ Len(Refs(seq)) = Len(seq)
         /\ \A n \in DOMAIN seq : Refs(seq)[n] = candidateRefFor(seq[n])
<1>1. DOMAIN seq = 1..Len(seq) /\ Len(seq) \in Nat /\ \A n \in DOMAIN seq : seq[n] \in Candidates
  OBVIOUS
<1>2. \A n \in DOMAIN seq : candidateRefFor(seq[n]) \in References
  BY <1>1 DEF Candidates, candidateRefFor, References
<1>3. Refs(seq) = [n \in 1..Len(seq) |-> candidateRefFor(seq[n])]
  BY <1>1 DEF Refs
<1>4. Refs(seq) \in [1..Len(seq) -> References]
  BY <1>1, <1>2, <1>3
<1>5. Refs(seq) \in Seq(References) /\ Len(Refs(seq)) = Len(seq)
  BY <1>1, <1>4
<1> QED BY <1>1, <1>3, <1>5

\* Every candidate of the gate has a brief or was answered before; what was
\* verified answers each of them, and where there were briefs nothing else.
AnswerInv ==
  /\ stage \in {"investigating", "verified", "reported"} =>
       /\ briefs \in Seq(References) /\ preResolved \in Seq(References)
       /\ active = ToSet(briefs) \cup ToSet(preResolved)
  /\ stage = "investigating" => DOMAIN files = DOMAIN briefs
  /\ stage \in {"verified", "reported"} =>
       /\ \A i \in DOMAIN records : IsEntry(records[i])
       /\ \A c \in active : \E i \in DOMAIN records : records[i].ref = c
       /\ briefs # <<>> => \A i \in DOMAIN records : records[i].ref \in active

LEMMA GateListsTyped ==
  ASSUME GateInv, stage = "gated"
  PROVE  gate.result.toLaunch \in Seq(Candidates) /\ gate.result.platform \in Seq(Candidates)
<1> DEFINE launched == gate.result.toLaunch
           platform == gate.result.platform
<1>1. site \in Windows
  BY DEF GateInv
<1>2. PICK b \in Budgets : gate = [budget |-> b, result |-> GateResult(site, b.size, b.diverse)]
  BY DEF GateInv
<1> DEFINE size == b.size
           diverse == b.diverse
           D == Derived(site)
<1>3. size \in Nat /\ diverse \in BOOLEAN
  BY AuditAssumption
<1>4. launched = GateResult(site, size, diverse).toLaunch /\ platform = GateResult(site, size, diverse).platform
  BY <1>2
<1> HIDE DEF size, diverse, launched, platform
<1>5. launched \in Seq(D) /\ platform \in Seq(D)
  BY <1>1, <1>3, <1>4, GateLists
<1>6. D \subseteq Candidates
  BY DEF Derived
<1> HIDE DEF D
<1>7. \A q \in Seq(D) : q \in Seq(Candidates)
  BY <1>6
<1> QED BY <1>5, <1>7 DEF launched, platform

LEMMA ReconcileAnswers ==
  ASSUME GateInv, AnswerInv, reconcileInvestigation
  PROVE  AnswerInv'
<1> DEFINE launched == gate.result.toLaunch
           platform == gate.result.platform
<1>1. launched \in Seq(Candidates) /\ platform \in Seq(Candidates)
  BY GateListsTyped DEF reconcileInvestigation
<1>2. PICK dropped \in SUBSET (DOMAIN launched) :
        LET kept == Refs(buildManifest(launched, dropped, platform))
            gone == Refs(Keep(launched, dropped)) IN
        \/ /\ stage' = "investigating"
           /\ active' = ToSet(kept) \cup ToSet(gone)
           /\ briefs' = kept /\ preResolved' = gone
           /\ files' = [i \in DOMAIN kept |-> None]
        \/ stage' = "not followed"
  BY DEF reconcileInvestigation
<1> DEFINE rest == Keep(launched, DOMAIN launched \ dropped)
           first == Keep(launched, dropped)
           kept == Refs(rest \o platform)
           gone == Refs(first)
<1> HIDE DEF launched, platform
<1>3. rest \in Seq(Candidates) /\ first \in Seq(Candidates)
  BY <1>1, Kept
<1> HIDE DEF rest, first
<1>4. rest \o platform \in Seq(Candidates)
  BY <1>1, <1>3
<1>5. kept \in Seq(References) /\ gone \in Seq(References)
  BY <1>3, <1>4, Referred
<1>6. CASE stage' = "not followed"
  BY <1>6 DEF AnswerInv
<1>7. CASE /\ stage' = "investigating"
           /\ active' = ToSet(kept) \cup ToSet(gone)
           /\ briefs' = kept /\ preResolved' = gone
           /\ files' = [i \in DOMAIN kept |-> None]
  <2> HIDE DEF kept, gone
  <2> QED BY <1>5, <1>7 DEF AnswerInv
<1> QED BY <1>2, <1>6, <1>7 DEF buildManifest, rest, first

LEMMA SmallSet ==
  ASSUME NEW S, NEW x, S \subseteq {x}
  PROVE  SetToSeq(S) \in Seq(S)
<1>1. IsFiniteSet(S) /\ Cardinality(S) \in Nat
  <2>1. IsFiniteSet({x})
    BY FS_Singleton
  <2> QED BY <2>1, FS_Subset, FS_CardinalityType
<1>2. PICK f : f \in Bijection(1..Cardinality(S), S)
  BY <1>1, FS_CountingElements, FS_CardinalityType, FS_NatBijection DEF ExistsBijection
<1>3. f \in [1..Cardinality(S) -> S] /\ IsInjective(f)
  BY <1>2 DEF Bijection, Injection, IsInjective
<1>4. SetToSeq(S) \in [1..Cardinality(S) -> S]
  BY <1>3 DEF SetToSeq
<1> QED BY <1>1, <1>4

Prefix == [n \in DOMAIN preResolved |-> PreResolved(preResolved[n])]

LEMMA PrefixEntries ==
  ASSUME NEW X, preResolved \in Seq(X)
  PROVE  /\ DOMAIN Prefix = DOMAIN preResolved /\ Prefix \in Seq(ToSet(Prefix))
         /\ \A n \in DOMAIN Prefix : IsEntry(Prefix[n]) /\ Prefix[n].ref = preResolved[n]
<1>1. DOMAIN preResolved = 1..Len(preResolved) /\ Len(preResolved) \in Nat
  OBVIOUS
<1>2. DOMAIN Prefix = DOMAIN preResolved
  BY DEF Prefix
<1>3. \A n \in DOMAIN Prefix : IsEntry(Prefix[n]) /\ Prefix[n].ref = preResolved[n]
  BY DEF Prefix, PreResolved, IsEntry
<1>4. Prefix \in [1..Len(preResolved) -> ToSet(Prefix)]
  BY <1>1 DEF Prefix, ToSet
<1>5. Prefix \in Seq(ToSet(Prefix))
  <2> HIDE DEF Prefix
  <2> QED BY <1>1, <1>4
<1> QED BY <1>2, <1>3, <1>5

\* The answers to the briefs, when the collector refuses nothing.
LEMMA AnsweredInOrder ==
  ASSUME NEW X, briefs \in Seq(X), briefs # <<>>, NEW items, ~Refused(items)
  PROVE  LET answers == Ordered(items) IN
         /\ answers \in Seq(ToSet(answers))
         /\ \A n \in DOMAIN answers : IsEntry(answers[n]) /\ answers[n].ref \in ToSet(briefs)
         /\ \A b \in ToSet(briefs) : \E n \in DOMAIN answers : answers[n].ref = b
         /\ (\A i, j \in DOMAIN briefs : briefs[i] = briefs[j] => i = j) =>
              \A i, j \in DOMAIN answers : answers[i].ref = answers[j].ref => i = j
<1> DEFINE places == {n \in DOMAIN briefs : \E x \in items : x.ref = briefs[n]}
           answered == Keep(briefs, places)
           made(n) == [ref |-> answered[n], rec |-> (CHOOSE x \in items : x.ref = answered[n]).rec]
           answers == Ordered(items)
           N == Cardinality(places)
<1>1. places = DOMAIN briefs
  BY DEF Refused, ToSet
<1>2. answers = [n \in DOMAIN answered |-> made(n)]
  BY DEF Ordered
<1>3. PICK order \in [1..N -> places] :
        /\ DOMAIN answered = 1..N /\ N \in Nat
        /\ \A n \in 1..N : answered[n] = briefs[order[n]]
        /\ \A i \in places : \E n \in 1..N : order[n] = i
        /\ \A m, n \in 1..N : m < n => order[m] < order[n]
  <2>1. places \in SUBSET (DOMAIN briefs)
    OBVIOUS
  <2> HIDE DEF places
  <2> QED BY <2>1, Kept
<1>4. places \subseteq Int
  OBVIOUS
<1> HIDE DEF places, answered, N
<1>5. \A n \in 1..N : IsEntry(made(n)) /\ made(n).ref = answered[n]
  BY DEF IsEntry
<1> HIDE DEF made, answers
<1>6. DOMAIN answers = 1..N /\ \A n \in 1..N : answers[n] = made(n)
  BY <1>2, <1>3
<1>7. answers \in Seq(ToSet(answers))
  <2>1. answers \in [1..N -> ToSet(answers)]
    BY <1>2, <1>3, <1>6 DEF ToSet
  <2> QED BY <1>3, <2>1
<1>8. \A n \in DOMAIN answers : IsEntry(answers[n]) /\ answers[n].ref = briefs[order[n]] /\ order[n] \in DOMAIN briefs
  BY <1>1, <1>3, <1>5, <1>6
<1>9. \A b \in ToSet(briefs) : \E n \in DOMAIN answers : answers[n].ref = b
  BY <1>1, <1>3, <1>6, <1>8 DEF ToSet
<1>10. ASSUME \A i, j \in DOMAIN briefs : briefs[i] = briefs[j] => i = j,
              NEW i \in DOMAIN answers, NEW j \in DOMAIN answers, answers[i].ref = answers[j].ref
       PROVE  i = j
  <2>1. order[i] = order[j]
    BY <1>8, <1>10
  <2>2. order[i] \in Int /\ i \in Int /\ j \in Int /\ i \in 1..N /\ j \in 1..N
    <3>1. i \in 1..N /\ j \in 1..N
      BY <1>6, <1>10
    <3>2. order[i] \in places
      BY <1>3, <3>1
    <3>3. order[i] \in Int
      BY <1>4, <3>2
    <3>4. i \in Int /\ j \in Int
      BY <1>3, <3>1
    <3> QED BY <3>1, <3>3, <3>4
  <2>3. ~(i < j) /\ ~(j < i)
    BY <1>3, <2>1, <2>2
  <2> QED BY <2>2, <2>3
<1>11. \A n \in DOMAIN answers : answers[n].ref \in ToSet(briefs)
  BY <1>8 DEF ToSet
<1> QED BY <1>7, <1>8, <1>9, <1>10, <1>11 DEF answers

\* Without briefs, only what an earlier run left.
LEMMA LeftoverEntries ==
  ASSUME DOMAIN files = {}, briefs = <<>>
  PROVE  LET answers == Ordered(CollectedRecords) IN
         /\ answers \in Seq(ToSet(answers))
         /\ \A n \in DOMAIN answers : IsEntry(answers[n])
<1> DEFINE old == [file |-> 0, place |-> 1, rec |-> stray.rec, ref |-> stray.ref]
           left == {[ref |-> x.ref, rec |-> x.rec] : x \in CollectedRecords}
           answers == Ordered(CollectedRecords)
<1>1. \A x \in CollectedRecords : x = old
  <2> HIDE DEF left, answers
  <2>1. \A x \in LeftBehind : x = old
    BY DEF LeftBehind
  <2>2. {i \in DOMAIN files : files[i] # None} = {}
    OBVIOUS
  <2>3. \A x \in Written : FALSE
    BY <2>2 DEF Written
  <2> HIDE DEF old
  <2> QED BY <2>1, <2>3 DEF CollectedRecords
<1>2. left \subseteq {[ref |-> stray.ref, rec |-> stray.rec]}
  BY <1>1
<1>3. answers = SetToSeq(left)
  BY DEF Ordered
<1>4. \A e \in left : IsEntry(e)
  BY DEF IsEntry
<1> HIDE DEF left, answers
<1>5. answers \in Seq(left)
  BY <1>2, <1>3, SmallSet
<1>6. answers \in Seq(ToSet(answers))
  <2>1. answers \in [1..Len(answers) -> ToSet(answers)] /\ Len(answers) \in Nat
    BY <1>5 DEF ToSet
  <2> QED BY <2>1
<1>7. \A n \in DOMAIN answers : IsEntry(answers[n])
  BY <1>4, <1>5
<1> QED BY <1>6, <1>7 DEF answers

LEMMA CollectAnswers ==
  ASSUME AnswerInv, CollectOutputs
  PROVE  AnswerInv'
<1> DEFINE answers == Ordered(CollectedRecords)
           E == ToSet(Prefix) \cup ToSet(answers)
<1>1. /\ briefs \in Seq(References) /\ preResolved \in Seq(References)
      /\ active = ToSet(briefs) \cup ToSet(preResolved) /\ DOMAIN files = DOMAIN briefs
  BY DEF AnswerInv, CollectOutputs
<1>2. /\ records' = Prefix \o answers /\ stage' = "verified" /\ ~Refused(CollectedRecords)
      /\ active' = active /\ briefs' = briefs /\ preResolved' = preResolved
  BY DEF CollectOutputs, Prefix
<1>3. /\ DOMAIN Prefix = DOMAIN preResolved /\ Prefix \in Seq(ToSet(Prefix))
      /\ \A n \in DOMAIN Prefix : IsEntry(Prefix[n]) /\ Prefix[n].ref = preResolved[n]
  BY <1>1, PrefixEntries
<1>4. /\ answers \in Seq(ToSet(answers))
      /\ \A n \in DOMAIN answers : IsEntry(answers[n])
      /\ briefs # <<>> => \A n \in DOMAIN answers : answers[n].ref \in ToSet(briefs)
      /\ \A b \in ToSet(briefs) : \E n \in DOMAIN answers : answers[n].ref = b
  <2>1. CASE briefs = <<>>
    <3>1. DOMAIN files = {} /\ ToSet(briefs) = {}
      BY <1>1, <2>1 DEF ToSet
    <3>2. /\ answers \in Seq(ToSet(answers))
          /\ \A n \in DOMAIN answers : IsEntry(answers[n])
      BY <2>1, <3>1, LeftoverEntries
    <3> HIDE DEF answers
    <3> QED BY <2>1, <3>1, <3>2
  <2>2. CASE briefs # <<>>
    <3>1. /\ answers \in Seq(ToSet(answers))
          /\ \A n \in DOMAIN answers : IsEntry(answers[n]) /\ answers[n].ref \in ToSet(briefs)
          /\ \A b \in ToSet(briefs) : \E n \in DOMAIN answers : answers[n].ref = b
      BY <1>1, <1>2, <2>2, AnsweredInOrder
    <3> HIDE DEF answers
    <3> QED BY <2>2, <3>1
  <2> QED BY <2>1, <2>2
<1> HIDE DEF answers
<1>5. Prefix \in Seq(E) /\ answers \in Seq(E)
  <2>1. ToSet(Prefix) \subseteq E /\ ToSet(answers) \subseteq E
    OBVIOUS
  <2> HIDE DEF E
  <2> QED BY <1>3, <1>4, <2>1
<1> DEFINE all == Prefix \o answers
           m == Len(Prefix)
<1>joins. JoinsAt(Prefix, answers, all, m)
  <2> HIDE DEF E
  <2> QED BY <1>5, JoinedAt
<1> HIDE DEF all, m
<1>6. /\ \A i \in DOMAIN all : \/ i \in DOMAIN Prefix /\ all[i] = Prefix[i]
                               \/ i - m \in DOMAIN answers /\ all[i] = answers[i - m]
      /\ \A i \in DOMAIN Prefix : i \in DOMAIN all /\ all[i] = Prefix[i]
      /\ \A i \in DOMAIN answers : i + m \in DOMAIN all /\ all[i + m] = answers[i]
  BY <1>joins DEF JoinsAt
<1>7. records' = all
  BY <1>2 DEF all
<1>8. \A i \in DOMAIN all : IsEntry(all[i])
  BY <1>3, <1>4, <1>6
<1>9. ASSUME NEW c \in active PROVE \E i \in DOMAIN all : all[i].ref = c
  <2>1. CASE c \in ToSet(briefs)
    BY <1>4, <1>6, <2>1
  <2>2. CASE c \in ToSet(preResolved)
    <3>1. PICK n \in DOMAIN preResolved : preResolved[n] = c
      BY <2>2 DEF ToSet
    <3> QED BY <1>3, <1>6, <3>1
  <2> QED BY <1>1, <1>9, <2>1, <2>2
<1>10. ASSUME briefs # <<>>, NEW i \in DOMAIN all PROVE all[i].ref \in active
  <2>1. CASE i \in DOMAIN Prefix /\ all[i] = Prefix[i]
    BY <1>1, <1>3, <2>1 DEF ToSet
  <2>2. CASE i - m \in DOMAIN answers /\ all[i] = answers[i - m]
    BY <1>1, <1>4, <1>10, <2>2
  <2> QED BY <1>6, <2>1, <2>2
<1> QED BY <1>1, <1>2, <1>7, <1>8, <1>9, <1>10 DEF AnswerInv

\* A regenerated record keeps its reference.
LEMMA RegeneratedEntries ==
  ASSUME NEW i \in DOMAIN records, NEW d, IsEntry(records[i]),
         records' = [records EXCEPT ![i].rec = d] \/ records' = records
  PROVE  /\ DOMAIN records' = DOMAIN records
         /\ \A j \in DOMAIN records : records'[j].ref = records[j].ref
         /\ \A j \in DOMAIN records : IsEntry(records[j]) => IsEntry(records'[j])
<1> DEFINE old == records[i]
           new == [old EXCEPT !.rec = d]
<1>1. old = [ref |-> old.ref, rec |-> old.rec]
  BY DEF IsEntry
<1> DEFINE r == old.ref
<1>2. new = [ref |-> r, rec |-> d]
  BY <1>1
<1>3. new.ref = old.ref /\ IsEntry(new)
  BY <1>2 DEF IsEntry
<1>4. CASE records' = [records EXCEPT ![i].rec = d]
  <2>1. DOMAIN records' = DOMAIN records /\ \A j \in DOMAIN records : records'[j] = IF j = i THEN new ELSE records[j]
    BY <1>4
  <2> HIDE DEF new
  <2> QED BY <1>3, <2>1
<1> QED BY <1>4

LEMMA RegenerateAnswers ==
  ASSUME AnswerInv, NEW i \in DOMAIN records, Regenerate(i)
  PROVE  AnswerInv'
<1>1. PICK d \in Drafts : records' = IF d.failed = "none" THEN [records EXCEPT ![i].rec = d] ELSE records
  BY DEF Regenerate
<1>2. /\ \A j \in DOMAIN records : IsEntry(records[j])
      /\ \A c \in active : \E j \in DOMAIN records : records[j].ref = c
      /\ briefs # <<>> => \A j \in DOMAIN records : records[j].ref \in active
      /\ briefs \in Seq(References) /\ preResolved \in Seq(References)
      /\ active = ToSet(briefs) \cup ToSet(preResolved)
  BY DEF AnswerInv, Regenerate
<1>3. /\ DOMAIN records' = DOMAIN records
      /\ \A j \in DOMAIN records : records'[j].ref = records[j].ref
      /\ \A j \in DOMAIN records : IsEntry(records'[j])
  <2>1. records' = [records EXCEPT ![i].rec = d] \/ records' = records
    BY <1>1
  <2> QED BY <1>2, <2>1, RegeneratedEntries
<1>4. stage' = "verified" /\ active' = active /\ briefs' = briefs /\ preResolved' = preResolved
  BY DEF Regenerate
<1> QED BY <1>2, <1>3, <1>4 DEF AnswerInv

\* Every candidate of the gate is answered, also through the regenerations, and
\* with briefs nothing else is (reconcileInvestigation, collect-sub-agent-outputs,
\* verify-and-regen).
THEOREM AllAnswered == Spec => []AnswerInv
<1>1. Init => AnswerInv
  BY DEF Init, AnswerInv
<1>2. GateInv /\ AnswerInv /\ [Next]_vars => AnswerInv'
  <2> SUFFICES ASSUME GateInv, AnswerInv, [Next]_vars PROVE AnswerInv'
    OBVIOUS
  <2>1. CASE GateInvestigations
    BY <2>1 DEF AnswerInv, GateInvestigations
  <2>2. CASE reconcileInvestigation
    BY <2>2, ReconcileAnswers
  <2>3. ASSUME NEW i \in 1..MaxBriefs, Write(i) PROVE AnswerInv'
    <3>1. DOMAIN files' = DOMAIN files /\ stage' = "investigating" /\ stage = "investigating"
      BY <2>3 DEF Write
    <3> QED BY <2>3, <3>1 DEF AnswerInv, Write
  <2>4. CASE CleanUp
    BY <2>4 DEF AnswerInv, CleanUp
  <2>5. CASE CollectOutputs
    BY <2>5, CollectAnswers
  <2>6. ASSUME NEW i \in DOMAIN records, Regenerate(i) PROVE AnswerInv'
    BY <2>6, RegenerateAnswers
  <2>7. CASE RenderReport
    BY <2>7 DEF AnswerInv, RenderReport
  <2>8. CASE UNCHANGED vars
    BY <2>8 DEF AnswerInv, vars
  <2> QED BY <2>1, <2>2, <2>3, <2>4, <2>5, <2>6, <2>7, <2>8 DEF Next
<1> QED BY <1>1, <1>2, GateTyped, PTL DEF Spec

\* Nothing is ready in the report that failed a check, waits for a review, is
\* poor or is of no candidate of this audit (verify-and-regen, render-report).
THEOREM ReadyStaysSound == Spec => []ReadyIsSound
<1>1. AnswerInv => ReadyIsSound
  <2> SUFFICES ASSUME AnswerInv, stage = "reported", NEW i \in Ready
               PROVE  /\ ~rec(i).abstain /\ ~rec(i).unsafe /\ rec(i).failed = "none"
                      /\ ~rec(i).poor /\ ~rec(i).review
                      /\ briefs # <<>> => records[i].ref \in active
                      /\ active # {} => \E c \in active : candidateMatchesRef(c, records[i].ref)
    BY DEF ReadyIsSound
  <2>1. i \in Renderable /\ Current(records[i].ref)
    BY DEF Ready
  <2>2. i \in verifiedRecommendations /\ ~rec(i).poor
    BY <2>1 DEF Renderable
  <2>3. i \in RecsGraded /\ i \notin regenPlan /\ i \notin needsReviewIndexes
    BY <2>2 DEF verifiedRecommendations, withheldRecommendations
  <2>4. i \in DOMAIN records /\ i \notin Abstentions /\ i \notin SanitizerDropped
    BY <2>3 DEF RecsGraded
  <2>5. ~rec(i).abstain
    BY <2>4 DEF Abstentions
  <2>6. ~rec(i).unsafe
    BY <2>4, <2>5 DEF SanitizerDropped
  <2>7. rec(i).failed = "none" /\ ~rec(i).review
    BY <2>3 DEF regenPlan, needsReviewIndexes
  <2>8. briefs # <<>> => records[i].ref \in active
    BY <2>4 DEF AnswerInv
  <2>9. active # {} => \E c \in active : candidateMatchesRef(c, records[i].ref)
    BY <2>1 DEF Current
  <2> QED BY <2>2, <2>5, <2>6, <2>7, <2>8, <2>9
<1> QED BY <1>1, AllAnswered, PTL

-----------------------------------------------------------------------------
(* One record for each candidate, where a page's name decodes to itself     *)

\* canonicalizeRoute changes no name it has made itself.
PagesFixed == \A p \in Pages : Page(p) = p

Apart(seq) == \A i, j \in DOMAIN seq : candidateRefFor(seq[i]) = candidateRefFor(seq[j]) => i = j
Sundered(s, t) == \A c \in ToSet(s), d \in ToSet(t) : candidateRefFor(c) # candidateRefFor(d)

LEMMA PageOfPage ==
  ASSUME PagesFixed, NEW t
  PROVE  Page(Page(t)) = Page(t)
BY DEF PagesFixed, Page, Pages

LEMMA AccountPage == \A t \in Labels : Page(t) = Account => t = Account
BY NamesAssumption, Places DEF Page, Pages

LEMMA DedupedApart ==
  ASSUME PagesFixed, NEW w \in Windows
  PROVE  Apart(Deduplicated(w).deduped)
<1> DEFINE seq == Ranking(w)
           canon == [i \in DOMAIN seq |-> Canonical(seq, i)]
           first == Survivors(seq)
           kept == Keep(canon, first)
<1>1. /\ seq \in Seq(Candidates) /\ ToSet(seq) = Annotated(w)
      /\ \A i, j \in DOMAIN seq : seq[i] = seq[j] => i = j
  BY SortedCandidates
<1>2. Deduplicated(w).deduped = kept
  BY DEF Deduplicated, Ranking, Annotated, dedupeCandidates
<1>3. DOMAIN seq = 1..Len(seq) /\ Len(seq) \in Nat /\ \A i \in DOMAIN seq : seq[i] \in Annotated(w)
  BY <1>1 DEF ToSet
<1>4. \A i \in DOMAIN seq : seq[i] \in Candidates /\ seq[i].target = seq[i].label /\ seq[i].target \in Labels
  BY <1>3, AnnotatedFrom DEF Candidates
<1>5. \A i \in DOMAIN seq : canon[i] \in Candidates /\ candidateRefFor(canon[i]) = candidateKey(seq[i])
  <2> SUFFICES ASSUME NEW i \in DOMAIN seq
               PROVE  canon[i] \in Candidates /\ candidateRefFor(canon[i]) = candidateKey(seq[i])
    OBVIOUS
  <2> DEFINE c == Canonical(seq, i)
  <2>1. c \in Candidates /\ c.kind = seq[i].kind /\ c.target \in {Page(seq[i].target), Page(Page(seq[i].target))}
    <3> HIDE DEF seq
    <3> QED BY <1>1, CanonicalKeeps
  <2>2. c.target = Page(seq[i].target)
    BY <2>1, PageOfPage
  <2>3. canon[i] = c
    OBVIOUS
  <2> HIDE DEF c, canon
  <2> QED BY <2>1, <2>2, <2>3 DEF candidateRefFor, candidateKey
<1> HIDE DEF seq
<1>6. canon \in Seq(Candidates) /\ DOMAIN canon = DOMAIN seq
  <2>1. canon \in [1..Len(seq) -> Candidates]
    BY <1>3, <1>5
  <2> QED BY <1>3, <2>1
<1>7. first \subseteq DOMAIN seq
  BY DEF Survivors
<1>8. ASSUME NEW i \in first, NEW j \in first, candidateKey(seq[i]) = candidateKey(seq[j]), i < j
      PROVE  FALSE
  <2>1. i \in 1..(j - 1)
    BY <1>3, <1>7, <1>8
  <2>2. scopeOf(seq[j]) = "account"
    BY <1>8, <2>1 DEF Survivors
  <2>3. seq[j].target = Account
    BY <2>2 DEF scopeOf
  <2>4. seq[i].kind = seq[j].kind /\ Page(seq[i].target) = Page(seq[j].target)
    BY <1>8 DEF candidateKey
  <2>5. Page(Account) = Account
    BY NamesAssumption DEF Page
  <2>6. seq[i].target = Account
    BY <1>4, <1>7, <2>3, <2>4, <2>5, AccountPage
  <2>7. seq[i].label = seq[j].label /\ seq[i] \in Annotated(w) /\ seq[j] \in Annotated(w)
    BY <1>3, <1>4, <1>7, <2>3, <2>6
  <2>8. seq[i] = seq[j]
    BY <2>4, <2>7, AnnotatedApart
  <2>9. i = j
    BY <1>1, <1>7, <2>8
  <2> QED BY <1>3, <1>7, <1>8, <2>9
<1>9. ASSUME NEW i \in first, NEW j \in first, candidateKey(seq[i]) = candidateKey(seq[j])
      PROVE  i = j
  <2>1. i \in Int /\ j \in Int
    BY <1>3, <1>7
  <2> QED BY <1>8, <1>9, <2>1
<1> DEFINE N == Cardinality(first)
<1>10. PICK order \in [1..N -> first] :
        /\ DOMAIN kept = 1..N /\ N \in Nat
        /\ \A n \in 1..N : kept[n] = canon[order[n]]
        /\ \A m, n \in 1..N : m < n => order[m] < order[n]
  <2> HIDE DEF canon, first
  <2> QED BY <1>6, <1>7, Kept
<1> HIDE DEF canon, first, kept, N
<1>11. ASSUME NEW m \in DOMAIN kept, NEW n \in DOMAIN kept, candidateRefFor(kept[m]) = candidateRefFor(kept[n])
       PROVE  m = n
  <2>1. m \in 1..N /\ n \in 1..N
    BY <1>10
  <2>2. order[m] \in first /\ order[n] \in first
    BY <1>10, <2>1
  <2>3. candidateKey(seq[order[m]]) = candidateKey(seq[order[n]])
    BY <1>5, <1>7, <1>10, <1>11, <2>1, <2>2
  <2>4. order[m] = order[n]
    BY <1>9, <2>2, <2>3
  <2>5. order[m] \in Int /\ m \in Int /\ n \in Int
    BY <1>3, <1>7, <1>10, <2>1, <2>2
  <2>6. ~(m < n) /\ ~(n < m)
    BY <1>10, <2>1, <2>4, <2>5
  <2> QED BY <2>5, <2>6
<1> QED BY <1>2, <1>11 DEF Apart

LEMMA KeepsApart ==
  ASSUME NEW X, NEW seq \in Seq(X), NEW places \in SUBSET (DOMAIN seq), Apart(seq)
  PROVE  Apart(Keep(seq, places))
<1> DEFINE N == Cardinality(places)
           kept == Keep(seq, places)
<1>1. PICK order \in [1..N -> places] :
        /\ DOMAIN kept = 1..N /\ N \in Nat
        /\ \A n \in 1..N : kept[n] = seq[order[n]]
        /\ \A m, n \in 1..N : m < n => order[m] < order[n]
  <2>1. N \in Nat /\ DOMAIN kept = 1..N
    BY Kept
  <2>2. \E order \in [1..N -> places] :
          /\ \A n \in 1..N : kept[n] = seq[order[n]]
          /\ \A i \in places : \E n \in 1..N : order[n] = i
          /\ \A m, n \in 1..N : m < n => order[m] < order[n]
    BY Kept
  <2> HIDE DEF kept, N
  <2> QED BY <2>1, <2>2
<1>2. places \subseteq Int
  OBVIOUS
<1> HIDE DEF kept, N
<1> SUFFICES ASSUME NEW m \in DOMAIN kept, NEW n \in DOMAIN kept, candidateRefFor(kept[m]) = candidateRefFor(kept[n])
             PROVE  m = n
  BY DEF Apart, kept
<1>3. m \in 1..N /\ n \in 1..N /\ order[m] \in places /\ order[n] \in places
  BY <1>1
<1>4. order[m] = order[n]
  BY <1>1, <1>3 DEF Apart
<1>5. order[m] \in Int /\ m \in Int /\ n \in Int
  BY <1>1, <1>2, <1>3
<1>6. ~(m < n) /\ ~(n < m)
  BY <1>1, <1>3, <1>4, <1>5
<1> QED BY <1>5, <1>6

LEMMA KeepsSundered ==
  ASSUME NEW X, NEW seq \in Seq(X), Apart(seq),
         NEW some \in SUBSET (DOMAIN seq), NEW others \in SUBSET (DOMAIN seq), some \cap others = {}
  PROVE  Sundered(Keep(seq, some), Keep(seq, others))
<1>1. ToSet(Keep(seq, some)) = {seq[i] : i \in some} /\ ToSet(Keep(seq, others)) = {seq[i] : i \in others}
  BY KeptMembers
<1>2. \A i \in some, j \in others : candidateRefFor(seq[i]) # candidateRefFor(seq[j])
  BY DEF Apart
<1> QED BY <1>1, <1>2 DEF Sundered

LEMMA SelectedApart ==
  ASSUME NEW X, NEW pool \in Seq(X), NEW budget \in Nat, NEW diversify \in BOOLEAN, Apart(pool)
  PROVE  /\ Apart(Chosen(pool, budget, diversify))
         /\ ToSet(Chosen(pool, budget, diversify)) \subseteq ToSet(pool)
<1> DEFINE chosen == Chosen(pool, budget, diversify)
           turns == Turns(pool, diversify)
<1>1. SelectionFacts(X, pool, budget, diversify)
  BY Selection
<1>2. /\ chosen \in Seq(X) /\ Len(chosen) <= Len(pool)
      /\ \A t \in 1..Len(chosen) : chosen[t] = pool[turns[t]]
      /\ ToSet(chosen) \subseteq ToSet(pool)
  BY <1>1 DEF SelectionFacts
<1>3. \A t \in 1..Len(pool) : turns[t] \in DOMAIN pool
  BY EveryTurn
<1>4. \A t, u \in 1..Len(pool) : t # u => turns[t] # turns[u]
  BY TurnsDiffer
<1> HIDE DEF chosen, turns
<1>5. DOMAIN chosen = 1..Len(chosen) /\ Len(chosen) \in Nat /\ Len(pool) \in Nat
  BY <1>2
<1>6. \A t \in DOMAIN chosen : t \in 1..Len(pool)
  BY <1>2, <1>5
<1>7. ASSUME NEW t \in DOMAIN chosen, NEW u \in DOMAIN chosen, candidateRefFor(chosen[t]) = candidateRefFor(chosen[u])
      PROVE  t = u
  <2>1. turns[t] = turns[u]
    BY <1>2, <1>3, <1>5, <1>6, <1>7 DEF Apart
  <2> QED BY <1>4, <1>6, <2>1
<1> QED BY <1>2, <1>7 DEF Apart, chosen

LEMMA GateApart ==
  ASSUME PagesFixed, NEW w \in Windows, NEW budget \in Nat, NEW diversify \in BOOLEAN
  PROVE  LET g == GateResult(w, budget, diversify) IN
         Apart(g.toLaunch) /\ Apart(g.platform) /\ Sundered(g.toLaunch, g.platform)
<1> DEFINE all == Deduplicated(w).deduped
           P == PlatformPlaces(all)
           R == SoundPlaces(all) \ PlatformPlaces(all)
           pool == Keep(all, R)
           chosen == Chosen(pool, budget, diversify)
           platform == Keep(all, P)
<1>1. all \in Seq(Derived(w)) /\ Apart(all)
  BY Deduped, DedupedApart
<1>2. GateResult(w, budget, diversify).toLaunch = chosen /\ GateResult(w, budget, diversify).platform = platform
  BY GateShape DEF Pool
<1> HIDE DEF all
<1>3. P \in SUBSET (DOMAIN all) /\ R \in SUBSET (DOMAIN all) /\ R \cap P = {}
  BY <1>1, PlacesApart
<1> HIDE DEF P, R
<1>4. pool \in Seq(Derived(w)) /\ Apart(pool) /\ Apart(platform) /\ Sundered(pool, platform)
  BY <1>1, <1>3, Kept, KeepsApart, KeepsSundered
<1> HIDE DEF pool, platform
<1>5. Apart(chosen) /\ ToSet(chosen) \subseteq ToSet(pool)
  BY <1>4, SelectedApart
<1>6. Sundered(chosen, platform)
  BY <1>4, <1>5 DEF Sundered
<1> QED BY <1>2, <1>4, <1>5, <1>6

LEMMA JoinedApart ==
  ASSUME NEW X, NEW s \in Seq(X), NEW t \in Seq(X), Apart(s), Apart(t), Sundered(s, t)
  PROVE  Apart(s \o t) /\ ToSet(s \o t) \subseteq ToSet(s) \cup ToSet(t)
<1> DEFINE st == s \o t
           m == Len(s)
<1>1. JoinsAt(s, t, st, m)
  BY JoinedAt
<1>2. m \in Int
  OBVIOUS
<1> HIDE DEF st, m
<1>3. \A i \in DOMAIN st : \/ i \in DOMAIN s /\ st[i] = s[i]
                           \/ i - m \in DOMAIN t /\ st[i] = t[i - m] /\ i \in Int
  BY <1>1 DEF JoinsAt
<1>4. \A i \in DOMAIN s, j \in DOMAIN t : candidateRefFor(s[i]) # candidateRefFor(t[j])
  BY DEF Sundered, ToSet
<1>5. ASSUME NEW i \in DOMAIN st, NEW j \in DOMAIN st, candidateRefFor(st[i]) = candidateRefFor(st[j])
      PROVE  i = j
  <2>1. CASE (i \in DOMAIN s /\ st[i] = s[i]) /\ (j \in DOMAIN s /\ st[j] = s[j])
    BY <1>5, <2>1 DEF Apart
  <2>2. CASE (i - m \in DOMAIN t /\ st[i] = t[i - m] /\ i \in Int) /\ (j - m \in DOMAIN t /\ st[j] = t[j - m] /\ j \in Int)
    <3>1. i - m = j - m
      BY <1>5, <2>2 DEF Apart
    <3> QED BY <1>2, <2>2, <3>1
  <2> QED BY <1>3, <1>4, <1>5, <2>1, <2>2
<1>6. ToSet(st) \subseteq ToSet(s) \cup ToSet(t)
  BY <1>3 DEF ToSet
<1> QED BY <1>5, <1>6 DEF Apart, st

LEMMA GateListsApart ==
  ASSUME PagesFixed, GateInv, stage = "gated"
  PROVE  LET g == gate.result IN
         Apart(g.toLaunch) /\ Apart(g.platform) /\ Sundered(g.toLaunch, g.platform)
<1>1. site \in Windows
  BY DEF GateInv
<1>2. PICK b \in Budgets : gate = [budget |-> b, result |-> GateResult(site, b.size, b.diverse)]
  BY DEF GateInv
<1> DEFINE size == b.size
           diverse == b.diverse
<1>3. size \in Nat /\ diverse \in BOOLEAN
  BY AuditAssumption
<1>4. gate.result = GateResult(site, size, diverse)
  BY <1>2
<1> HIDE DEF size, diverse
<1> QED BY <1>1, <1>3, <1>4, GateApart

Once(seq) == \A i, j \in DOMAIN seq : seq[i] = seq[j] => i = j
NoneShared(s, t) == \A i \in DOMAIN s, j \in DOMAIN t : s[i] # t[j]

LEMMA RefsOnce ==
  ASSUME NEW s \in Seq(Candidates), NEW t \in Seq(Candidates), Apart(s), Apart(t), Sundered(s, t)
  PROVE  Once(Refs(s)) /\ Once(Refs(t)) /\ NoneShared(Refs(s), Refs(t))
<1>1. /\ DOMAIN Refs(s) = DOMAIN s /\ \A n \in DOMAIN s : Refs(s)[n] = candidateRefFor(s[n])
      /\ DOMAIN Refs(t) = DOMAIN t /\ \A n \in DOMAIN t : Refs(t)[n] = candidateRefFor(t[n])
  BY Referred
<1>2. Once(Refs(s)) /\ Once(Refs(t))
  BY <1>1 DEF Once, Apart
<1>3. NoneShared(Refs(s), Refs(t))
  BY <1>1 DEF NoneShared, Sundered, ToSet
<1> QED BY <1>2, <1>3

\* No two briefs, no two records answered before, and no brief and such a
\* record are of one candidate; no two records are.
ApartInv ==
  /\ stage \in {"investigating", "verified", "reported"} =>
       Once(briefs) /\ Once(preResolved) /\ NoneShared(briefs, preResolved)
  /\ stage \in {"verified", "reported"} =>
       (briefs # <<>> => \A i, j \in DOMAIN records : records[i].ref = records[j].ref => i = j)

LEMMA ReconcileApart ==
  ASSUME PagesFixed, GateInv, reconcileInvestigation
  PROVE  ApartInv'
<1> DEFINE launched == gate.result.toLaunch
           platform == gate.result.platform
<1>1. launched \in Seq(Candidates) /\ platform \in Seq(Candidates)
  BY GateListsTyped DEF reconcileInvestigation
<1>2. Apart(launched) /\ Apart(platform) /\ Sundered(launched, platform)
  BY GateListsApart DEF reconcileInvestigation
<1>3. PICK dropped \in SUBSET (DOMAIN launched) :
        LET kept == Refs(buildManifest(launched, dropped, platform))
            gone == Refs(Keep(launched, dropped)) IN
        \/ stage' = "investigating" /\ briefs' = kept /\ preResolved' = gone
        \/ stage' = "not followed"
  BY DEF reconcileInvestigation
<1> DEFINE rest == Keep(launched, DOMAIN launched \ dropped)
           first == Keep(launched, dropped)
           manifest == rest \o platform
<1> HIDE DEF launched, platform
<1>4. rest \in Seq(Candidates) /\ first \in Seq(Candidates)
  BY <1>1, Kept
<1>5. ToSet(rest) \subseteq ToSet(launched) /\ ToSet(first) \subseteq ToSet(launched)
  <2>1. ToSet(first) = {launched[i] : i \in dropped}
    BY <1>1, KeptMembers
  <2>2. ToSet(rest) = {launched[i] : i \in DOMAIN launched \ dropped}
    BY <1>1, KeptMembers
  <2> HIDE DEF first, rest
  <2> QED BY <2>1, <2>2 DEF ToSet
<1>6. Apart(rest) /\ Apart(first)
  BY <1>1, <1>2, KeepsApart
<1>7. Sundered(rest, first)
  BY <1>1, <1>2, KeepsSundered
<1> HIDE DEF rest, first
<1>8. Sundered(rest, platform) /\ Sundered(platform, first)
  BY <1>2, <1>5 DEF Sundered
<1>9. manifest \in Seq(Candidates)
  BY <1>1, <1>4
<1>10. Apart(manifest) /\ ToSet(manifest) \subseteq ToSet(rest) \cup ToSet(platform)
  BY <1>1, <1>2, <1>4, <1>6, <1>8, JoinedApart
<1> HIDE DEF manifest
<1>11. Sundered(manifest, first)
  BY <1>7, <1>8, <1>10 DEF Sundered
<1>12. Once(Refs(manifest)) /\ Once(Refs(first)) /\ NoneShared(Refs(manifest), Refs(first))
  BY <1>4, <1>6, <1>9, <1>10, <1>11, RefsOnce
<1>13. \/ stage' = "investigating" /\ briefs' = Refs(manifest) /\ preResolved' = Refs(first)
       \/ stage' = "not followed"
  BY <1>3 DEF buildManifest, rest, first, manifest
<1>14. CASE stage' = "not followed"
  BY <1>14 DEF ApartInv
<1>15. CASE stage' = "investigating" /\ briefs' = Refs(manifest) /\ preResolved' = Refs(first)
  BY <1>12, <1>15 DEF ApartInv
<1> QED BY <1>13, <1>14, <1>15

LEMMA CollectApart ==
  ASSUME AnswerInv, ApartInv, CollectOutputs
  PROVE  ApartInv'
<1> DEFINE answers == Ordered(CollectedRecords)
           E == ToSet(Prefix) \cup ToSet(answers)
<1>1. /\ briefs \in Seq(References) /\ preResolved \in Seq(References)
      /\ Once(briefs) /\ Once(preResolved) /\ NoneShared(briefs, preResolved)
  BY DEF AnswerInv, ApartInv, CollectOutputs
<1>2. /\ records' = Prefix \o answers /\ stage' = "verified" /\ ~Refused(CollectedRecords)
      /\ briefs' = briefs /\ preResolved' = preResolved
  BY DEF CollectOutputs, Prefix
<1>3. /\ DOMAIN Prefix = DOMAIN preResolved /\ Prefix \in Seq(ToSet(Prefix))
      /\ \A n \in DOMAIN Prefix : Prefix[n].ref = preResolved[n]
  BY <1>1, PrefixEntries
<1>4. CASE briefs = <<>>
  BY <1>1, <1>2, <1>4 DEF ApartInv
<1>5. CASE briefs # <<>>
  <2>1. /\ answers \in Seq(ToSet(answers))
        /\ \A n \in DOMAIN answers : answers[n].ref \in ToSet(briefs)
    BY <1>1, <1>2, <1>5, AnsweredInOrder
  <2>2. \A i, j \in DOMAIN answers : answers[i].ref = answers[j].ref => i = j
    <3>1. \A i, j \in DOMAIN briefs : briefs[i] = briefs[j] => i = j
      BY <1>1 DEF Once
    <3> QED BY <1>1, <1>2, <1>5, <3>1, AnsweredInOrder
  <2> HIDE DEF answers
  <2>3. Prefix \in Seq(E) /\ answers \in Seq(E)
    <3>1. ToSet(Prefix) \subseteq E /\ ToSet(answers) \subseteq E
      OBVIOUS
    <3> HIDE DEF E
    <3> QED BY <1>3, <2>1, <3>1
  <2> DEFINE all == Prefix \o answers
             m == Len(Prefix)
  <2>4. JoinsAt(Prefix, answers, all, m)
    <3> HIDE DEF E
    <3> QED BY <2>3, JoinedAt
  <2>5. m \in Int
    BY <2>3
  <2> HIDE DEF all, m, E
  <2>6. \A i \in DOMAIN all : \/ i \in DOMAIN Prefix /\ all[i] = Prefix[i]
                              \/ i - m \in DOMAIN answers /\ all[i] = answers[i - m] /\ i \in Int
    BY <2>4 DEF JoinsAt
  <2>7. \A i \in DOMAIN Prefix, j \in DOMAIN answers : Prefix[i].ref # answers[j].ref
    BY <1>1, <1>3, <2>1 DEF NoneShared, ToSet
  <2>8. \A i, j \in DOMAIN Prefix : Prefix[i].ref = Prefix[j].ref => i = j
    BY <1>1, <1>3 DEF Once
  <2>9. ASSUME NEW i \in DOMAIN all, NEW j \in DOMAIN all, all[i].ref = all[j].ref
        PROVE  i = j
    <3>1. CASE (i \in DOMAIN Prefix /\ all[i] = Prefix[i]) /\ (j \in DOMAIN Prefix /\ all[j] = Prefix[j])
      BY <2>8, <2>9, <3>1
    <3>2. CASE (i - m \in DOMAIN answers /\ all[i] = answers[i - m] /\ i \in Int)
                 /\ (j - m \in DOMAIN answers /\ all[j] = answers[j - m] /\ j \in Int)
      <4>1. i - m = j - m
        BY <2>2, <2>9, <3>2
      <4> QED BY <2>5, <3>2, <4>1
    <3> QED BY <2>6, <2>7, <2>9, <3>1, <3>2
  <2>10. records' = all
    BY <1>2 DEF all
  <2> QED BY <1>1, <1>2, <2>9, <2>10 DEF ApartInv
<1> QED BY <1>4, <1>5

LEMMA RegenerateApart ==
  ASSUME AnswerInv, ApartInv, NEW i \in DOMAIN records, Regenerate(i)
  PROVE  ApartInv'
<1>1. PICK d \in Drafts : records' = IF d.failed = "none" THEN [records EXCEPT ![i].rec = d] ELSE records
  BY DEF Regenerate
<1>2. \A j \in DOMAIN records : IsEntry(records[j])
  BY DEF AnswerInv, Regenerate
<1>3. DOMAIN records' = DOMAIN records /\ \A j \in DOMAIN records : records'[j].ref = records[j].ref
  <2>1. records' = [records EXCEPT ![i].rec = d] \/ records' = records
    BY <1>1
  <2> QED BY <1>2, <2>1, RegeneratedEntries
<1>4. /\ stage = "verified" /\ stage' = "verified" /\ briefs' = briefs /\ preResolved' = preResolved
  BY DEF Regenerate
<1> QED BY <1>3, <1>4 DEF ApartInv

\* Where a page's name decodes to itself, every candidate of the gate is
\* answered by one record, and where there were briefs nothing else is, whatever
\* the investigators write and an earlier run has left (collect-sub-agent-outputs).
THEOREM OneRecordEach == PagesFixed => (Spec => []OneRecordPerCandidate)
<1> SUFFICES ASSUME PagesFixed PROVE Spec => []OneRecordPerCandidate
  OBVIOUS
<1>1. Init => ApartInv
  BY DEF Init, ApartInv
<1>2. GateInv /\ AnswerInv /\ ApartInv /\ [Next]_vars => ApartInv'
  <2> SUFFICES ASSUME GateInv, AnswerInv, ApartInv, [Next]_vars PROVE ApartInv'
    OBVIOUS
  <2>1. CASE GateInvestigations
    BY <2>1 DEF ApartInv, GateInvestigations
  <2>2. CASE reconcileInvestigation
    BY <2>2, ReconcileApart
  <2>3. ASSUME NEW i \in 1..MaxBriefs, Write(i) PROVE ApartInv'
    BY <2>3 DEF ApartInv, Write
  <2>4. CASE CleanUp
    BY <2>4 DEF ApartInv, CleanUp
  <2>5. CASE CollectOutputs
    BY <2>5, CollectApart
  <2>6. ASSUME NEW i \in DOMAIN records, Regenerate(i) PROVE ApartInv'
    BY <2>6, RegenerateApart
  <2>7. CASE RenderReport
    BY <2>7 DEF ApartInv, RenderReport
  <2>8. CASE UNCHANGED vars
    BY <2>8 DEF ApartInv, vars
  <2> QED BY <2>1, <2>2, <2>3, <2>4, <2>5, <2>6, <2>7, <2>8 DEF Next
<1>3. AnswerInv /\ ApartInv => OneRecordPerCandidate
  BY DEF AnswerInv, ApartInv, OneRecordPerCandidate
<1> QED BY <1>1, <1>2, <1>3, GateTyped, AllAnswered, PTL DEF Spec
=============================================================================
