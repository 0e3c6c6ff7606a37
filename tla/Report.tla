-------------------------------- MODULE Report --------------------------------
(***************************************************************************)
(* Aggregate of internal/audit/report.go: one pass over the events of the   *)
(* audit log, from which the report of a kind of statement is made. The      *)
(* lists of fingerprints and errors, the timeline and the rendering are left *)
(* out.                                                                      *)
(***************************************************************************)
EXTENDS Naturals, Sequences, FiniteSets, SequencesExt

Kinds     == {"biz.select", "table.show_tables"}
Decisions == {"forwarded", "forwarded_ordered", "cache_hit"}
Forwards  == {"forwarded", "forwarded_ordered"}

\* The maps before the first event; a missing entry is a zero one.
NoCounts ==
  [ordered    |-> 0,
   byDecision |-> [k \in Kinds |-> [d \in Decisions |-> 0]],
   total      |-> [k \in Kinds |-> 0],
   latencies  |-> [k \in Kinds |-> <<>>]]

\* One round of the loop.
Count(s, e) ==
  [ordered    |-> IF e.decision = "forwarded_ordered" THEN s.ordered + 1 ELSE s.ordered,
   byDecision |-> [s.byDecision EXCEPT ![e.kind][e.decision] = @ + 1],
   total      |-> [s.total EXCEPT ![e.kind] = @ + 1],
   latencies  |-> IF e.decision \notin Forwards THEN s.latencies
                  ELSE [s.latencies EXCEPT ![e.kind] = Append(@, e.latency)]]

\* Mutant: the values are not sorted.
MutPercentile(vals, p) ==
  LET idx == (Len(vals) * p) \div 100
  IN  IF vals = <<>> THEN 0
      ELSE vals[(IF idx >= Len(vals) THEN Len(vals) - 1 ELSE idx) + 1]

\* sort.Slice: at place r comes the value of rank r.
Rank(vals, k) ==
  Cardinality({j \in DOMAIN vals : vals[j] < vals[k] \/ (vals[j] = vals[k] /\ j <= k)})

Sorted(vals) == [r \in DOMAIN vals |-> vals[CHOOSE k \in DOMAIN vals : Rank(vals, k) = r]]

Percentile(vals, p) ==
  LET idx == (Len(vals) * p) \div 100
  IN  IF vals = <<>> THEN 0
      ELSE Sorted(vals)[(IF idx >= Len(vals) THEN Len(vals) - 1 ELSE idx) + 1]

\* The row of each kind.
Aggregate(events) ==
  LET s == FoldLeft(Count, NoCounts, events)
  IN  [ordered |-> s.ordered,
       kinds |-> [k \in Kinds |->
         [total |-> s.total[k], byDecision |-> s.byDecision[k], fwd |-> Len(s.latencies[k]),
          p50 |-> Percentile(s.latencies[k], 50), p95 |-> Percentile(s.latencies[k], 95)]]]

-----------------------------------------------------------------------------
HowMany(events, P(_)) == Cardinality({k \in DOMAIN events : P(events[k])})

\* The report of a kind says of the events of that kind, and of no others, how
\* many had which end; at least half of those forwarded took no longer than its
\* p50 and at most half took less, and of its p95 the same with 95 in 100; and
\* as many orders were made as events say so.
ReportTrue(events) ==
  LET r == Aggregate(events)
  IN  /\ r.ordered = HowMany(events, LAMBDA e : e.decision = "forwarded_ordered")
      /\ \A k \in Kinds :
           LET Fwd(e) == e.kind = k /\ e.decision \in Forwards
               n      == HowMany(events, Fwd)
               row    == r.kinds[k]
           IN  /\ row.fwd = n
               /\ row.total = HowMany(events, LAMBDA e : e.kind = k)
               /\ \A d \in Decisions :
                    row.byDecision[d] = HowMany(events, LAMBDA e : e.kind = k /\ e.decision = d)
               /\ n > 0 => \A q \in {<<50, row.p50>>, <<95, row.p95>>} :
                    /\ 100 * HowMany(events, LAMBDA e : Fwd(e) /\ e.latency <= q[2]) >= n * q[1]
                    /\ 100 * HowMany(events, LAMBDA e : Fwd(e) /\ e.latency < q[2]) <= n * q[1]
===============================================================================
