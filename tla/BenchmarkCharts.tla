-------------------------- MODULE BenchmarkCharts --------------------------
(* The charts of the benchmark pages as operators on benchmark results, the  *)
(* part benchmark-viewer.js and benchmark-dashboard.js share.  A result is   *)
(* one benchmark run on one host, [variant, host, size, devs], devs being    *)
(* its device results in order, [device, framework, ms, perf] (perf 0: no    *)
(* throughput recorded).  Wording, colours and layout are left out; labels   *)
(* are the tuples they are built from.                                       *)
EXTENDS Integers, FiniteSets, SequencesExt, Filter

CONSTANTS Benchmarks,      \* keys of BENCHMARK_CONFIGS
          VariantsOf,      \* [Benchmarks -> sequence of algorithm variants]
          Baselines,       \* variants named "naive"
          Optimized,       \* variants named "tiled" or "optimized"
          CpuBackends,     \* Native, Interpreter
          UnknownDevice,
          TopSystems       \* how many bars the ranking keeps

DeviceResults    == [device : STRING, framework : STRING, ms : Nat, perf : Nat]
BenchmarkResults == [variant : STRING, host : STRING, size : Nat, devs : Seq(DeviceResults)]

\* A chart slot is empty or holds the one chart drawn in it.
NoChart == {}
\* A row's fields are named where the code reads them: what is plotted and what
\* labels a line.
Points(rows, value) == [i \in DOMAIN rows |-> [x |-> rows[i].size, y |-> rows[i][value]]]
Label(row, fields)  == [i \in DOMAIN fields |-> row[fields[i]]]

OfAny(rs, vs)   == Kept(rs, {r \in Range(rs) : r.variant \in Range(vs)})
Of(rs, v)       == OfAny(rs, <<v>>)
OfSize(rs, s)   == Kept(rs, {r \in Range(rs) : r.size = s})
FirstPerf(r)    == IF r.devs = <<>> THEN 0 ELSE r.devs[1].perf
FirstBackend(r) == IF r.devs = <<>> THEN "Unknown" ELSE r.devs[1].framework
getDeviceName(r) == IF r.devs = <<>> THEN UnknownDevice ELSE r.devs[1].device

\* One row per device result, in the order the code visits them.
RowsOf(r) == [i \in DOMAIN r.devs |->
                [variant |-> r.variant, host |-> r.host, size |-> r.size,
                 device |-> r.devs[i].device, framework |-> r.devs[i].framework,
                 ms |-> r.devs[i].ms, perf |-> r.devs[i].perf]]
Visiting(rs) == LET at[k \in 0..Len(rs)] == IF k = 0 THEN <<>> ELSE at[k - 1] \o RowsOf(rs[k]) IN at
DeviceRows(rs) == Visiting(rs)[Len(rs)]

\* One row per result, for the charts that look at results[0] only.
HeadRow(r)   == [variant |-> r.variant, host |-> r.host, size |-> r.size,
                 device |-> getDeviceName(r), framework |-> FirstBackend(r),
                 perf |-> FirstPerf(r)]
HeadRows(rs) == [i \in DOMAIN rs |-> HeadRow(rs[i])]

Labels(rows, fields)  == {Label(rows[i], fields) : i \in DOMAIN rows}
GroupBy(rows, fields) ==
    [k \in Labels(rows, fields) |-> Kept(rows, {r \in Range(rows) : Label(r, fields) = k})]
\* A stable sort: a row comes after the smaller ones and, of its size, those before it.
UpTo(rows, i) == {j \in DOMAIN rows : \/ rows[j].size < rows[i].size
                                      \/ rows[j].size = rows[i].size /\ j <= i}
BySize(rows)  == [n \in DOMAIN rows |->
                    rows[CHOOSE i \in DOMAIN rows : Cardinality(UpTo(rows, i)) = n]]
Series(rows, fields, value) ==
    LET groups == GroupBy(rows, fields)
    IN  [k \in DOMAIN groups |-> Points(BySize(groups[k]), value)]

\* Every point of every line.
PointsDrawn(lines) == UNION {{<<k, p.x, p.y>> : p \in Range(lines[k])} : k \in DOMAIN lines}

PositiveSizes(rs) == {rs[i].size : i \in DOMAIN rs} \ {0}
\* sizes[floor(0.7 * length)] of the sizes in increasing order
TargetSize(S) == SetToSortSeq(S, LAMBDA a, b : a < b)[(7 * Cardinality(S)) \div 10 + 1]

Peak(S) == CHOOSE p \in S : \A q \in S : q <= p
Uniques(seq) == FoldLeft(LAMBDA acc, x : IF x \in Range(acc) THEN acc ELSE Append(acc, x), <<>>, seq)

\* createComparisonChart: one bar is pushed per result, whatever its label.
Comparison(rs, vs) ==
    LET at == OfSize(OfAny(rs, vs), TargetSize(PositiveSizes(OfAny(rs, vs))))
        ordered == FoldLeft(LAMBDA acc, v : acc \o Of(at, v), <<>>, vs)
    IN  IF Len(vs) < 2 \/ PositiveSizes(OfAny(rs, vs)) = {} THEN NoChart
        ELSE {[labels |-> Uniques([i \in DOMAIN ordered |-> getDeviceName(ordered[i])]),
              bars |-> [v \in {ordered[i].variant : i \in DOMAIN ordered} |->
                          LET mine == Of(at, v) IN [i \in DOMAIN mine |-> FirstPerf(mine[i])]]]}

FirstIn(vs, S, otherwise) ==
    IF Range(vs) \cap S = {} THEN otherwise
    ELSE Kept(vs, S)[1]
Baseline(vs)  == FirstIn(vs, Baselines, vs[1])
Improved(vs)  == FirstIn(vs, Optimized, vs[2])

\* createSpeedupChart: the first result of either variant at each size, as the
\* pair of throughputs whose quotient is drawn.
Speedup(rs, vs) ==
    LET base == Of(rs, Baseline(vs))
        fast == Of(rs, Improved(vs))
        sizes == {s \in {base[i].size : i \in DOMAIN base} :
                    OfSize(fast, s) # <<>> /\ FirstPerf(OfSize(base, s)[1]) > 0}
        point(s) == [x |-> s, y |-> <<FirstPerf(OfSize(fast, s)[1]), FirstPerf(OfSize(base, s)[1])>>]
        ordered == SetToSortSeq(sizes, LAMBDA a, b : a < b)
    IN  IF Len(vs) < 2 THEN NoChart
        ELSE IF base = <<>> \/ fast = <<>> THEN NoChart
        ELSE {[i \in DOMAIN ordered |-> point(ordered[i])]}

\* createRankingChart: one entry per host, device, backend and algorithm, at
\* its peak, best first, the top of the list.
\* Mutant: an entry keeps the throughput it was created with.
FirstSeen(rows) == rows[1].perf

RankingKey == <<"host", "device", "framework", "variant">>
BestOf(rows)    == Peak({rows[i].perf : i \in DOMAIN rows})
Ranking(rows) ==
    LET groups == GroupBy(Kept(rows, {r \in Range(rows) : r.perf # 0}), RankingKey)
        entries == {[key |-> k, peak |-> BestOf(groups[k])] : k \in DOMAIN groups}
        sorted == SetToSortSeq(entries, LAMBDA a, b : a.peak > b.peak)
    IN  SubSeq(sorted, 1, IF Len(sorted) < TopSystems THEN Len(sorted) ELSE TopSystems)

-----------------------------------------------------------------------------
(* What the two charts of several variants may show, of the results rs that  *)
(* a page counts.                                                            *)
RunsAt(rs, v, s) == {i \in DOMAIN rs : rs[i].variant = v /\ rs[i].size = s}
SizesOf(rs, vs)  == {rs[i].size : i \in {j \in DOMAIN rs : rs[j].variant \in Range(vs)}} \ {0}
DevicesAt(rs, v, s) == LET own == OfSize(Of(rs, v), s) IN [n \in DOMAIN own |-> getDeviceName(own[n])]
\* Each variant was run at s once on each of the same devices, in the same order.
RunAlike(rs, vs, s) == \A v \in Range(vs) : /\ IsInjective(DevicesAt(rs, v, s))
                                            /\ DevicesAt(rs, v, s) = DevicesAt(rs, vs[1], s)

(* A bar for every run of a variant at the size in the title and no other,   *)
(* as often as it was measured, and under the bars the devices of the runs.  *)
(* A bar stands over its own device where the variants were run alike; where *)
(* they were not, the code does not place it, and nothing is claimed.        *)
BarsAreTheRuns(c, rs, vs) ==
    LET s == TargetSize(SizesOf(rs, vs))
        measured(v, p) == {i \in RunsAt(rs, v, s) : FirstPerf(rs[i]) = p}
    IN  /\ DOMAIN c.bars = {v \in Range(vs) : RunsAt(rs, v, s) # {}}
        /\ Range(c.labels) = UNION {Range(DevicesAt(rs, v, s)) : v \in Range(vs)}
        /\ \A v \in DOMAIN c.bars :
             /\ Len(c.bars[v]) = Cardinality(RunsAt(rs, v, s))
             /\ \A p \in Range(c.bars[v]) :
                  Cardinality({n \in DOMAIN c.bars[v] : c.bars[v][n] = p}) = Cardinality(measured(v, p))
             /\ RunAlike(rs, vs, s) =>
                  \A n \in DOMAIN c.bars[v] :
                     \E i \in measured(v, c.bars[v][n]) : getDeviceName(rs[i]) = c.labels[n]

(* From the left to the right, a point is the quotient of a run of the       *)
(* improved variant by one of the baseline at its size, on whatever devices  *)
(* and hosts; no size that has a quotient is left out.                       *)
PointsAreQuotients(points, rs, vs) ==
    LET perfs(v, s) == {FirstPerf(rs[i]) : i \in RunsAt(rs, v, s)}
    IN  /\ \A i, j \in DOMAIN points : i < j => points[i].x < points[j].x
        /\ \A p \in Range(points) : /\ p.y[1] \in perfs(Improved(vs), p.x)
                                     /\ p.y[2] \in perfs(Baseline(vs), p.x) \ {0}
        /\ \A s \in {rs[i].size : i \in DOMAIN rs} :
             \/ perfs(Improved(vs), s) = {} \/ perfs(Baseline(vs), s) = {}
             \/ 0 \in perfs(Baseline(vs), s)
             \/ \E p \in Range(points) : p.x = s
=============================================================================
