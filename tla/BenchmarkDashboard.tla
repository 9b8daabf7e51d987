------------------------- MODULE BenchmarkDashboard -------------------------
(* benchmark-dashboard.js: the older dashboard page.  Two selectors, four    *)
(* views, no filter: every result of the file counts.  Its charts look only  *)
(* at the first device result of each run.                                   *)
EXTENDS BenchmarkCharts

CONSTANTS Datasets, Views

VARIABLES benchmarkData, loaded, bench, view, charts
dvars == <<benchmarkData, loaded, bench, view, charts>>

\* charts.detailed does not exist before the detailed view is first shown; an
\* absent chart and an empty slot are destroyed alike.
Empty == [scaling |-> {}, comparison |-> {}, backends |-> {}, speedup |-> {},
          ranking |-> {}, matrix |-> {}, detailed |-> {}]
Results == CHOOSE rs \in benchmarkData : TRUE
HeadsOf(rs, vs) == HeadRows(OfAny(rs, vs))

\* createScalingChart: for each variant, the device its first result names.
Scaling(rs, vs) ==
    LET own(v) == HeadRows(Of(rs, v))
        first(v) == Kept(own(v), {r \in Range(own(v)) : r.device = own(v)[1].device})
    IN  {[v \in {u \in Range(vs) : own(u) # <<>>} |-> Points(BySize(first(v)), "perf")]}

\* createDetailedChart: one line per variant, device and backend.
Detailed(rs, vs) == {Series(HeadsOf(rs, vs), <<"device", "framework", "variant">>, "perf")}

\* createBackendChart: for one device and backend the first result wins.
BackendBars(rs, vs) ==
    LET mine == Of(rs, vs[1])
        rows == HeadRows(OfSize(mine, TargetSize(PositiveSizes(mine))))
        devices == Uniques([i \in DOMAIN rows |-> rows[i].device])
        on(d, f) == Kept(rows, {r \in Range(rows) : r.device = d /\ r.framework = f})
    IN  IF mine = <<>> \/ PositiveSizes(mine) = {} THEN NoChart
        ELSE {[labels |-> devices,
               bars |-> [f \in {rows[i].framework : i \in DOMAIN rows} |->
                           [i \in DOMAIN devices |->
                              IF on(devices[i], f) = <<>> THEN 0 ELSE on(devices[i], f)[1].perf]]]}

\* createDeviceMatrix: the devices of any variant; {} is the dash.
Matrix(rs, vs) ==
    LET rows == HeadsOf(rs, vs)
        cell(d, v) == {rows[i].perf : i \in {j \in DOMAIN rows : rows[j].device = d /\ rows[j].variant = v}}
    IN  {[d \in {rows[i].device : i \in DOMAIN rows} |->
            [v \in Range(vs) |-> IF cell(d, v) = {} THEN {} ELSE {Peak(cell(d, v))}]]}

\* The charts this page has in common with the viewer, over every result.
createComparisonChart(rs, vs) == Comparison(rs, vs)
createSpeedupChart(rs, vs) == Speedup(rs, vs)
createRankingChart(rs, vs) == {Ranking(HeadsOf(rs, vs))}

\* updateDashboard.
Draw(rs, vs, v) ==
    CASE v = "comparison" -> [Empty EXCEPT !.scaling = Scaling(rs, vs),
                                           !.comparison = createComparisonChart(rs, vs),
                                           !.backends = BackendBars(rs, vs),
                                           !.speedup = createSpeedupChart(rs, vs)]
      [] v = "detailed" -> [Empty EXCEPT !.detailed = Detailed(rs, vs)]
      [] v = "device-matrix" -> [Empty EXCEPT !.matrix = Matrix(rs, vs)]
      [] v = "system-ranking" -> [Empty EXCEPT !.ranking = createRankingChart(rs, vs)]
updateDashboard(rs, b, v) == charts' = Draw(rs, VariantsOf[b], v)

DInit == /\ benchmarkData = {} /\ loaded = "loading"
         /\ bench = CHOOSE b \in Benchmarks : TRUE
         /\ view = "comparison" /\ charts = Empty
loadBenchmarkData ==
    /\ loaded = "loading" /\ loaded' = "done"
    /\ \E rs \in Datasets : benchmarkData' = {rs} /\ updateDashboard(rs, bench, view)
    /\ UNCHANGED <<bench, view>>
LoadFails == /\ loaded = "loading" /\ loaded' = "error"
             /\ UNCHANGED <<benchmarkData, bench, view, charts>>
SelectBenchmark(b) == /\ loaded = "done" /\ b # bench
                      /\ bench' = b
                      /\ updateDashboard(Results, b, view)
                      /\ UNCHANGED <<benchmarkData, loaded, view>>
SelectView(v) == /\ loaded = "done" /\ v # view
                 /\ view' = v
                 /\ updateDashboard(Results, bench, v)
                 /\ UNCHANGED <<benchmarkData, loaded, bench>>
DNext == \/ loadBenchmarkData \/ LoadFails
         \/ \E b \in Benchmarks : SelectBenchmark(b)
         \/ \E v \in Views : SelectView(v)

-----------------------------------------------------------------------------
DTypeOK == /\ loaded \in {"loading", "done", "error"}
           /\ benchmarkData \subseteq Datasets
           /\ bench \in Benchmarks /\ view \in Views /\ DOMAIN charts = DOMAIN Empty

Selected == {r \in Range(HeadRows(Results)) : r.variant \in Range(VariantsOf[bench])}

(* The charts alive are those of the view selected now, over the benchmark   *)
(* selected now.  The detailed chart holds every run; a line of the scaling  *)
(* chart every run of its algorithm on one device; a backend bar was         *)
(* measured on its device at the size in the title; the ranking and the      *)
(* matrix hold the peaks of what they name.  The comparison and the speedup  *)
(* promise what BarsAreTheRuns and PointsAreQuotients say, and no more.      *)
DashboardIsMeasured ==
    LET vs == VariantsOf[bench]
        of(v) == {r \in Selected : r.variant = v}
    IN
    loaded = "done" =>
      /\ \A k \in DOMAIN charts : charts[k] # {} =>
           view = (CASE k = "ranking" -> "system-ranking" [] k = "matrix" -> "device-matrix"
                     [] k = "detailed" -> "detailed" [] OTHER -> "comparison")
      /\ \A lines \in charts.detailed :
           PointsDrawn(lines) = {<<<<r.device, r.framework, r.variant>>, r.size, r.perf>> : r \in Selected}
      /\ \A lines \in charts.scaling :
           /\ DOMAIN lines = {r.variant : r \in Selected}
           /\ \A v \in DOMAIN lines : \E d \in {r.device : r \in of(v)} :
                {<<p.x, p.y>> : p \in Range(lines[v])} =
                    {<<r.size, r.perf>> : r \in {q \in of(v) : q.device = d}}
      /\ \A c \in charts.comparison : BarsAreTheRuns(c, Results, vs)
      /\ \A c \in charts.backends : \A f \in DOMAIN c.bars : \A i \in DOMAIN c.labels :
           \/ c.bars[f][i] = 0
           \/ \E r \in of(vs[1]) : /\ r.device = c.labels[i] /\ r.framework = f /\ r.perf = c.bars[f][i]
                                   /\ r.size = TargetSize(SizesOf(Results, <<vs[1]>>))
      /\ \A points \in charts.speedup : PointsAreQuotients(points, Results, vs)
      /\ \A top \in charts.ranking : \A i \in DOMAIN top :
           LET own == {r.perf : r \in {q \in Selected : Label(q, RankingKey) = top[i].key}}
           IN  top[i].peak \in own /\ \A p \in own : p <= top[i].peak
      /\ \A cells \in charts.matrix : \A d \in DOMAIN cells : \A v \in Range(vs) :
           LET own == {r.perf : r \in {q \in of(v) : q.device = d}}
           IN  cells[d][v] = {p \in own : \A q \in own : q <= p}
=============================================================================
