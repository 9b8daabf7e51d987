-------------------------- MODULE BenchmarkViewer --------------------------
(* benchmark-viewer.js: the benchmark page.  The data file is fetched once;  *)
(* then every control has a handler that writes its variable and redraws.    *)
(* A handler runs to completion, so it is one action; only fetches end later *)
(* and in any order.  The chart variables hold what was last drawn, and can  *)
(* therefore be out of date with the controls.                               *)
EXTENDS BenchmarkCharts

CONSTANTS Datasets,      \* what data/latest.json may hold: sequences of results
          Hosts,         \* hostnames in them
          TestHosts,     \* those that contain "test"
          GpuBackends,   \* the backends with a checkbox, all checked at first
          Unset,
          MaxFetches     \* bound: descriptions being fetched at once

\* A benchmark has variants, a result has a size, and no CPU backend has a checkbox.
ASSUME ViewerAssumption ==
    /\ Benchmarks # {} /\ VariantsOf \in [Benchmarks -> Seq(STRING)]
    /\ Datasets \subseteq Seq(BenchmarkResults)
    /\ GpuBackends \cap CpuBackends = {}
    /\ MaxFetches \in Nat

VARIABLES benchmarkData, \* {} before it has come
          loaded,        \* "loading" | "done" | "error"
          bench, metric, system, mode,   \* the current* variables
          backends, cpu,                 \* the checkboxes, read when drawing
          systemMenu,    \* what system-select shows
          filters,       \* whether .filter-controls is displayed
          chart,         \* currentChart
          charts,        \* the charts object, with the device matrix in it
          desc,          \* the description panel
          fetching       \* description fetches in flight, as a sequence
vvars == <<benchmarkData, loaded, bench, metric, system, mode, backends, cpu, systemMenu,
           filters, chart, charts, desc, fetching>>

AllSystems == "all"
Empty == [scaling |-> {}, comparison |-> {}, backends |-> {}, speedup |-> {},
          ranking |-> {}, matrix |-> {}]

Results == CHOOSE rs \in benchmarkData : TRUE
\* Mutant: test hosts are let into "All Systems".
IncludesTests(r, sys) == sys = AllSystems \/ r.host = sys
shouldIncludeResult(r, sys) == IF sys = AllSystems THEN r.host \notin TestHosts ELSE r.host = sys
Included(rs, sys) == Kept(rs, {r \in Range(rs) : shouldIncludeResult(r, sys)})

\* A line is a device and backend, of one host when all systems are shown.
LineLabel(sys) == <<"device", "framework">> \o (IF sys = AllSystems THEN <<"host">> ELSE <<>>)
Plotted(m) == IF m = "time" THEN "ms" ELSE "perf"
\* prepareChartData.  Both checkbox tests apply, so "show CPU" alone adds nothing.
PlottedRows(rs, b, sys, ticked, showCpu) ==
    LET rows == DeviceRows(OfAny(Included(rs, sys), VariantsOf[b]))
    IN  Kept(rows, {r \in Range(rows) : /\ r.framework \in ticked
                                       /\ (showCpu \/ r.framework \notin CpuBackends)})
prepareChartData(rs, b, sys, m, ticked, showCpu) ==
    Series(PlottedRows(rs, b, sys, ticked, showCpu), LineLabel(sys), Plotted(m))

\* createScalingChart: every device result of every variant.
Scaling(rs, vs) ==
    LET rows == DeviceRows(OfAny(rs, vs))
    IN  IF rows = <<>> THEN NoChart
        ELSE {Series(rows, <<"device", "framework", "variant">>, "perf")}

\* createBackendChart: the first variant at the target size; for one device and
\* backend the last result wins.
LastPerf(rows) == rows[Len(rows)].perf
BackendBars(rs, vs) ==
    LET mine == Of(rs, vs[1])
        rows == DeviceRows(OfSize(mine, TargetSize(PositiveSizes(mine))))
        devices == Uniques([i \in DOMAIN rows |-> rows[i].device])
        on(d, f) == Kept(rows, {r \in Range(rows) : r.device = d /\ r.framework = f})
    IN  IF mine = <<>> \/ PositiveSizes(mine) = {} THEN NoChart
        ELSE {[labels |-> devices,
               bars |-> [f \in {rows[i].framework : i \in DOMAIN rows} |->
                           [i \in DOMAIN devices |->
                              IF on(devices[i], f) = <<>> THEN 0 ELSE LastPerf(on(devices[i], f))]]]}

\* createDeviceMatrix: peak over all sizes, 0 printed as a dash.
Matrix(rs, vs) ==
    LET rows == DeviceRows(OfAny(rs, vs))
        cell(k, v) == {rows[i].perf : i \in {j \in DOMAIN rows :
                          <<rows[j].device, rows[j].framework>> = k /\ rows[j].variant = v}}
    IN  IF rows = <<>> THEN NoChart
        ELSE {[k \in Labels(rows, <<"device", "framework">>) |->
                 [v \in Range(vs) |-> Peak({0} \cup cell(k, v))]]}

createRankingChart(rs, vs) ==
    LET top == Ranking(DeviceRows(OfAny(rs, vs))) IN IF top = <<>> THEN NoChart ELSE {top}

VInit == /\ benchmarkData = {} /\ loaded = "loading"
         /\ bench = CHOOSE b \in Benchmarks : TRUE
         /\ metric = "throughput" /\ system = AllSystems /\ mode = "single"
         /\ backends = GpuBackends /\ cpu = FALSE
         /\ systemMenu = AllSystems /\ filters = TRUE
         /\ chart = {} /\ charts = Empty
         /\ desc = [kind |-> "blank", of |-> Unset] /\ fetching = <<>>

-----------------------------------------------------------------------------
(* updateView: destroy what is drawn, draw the view mode, with the values    *)
(* the handler has just written.                                             *)
updateChart(rs, b, m, sys, ts, c) == chart' = {prepareChartData(rs, b, sys, m, ts, c)}
ShowSingle(rs, b, m, sys, ts, c) ==
    /\ updateChart(rs, b, m, sys, ts, c)
    /\ charts' = Empty
    /\ filters' = TRUE
    /\ system' = sys /\ systemMenu' = sys

Overview(rs, vs, md) ==
    CASE md = "comparison" -> [Empty EXCEPT !.scaling = Scaling(rs, vs),
                                            !.comparison = Comparison(rs, vs),
                                            !.backends = BackendBars(rs, vs),
                                            !.speedup = Speedup(rs, vs)]
      [] md = "ranking" -> [Empty EXCEPT !.ranking = createRankingChart(rs, vs)]
      [] md = "matrix" -> [Empty EXCEPT !.matrix = Matrix(rs, vs)]

\* The other views clear the system filter and hide the controls.
ShowOverview(rs, b, md) ==
    /\ charts' = Overview(Included(rs, AllSystems), VariantsOf[b], md)
    /\ chart' = {}
    /\ filters' = FALSE
    /\ system' = AllSystems /\ systemMenu' = AllSystems

updateView(rs, b, m, sys, md, ts, c) ==
    \/ md = "single" /\ ShowSingle(rs, b, m, sys, ts, c)
    \/ md # "single" /\ ShowOverview(rs, b, md)

Describe(b) == /\ Len(fetching) < MaxFetches
               /\ desc' = [kind |-> "loading", of |-> b]
               /\ fetching' = Append(fetching, b)

\* loadBenchmarkData: the handlers are installed when the data have come.
loadBenchmarkData ==
    /\ loaded = "loading"
    /\ loaded' = "done"
    /\ Describe(bench)
    /\ \E rs \in Datasets : /\ benchmarkData' = {rs}
                            /\ updateView(rs, bench, metric, system, mode, backends, cpu)
    /\ UNCHANGED <<bench, metric, mode, backends, cpu>>
LoadingFails == /\ loaded = "loading"
                /\ loaded' = "error"
                /\ UNCHANGED <<benchmarkData, bench, metric, system, mode, backends, cpu,
                               systemMenu, filters, chart, charts, desc, fetching>>

Live == loaded = "done"
SelectBenchmark(b) ==
    /\ Live /\ b # bench
    /\ bench' = b
    /\ Describe(b)
    /\ updateView(Results, b, metric, system, mode, backends, cpu)
    /\ UNCHANGED <<benchmarkData, loaded, metric, mode, backends, cpu>>
SelectMode(md) ==
    /\ Live /\ md # mode
    /\ mode' = md
    /\ updateView(Results, bench, metric, system, md, backends, cpu)
    /\ UNCHANGED <<benchmarkData, loaded, bench, metric, backends, cpu, desc, fetching>>
\* The filters are hidden outside the single view.
SelectSystem(s) ==
    /\ Live /\ filters /\ s # system
    /\ updateView(Results, bench, metric, s, mode, backends, cpu)
    /\ UNCHANGED <<benchmarkData, loaded, bench, metric, mode, backends, cpu, desc, fetching>>
\* metric-select first shows "time" while the variable says throughput, so
\* choosing either value is possible at first.
SelectMetric(m) ==
    /\ Live /\ filters
    /\ metric' = m
    /\ updateView(Results, bench, m, system, mode, backends, cpu)
    /\ UNCHANGED <<benchmarkData, loaded, bench, mode, backends, cpu, desc, fetching>>
ToggleBackend(f) ==
    LET ticked == IF f \in backends THEN backends \ {f} ELSE backends \cup {f}
    IN  /\ Live /\ filters
        /\ backends' = ticked
        /\ updateView(Results, bench, metric, system, mode, ticked, cpu)
        /\ UNCHANGED <<benchmarkData, loaded, bench, metric, mode, cpu, desc, fetching>>
ToggleCpu ==
    /\ Live /\ filters
    /\ cpu' = ~cpu
    /\ updateView(Results, bench, metric, system, mode, backends, ~cpu)
    /\ UNCHANGED <<benchmarkData, loaded, bench, metric, mode, backends, desc, fetching>>

\* updateBenchmarkDescription after its awaits, those of processGeneratedCodeTabs
\* among them: the panel is written whatever benchmark is selected by then.  The
\* markup of the tabs is put in before everything is escaped, so they are text.
DescriptionEnds(i) ==
    /\ \E kind \in {"text", "unavailable"} : desc' = [kind |-> kind, of |-> fetching[i]]
    /\ fetching' = RemoveAt(fetching, i)
    /\ UNCHANGED <<benchmarkData, loaded, bench, metric, system, mode, backends, cpu, systemMenu,
                   filters, chart, charts>>

VNext == \/ loadBenchmarkData \/ LoadingFails \/ ToggleCpu
         \/ \E b \in Benchmarks : SelectBenchmark(b)
         \/ \E md \in {"single", "comparison", "ranking", "matrix"} : SelectMode(md)
         \/ \E s \in Hosts \cup {AllSystems} : SelectSystem(s)
         \/ \E m \in {"time", "throughput"} : SelectMetric(m)
         \/ \E f \in GpuBackends : ToggleBackend(f)
         \/ \E i \in DOMAIN fetching : DescriptionEnds(i)

-----------------------------------------------------------------------------
(* What is drawn, against the data file and the controls as they are now.    *)

Selected == {r \in Range(DeviceRows(Results)) :
               /\ r.variant \in Range(VariantsOf[bench])
               /\ IF system = AllSystems THEN r.host \notin TestHosts ELSE r.host = system}

\* The sizes that a variant has been run at, 0 standing for an unknown one.
SizesMeasured(v) == {r.size : r \in {q \in Range(Results) :
                       q.variant = v /\ shouldIncludeResult(q, system)}} \ {0}

VTypeOK == /\ loaded \in {"loading", "done", "error"}
           /\ IF loaded = "done" THEN \E rs \in Datasets : benchmarkData = {rs}
              ELSE benchmarkData = {}
           /\ bench \in Benchmarks /\ metric \in {"time", "throughput"}
           /\ system \in Hosts \cup {AllSystems} /\ systemMenu = system
           /\ mode \in {"single", "comparison", "ranking", "matrix"}
           /\ backends \subseteq GpuBackends /\ cpu \in BOOLEAN
           /\ filters \in BOOLEAN /\ DOMAIN charts = DOMAIN Empty
           /\ fetching \in Seq(Benchmarks) /\ Len(fetching) <= MaxFetches
           /\ desc.kind \in {"blank", "loading", "text", "unavailable"}

(* The single chart is there exactly in the single view, and its lines hold  *)
(* every measurement that the benchmark, system, metric and backend controls *)
(* select, and nothing else: no handler leaves an older drawing behind, and  *)
(* test hosts stay out of "All Systems".                                     *)
SingleShowsSelection ==
    loaded = "done" =>
      /\ (mode = "single") <=> (chart # {})
      /\ \A lines \in chart :
           PointsDrawn(lines) =
             {<<Label(r, LineLabel(system)), r.size, r[Plotted(metric)]>> :
                r \in {q \in Selected : q.framework \in backends}}

\* The results of the hosts that the system filter lets in.
CountedHosts == IF system = AllSystems THEN Hosts \ TestHosts ELSE {system}
CountedResults == Kept(Results, {r \in Range(Results) : r.host \in CountedHosts})

(* The numbers of the overview charts were measured for the benchmark and    *)
(* the systems selected now.  The ranking holds peaks and leaves out nothing *)
(* faster than what it shows; a matrix cell is the peak of its device and    *)
(* algorithm; a backend bar was measured on its device at the size in the    *)
(* title; the lines hold every measurement of their device and algorithm.    *)
(* The comparison and the speedup promise less: a bar of the comparison is   *)
(* a run of its algorithm at the size in the title, over the device it was   *)
(* run on only where the algorithms were run alike, and a speedup divides    *)
(* runs of two algorithms at one size, of the same device or not.            *)
OverviewsAreMeasured ==
    loaded = "done" =>
      /\ \A k \in DOMAIN charts : charts[k] # {} =>
           mode = (IF k \in {"ranking", "matrix"} THEN k ELSE "comparison")
      /\ \A top \in charts.ranking :
           LET best(k) == {r \in Selected : Label(r, RankingKey) = k}
           IN  /\ \A i \in DOMAIN top : /\ \E r \in best(top[i].key) : r.perf = top[i].peak
                                        /\ \A r \in best(top[i].key) : r.perf <= top[i].peak
               /\ \A r \in Selected :
                    \/ r.perf = 0
                    \/ \E i \in DOMAIN top : top[i].key = Label(r, RankingKey)
                    \/ Len(top) = TopSystems /\ \A i \in DOMAIN top : r.perf <= top[i].peak
      /\ \A cells \in charts.matrix : \A r \in Selected :
           /\ cells[<<r.device, r.framework>>][r.variant] >= r.perf
           /\ \/ cells[<<r.device, r.framework>>][r.variant] = 0
              \/ \E q \in Selected : /\ <<q.device, q.framework, q.variant>> =
                                            <<r.device, r.framework, r.variant>>
                                     /\ q.perf = cells[<<r.device, r.framework>>][r.variant]
      /\ \A c \in charts.backends : \A f \in DOMAIN c.bars : \A i \in DOMAIN c.labels :
           \/ c.bars[f][i] = 0
           \/ \E r \in Selected : r.device = c.labels[i] /\ r.framework = f /\ r.perf = c.bars[f][i]
                               /\ r.variant = VariantsOf[bench][1]
                               /\ r.size = TargetSize(SizesMeasured(VariantsOf[bench][1]))
      /\ \A lines \in charts.scaling :
           PointsDrawn(lines) = {<<<<r.device, r.framework, r.variant>>, r.size, r.perf>> : r \in Selected}
      /\ \A c \in charts.comparison : BarsAreTheRuns(c, CountedResults, VariantsOf[bench])
      /\ \A points \in charts.speedup : PointsAreQuotients(points, CountedResults, VariantsOf[bench])
=============================================================================
