----------------------------- MODULE MCSitePages -----------------------------
(* The pages of the site with a state of their own, one behaviour visiting   *)
(* one page: the benchmark viewer, the older dashboard, a lesson, a notebook *)
(* and its slideshow, a code cell of a notebook, its popups, its messages;    *)
(* the list of the notebooks and clusters.                                   *)
EXTENDS BenchmarkViewer, LessonPage, Notebook, OutputArea, Popups, StatusArea, TreePage

VARIABLES site, view

MCBuffers == <<"a", "b">>

Dev(d, f, p) == [device |-> d, framework |-> f, ms |-> 10 - p, perf |-> p]
Run(v, h, s, ds) == [variant |-> v, host |-> h, size |-> s, devs |-> ds]
Both  == <<Dev("gpu", "CUDA", 3), Dev("cpu", "Native", 1)>>
Cards == {Both, <<Dev("gpu", "OpenCL", 2), Dev("gpu", "CUDA", 4)>>, <<Dev("igpu", "OpenCL", 0)>>}
Second == {Run(v, h, s, ds) : v \in {"t_naive", "t_tiled"}, h \in {"a", "b_test"}, s \in {1, 2}, ds \in Cards}
One(d, p) == <<Dev(d, "OpenCL", p)>>
\* Both variants on two devices in the same order, as one bench session leaves them.
Alike == <<Run("t_naive", "a", 1, One("gpu", 2)), Run("t_naive", "a", 1, One("igpu", 1)),
           Run("t_tiled", "a", 1, One("gpu", 4)), Run("t_tiled", "a", 1, One("igpu", 3))>>
\* Both variants at several sizes, one with no throughput on record.
Sizes == <<Run("t_naive", "a", 1, One("gpu", 2)), Run("t_naive", "a", 2, One("gpu", 1)),
           Run("t_naive", "a", 3, One("gpu", 0)), Run("t_tiled", "a", 2, One("gpu", 3)),
           Run("t_tiled", "a", 3, One("gpu", 4)), Run("t_tiled", "a", 1, One("gpu", 5))>>
DataFiles == {<<>>, Alike, Sizes, <<Run("t_tiled", "a", 0, <<>>)>>}
           \cup {<<Run("t_naive", "a", 1, Both), r, Run("vec", "a", 1, Both)>> : r \in Second}

MCBenchmarks == {"transpose", "vector_add"}
VariantTable == [transpose |-> <<"t_naive", "t_tiled">>, vector_add |-> <<"vec">>]

Dashboard == INSTANCE BenchmarkDashboard WITH
            Views <- {"comparison", "detailed", "device-matrix", "system-ranking"}

Line(type, text, level) == [type |-> type, text |-> <<text>>, level |-> level]
MCFiles == {<<>>, <<Line("code", "a", 1), Line("markdown", "b", 1)>>,
            <<Line("plaintext", "c", 1), Line("code", "a", 1), Line("heading", "b", 2)>>}
MCHistories == {<<>>, <<1, 2>>}
File(n, e) == [name |-> n, ext |-> e]
Stored(k) == {[id |-> 1, name |-> "x", data |-> File("x", "ipynb"), kernel |-> k]}
MCDrops == {<<File("f", "ipynb")>>, <<File("f", "py"), File("g", "ipynb")>>,
            <<File("h", "txt"), File("g", "json")>>}
MCStores == {{}, Stored(0), Stored(9)}

viewerOnly == <<metric, system, mode, backends, cpu, systemMenu, filters, chart, desc, fetching>>
benchPages == <<benchmarkData, loaded, bench, charts>>

ViewerUnset == /\ metric = Unset /\ system = Unset /\ mode = Unset /\ backends = Unset
               /\ cpu = Unset /\ systemMenu = Unset /\ filters = Unset /\ chart = {}
               /\ desc = Unset /\ fetching = Unset
\* One cell has the focus and one name is given wherever they do not matter.
Init ==
    /\ LInit /\ NInit /\ OInit /\ PInit /\ SInit /\ TInit
    /\ \/ site = "viewer" /\ VInit /\ view = Unset
       \/ site = "dashboard" /\ Dashboard!DInit /\ ViewerUnset
       \/ /\ site \in {"lesson", "notebook", "cell", "popups", "messages", "tree"} /\ ViewerUnset
          /\ benchmarkData = Unset /\ loaded = Unset /\ bench = Unset /\ charts = Unset /\ view = Unset
    /\ site # "popups" => focus = "a"
    /\ site # "messages" => name = "one"
    /\ site # "tree" => tab = "clusters" /\ ~clusterRuns

notebooks == <<nvars, ovars, pvars, svars, tvars>>
Next ==
    /\ UNCHANGED site
    /\ \/ site = "viewer" /\ VNext /\ UNCHANGED <<view, lvars, notebooks>>
       \/ site = "dashboard" /\ Dashboard!DNext /\ UNCHANGED <<viewerOnly, lvars, notebooks>>
       \/ /\ site = "lesson" /\ LNext
          /\ UNCHANGED <<benchPages, viewerOnly, view, notebooks>>
       \/ /\ UNCHANGED <<benchPages, viewerOnly, view, lvars>>
          /\ \/ site = "notebook" /\ NNext /\ UNCHANGED <<ovars, pvars, svars, tvars>>
             \/ site = "cell" /\ ONext /\ UNCHANGED <<nvars, pvars, svars, tvars>>
             \/ site = "popups" /\ PNext /\ UNCHANGED <<nvars, ovars, svars, tvars>>
             \/ site = "messages" /\ SNext /\ UNCHANGED <<nvars, ovars, pvars, tvars>>
             \/ site = "tree" /\ TNext /\ UNCHANGED <<nvars, ovars, pvars, svars>>
vars == <<site, benchPages, viewerOnly, view, lvars, notebooks>>
Spec == Init /\ [][Next]_vars

\* What the charts of the viewer's overviews and of the dashboard show was measured for
\* what they name, the comparison and the speedup as far as the code places their bars
\* and points; the dashboard's state is of its type.
ChartsAreMeasured ==
    /\ site = "viewer" => OverviewsAreMeasured
    /\ site = "dashboard" => Dashboard!DTypeOK /\ Dashboard!DashboardIsMeasured
=============================================================================
