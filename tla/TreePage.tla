------------------------------ MODULE TreePage ------------------------------
(* static/tree/js: the dashboard of notebooks.  The list is loaded again by  *)
(* an interval while the window has the focus, unless a file waits to be     *)
(* uploaded; answers come in any order, also for rows no longer on the page. *)
(* A name typed into the box of an upload is not read: jQuery's attr gives   *)
(* the name the box was made with.  The order of the rows is left out.       *)
EXTENDS Integers, FiniteSets, SequencesExt

CONSTANTS
    Titles,     \* the names of files and notebooks
    Extensions, \* what can come after the last dot of a file's name
    Drops,      \* what the visitor can drop at once: sequences of files
    Stores,     \* what the server can hold at first: sets of notebooks
    MaxEvents   \* bound: what the visitor, the clock and other pages do

UploadFile == [name : Titles \cup {""}, ext : Extensions \cup {""}]
ServerNotebook == [id : Nat, name : Titles \cup {""}, data : UploadFile, kernel : Nat]

ASSUME DropsAssumption == Drops \subseteq Seq(UploadFile)
\* The server numbers its notebooks.
ASSUME StoresAssumption ==
    \A s \in Stores :
        /\ s \subseteq ServerNotebook /\ IsFiniteSet(s)
        /\ \A n \in s : n.id \in 1..Cardinality(s)
        /\ \A m, n \in s : m.id = n.id => m = n

VARIABLES
    tab,       \* the list a behaviour is about: the two meet only in main.js
    rows,      \* the items of the list: key, name, format, data, id, kernel, buttons
    readers,   \* the FileReaders at work: file, key of the item
    confirm,   \* the confirmation asked for: key, id, name
    cluster,   \* the row of the cluster: drawn, words
    ajax,      \* requests in flight: what, key, name, format, data, id, list, status
    ticking,   \* intervals that run
    recorded,  \* interval_id # 0
    heard,     \* the last focus event of the window
    dropped,   \* files dropped so far, which number the items
    store,     \* the server's notebooks: id, name, data, kernel
    made,      \* the last id it gave
    clusterRuns, \* whether the server's cluster runs
    acts       \* what happened so far
tvars == <<tab, rows, readers, confirm, cluster, ajax, ticking, recorded, heard, dropped,
           store, made, clusterRuns, acts>>
list == <<tab, rows, readers, confirm, dropped>>
clock == <<ticking, recorded, heard>>
server == <<store, made, clusterRuns>>

Gone == 0
NoFile == [name |-> "", ext |-> ""]
NoRow == [key |-> Gone, name |-> "", format |-> "", data |-> NoFile, id |-> 0, kernel |-> 0,
          buttons |-> "none"]
NoDialog == [open |-> FALSE, key |-> Gone, id |-> 0, name |-> ""]
Plain(what) == [what |-> what, key |-> Gone, name |-> "", format |-> "", data |-> NoFile,
                id |-> 0, list |-> {}, status |-> "sent"]

Event == acts < MaxEvents /\ acts' = acts + 1
Send(r) == ajax' = Append(ajax, r)
\* load_list, of the notebooks or of the clusters.
Load == Plain(tab)

TInit ==
    /\ tab \in {"notebooks", "clusters"} /\ rows = {} /\ readers = {} /\ confirm = NoDialog
    /\ cluster = [drawn |-> "none", words |-> ""]
    /\ ajax = <<Load>> /\ ticking = 1 /\ recorded = TRUE /\ heard = "none"
    /\ dropped = 0 /\ store \in Stores /\ made = Cardinality(store) /\ clusterRuns \in BOOLEAN
    /\ acts = 0 /\ IF tab = "notebooks" THEN ~clusterRuns ELSE store = {}

------------------------------------------------------------------------------
(* main.js: the automatic refresh.                                          *)
Uploading == \E row \in rows : row.buttons = "upload"
Refresh == IF Uploading THEN ajax ELSE Append(ajax, Load)
StartedInterval == IF recorded THEN ticking ELSE ticking + 1
EnableAutorefresh ==
    /\ Event /\ heard # "focus" /\ heard' = "focus"
    /\ ajax' = Refresh /\ ticking' = StartedInterval /\ recorded' = TRUE
    /\ UNCHANGED <<list, cluster, server>>
DisableAutorefresh ==
    /\ Event /\ heard # "blur" /\ heard' = "blur"
    /\ ticking' = (IF recorded THEN ticking - 1 ELSE ticking) /\ recorded' = FALSE
    /\ UNCHANGED <<list, cluster, ajax, server>>
Tick ==
    /\ Event /\ ticking > 0 /\ ~Uploading /\ ajax' = Refresh
    /\ UNCHANGED <<list, cluster, clock, server>>
ClickRefresh ==
    /\ Event /\ Send(Load)
    /\ UNCHANGED <<list, cluster, clock, server>>

------------------------------------------------------------------------------
(* Uploads.  The items are numbered by the files dropped, downwards.        *)
FormatOf(file) == IF file.ext = "ipynb" THEN "json" ELSE file.ext
Accepted(files) == {i \in DOMAIN files : FormatOf(files[i]) \in {"py", "json"}}
Item(file, key) == [NoRow EXCEPT !.key = key, !.name = file.name, !.format = FormatOf(file)]
HandleFilesUpload ==
    /\ Event /\ tab = "notebooks"
    /\ \E files \in Drops :
         LET Key(i) == 0 - (dropped + i)
         IN /\ rows' = rows \cup {Item(files[i], Key(i)) : i \in Accepted(files)}
            /\ readers' = readers \cup {[file |-> files[i], key |-> Key(i)] : i \in Accepted(files)}
            /\ dropped' = dropped + Len(files)
    /\ UNCHANGED <<tab, confirm, cluster, ajax, clock, server>>

\* The item is found through the reader.
\* Mutant: the variable of the loop is used, which holds the last item.
LastItem(r) == 0 - dropped
ItemOf(r) == r.key
Amended(key, new) == {IF row.key = key THEN new[row] ELSE row : row \in rows}
Onload ==
    \E r \in readers :
       LET Offered == [row \in rows |-> [row EXCEPT !.data = r.file, !.buttons = "upload"]]
       IN /\ readers' = readers \ {r}
          /\ rows' = Amended(ItemOf(r), Offered)
          /\ UNCHANGED <<tab, confirm, dropped, cluster, ajax, clock, server, acts>>
ReadFails ==
    \E r \in readers :
       /\ readers' = readers \ {r}
       /\ UNCHANGED <<tab, rows, confirm, dropped, cluster, ajax, clock, server, acts>>

\* The button stays while the upload is on its way.
ClickUpload ==
    /\ Event
    /\ \E row \in rows :
         /\ row.buttons = "upload"
         /\ Send([Plain("upload") EXCEPT !.key = row.key, !.name = row.name,
                                         !.format = row.format, !.data = row.data])
    /\ UNCHANGED <<list, cluster, clock, server>>
ClickCancel ==
    /\ Event
    /\ \E row \in rows : row.buttons = "upload" /\ rows' = rows \ {row}
    /\ UNCHANGED <<tab, readers, confirm, dropped, cluster, ajax, clock, server>>

------------------------------------------------------------------------------
(* The buttons of the notebooks.                                            *)
\* The name and the id are those of the row at the click.
ClickDelete ==
    /\ Event /\ ~confirm.open
    /\ \E row \in rows :
         /\ row.buttons = "delete"
         /\ confirm' = [open |-> TRUE, key |-> row.key, id |-> row.id, name |-> row.name]
    /\ UNCHANGED <<tab, rows, readers, dropped, cluster, ajax, clock, server>>
AnswerDialog ==
    /\ confirm.open /\ confirm' = NoDialog
    /\ \/ Send([Plain("delete") EXCEPT !.key = confirm.key, !.id = confirm.id,
                                        !.name = confirm.name])
       \/ UNCHANGED ajax
    /\ UNCHANGED <<tab, rows, readers, dropped, cluster, clock, server, acts>>
ClickShutdown ==
    /\ Event
    /\ \E row \in rows :
         /\ row.buttons = "shutdown"
         /\ Send([Plain("shutdown") EXCEPT !.id = row.kernel])
    /\ UNCHANGED <<list, cluster, clock, server>>

------------------------------------------------------------------------------
(* The cluster.  A request's key: the words of the row it was sent from are *)
(* on the page (Words), the row is but was drawn again (Row), neither.      *)
Row == 1
Words == 2
Drawn(state) == [drawn |-> state, words |-> state]
Redrawn(key, rs) == [i \in DOMAIN rs |-> IF rs[i].what \in {"start", "stop"} /\ rs[i].key > key
                                         THEN [rs[i] EXCEPT !.key = key] ELSE rs[i]]
ClickStart ==
    /\ Event /\ cluster.drawn = "stopped"
    /\ \/ cluster' = [cluster EXCEPT !.words = "invalid"] /\ UNCHANGED ajax
       \/ /\ cluster' = [cluster EXCEPT !.words = "starting"]
          /\ Send([Plain("start") EXCEPT !.key = Words])
    /\ UNCHANGED <<list, clock, server>>
ClickStop ==
    /\ Event /\ cluster.drawn = "running"
    /\ cluster' = [cluster EXCEPT !.words = "stopping"]
    /\ Send([Plain("stop") EXCEPT !.key = Words])
    /\ UNCHANGED <<list, clock, server>>

------------------------------------------------------------------------------
(* The server carries the requests out; other pages are at work too.        *)
WithKernel(n, k) == (store \ {n}) \cup {[n EXCEPT !.kernel = k]}
Answered(i, r) == ajax' = [ajax EXCEPT ![i] = r]
Serve ==
    \E i \in DOMAIN ajax :
       LET r == ajax[i]
           ok == [r EXCEPT !.status = "ok"]
       IN /\ r.status = "sent"
          /\ \/ Answered(i, [r EXCEPT !.status = "failed"]) /\ UNCHANGED server
             \/ r.what = "notebooks" /\ Answered(i, [ok EXCEPT !.list = store]) /\ UNCHANGED server
             \/ /\ r.what = "clusters"
                /\ Answered(i, [ok EXCEPT !.id = IF clusterRuns THEN 1 ELSE 0])
                /\ UNCHANGED server
             \/ /\ r.what = "upload" /\ made' = made + 1 /\ Answered(i, [ok EXCEPT !.id = made'])
                /\ store' = store \cup {[id |-> made', name |-> r.name, data |-> r.data,
                                         kernel |-> 0]}
                /\ UNCHANGED clusterRuns
             \/ /\ r.what = "delete" /\ Answered(i, ok)
                /\ \E n \in store : n.id = r.id /\ store' = store \ {n}
                /\ UNCHANGED <<made, clusterRuns>>
             \/ /\ r.what = "shutdown" /\ Answered(i, ok)
                /\ \E n \in store : n.kernel = r.id /\ store' = WithKernel(n, 0)
                /\ UNCHANGED <<made, clusterRuns>>
             \/ /\ r.what \in {"start", "stop"} /\ clusterRuns = (r.what = "stop")
                /\ clusterRuns' = ~clusterRuns
                /\ Answered(i, ok) /\ UNCHANGED <<store, made>>
          /\ UNCHANGED <<list, cluster, clock, acts>>
Elsewhere ==
    /\ Event /\ tab = "notebooks"
    /\ \E n \in store :
         \/ store' = store \ {n}
         \/ n.kernel = 0 /\ store' = WithKernel(n, acts + 1)
    /\ UNCHANGED <<list, cluster, ajax, clock, made, clusterRuns>>

------------------------------------------------------------------------------
(* The answers.                                                             *)
Listed(n) == [NoRow EXCEPT !.key = n.id, !.name = n.name, !.id = n.id, !.kernel = n.kernel,
                           !.buttons = IF n.kernel = 0 THEN "delete" ELSE "shutdown"]
\* Whatever the list held goes, uploads too; with nothing to list a message comes.
ListLoaded(notebooks, rest) ==
    /\ rows' = IF notebooks = {} THEN {NoRow} ELSE {Listed(n) : n \in notebooks}
    /\ confirm' = [confirm EXCEPT !.key = Gone]
    /\ ajax' = [i \in DOMAIN rest |->
                      IF rest[i].what \in {"upload", "delete"}
                      THEN [rest[i] EXCEPT !.key = Gone] ELSE rest[i]]
    /\ UNCHANGED <<tab, readers, dropped, cluster>>
LoadListSuccess(runs, rest) ==
    /\ cluster' = Drawn(IF runs = 1 THEN "running" ELSE "stopped")
    /\ ajax' = Redrawn(Gone, rest) /\ UNCHANGED list
UpdateState(r, rest) ==
    /\ IF r.key = Gone THEN cluster' = cluster /\ ajax' = rest
       ELSE /\ cluster' = Drawn(IF r.what = "start" THEN "running" ELSE "stopped")
            /\ ajax' = Redrawn(Row, rest)
    /\ UNCHANGED list
\* The error handlers: of the list, of start and stop; the others have none.
Worded(r) == IF r.key = Words THEN [cluster EXCEPT !.words = "error"] ELSE cluster
Failed(r, rest) ==
    CASE r.what = "notebooks" -> ListLoaded({}, rest)
      [] r.what \in {"start", "stop"} -> cluster' = Worded(r) /\ ajax' = rest /\ UNCHANGED list
      [] OTHER -> ajax' = rest /\ UNCHANGED <<list, cluster>>

Succeeded(r, rest) ==
    CASE r.what = "notebooks" -> ListLoaded(r.list, rest)
      [] r.what = "clusters" -> LoadListSuccess(r.id, rest)
      [] r.what = "upload" ->          \* add_link, add_delete_button
           LET Linked == [row \in rows |-> [row EXCEPT !.id = r.id, !.buttons = "delete"]]
           IN /\ rows' = IF r.key = Gone THEN rows ELSE Amended(r.key, Linked)
              /\ ajax' = rest /\ UNCHANGED <<tab, readers, confirm, dropped, cluster>>
      [] r.what = "delete" ->
           /\ rows' = {row \in rows : r.key = Gone \/ row.key # r.key}
           /\ ajax' = rest /\ UNCHANGED <<tab, readers, confirm, dropped, cluster>>
      [] r.what = "shutdown" -> ajax' = Append(rest, Load) /\ UNCHANGED <<list, cluster>>
      [] OTHER -> UpdateState(r, rest)
Arrive ==
    \E i \in DOMAIN ajax :
       LET r == ajax[i]
           rest == RemoveAt(ajax, i)
       IN /\ r.status # "sent"
          /\ IF r.status = "ok" THEN Succeeded(r, rest) ELSE Failed(r, rest)
          /\ UNCHANGED <<clock, server, acts>>

TNext ==
    \/ EnableAutorefresh \/ DisableAutorefresh \/ Tick \/ ClickRefresh
    \/ HandleFilesUpload \/ Onload \/ ReadFails \/ ClickUpload \/ ClickCancel
    \/ ClickDelete \/ AnswerDialog \/ ClickShutdown \/ ClickStart \/ ClickStop
    \/ Serve \/ Elsewhere \/ Arrive
TreeSpec == TInit /\ [][TNext]_tvars

------------------------------------------------------------------------------
(* Whatever was loaded, read and answered in between, a button acts on what  *)
(* its row says: what is uploaded under a name is the file of that name, and *)
(* what is deleted has the name that was confirmed.  The words of a cluster  *)
(* never stay at starting or stopping without a request to change them, and  *)
(* at most one interval refreshes the page, none once it has lost the focus. *)
ButtonsKeepTheirRow ==
    /\ \A i \in DOMAIN ajax :
         LET r == ajax[i]
         IN /\ r.what = "upload" => r.name = r.data.name /\ r.format = FormatOf(r.data)
            /\ r.what = "delete" => \A n \in store : n.id = r.id => n.name = r.name
    /\ cluster.words \in {"starting", "stopping"} =>
         \E i \in DOMAIN ajax : ajax[i].what \in {"start", "stop"} /\ ajax[i].key = Words
    /\ ticking <= 1 /\ (heard = "blur" => ticking = 0)
=============================================================================
