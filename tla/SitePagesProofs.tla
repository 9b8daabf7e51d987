-------------------------- MODULE SitePagesProofs --------------------------
(***************************************************************************)
(* The pages of the site, each under its own specification:                *)
(*   LSpec       the lesson page, for any kernel and any number of clicks  *)
(*   PopupsSpec  the tooltip and the completion list of a notebook's cell, *)
(*               for any cells and any number of inputs                    *)
(*   StatusSpec  the messages beside a notebook's title, for any history   *)
(*   TreeSpec    the list of notebooks, for any files dropped, any         *)
(*               notebooks of the server and any order of the answers      *)
(*   NotebookSpec  the cells of a notebook, for any files and any number   *)
(*               of cells and of commands                                  *)
(*   OutputsSpec  the outputs of a cell, for any number of executions,     *)
(*               messages and clears                                       *)
(*   ViewerSpec  the benchmark viewer, for any data files, benchmarks and  *)
(*               hosts and any order of the controls' handlers             *)
(***************************************************************************)
EXTENDS BenchmarkViewer, LessonPage, Notebook, OutputArea, Popups, StatusArea, TreePage,
        FiniteSetTheorems, TLAPS

-----------------------------------------------------------------------------
(****************************** The lesson page ****************************)

\* The button is disabled for as long as a run is in flight, and that run is the
\* newest: this is what keeps two runs from overlapping.
OneInFlight ==
    \A r \in DOMAIN runs : runs[r].pc # Over => r = Len(runs) /\ disabled

\* While a run is in flight the status bar shows its progress, not a verdict.
NoVerdictInFlight ==
    \A r \in DOMAIN runs : runs[r].pc # Over => status.text \notin Verdicts

\* A run that has not reached the GPU is not marked as dispatched, and what a
\* dispatched one holds is gone once it is over.
HeldInFlight ==
    \A r \in DOMAIN runs :
        /\ runs[r].pc \in {"adapter", "device", "compile"} => ~runs[r].dispatched
        /\ runs[r].pc = Over /\ runs[r].dispatched => runs[r].held = {}

LInv == LTypeOK /\ OneInFlight /\ NoVerdictInFlight /\ HeldInFlight /\ VerdictIsOfLastClick

-----------------------------------------------------------------------------
(* What an action does to the sequence of runs.                             *)

\* A click appends a record that holds nothing.
LEMMA RecordType ==
    ASSUME NEW pc \in Pcs PROVE Record(pc) \in RunRecords
  BY DEF Record, RunRecords

\* Buffers of the ABI are among everything a run can hold.
LEMMA PairsType ==
    ASSUME NEW n \in 0..Len(Buffers) PROVE Pairs(n) \subseteq Everything
  <1>1. Buffers \in Seq(STRING)
    BY LessonAssumption
  <1>2. StorageOf(n) \subseteq StorageOf(Len(Buffers))
    BY <1>1 DEF StorageOf
  <1>. QED
    BY <1>2 DEF Pairs, Everything

\* Starting a run keeps the runs before it.
LEMMA Appending ==
    ASSUME LInv, NEW rec \in RunRecords, runs' = Append(runs, rec)
    PROVE  /\ runs' \in Seq(RunRecords)
           /\ Len(runs') = Len(runs) + 1
           /\ \A r \in DOMAIN runs' : (r \in DOMAIN runs /\ runs'[r] = runs[r])
                                     \/ (r = Len(runs') /\ runs'[r] = rec)
<1>1. runs \in Seq(RunRecords)
  BY DEF LInv, LTypeOK
<1>2. runs' \in Seq(RunRecords) /\ Len(runs') = Len(runs) + 1
  BY <1>1
<1>3. \A r \in DOMAIN runs' : (r \in DOMAIN runs /\ runs'[r] = runs[r])
                            \/ (r = Len(runs') /\ runs'[r] = rec)
  <2> SUFFICES ASSUME NEW r \in DOMAIN runs'
               PROVE  (r \in DOMAIN runs /\ runs'[r] = runs[r])
                      \/ (r = Len(runs') /\ runs'[r] = rec)
    OBVIOUS
  <2>1. r \in 1..Len(runs) + 1 /\ DOMAIN runs = 1..Len(runs)
    BY <1>1, <1>2
  <2>2. r \in 1..Len(runs) \/ r = Len(runs) + 1
    BY <1>1, <2>1
  <2> QED
    BY <1>1, <1>2, <2>1, <2>2
<1> QED
  BY <1>2, <1>3

\* A step of run r replaces its record and no other.
LEMMA Stepping ==
    ASSUME LInv, NEW r \in DOMAIN runs, NEW rec \in RunRecords,
           runs' = [runs EXCEPT ![r] = rec]
    PROVE  /\ runs' \in Seq(RunRecords)
           /\ Len(runs') = Len(runs) /\ DOMAIN runs' = DOMAIN runs
           /\ \A q \in DOMAIN runs : runs'[q] = IF q = r THEN rec ELSE runs[q]
  <1>1. runs \in Seq(RunRecords)
    BY DEF LInv, LTypeOK, StatusTexts, OutputTexts
  <1>. QED
    BY <1>1

-----------------------------------------------------------------------------
(* The invariant is inductive: first what starts a run, then what moves one. *)

LEMMA InitHolds == LInit => LInv
<1> SUFFICES ASSUME LInit PROVE LInv
  OBVIOUS
<1>1. LTypeOK
  <2>1. runs \in Seq(RunRecords)
    BY DEF LInit
  <2>2. status \in [text : StatusTexts, of : Nat] /\ output \in [text : OutputTexts, of : Nat]
    BY DEF LInit, StatusTexts, OutputTexts, Text, Nobody
  <2> QED
    BY <2>1, <2>2 DEF LInit, LTypeOK, Nobody
<1> QED
  BY <1>1 DEF LInit, LInv, OneInFlight, NoVerdictInFlight, HeldInFlight, VerdictIsOfLastClick,
              Text, Verdicts

\* The page comes up, or goes dead, before any click.
LEMMA InitPageKeeps == LInv /\ InitPage => LInv'
<1> SUFFICES ASSUME LInv, InitPage PROVE LInv'
  OBVIOUS
<1>1. LTypeOK'
  <2>1. /\ status' \in [text : StatusTexts, of : Nat]
        /\ output' \in [text : OutputTexts, of : Nat]
    BY DEF LInv, LTypeOK, InitPage, StatusTexts, OutputTexts, Text, Nobody
  <2> QED
    BY <2>1 DEF LInv, LTypeOK, InitPage
<1>2. OneInFlight' /\ HeldInFlight'
  BY DEF LInv, InitPage, OneInFlight, HeldInFlight
<1>3. NoVerdictInFlight' /\ VerdictIsOfLastClick'
  BY DEF LInv, InitPage, NoVerdictInFlight, VerdictIsOfLastClick, Text, Verdicts
<1> QED
  BY <1>1, <1>2, <1>3 DEF LInv

\* A click is possible only when no run is in flight.
LEMMA ClickableMeansOver ==
    ASSUME LInv, Clickable
    PROVE  \A r \in DOMAIN runs : runs[r].pc = Over
  BY DEF LInv, Clickable, OneInFlight

LEMMA ClickFailsKeeps == LInv /\ ClickFails => LInv'
<1> SUFFICES ASSUME LInv, ClickFails PROVE LInv'
  OBVIOUS
<1> DEFINE rec == Record(Over)
<1>1. rec \in RunRecords
  BY RecordType DEF Pcs
<1>2. rec.pc = Over /\ ~rec.dispatched
  BY DEF Record
<1>3. runs' = Append(runs, rec)
  BY DEF ClickFails, Started
<1> HIDE DEF rec
<1>4. /\ runs' \in Seq(RunRecords)
      /\ \A r \in DOMAIN runs' : (r \in DOMAIN runs /\ runs'[r] = runs[r])
                                \/ (r = Len(runs') /\ runs'[r] = rec)
  BY <1>1, <1>3, Appending
<1>5. \A r \in DOMAIN runs' : runs'[r].pc = Over
  BY <1>2, <1>4, ClickableMeansOver DEF ClickFails
<1>6. status'.text \notin Verdicts
  BY DEF ClickFails, TranspilerMissing, TranspileThrows, TranspileError, InputsThrow, Text, Verdicts
<1>7. LTypeOK'
  <2>1. This \in Nat
    BY DEF LInv, LTypeOK, StatusTexts, OutputTexts, This
  <2> QED
    BY <1>4, <2>1 DEF LInv, LTypeOK, StatusTexts, OutputTexts, ClickFails, TranspilerMissing, TranspileThrows,
                      TranspileError, InputsThrow, Text
<1>8. HeldInFlight'
  BY <1>2, <1>4, <1>5 DEF LInv, HeldInFlight, Over
<1> QED
  BY <1>5, <1>6, <1>7, <1>8 DEF LInv, OneInFlight, NoVerdictInFlight, VerdictIsOfLastClick

LEMMA ClickKeeps == LInv /\ Click => LInv'
<1> SUFFICES ASSUME LInv, Click PROVE LInv'
  OBVIOUS
<1> DEFINE rec == Record("adapter")
<1>1. rec \in RunRecords
  BY RecordType DEF Pcs
<1>2. rec.pc = "adapter" /\ ~rec.dispatched
  BY DEF Record
<1>3. runs' = Append(runs, rec)
  BY DEF Click, Started
<1> HIDE DEF rec
<1>4. /\ runs' \in Seq(RunRecords)
      /\ \A r \in DOMAIN runs' : (r \in DOMAIN runs /\ runs'[r] = runs[r])
                                \/ (r = Len(runs') /\ runs'[r] = rec)
  BY <1>1, <1>3, Appending
<1>5. disabled' /\ status'.text \notin Verdicts
  BY DEF Click, Transpiled, Text, Verdicts
<1>6. OneInFlight'
  BY <1>4, <1>5, ClickableMeansOver DEF Click, OneInFlight
<1>7. LTypeOK'
  <2>1. This \in Nat
    BY DEF LInv, LTypeOK, StatusTexts, OutputTexts, This
  <2> QED
    BY <1>4, <2>1 DEF LInv, LTypeOK, StatusTexts, OutputTexts, Click, Transpiled, Text
<1>8. HeldInFlight'
  BY <1>2, <1>4 DEF LInv, HeldInFlight, Over
<1> QED
  BY <1>5, <1>6, <1>7, <1>8 DEF LInv, NoVerdictInFlight, VerdictIsOfLastClick

-----------------------------------------------------------------------------
\* A run that moves on to another await while the page stays as it is.
LEMMA MovingKeeps ==
    ASSUME LInv, NEW r \in DOMAIN runs, runs[r].pc # Over, NEW rec \in RunRecords,
           rec.pc # Over, rec.pc = "map" \/ ~rec.dispatched,
           runs' = [runs EXCEPT ![r] = rec],
           UNCHANGED <<page, disabled, status, output, wgsl>>
    PROVE  LInv'
<1>1. /\ runs' \in Seq(RunRecords)
      /\ Len(runs') = Len(runs) /\ DOMAIN runs' = DOMAIN runs
      /\ \A q \in DOMAIN runs : runs'[q] = IF q = r THEN rec ELSE runs[q]
  BY Stepping
<1>2. LTypeOK'
  BY <1>1 DEF LInv, LTypeOK, StatusTexts, OutputTexts
<1>3. OneInFlight' /\ NoVerdictInFlight'
  BY <1>1 DEF LInv, OneInFlight, NoVerdictInFlight
<1>4. HeldInFlight'
  BY <1>1 DEF LInv, HeldInFlight, Over
<1>5. VerdictIsOfLastClick'
  BY <1>1 DEF LInv, VerdictIsOfLastClick
<1> QED
  BY <1>2, <1>3, <1>4, <1>5 DEF LInv

\* A run that ends: a dispatched one has released its buffers, and a verdict, if
\* there is one, is its own and also in the panel.
LEMMA EndingKeeps ==
    ASSUME LInv, NEW r \in DOMAIN runs, runs[r].pc # Over, NEW rec \in RunRecords,
           rec.pc = Over, rec.dispatched => rec.held = {},
           runs' = [runs EXCEPT ![r] = rec], disabled' = FALSE,
           status' \in [text : StatusTexts, of : Nat], output' \in [text : OutputTexts, of : Nat],
           status'.text \in Verdicts => status'.of = r /\ output' = status',
           UNCHANGED <<page, wgsl>>
    PROVE  LInv'
<1>1. /\ runs' \in Seq(RunRecords)
      /\ Len(runs') = Len(runs) /\ DOMAIN runs' = DOMAIN runs
      /\ \A q \in DOMAIN runs : runs'[q] = IF q = r THEN rec ELSE runs[q]
  BY Stepping
<1>2. LTypeOK'
  BY <1>1 DEF LInv, LTypeOK, StatusTexts, OutputTexts
<1>3. r = Len(runs) /\ \A q \in DOMAIN runs : q # r => runs[q].pc = Over
  BY DEF LInv, OneInFlight
<1>4. OneInFlight' /\ NoVerdictInFlight'
  BY <1>1, <1>3 DEF OneInFlight, NoVerdictInFlight
<1>5. HeldInFlight'
  BY <1>1 DEF LInv, HeldInFlight, Over
<1>6. VerdictIsOfLastClick'
  BY <1>1, <1>3 DEF VerdictIsOfLastClick
<1> QED
  BY <1>2, <1>4, <1>5, <1>6 DEF LInv

\* An exception of the runner, with what the run still holds.
LEMMA GpuErrorKeeps ==
    ASSUME LInv, NEW r \in DOMAIN runs, runs[r].pc # Over, NEW held \in SUBSET Everything,
           runs[r].dispatched => held = {}, GpuError(r, held)
    PROVE  LInv'
<1> DEFINE rec == [runs[r] EXCEPT !.pc = Over, !.held = held]
<1>1. runs \in Seq(RunRecords)
  BY DEF LInv, LTypeOK, StatusTexts, OutputTexts
<1>2. runs[r] \in RunRecords
  BY <1>1
<1>3. /\ rec \in RunRecords /\ rec.pc = Over /\ rec.held = held
      /\ rec.dispatched = runs[r].dispatched
  BY <1>2 DEF RunRecords, Pcs
<1>4. runs' = [runs EXCEPT ![r] = rec] /\ disabled' = FALSE
  BY <1>1, <1>2 DEF GpuError, Ends, RunRecords
<1> HIDE DEF rec
<1>5. /\ status' \in [text : StatusTexts, of : Nat] /\ output' \in [text : OutputTexts, of : Nat]
      /\ status'.text \notin Verdicts
  BY <1>1 DEF LInv, LTypeOK, GpuError, Text, Verdicts, StatusTexts, OutputTexts
<1>6. UNCHANGED <<page, wgsl>>
  BY DEF GpuError
<1> QED
  BY <1>3, <1>4, <1>5, <1>6, EndingKeeps

\* Each step of a run in flight is one of the three above.
LEMMA RunKeeps ==
    ASSUME LInv, NEW r \in DOMAIN runs,
           \/ GetAdapter(r) \/ GetDevice(r) \/ CompileFails(r) \/ SetupThrows(r)
           \/ Dispatch(r) \/ MapRejects(r) \/ MapResolves(r) \/ Returns(r)
    PROVE  LInv'
<1>1. runs \in Seq(RunRecords)
  BY DEF LInv, LTypeOK
<1>2. /\ runs[r] \in RunRecords
      /\ runs[r].pc \in Pcs /\ runs[r].held \in SUBSET Everything
      /\ runs[r].mapped \in Nat /\ runs[r].dispatched \in BOOLEAN
  <2>1. runs[r] \in RunRecords
    BY <1>1
  <2> QED
    BY <2>1 DEF RunRecords
<1>3. runs[r].pc \in {"adapter", "device", "compile"} => ~runs[r].dispatched
  BY DEF LInv, HeldInFlight
<1>4. ASSUME NEW pc \in {"device", "compile"}, Moves(r, pc),
             runs[r].pc \in {"adapter", "device"}
      PROVE  LInv'
  <2> DEFINE rec == [runs[r] EXCEPT !.pc = pc]
  <2>1. rec \in RunRecords /\ rec.pc = pc /\ rec.dispatched = runs[r].dispatched
    BY <1>2, <1>4 DEF RunRecords, Pcs
  <2>2. runs' = [runs EXCEPT ![r] = rec]
    BY <1>2, <1>4 DEF Moves, RunRecords
  <2> HIDE DEF rec
  <2>3. runs[r].pc # Over /\ rec.pc # Over
    BY <1>4, <2>1 DEF Over
  <2>4. ~rec.dispatched
    BY <1>3, <1>4, <2>1
  <2> QED
    BY <1>4, <2>1, <2>2, <2>3, <2>4, MovingKeeps DEF Moves
<1>5. CASE GetAdapter(r) \/ GetDevice(r)
  <2>1. CASE GpuError(r, {})
    BY <1>3, <1>5, <2>1, GpuErrorKeeps DEF GetAdapter, GetDevice, Over
  <2> QED
    BY <1>4, <1>5, <2>1 DEF GetAdapter, GetDevice
<1>6. CASE CompileFails(r)
  BY <1>3, <1>6, GpuErrorKeeps DEF CompileFails, Over
<1>7. CASE SetupThrows(r)
  <2>1. PICK n \in 0..Len(Buffers) : GpuError(r, Pairs(n))
    BY <1>7 DEF SetupThrows
  <2>2. runs[r].pc # Over /\ ~runs[r].dispatched
    BY <1>3, <1>7 DEF SetupThrows, Over
  <2>3. Pairs(n) \in SUBSET Everything
    BY PairsType
  <2> QED
    BY <2>1, <2>2, <2>3, GpuErrorKeeps
<1>8. CASE Dispatch(r)
  <2>1. PICK uniform \in {{}, {<<Uniform, "uniform">>}} :
           runs' = [runs EXCEPT ![r].pc = "map", ![r].dispatched = TRUE,
                                ![r].held = Pairs(Len(Buffers)) \cup uniform]
    BY <1>8 DEF Dispatch
  <2> DEFINE h == Pairs(Len(Buffers)) \cup uniform
             rec == [runs[r] EXCEPT !.pc = "map", !.dispatched = TRUE, !.held = h]
  <2>2. h \in SUBSET Everything
    BY DEF Everything
  <2>3. runs' = [runs EXCEPT ![r] = rec]
    BY <1>2, <2>1 DEF RunRecords
  <2> HIDE DEF h
  <2>4. rec \in RunRecords /\ rec.pc = "map"
    BY <1>2, <2>2 DEF RunRecords, Pcs
  <2> HIDE DEF rec
  <2>5. runs[r].pc # Over /\ rec.pc # Over
    BY <1>8, <2>4 DEF Dispatch, Over
  <2> QED
    BY <1>8, <2>3, <2>4, <2>5, MovingKeeps DEF Dispatch
<1>9. Destroyed(runs[r].held) = {}
  BY <1>2 DEF Destroyed
<1>10. CASE MapRejects(r)
  BY <1>9, <1>10, GpuErrorKeeps DEF MapRejects, Over
<1>11. CASE MapResolves(r)
  <2> DEFINE rec == [runs[r] EXCEPT !.mapped = @ + 1]
  <2>1. rec \in RunRecords /\ rec.pc = runs[r].pc
    BY <1>2 DEF RunRecords
  <2>2. runs' = [runs EXCEPT ![r] = rec]
    BY <1>2, <1>11 DEF MapResolves, RunRecords
  <2> HIDE DEF rec
  <2>3. runs[r].pc = "map" /\ rec.pc = "map" /\ rec.pc # Over
    BY <1>11, <2>1 DEF MapResolves, Over
  <2> QED
    BY <1>11, <2>1, <2>2, <2>3, MovingKeeps DEF MapResolves
<1>12. CASE Returns(r)
  <2> DEFINE rec == [runs[r] EXCEPT !.pc = Over, !.held = {}]
  <2>1. rec \in RunRecords /\ rec.pc = Over /\ rec.held = {}
    BY <1>2 DEF RunRecords, Pcs
  <2>2. runs' = [runs EXCEPT ![r] = rec] /\ disabled' = FALSE /\ UNCHANGED <<page, wgsl>>
    BY <1>2, <1>9, <1>12 DEF Returns, Ends, RunRecords
  <2> HIDE DEF rec
  <2>3. runs[r].pc # Over
    BY <1>12 DEF Returns, Over
  <2>4. status.text \notin Verdicts
    BY <2>3 DEF LInv, NoVerdictInFlight
  <2>5. /\ status' \in [text : StatusTexts, of : Nat]
        /\ output' \in [text : OutputTexts, of : Nat]
        /\ status'.text \in Verdicts => status'.of = r /\ output' = status'
    <3>1. CASE GradingThrows
      BY <2>4, <3>1 DEF GradingThrows, LInv, LTypeOK
    <3>2. CASE Graded(r)
      BY <1>1, <3>2 DEF Graded, Text, Verdicts, StatusTexts, OutputTexts
    <3> QED
      BY <1>12, <3>1, <3>2 DEF Returns
  <2> QED
    BY <2>1, <2>2, <2>3, <2>5, EndingKeeps
<1> QED
  BY <1>5, <1>6, <1>7, <1>8, <1>10, <1>11, <1>12

-----------------------------------------------------------------------------
(* Theorems *)

\* The inductive invariant of the lesson page.
THEOREM Invariance == LSpec => []LInv
<1>1. LInv /\ [LNext]_lvars => LInv'
  <2> SUFFICES ASSUME LInv, [LNext]_lvars PROVE LInv'
    OBVIOUS
  <2>1. CASE UNCHANGED lvars
    BY <2>1 DEF lvars, LInv, LTypeOK, OneInFlight, NoVerdictInFlight, HeldInFlight,
                VerdictIsOfLastClick
  <2>2. CASE InitPage
    BY <2>2, InitPageKeeps
  <2>3. CASE Click
    BY <2>3, ClickKeeps
  <2>4. CASE ClickFails
    BY <2>4, ClickFailsKeeps
  <2>5. ASSUME NEW r \in DOMAIN runs,
               \/ GetAdapter(r) \/ GetDevice(r) \/ CompileFails(r) \/ SetupThrows(r)
               \/ Dispatch(r) \/ MapRejects(r) \/ MapResolves(r) \/ Returns(r)
        PROVE  LInv'
    BY <2>5, RunKeeps
  <2> QED
    BY <2>1, <2>2, <2>3, <2>4, <2>5 DEF LNext
<1> QED
  BY InitHolds, <1>1, PTL DEF LSpec

\* A verdict in the status bar is the newest click's, and the panel shows the same.
THEOREM NewestGrade == LSpec => []VerdictIsOfLastClick
<1>1. LInv => VerdictIsOfLastClick
  BY DEF LInv
<1> QED
  BY <1>1, Invariance, PTL

\* A run that reached the GPU and is over holds no buffer, and runs never overlap.
THEOREM NoBufferLeft == LSpec => []DispatchedRunsRelease
<1>1. LInv => DispatchedRunsRelease
  BY DEF LInv, HeldInFlight, OneInFlight, DispatchedRunsRelease, Over
<1> QED
  BY <1>1, Invariance, PTL

\* The page's state is well typed.
THEOREM TypeCorrect == LSpec => []LTypeOK
<1>1. LInv => LTypeOK
  BY DEF LInv
<1> QED
  BY <1>1, Invariance, PTL

-----------------------------------------------------------------------------
(************************ The popups of a notebook's cell *******************)

\* The tooltip's fields, and how far repeated requests are counted: past two only on a
\* line that has nothing to ask about.
IsTip ==
    /\ tip = [hidden |-> tip.hidden, mirror |-> tip.mirror, cell |-> tip.cell, text |-> tip.text,
              counter |-> tip.counter, sticky |-> tip.sticky, quiet |-> tip.quiet,
              called |-> tip.called]
    /\ tip.hidden \in BOOLEAN /\ tip.sticky \in BOOLEAN /\ asked \in BOOLEAN
    /\ tip.counter \in Nat /\ tip.called \in 0..3
    /\ tip.text \notin {<<>>, <<"p">>} => tip.counter <= 2

\* A tooltip that an answer may still show was asked for.
AnswersAreAwaited == tip.mirror # NoCell \/ ~tip.hidden => asked

PopupsInv == IsTip /\ AnswersAreAwaited

LEMMA PopupsInit == PInit => PopupsInv
<1> SUFFICES ASSUME PInit PROVE PopupsInv
  OBVIOUS
<1>1. /\ tip = [hidden |-> TRUE, mirror |-> NoCell, cell |-> NoCell, text |-> <<>>, counter |-> 0,
                sticky |-> FALSE, quiet |-> FALSE, called |-> 0]
      /\ lists = <<>> /\ asked = FALSE
  BY DEF PInit
<1>2. /\ tip.hidden = TRUE /\ tip.sticky = FALSE /\ tip.counter = 0 /\ tip.called = 0
      /\ tip.text = <<>> /\ tip.mirror = NoCell
  BY <1>1
<1>5. tip = [hidden |-> tip.hidden, mirror |-> tip.mirror, cell |-> tip.cell, text |-> tip.text,
             counter |-> tip.counter, sticky |-> tip.sticky, quiet |-> tip.quiet,
             called |-> tip.called]
  BY <1>1
<1>6. tip.counter \in Nat /\ tip.called \in 0..3
  BY <1>2
<1>7. tip.text \notin {<<>>, <<"p">>} => tip.counter <= 2
  BY <1>2
<1>8. tip.hidden \in BOOLEAN /\ tip.sticky \in BOOLEAN /\ asked \in BOOLEAN
  BY <1>1, <1>2
<1>3. IsTip
  BY <1>5, <1>6, <1>7, <1>8 DEF IsTip
<1>4. AnswersAreAwaited
  BY <1>2 DEF AnswersAreAwaited
<1> QED BY <1>1, <1>3, <1>4 DEF PopupsInv

LEMMA DismissKeeps ==
    ASSUME PopupsInv, NEW force \in BOOLEAN, tip' = Dismissed(tip, force),
           asked' = (asked /\ tip.sticky /\ ~force)
    PROVE  IsTip' /\ AnswersAreAwaited'
<1>1. CASE ~tip.sticky \/ force
  <2>1. tip' = [[Hide(tip) EXCEPT !.sticky = FALSE] EXCEPT !.cell = NoCell, !.text = <<>>, !.counter = 0]
    BY <1>1 DEF Dismissed, ResetTabs
  <2>2. tip' = [hidden |-> TRUE, mirror |-> NoCell, cell |-> NoCell, text |-> <<>>,
                counter |-> 0, sticky |-> FALSE, quiet |-> tip.quiet, called |-> tip.called]
    BY <2>1 DEF PopupsInv, IsTip, Hide
  <2> QED BY <1>1, <2>2 DEF PopupsInv, IsTip, AnswersAreAwaited
<1>2. CASE ~(~tip.sticky \/ force)
  <2>1. tip' = [tip EXCEPT !.cell = NoCell, !.text = <<>>, !.counter = 0]
    BY <1>2 DEF Dismissed, ResetTabs
  <2>2. tip' = [hidden |-> tip.hidden, mirror |-> tip.mirror, cell |-> NoCell, text |-> <<>>,
                counter |-> 0, sticky |-> tip.sticky, quiet |-> tip.quiet, called |-> tip.called]
    BY <2>1 DEF PopupsInv, IsTip
  <2> QED BY <1>2, <2>2 DEF PopupsInv, IsTip, AnswersAreAwaited
<1> QED BY <1>1, <1>2

\* A request counts what is repeated; the fourth time opens the pager and dismisses the tooltip.
LEMMA RequestKeeps ==
    ASSUME PopupsInv, NEW cell, NEW quiet, NEW ts, Request(cell, quiet, ts)
    PROVE  IsTip' /\ AnswersAreAwaited'
<1> DEFINE t == Counted(cell, quiet)
<1>1. /\ t = [hidden |-> tip.hidden, mirror |-> cell, cell |-> t.cell, text |-> line[cell],
              counter |-> t.counter, sticky |-> t.sticky, quiet |-> quiet, called |-> tip.called]
      /\ t.sticky \in BOOLEAN /\ t.counter \in Nat
      /\ ~Silent(cell) => t.counter <= 3
  <2>1. CASE tip.cell = cell /\ tip.text = line[cell] /\ line[cell] # <<>> /\ ~tip.hidden
    <3>1. t = [[tip EXCEPT !.quiet = quiet, !.mirror = cell] EXCEPT !.counter = @ + 1]
      BY <2>1 DEF Counted
    <3>2. t = [hidden |-> tip.hidden, mirror |-> cell, cell |-> tip.cell, text |-> tip.text,
               counter |-> tip.counter + 1, sticky |-> tip.sticky, quiet |-> quiet,
               called |-> tip.called]
      BY <3>1 DEF PopupsInv, IsTip
    <3> HIDE DEF t
    <3> QED BY <2>1, <3>2 DEF PopupsInv, IsTip, Silent
  <2>2. CASE ~(tip.cell = cell /\ tip.text = line[cell] /\ line[cell] # <<>> /\ ~tip.hidden)
    <3>1. t = [[[tip EXCEPT !.quiet = quiet, !.mirror = cell] EXCEPT !.sticky = FALSE]
                 EXCEPT !.cell = cell, !.text = line[cell], !.counter = 0]
      BY <2>2 DEF Counted, ResetTabs
    <3>2. t = [hidden |-> tip.hidden, mirror |-> cell, cell |-> cell, text |-> line[cell],
               counter |-> 0, sticky |-> FALSE, quiet |-> quiet, called |-> tip.called]
      BY <3>1 DEF PopupsInv, IsTip
    <3> HIDE DEF t
    <3> QED BY <3>2 DEF PopupsInv, IsTip, Silent
  <2> QED BY <2>1, <2>2
<1>2. /\ tip' = IF Silent(cell) THEN t ELSE TabsFunction(t)
      /\ asked' = (Silent(cell) \/ t.counter # 3)
  BY DEF Request
<1> HIDE DEF t
<1>3. CASE Silent(cell)
  <2>1. tip' = t /\ line[cell] \in {<<>>, <<"p">>} /\ asked' = TRUE
    BY <1>2, <1>3 DEF Silent
  <2> QED BY <1>1, <2>1 DEF PopupsInv, IsTip, AnswersAreAwaited
<1>4. CASE ~Silent(cell) /\ t.counter = 3
  <2>1. tip' = ShowInPager([t EXCEPT !.called = 3])
    BY <1>2, <1>4 DEF TabsFunction
  <2> DEFINE asks3 == [t EXCEPT !.called = 3]
  <2>a. asks3 = [hidden |-> tip.hidden, mirror |-> cell, cell |-> t.cell, text |-> line[cell],
                 counter |-> 3, sticky |-> t.sticky, quiet |-> quiet, called |-> 3]
    BY <1>1, <1>4
  <2> HIDE DEF asks3
  <2>2. PICK loose : loose = [asks3 EXCEPT !.sticky = FALSE]
    OBVIOUS
  <2>b. loose = [hidden |-> tip.hidden, mirror |-> cell, cell |-> t.cell, text |-> line[cell],
                 counter |-> 3, sticky |-> FALSE, quiet |-> quiet, called |-> 3]
    BY <2>a, <2>2
  <2>c. tip' = [[loose EXCEPT !.hidden = TRUE, !.mirror = NoCell, !.sticky = FALSE]
                  EXCEPT !.cell = NoCell, !.text = <<>>, !.counter = 0]
    BY <2>1, <2>2, <2>b DEF asks3, ShowInPager, Dismissed, Hide, ResetTabs
  <2>3. tip' = [hidden |-> TRUE, mirror |-> NoCell, cell |-> NoCell, text |-> <<>>,
                counter |-> 0, sticky |-> FALSE, quiet |-> quiet, called |-> 3]
    BY <2>b, <2>c
  <2>4. asked' = FALSE
    BY <1>2, <1>4
  <2>5. tip' = [hidden |-> tip'.hidden, mirror |-> tip'.mirror, cell |-> tip'.cell,
                text |-> tip'.text, counter |-> tip'.counter, sticky |-> tip'.sticky,
                quiet |-> tip'.quiet, called |-> tip'.called]
    BY <2>3
  <2>6. tip'.counter \in Nat /\ tip'.called \in 0..3 /\ tip'.text = <<>>
    BY <2>3
  <2>7. tip'.hidden \in BOOLEAN /\ tip'.sticky \in BOOLEAN /\ asked' \in BOOLEAN
    BY <2>3, <2>4
  <2>8. IsTip'
    BY <2>5, <2>6, <2>7 DEF IsTip
  <2>9. AnswersAreAwaited'
    BY <2>3 DEF AnswersAreAwaited
  <2> QED BY <2>8, <2>9
<1>5. CASE ~Silent(cell) /\ t.counter # 3
  <2>c. t.counter \in 0..2
    BY <1>1, <1>5
  <2>a. asked' = TRUE /\ tip' = TabsFunction(t)
    BY <1>2, <1>5
  <2>1. tip' = IF t.counter = 2 THEN [[t EXCEPT !.called = t.counter] EXCEPT !.sticky = TRUE]
                  ELSE [t EXCEPT !.called = t.counter]
    BY <2>a, <1>5 DEF TabsFunction
  <2> DEFINE told == [t EXCEPT !.called = t.counter]
  <2>b. told = [hidden |-> tip.hidden, mirror |-> cell, cell |-> t.cell, text |-> line[cell],
                counter |-> t.counter, sticky |-> t.sticky, quiet |-> quiet, called |-> t.counter]
    BY <1>1
  <2>2. \E b \in BOOLEAN :
          tip' = [hidden |-> tip.hidden, mirror |-> cell, cell |-> t.cell, text |-> line[cell],
                  counter |-> t.counter, sticky |-> b, quiet |-> quiet, called |-> t.counter]
    <3>1. CASE t.counter = 2
      <4>1. tip' = [told EXCEPT !.sticky = TRUE]
        BY <2>1, <3>1
      <4> QED BY <2>b, <4>1
    <3>2. CASE t.counter # 2
      BY <1>1, <2>1, <2>b, <3>2
    <3> QED BY <3>1, <3>2
  <2> QED BY <2>a, <2>c, <2>2 DEF PopupsInv, IsTip, AnswersAreAwaited
<1> QED BY <1>3, <1>4, <1>5

LEMMA PopupsStep == PopupsInv /\ [PNext]_pvars => PopupsInv'
<1> SUFFICES ASSUME PopupsInv, [PNext]_pvars PROVE PopupsInv'
  OBVIOUS
<1> USE DEF PopupsInv
<1> DEFINE Rest == UNCHANGED <<tip, asked>>
<1>r. ASSUME Rest PROVE IsTip' /\ AnswersAreAwaited'
  BY <1>r DEF IsTip, AnswersAreAwaited
<1>d. ASSUME NEW force \in BOOLEAN, Dismiss(force) PROVE IsTip' /\ AnswersAreAwaited'
  BY <1>d, DismissKeeps DEF Dismiss
<1>1. ASSUME TooltipTimer PROVE PopupsInv'
  <2>1. PICK t \in timers : Request(t.cell, TRUE, timers \ {t})
    BY <1>1 DEF TooltipTimer
  <2> QED BY <2>1, RequestKeeps
<1>2. ASSUME ObjectInfoReply PROVE PopupsInv'
  <2>1. asked' = asked
    BY <1>2 DEF ObjectInfoReply
  <2>2. CASE tip' = tip
    BY <2>1, <2>2, <1>r
  <2>3. CASE tip.mirror # NoCell /\ tip' = [tip EXCEPT !.hidden = FALSE]
    <3>1. tip' = [hidden |-> FALSE, mirror |-> tip.mirror, cell |-> tip.cell, text |-> tip.text,
                  counter |-> tip.counter, sticky |-> tip.sticky, quiet |-> tip.quiet,
                  called |-> tip.called]
      BY <2>3 DEF IsTip
    <3> QED BY <2>1, <2>3, <3>1 DEF IsTip, AnswersAreAwaited
  <2> QED BY <1>2, <2>2, <2>3 DEF ObjectInfoReply
<1>s. ASSUME tip' = [tip EXCEPT !.sticky = FALSE], asked' = asked
      PROVE  IsTip' /\ AnswersAreAwaited'
  <2>1. tip' = [hidden |-> tip.hidden, mirror |-> tip.mirror, cell |-> tip.cell, text |-> tip.text,
                counter |-> tip.counter, sticky |-> FALSE, quiet |-> tip.quiet,
                called |-> tip.called]
    BY <1>s DEF IsTip
  <2> QED BY <1>s, <2>1 DEF IsTip, AnswersAreAwaited
<1>3. ASSUME StickTimer PROVE PopupsInv'
  BY <1>3, <1>s DEF StickTimer
<1>4. ASSUME CompleteReply PROVE PopupsInv'
  BY <1>4, <1>r DEF CompleteReply
<1>5. ASSUME Later PROVE PopupsInv'
  BY <1>5, <1>r DEF Later
<1>6. ASSUME TypeWord PROVE PopupsInv'
  BY <1>6, <1>d DEF TypeWord
<1>7. ASSUME TypeParenthesis PROVE PopupsInv'
  <2>1. asked' = (asked /\ tip.sticky /\ ~FALSE)
    BY <1>7 DEF TypeParenthesis
  <2> QED BY <1>7, <2>1, DismissKeeps DEF TypeParenthesis
<1>8. ASSUME Leave PROVE PopupsInv'
  BY <1>8, <1>d DEF Leave
<1>9. ASSUME Escape PROVE PopupsInv'
  BY <1>9, <1>d DEF Escape
<1>10. ASSUME ShiftTab PROVE PopupsInv'
  BY <1>10, RequestKeeps DEF ShiftTab
<1>11. ASSUME Tab PROVE PopupsInv'
  BY <1>11, <1>r, RequestKeeps DEF Tab, StartCompletion
<1>12. ASSUME ClickCell PROVE PopupsInv'
  BY <1>12, <1>r DEF ClickCell, Acts, Choosing, Closed
<1>13. ASSUME Pick PROVE PopupsInv'
  BY <1>13, <1>r DEF Pick, Acts, Choosing, Closed
<1>14. ASSUME CloseList PROVE PopupsInv'
  BY <1>14, <1>r DEF CloseList, Acts, Choosing, Closed
<1>15. ASSUME FastForward PROVE PopupsInv'
  BY <1>15, <1>r DEF FastForward, Acts, Choosing, Closed
<1>16. ASSUME CloseButton PROVE PopupsInv'
  BY <1>16, <1>d DEF CloseButton
<1>17. ASSUME PagerButton PROVE PopupsInv'
  BY <1>17, <1>d DEF PagerButton
<1>18. ASSUME ClockButton PROVE PopupsInv'
  BY <1>18, <1>s DEF ClockButton
<1>19. ASSUME PagerToggle PROVE PopupsInv'
  BY <1>19, <1>r DEF PagerToggle
<1>20. ASSUME OpenWithText PROVE PopupsInv'
  BY <1>20, <1>r DEF OpenWithText
<1>21. ASSUME KernelStatus PROVE PopupsInv'
  BY <1>21, <1>r DEF KernelStatus
<1>22. CASE UNCHANGED pvars
  BY <1>22, <1>r DEF pvars
<1> QED
  BY <1>1, <1>2, <1>3, <1>4, <1>5, <1>6, <1>7, <1>8, <1>9, <1>10, <1>11, <1>12, <1>13, <1>14, <1>15, <1>16, <1>17, <1>18, <1>19, <1>20, <1>21, <1>22 DEF PNext

\* Whatever was typed, answered and clicked, in any order, a tooltip that an answer may
\* still show was asked for.
THEOREM PopupsInvariant == PopupsSpec => []PopupsInv
  BY PopupsInit, PopupsStep, PTL DEF PopupsSpec

\* A tooltip on the page was asked for and not dismissed since, a count of repeated
\* requests is one the table has an entry for.
THEOREM DismissedStaysAway == PopupsSpec => []NothingPopsUpUnasked
<1>1. PopupsInv => NothingPopsUpUnasked
  <2> SUFFICES ASSUME PopupsInv PROVE NothingPopsUpUnasked
    OBVIOUS
  <2>1. ~tip.hidden => asked
    BY DEF PopupsInv, AnswersAreAwaited
  <2>2. tip.called \in 0..3
    BY DEF PopupsInv, IsTip
  <2> QED BY <2>1, <2>2 DEF NothingPopsUpUnasked
<1> QED BY <1>1, PopupsInvariant, PTL

-----------------------------------------------------------------------------
(********************** The messages beside the title **********************)

Boxes == [said : Nat, stays : BOOLEAN, phase : {"gone", "shown", "fading", "refading"},
          recorded : Nat, handlers : BOOLEAN, running : SUBSET Nat, blanked : BOOLEAN,
          forgotten : BOOLEAN]

\* The timer that runs is the recorded one, which the next message clears.
BoxHolds(b) ==
    ~b.forgotten =>
        /\ b.running \subseteq {b.said}
        /\ b.running # {} => b.recorded = b.said /\ ~b.stays
        /\ b.stays => b.phase \in {"shown", "refading"}
        /\ ~b.blanked => b.phase # "refading"
NotesHold == /\ messages \in Nat /\ box \in [Widgets -> Boxes]
             /\ \A w \in Widgets : BoxHolds(box[w])
WordsHold == dirty \in BOOLEAN /\ (saveStatus = "unsaved" <=> dirty)
StatusInv == NotesHold /\ WordsHold

\* A new message clears the timer of the one before, whether it has a time or stays.
LEMMA MessageHolds ==
    ASSUME NEW b \in Boxes, BoxHolds(b), NEW id \in Nat, NEW timed \in BOOLEAN
    PROVE  set_message(b, id, timed) \in Boxes /\ BoxHolds(set_message(b, id, timed))
<1> DEFINE c == set_message(b, id, timed)
<1>1. /\ c.said = id /\ c.stays = ~timed
      /\ c.phase = IF Fading(b) THEN "refading" ELSE "shown"
      /\ c.recorded = IF timed THEN id ELSE None
      /\ c.running = ClearsTimer(b) \cup (IF timed THEN {id} ELSE {})
      /\ c.blanked = Fading(b)
      /\ c.forgotten = (b.forgotten /\ ClearsTimer(b) # {})
  BY DEF set_message
<1>2. c \in Boxes
  <2>1. None \in Nat /\ ClearsTimer(b) \subseteq Nat /\ b.handlers \in BOOLEAN
        /\ b.forgotten \in BOOLEAN
    BY DEF Boxes, None, ClearsTimer
  <2>2. Fading(b) \in BOOLEAN
    BY DEF Fading
  <2>3. (b.handlers \/ ~timed) \in BOOLEAN /\ (b.forgotten /\ ClearsTimer(b) # {}) \in BOOLEAN
        /\ (~timed) \in BOOLEAN
    BY <2>1
  <2>4. (IF timed THEN id ELSE None) \in Nat
        /\ ClearsTimer(b) \cup (IF timed THEN {id} ELSE {}) \in SUBSET Nat
    BY <2>1
  <2>5. (IF Fading(b) THEN "refading" ELSE "shown") \in {"gone", "shown", "fading", "refading"}
    OBVIOUS
  <2> QED BY <2>2, <2>3, <2>4, <2>5 DEF set_message, Boxes
<1>3. BoxHolds(c)
  <2> SUFFICES ASSUME ~c.forgotten PROVE BoxHolds(c)
    BY DEF BoxHolds
  <2>1. ClearsTimer(b) = {}
    <3>1. CASE b.forgotten
      BY <1>1, <3>1
    <3>2. CASE ~b.forgotten
      BY <3>2 DEF BoxHolds, ClearsTimer
    <3> QED BY <3>1, <3>2
  <2>2. c.running = IF timed THEN {id} ELSE {}
    BY <1>1, <2>1
  <2>3. c.running \subseteq {c.said} /\ (c.running # {} => c.recorded = c.said /\ ~c.stays)
    BY <1>1, <2>2
  <2>4. c.phase \in {"shown", "refading"} /\ (~c.blanked => c.phase # "refading")
    BY <1>1
  <2> HIDE DEF c
  <2> QED BY <2>3, <2>4 DEF BoxHolds
<1> QED BY <1>2, <1>3

\* What one widget does leaves the other as it was.
LEMMA BoxChanges ==
    ASSUME NotesHold, NEW w \in Widgets, NEW b \in Boxes, BoxHolds(b),
           box' = [box EXCEPT ![w] = b], messages' \in Nat
    PROVE  NotesHold'
<1>1. box' \in [Widgets -> Boxes]
  BY DEF NotesHold
<1>2. ASSUME NEW v \in Widgets PROVE BoxHolds(box'[v])
  <2>1. box'[v] = IF v = w THEN b ELSE box[v]
    BY DEF NotesHold
  <2> QED BY <2>1 DEF NotesHold
<1> QED BY <1>1, <1>2 DEF NotesHold

LEMMA SaysKeeps ==
    ASSUME NotesHold, NEW w \in Widgets,
           (\E timed \in BOOLEAN : Says(w, timed)) \/ SaysTwo(w)
    PROVE  NotesHold'
<1>1. messages \in Nat /\ messages + 1 \in Nat /\ messages + 2 \in Nat
      /\ box[w] \in Boxes /\ BoxHolds(box[w])
  BY DEF NotesHold
<1>2. ASSUME NEW timed \in BOOLEAN, Says(w, timed) PROVE NotesHold'
  <2> DEFINE b == set_message(box[w], messages + 1, timed)
  <2>1. b \in Boxes /\ BoxHolds(b)
    BY <1>1, MessageHolds
  <2>2. box' = [box EXCEPT ![w] = b] /\ messages' \in Nat
    BY <1>1, <1>2 DEF Says
  <2> HIDE DEF b
  <2> QED BY <2>1, <2>2, BoxChanges
<1>3. ASSUME SaysTwo(w) PROVE NotesHold'
  <2> DEFINE a == set_message(box[w], messages + 1, TRUE)
             b == set_message(a, messages + 2, TRUE)
  <2>1. a \in Boxes /\ BoxHolds(a)
    BY <1>1, MessageHolds
  <2>2. box' = [box EXCEPT ![w] = b] /\ messages' \in Nat
    BY <1>1, <1>3 DEF SaysTwo
  <2> HIDE DEF a
  <2>3. b \in Boxes /\ BoxHolds(b)
    BY <1>1, <2>1, MessageHolds
  <2> HIDE DEF b
  <2> QED BY <2>2, <2>3, BoxChanges
<1> QED BY <1>2, <1>3

LEMMA StatusInit == SInit => StatusInv
<1> SUFFICES ASSUME SInit PROVE StatusInv
  OBVIOUS
<1>1. Unsaid \in Boxes /\ BoxHolds(Unsaid)
  BY DEF Unsaid, Boxes, BoxHolds, None
<1> DEFINE b == set_message(Unsaid, 1, TRUE)
<1>2. b \in Boxes /\ BoxHolds(b)
  BY <1>1, MessageHolds
<1>3. box = [w \in Widgets |-> IF w = "notebook" THEN b ELSE Unsaid] /\ messages = 1
  BY DEF SInit
<1> HIDE DEF b
<1>4. NotesHold
  BY <1>1, <1>2, <1>3 DEF NotesHold
<1>5. WordsHold
  BY DEF SInit, WordsHold
<1> QED BY <1>4, <1>5 DEF StatusInv

LEMMA StatusStep == StatusInv /\ [SNext]_svars => StatusInv'
<1> SUFFICES ASSUME StatusInv, [SNext]_svars PROVE StatusInv'
  OBVIOUS
<1> USE DEF StatusInv
<1>a. ASSUME UNCHANGED notes PROVE NotesHold'
  BY <1>a DEF NotesHold, notes
<1>b. ASSUME UNCHANGED <<dirty, saveStatus>> PROVE WordsHold'
  BY <1>b DEF WordsHold
<1>s. ASSUME UNCHANGED saves PROVE WordsHold'
  BY <1>s, <1>b DEF saves
<1>c. ASSUME NEW value \in BOOLEAN, SetDirty(value) PROVE WordsHold'
  BY <1>c DEF WordsHold, SetDirty
<1>m. ASSUME NEW w \in Widgets, NEW timed \in BOOLEAN, Says(w, timed) PROVE NotesHold'
  BY <1>m, SaysKeeps
<1>w. "kernel" \in Widgets /\ "notebook" \in Widgets
  BY DEF Widgets
<1>x. ASSUME NEW w \in Widgets PROVE box[w] \in Boxes /\ BoxHolds(box[w]) /\ messages \in Nat
  BY DEF NotesHold
<1>1. ASSUME NEW w \in Widgets, HideTimer(w) PROVE StatusInv'
  <2>1. PICK id \in box[w].running :
          box' = [box EXCEPT ![w].running = @ \ {id}, ![w].recorded = None, ![w].phase = "fading"]
    BY <1>1 DEF HideTimer
  <2> DEFINE b == [box[w] EXCEPT !.running = @ \ {id}, !.recorded = None, !.phase = "fading"]
  <2>2. box' = [box EXCEPT ![w] = b]
    BY <2>1 DEF NotesHold
  <2>3. b \in Boxes /\ b.running = box[w].running \ {id} /\ b.said = box[w].said
        /\ b.phase = "fading" /\ b.stays = box[w].stays /\ b.forgotten = box[w].forgotten
    BY <1>x DEF Boxes, None
  <2>4. messages' \in Nat /\ UNCHANGED saves
    BY <1>1, <1>x DEF HideTimer
  <2> HIDE DEF b
  <2>5. BoxHolds(b)
    BY <1>x, <2>1, <2>3 DEF BoxHolds
  <2> QED BY <2>2, <2>3, <2>4, <2>5, BoxChanges, <1>s
<1>2. ASSUME NEW w \in Widgets, FadeEnds(w) PROVE StatusInv'
  <2> DEFINE b == [box[w] EXCEPT !.phase = IF @ = "refading" THEN "shown" ELSE "gone"]
  <2>1. box' = [box EXCEPT ![w] = b]
    BY <1>2 DEF FadeEnds, NotesHold
  <2>2. /\ b \in Boxes /\ b.running = box[w].running /\ b.said = box[w].said
        /\ b.recorded = box[w].recorded /\ b.stays = box[w].stays
        /\ b.forgotten = box[w].forgotten /\ b.blanked = box[w].blanked
        /\ b.phase = IF box[w].phase = "refading" THEN "shown" ELSE "gone"
    BY <1>x DEF Boxes
  <2>3. messages' \in Nat /\ UNCHANGED saves /\ box[w].phase \in {"fading", "refading"}
    BY <1>2, <1>x DEF FadeEnds, Fading
  <2> HIDE DEF b
  <2>4. BoxHolds(b)
    BY <1>x, <2>2, <2>3 DEF BoxHolds
  <2> QED BY <2>1, <2>2, <2>3, <2>4, BoxChanges, <1>s
<1>3. ASSUME NEW w \in Widgets, ClickMessage(w) PROVE StatusInv'
  <2> DEFINE b == [box[w] EXCEPT !.recorded = Lost, !.forgotten = @ \/ box[w].running # {}]
  <2>1. box' = [box EXCEPT ![w] = b]
    BY <1>3 DEF ClickMessage, NotesHold
  <2>2. Lost \in Nat
    BY MessagesAssumption DEF Lost
  <2>3. /\ b \in Boxes /\ b.running = box[w].running /\ b.said = box[w].said
        /\ b.stays = box[w].stays /\ b.phase = box[w].phase /\ b.blanked = box[w].blanked
        /\ b.forgotten = (box[w].forgotten \/ box[w].running # {})
    BY <1>x, <2>2 DEF Boxes
  <2>4. messages' \in Nat /\ UNCHANGED saves
    BY <1>3, <1>x DEF ClickMessage
  <2> HIDE DEF b
  <2>5. BoxHolds(b)
    BY <1>x, <2>3 DEF BoxHolds
  <2> QED BY <2>1, <2>3, <2>4, <2>5, BoxChanges, <1>s
<1>4. ASSUME NEW says \in {"idle", "busy", "restarting", "interrupting"}, Status(says) PROVE StatusInv'
  <2>1. (says \in {"idle", "restarting"}) \in BOOLEAN
    OBVIOUS
  <2> QED BY <1>4, <2>1, <1>m, <1>w, <1>s DEF Status
<1>5. ASSUME Dead PROVE StatusInv'
  BY <1>5, <1>a, <1>s DEF Dead
<1>6. ASSUME WebsocketClosed PROVE StatusInv'
  BY <1>6, <1>a, <1>s, <1>m, <1>w DEF WebsocketClosed
<1>7. ASSUME Reconnect PROVE StatusInv'
  BY <1>7, <1>a, <1>s DEF Reconnect
<1>8. ASSUME Answer PROVE StatusInv'
  BY <1>8, <1>a, <1>s, <1>m, <1>w DEF Answer, restore_checkpoint
<1>9. ASSUME Edit PROVE StatusInv'
  BY <1>9, <1>a, <1>c DEF Edit
<1>10. ASSUME SaveCheckpoint PROVE StatusInv'
  BY <1>10, <1>a, <1>b DEF SaveCheckpoint, SaveNotebook
<1>11. ASSUME Rename \/ RestartKernel \/ restore_checkpoint_dialog PROVE StatusInv'
  BY <1>11, <1>a, <1>s DEF Rename, RestartKernel, restore_checkpoint_dialog, AskOf
<1>12. ASSUME Loaded PROVE StatusInv'
  <2>1. NotesHold'
    BY <1>12, <1>w, SaysKeeps DEF Loaded
  <2>2. SetDirty(FALSE)
    BY <1>12 DEF Loaded
  <2> QED BY <2>1, <2>2, <1>c
<1>13. ASSUME LoadFailed PROVE StatusInv'
  BY <1>13, <1>a, <1>s DEF LoadFailed
<1>14. ASSUME CheckpointsListed PROVE StatusInv'
  BY <1>14, <1>a, <1>b DEF CheckpointsListed
<1>15. ASSUME ListFailed PROVE StatusInv'
  BY <1>15, <1>a, <1>s DEF ListFailed
<1>16. ASSUME RestoreSucceeds PROVE StatusInv'
  BY <1>16, <1>m, <1>w, <1>s DEF RestoreSucceeds, load_notebook
<1>17. ASSUME RestoreFails PROVE StatusInv'
  BY <1>17, <1>m, <1>w, <1>s DEF RestoreFails
<1>18. CASE UNCHANGED svars
  BY <1>18, <1>a, <1>b DEF svars, notes
<1> QED
  BY <1>1, <1>2, <1>3, <1>4, <1>5, <1>6, <1>7, <1>8, <1>9, <1>10, <1>11, <1>12, <1>13, <1>14, <1>15,
     <1>16, <1>17, <1>18 DEF SNext

\* Whatever the kernel, the server and the visitor do, loads, restores that succeed or fail
\* and clicks among them: unless a click forgot it, the only timer that runs on a widget is
\* that of the message it shows and the one on record, and the words beside the title say
\* what is not saved.
THEOREM StatusInvariant == StatusSpec => []StatusInv
  BY StatusInit, StatusStep, PTL DEF StatusSpec

\* A message stays for its own time: the timer of an earlier one never hides it, and what a
\* failed restore or a busy kernel says stays until the next message.
THEOREM MessagesLast == StatusSpec => []MessagesLastTheirTime
<1>1. StatusInv => MessagesLastTheirTime
  BY DEF StatusInv, NotesHold, WordsHold, BoxHolds, MessagesLastTheirTime
<1> QED BY <1>1, StatusInvariant, PTL

-----------------------------------------------------------------------------
(**************************** The list of notebooks ************************)

Kinds == {"notebooks", "clusters", "upload", "delete", "shutdown", "start", "stop"}
Formats == Extensions \cup {"", "json"}
Called == Titles \cup {""}
Rows == [key : Int, name : Called, format : Formats, data : UploadFile, id : Nat, kernel : Nat,
         buttons : {"none", "upload", "delete", "shutdown"}]
Readers == [file : UploadFile, key : Int]
Requests == [what : Kinds, key : Int, name : Called, format : Formats, data : UploadFile, id : Nat,
             list : SUBSET ServerNotebook, status : {"sent", "ok", "failed"}]
Dialogs == [open : BOOLEAN, key : Int, id : Nat, name : Called]
Clusters == [drawn : {"none", "running", "stopped"},
             words : {"", "running", "stopped", "invalid", "starting", "stopping", "error"}]
TreeTyped ==
    /\ rows \subseteq Rows /\ readers \subseteq Readers /\ ajax \in Seq(Requests)
    /\ confirm \in Dialogs /\ cluster \in Clusters
    /\ store \subseteq ServerNotebook /\ dropped \in Nat /\ made \in Nat /\ acts \in Nat
    /\ tab \in {"notebooks", "clusters"}

\* No notebook of the server has this id and another name, now or later.
Named(id, called) == id <= made /\ \A n \in store : n.id = id => n.name = called
\* A row offers the upload of the file it is named after, or deletes under its own name.
RowGood(row) ==
    /\ 0 - dropped <= row.key
    /\ row.buttons = "upload" =>
          row.key < 0 /\ row.name = row.data.name /\ row.format = FormatOf(row.data)
    /\ row.buttons = "delete" => Named(row.id, row.name)
\* What a reader will show goes to the row made for its file, if that is still there.
ReaderGood(rd) ==
    /\ 0 - dropped <= rd.key /\ rd.key < 0
    /\ \A row \in rows : row.key = rd.key =>
          row.name = rd.file.name /\ row.format = FormatOf(rd.file)
RequestGood(r) ==
    /\ r.what = "upload" =>
          /\ r.name = r.data.name /\ r.format = FormatOf(r.data)
          /\ 0 - dropped <= r.key /\ r.key <= 0
          /\ \A row \in rows : r.key < 0 /\ row.key = r.key => row.name = r.name
          /\ r.status = "ok" => Named(r.id, r.name)
    /\ r.what = "delete" => Named(r.id, r.name)
    /\ r.what = "notebooks" => \A n \in r.list : 1 <= n.id /\ Named(n.id, n.name)
Elems(s) == {s[i] : i \in DOMAIN s}

\* Two rows of one file would have its name.
RowsAgree == \A a, b \in rows : a.key < 0 /\ a.key = b.key => a.name = b.name
ListHolds ==
    /\ RowsAgree /\ \A row \in rows : RowGood(row)
    /\ \A rd \in readers : ReaderGood(rd)
    /\ \A r \in Elems(ajax) : RequestGood(r)
    /\ confirm.open => Named(confirm.id, confirm.name)
    /\ \A n \in store : 1 <= n.id /\ n.id <= made
    /\ \A m, n \in store : m.id = n.id => m = n
ClockHolds == recorded \in BOOLEAN /\ ticking = (IF recorded THEN 1 ELSE 0) /\ (heard = "blur" => ~recorded)
Awaited(s) == \E r \in Elems(s) : r.what \in {"start", "stop"} /\ r.key = Words
ClusterWordsHold == cluster.words \in {"starting", "stopping"} => Awaited(ajax)
TreeInv == TreeTyped /\ ListHolds /\ ClockHolds /\ ClusterWordsHold

-----------------------------------------------------------------------------
LEMMA ElemsAppend ==
    ASSUME NEW S, NEW s \in Seq(S), NEW x \in S
    PROVE  Append(s, x) \in Seq(S) /\ Elems(Append(s, x)) = Elems(s) \cup {x}
<1>1. /\ DOMAIN Append(s, x) = 1..Len(s) + 1 /\ DOMAIN s = 1..Len(s) /\ Len(s) \in Nat
      /\ \A i \in 1..Len(s) : Append(s, x)[i] = s[i]
      /\ Append(s, x)[Len(s) + 1] = x
  OBVIOUS
<1>2. 1..Len(s) + 1 = 1..Len(s) \cup {Len(s) + 1}
  BY <1>1
<1> QED BY <1>1, <1>2 DEF Elems

LEMMA ElemsReplaced ==
    ASSUME NEW S, NEW s \in Seq(S), NEW i \in DOMAIN s, NEW x \in S
    PROVE  /\ [s EXCEPT ![i] = x] \in Seq(S) /\ Elems([s EXCEPT ![i] = x]) \subseteq Elems(s) \cup {x}
           /\ x \in Elems([s EXCEPT ![i] = x])
           /\ \A y \in Elems(s) : y # s[i] => y \in Elems([s EXCEPT ![i] = x])
  BY DEF Elems

LEMMA ElemsMapped ==
    ASSUME NEW S, NEW s \in Seq(S), NEW t, DOMAIN t = DOMAIN s, t = [i \in DOMAIN s |-> t[i]],
           \A i \in DOMAIN s : t[i] \in S
    PROVE  t \in Seq(S)
<1>1. DOMAIN s = 1..Len(s) /\ Len(s) \in Nat
  OBVIOUS
<1> QED BY <1>1

LEMMA CatElements ==
    ASSUME NEW S, NEW a \in Seq(S), NEW b \in Seq(S)
    PROVE  /\ a \o b \in Seq(S) /\ Len(a \o b) = Len(a) + Len(b)
           /\ \A j \in 1..Len(a) : (a \o b)[j] = a[j]
           /\ \A j \in 1..Len(b) : (a \o b)[Len(a) + j] = b[j]
<1>1. Len(a) \in Nat /\ Len(b) \in Nat
  OBVIOUS
<1>2. a \o b \in Seq(S) /\ Len(a \o b) = Len(a) + Len(b)
  OBVIOUS
<1>3. ASSUME NEW j \in 1..Len(a) PROVE (a \o b)[j] = a[j]
  BY <1>1
<1>4. ASSUME NEW j \in 1..Len(b) PROVE (a \o b)[Len(a) + j] = b[j]
  BY <1>1
<1> QED BY <1>2, <1>3, <1>4

LEMMA ElemsRemoved ==
    ASSUME NEW S, NEW s \in Seq(S), NEW i \in DOMAIN s
    PROVE  /\ RemoveAt(s, i) \in Seq(S) /\ Elems(RemoveAt(s, i)) \subseteq Elems(s)
           /\ \A y \in Elems(s) : y # s[i] => y \in Elems(RemoveAt(s, i))
<1>1. i \in 1..Len(s) /\ Len(s) \in Nat /\ DOMAIN s = 1..Len(s)
  OBVIOUS
<1>2. PICK a \in Seq(S) : a = SubSeq(s, 1, i - 1) /\ Len(a) = i - 1
                         /\ \A j \in 1..i - 1 : a[j] = s[j]
  <2>1. PICK m \in Nat : m = i - 1 /\ m <= Len(s)
    BY <1>1
  <2>2. SubSeq(s, 1, m) \in Seq(S)
    BY <1>1, <2>1
  <2>3. Len(SubSeq(s, 1, m)) = m
    BY <1>1, <2>1
  <2>4. \A j \in 1..m : SubSeq(s, 1, m)[j] = s[j]
    BY <1>1, <2>1
  <2> QED BY <2>1, <2>2, <2>3, <2>4
<1>3. PICK b \in Seq(S) : b = SubSeq(s, i + 1, Len(s)) /\ Len(b) = Len(s) - i
                         /\ \A j \in 1..Len(s) - i : b[j] = s[i + j]
  <2>1. SubSeq(s, i + 1, Len(s)) \in Seq(S)
    BY <1>1
  <2>2. Len(SubSeq(s, i + 1, Len(s))) = Len(s) - i
    BY <1>1
  <2>3. \A j \in 1..Len(s) - i : SubSeq(s, i + 1, Len(s))[j] = s[i + j]
    BY <1>1
  <2> QED BY <2>1, <2>2, <2>3
<1>4. RemoveAt(s, i) = a \o b
  BY <1>2, <1>3 DEF RemoveAt
<1>5. /\ a \o b \in Seq(S) /\ Len(a \o b) = Len(s) - 1
      /\ \A j \in 1..i - 1 : (a \o b)[j] = s[j]
      /\ \A j \in i..Len(s) - 1 : (a \o b)[j] = s[j + 1]
  <2>1. a \o b \in Seq(S) /\ Len(a \o b) = Len(a) + Len(b)
    BY CatElements
  <2>2. Len(a \o b) = Len(s) - 1
    <3>1. Len(a) = i - 1 /\ Len(b) = Len(s) - i /\ i \in Int /\ Len(s) \in Int
      BY <1>1, <1>2, <1>3
    <3>2. (i - 1) + (Len(s) - i) = Len(s) - 1
      BY <3>1
    <3> QED BY <2>1, <3>1, <3>2
  <2>3. ASSUME NEW j \in 1..i - 1 PROVE (a \o b)[j] = s[j]
    <3>1. j \in 1..Len(a) /\ a[j] = s[j]
      BY <1>2
    <3> QED BY <3>1, CatElements
  <2>4. ASSUME NEW j \in i..Len(s) - 1 PROVE (a \o b)[j] = s[j + 1]
    <3>1. PICK k \in 1..Len(s) - i : j = (i - 1) + k /\ i + k = j + 1
      <4>1. j - (i - 1) \in 1..Len(s) - i /\ j = (i - 1) + (j - (i - 1)) /\ i + (j - (i - 1)) = j + 1
        BY <1>1
      <4> QED BY <4>1
    <3>2. k \in 1..Len(b) /\ b[k] = s[i + k]
      BY <1>3
    <3>3. (a \o b)[Len(a) + k] = b[k]
      BY <3>2, CatElements
    <3> QED BY <1>2, <3>1, <3>2, <3>3
  <2> QED BY <2>1, <2>2, <2>3, <2>4
<1> DEFINE t == a \o b
<1> HIDE DEF t
<1>6. /\ t \in Seq(S) /\ DOMAIN t = 1..Len(s) - 1
      /\ \A j \in 1..i - 1 : t[j] = s[j]
      /\ \A j \in i..Len(s) - 1 : t[j] = s[j + 1]
  <2>1. t \in Seq(S) /\ Len(t) = Len(s) - 1
    BY <1>5 DEF t
  <2>2. DOMAIN t = 1..Len(t)
    BY <2>1
  <2> QED BY <1>5, <2>1, <2>2 DEF t
<1>7. Elems(t) \subseteq Elems(s)
  <2> SUFFICES ASSUME NEW j \in DOMAIN t PROVE t[j] \in Elems(s)
    BY DEF Elems
  <2>1. CASE j \in 1..i - 1
    BY <1>1, <1>6, <2>1 DEF Elems
  <2>2. CASE j \in i..Len(s) - 1
    <3>1. j + 1 \in DOMAIN s /\ t[j] = s[j + 1]
      BY <1>1, <1>6, <2>2
    <3> QED BY <3>1 DEF Elems
  <2> QED BY <1>1, <1>6, <2>1, <2>2
<1>8. ASSUME NEW k \in DOMAIN s, s[k] # s[i] PROVE s[k] \in Elems(t)
  <2>1. CASE k \in 1..i - 1
    <3>1. k \in DOMAIN t /\ t[k] = s[k]
      BY <1>1, <1>6, <2>1
    <3> QED BY <3>1 DEF Elems
  <2>2. CASE k \in i + 1..Len(s)
    <3>1. k - 1 \in DOMAIN t /\ k - 1 \in i..Len(s) - 1 /\ (k - 1) + 1 = k
      BY <1>1, <1>6, <2>2
    <3>2. t[k - 1] = s[k]
      BY <1>6, <3>1
    <3> QED BY <3>1, <3>2 DEF Elems
  <2> QED BY <1>1, <1>8, <2>1, <2>2
<1>9. RemoveAt(s, i) = t
  BY <1>4 DEF t
<1> QED BY <1>6, <1>7, <1>8, <1>9 DEF Elems

-----------------------------------------------------------------------------
\* What a step may do to the rows and the notebooks without a name becoming wrong.
RowsKeepNames ==
    \A row \in rows' : 0 - dropped <= row.key /\ row.key < 0 =>
        \E old \in rows : old.key = row.key /\ old.name = row.name /\ old.format = row.format
StoreKeepsNames ==
    /\ made <= made' /\ dropped <= dropped'
    /\ \A n \in store' : n.id > made \/ \E old \in store : old.id = n.id /\ old.name = n.name

LEMMA GoodStays ==
    ASSUME TreeTyped, TreeTyped', RowsKeepNames, StoreKeepsNames
    PROVE  /\ \A id \in Nat : \A w : Named(id, w) => Named(id, w)'
           /\ \A row \in Rows : RowGood(row) => RowGood(row)'
           /\ \A rd \in Readers : ReaderGood(rd) => ReaderGood(rd)'
           /\ \A r \in Requests : RequestGood(r) => RequestGood(r)'
<1>0. /\ made \in Nat /\ made' \in Nat /\ dropped \in Nat /\ dropped' \in Nat /\ made <= made'
      /\ dropped <= dropped' /\ store' \subseteq ServerNotebook
  BY DEF TreeTyped, StoreKeepsNames
<1>1. ASSUME NEW id \in Nat, NEW w, Named(id, w) PROVE Named(id, w)'
  <2>1. ASSUME NEW n \in store', n.id = id PROVE n.name = w
    <3>1. ~(n.id > made)
      BY <1>0, <1>1, <2>1 DEF Named
    <3>2. PICK old \in store : old.id = n.id /\ old.name = n.name
      BY <3>1 DEF StoreKeepsNames
    <3> QED BY <1>1, <2>1, <3>2 DEF Named
  <2>2. id <= made'
    BY <1>0, <1>1 DEF Named
  <2> QED BY <2>1, <2>2 DEF Named
<1>2. ASSUME NEW row \in Rows, RowGood(row) PROVE RowGood(row)'
  <2>1. row.key \in Int /\ row.id \in Nat
    BY DEF Rows
  <2>2. 0 - dropped' <= row.key
    BY <1>0, <1>2, <2>1 DEF RowGood
  <2> QED BY <1>1, <1>2, <2>1, <2>2 DEF RowGood
<1>3. ASSUME NEW rd \in Readers, ReaderGood(rd) PROVE ReaderGood(rd)'
  <2>1. rd.key \in Int
    BY DEF Readers
  <2>2. 0 - dropped' <= rd.key /\ 0 - dropped <= rd.key /\ rd.key < 0
    BY <1>0, <1>3, <2>1 DEF ReaderGood
  <2>3. ASSUME NEW row \in rows', row.key = rd.key
        PROVE  row.name = rd.file.name /\ row.format = FormatOf(rd.file)
    <3>1. PICK old \in rows : old.key = row.key /\ old.name = row.name /\ old.format = row.format
      BY <2>2, <2>3 DEF RowsKeepNames
    <3> QED BY <1>3, <2>3, <3>1 DEF ReaderGood
  <2> QED BY <2>2, <2>3 DEF ReaderGood
<1>4. ASSUME NEW r \in Requests, RequestGood(r) PROVE RequestGood(r)'
  <2>1. r.key \in Int /\ r.id \in Nat /\ r.list \subseteq ServerNotebook
    BY DEF Requests
  <2>2. r.what = "delete" => Named(r.id, r.name)'
    BY <1>1, <1>4, <2>1 DEF RequestGood
  <2>3. ASSUME r.what = "notebooks", NEW n \in r.list PROVE 1 <= n.id /\ Named(n.id, n.name)'
    <3>1. n.id \in Nat
      BY <2>1 DEF ServerNotebook
    <3> QED BY <1>1, <1>4, <2>3, <3>1 DEF RequestGood
  <2>4. ASSUME r.what = "upload"
        PROVE  /\ r.name = r.data.name /\ r.format = FormatOf(r.data)
               /\ 0 - dropped' <= r.key /\ r.key <= 0
               /\ \A row \in rows' : r.key < 0 /\ row.key = r.key => row.name = r.name
               /\ r.status = "ok" => Named(r.id, r.name)'
    <3>1. 0 - dropped' <= r.key /\ 0 - dropped <= r.key /\ r.key <= 0
      BY <1>0, <1>4, <2>1, <2>4 DEF RequestGood
    <3>2. ASSUME NEW row \in rows', r.key < 0, row.key = r.key PROVE row.name = r.name
      <4>1. PICK old \in rows : old.key = row.key /\ old.name = row.name /\ old.format = row.format
        BY <3>1, <3>2 DEF RowsKeepNames
      <4> QED BY <1>4, <2>4, <3>2, <4>1 DEF RequestGood
    <3>3. r.status = "ok" => Named(r.id, r.name)'
      BY <1>1, <1>4, <2>1, <2>4 DEF RequestGood
    <3>4. r.name = r.data.name /\ r.format = FormatOf(r.data)
      BY <1>4, <2>4 DEF RequestGood
    <3> QED BY <3>1, <3>2, <3>3, <3>4
  <2> QED BY <2>2, <2>3, <2>4 DEF RequestGood
<1> QED BY <1>1, <1>2, <1>3, <1>4

StoreHolds ==
    /\ \A n \in store : 1 <= n.id /\ n.id <= made
    /\ \A m, n \in store : m.id = n.id => m = n
LEMMA ListKept ==
    ASSUME TreeInv, TreeTyped', RowsKeepNames, StoreKeepsNames, StoreHolds', RowsAgree',
           \A row \in rows' : row \in rows \/ RowGood(row)',
           \A rd \in readers' : rd \in readers \/ ReaderGood(rd)',
           \A r \in Elems(ajax') : r \in Elems(ajax) \/ RequestGood(r)',
           \/ ~confirm'.open \/ Named(confirm.id, confirm.name)'
           \/ confirm'.open = confirm.open /\ confirm'.id = confirm.id /\ confirm'.name = confirm.name
    PROVE  ListHolds'
<1>1. TreeTyped /\ ListHolds
  BY DEF TreeInv
<1>2. /\ \A id \in Nat : \A w : Named(id, w) => Named(id, w)'
      /\ \A row \in Rows : RowGood(row) => RowGood(row)'
      /\ \A rd \in Readers : ReaderGood(rd) => ReaderGood(rd)'
      /\ \A r \in Requests : RequestGood(r) => RequestGood(r)'
  BY <1>1, GoodStays
<1>3. ASSUME NEW row \in rows' PROVE RowGood(row)'
  BY <1>1, <1>2 DEF TreeTyped, ListHolds
<1>4. ASSUME NEW rd \in readers' PROVE ReaderGood(rd)'
  BY <1>1, <1>2 DEF TreeTyped, ListHolds
<1>5. ASSUME NEW r \in Elems(ajax') PROVE RequestGood(r)'
  <2>1. \A q \in Elems(ajax) : q \in Requests
    BY <1>1 DEF TreeTyped, Elems
  <2> QED BY <1>1, <1>2, <2>1 DEF ListHolds
<1>6. confirm'.open => Named(confirm.id, confirm.name)'
  <2> SUFFICES ASSUME confirm'.open, confirm'.open = confirm.open, confirm'.id = confirm.id,
                      confirm'.name = confirm.name
               PROVE  Named(confirm.id, confirm.name)'
    OBVIOUS
  <2>1. confirm.id \in Nat /\ Named(confirm.id, confirm.name)
    BY <1>1 DEF TreeTyped, ListHolds, Dialogs
  <2>2. PICK id, w : id = confirm.id /\ w = confirm.name
    BY <2>1
  <2>3. id \in Nat /\ Named(id, w)
    BY <2>1, <2>2
  <2>4. Named(id, w)'
    BY <1>2, <2>3
  <2> QED BY <2>2, <2>4 DEF Named
<1>7. \A r \in Elems(ajax)' : RequestGood(r)'
  BY <1>5 DEF Elems
<1> QED BY <1>3, <1>4, <1>6, <1>7 DEF ListHolds, StoreHolds

\* What an action may do to the requests: carry on those there were, and send good ones.
Carried ==
    /\ ajax' \in Seq(Requests)
    /\ \A r \in Elems(ajax') : r \in Elems(ajax) \/ RequestGood(r)'
    /\ Awaited(ajax) => Awaited(ajax')

LEMMA SendCarries ==
    ASSUME TreeTyped, NEW r \in Requests, ajax' = Append(ajax, r), RequestGood(r)'
    PROVE  Carried
<1>1. ajax \in Seq(Requests)
  BY DEF TreeTyped
<1>2. ajax' \in Seq(Requests) /\ Elems(ajax') = Elems(ajax) \cup {r}
  BY <1>1, ElemsAppend
<1> QED BY <1>2 DEF Carried, Awaited

LEMMA PlainTyped ==
    ASSUME NEW what \in Kinds PROVE Plain(what) \in Requests
<1>1. NoFile \in UploadFile
  BY DEF NoFile, UploadFile
<1> QED BY <1>1 DEF Plain, Requests, Gone, Formats, Called

LEMMA LoadCarries ==
    ASSUME TreeTyped, ajax' \in {ajax, Append(ajax, Load)} PROVE Carried
<1>1. CASE ajax' = ajax
  BY <1>1 DEF TreeTyped, Carried
<1>2. CASE ajax' = Append(ajax, Load)
  <2>1. Load \in Requests
    BY PlainTyped DEF TreeTyped, Load, Kinds
  <2>2. PICK r \in Requests : r = Load /\ r.what \notin {"upload", "delete"} /\ r.list = {}
    <3>1. Load.what = tab /\ Load.list = {}
      BY DEF Load, Plain
    <3> QED BY <2>1, <3>1 DEF TreeTyped
  <2>3. RequestGood(r)'
    BY <2>2 DEF RequestGood
  <2> QED BY <1>2, <2>2, <2>3, SendCarries
<1> QED BY <1>1, <1>2

LEMMA RowsStand ==
    ASSUME TreeInv, UNCHANGED <<rows, store, made, dropped>>
    PROVE  RowsKeepNames /\ StoreKeepsNames /\ StoreHolds' /\ RowsAgree'
  BY DEF TreeInv, TreeTyped, ListHolds, RowsKeepNames, StoreKeepsNames, StoreHolds, RowsAgree

LEMMA StoreStands ==
    ASSUME TreeInv, UNCHANGED <<store, made, dropped>> PROVE StoreKeepsNames /\ StoreHolds'
  BY DEF TreeInv, TreeTyped, ListHolds, StoreKeepsNames, StoreHolds

LEMMA OldRowsAgree ==
    ASSUME TreeInv, RowsKeepNames, \A row \in rows' : 0 - dropped <= row.key
    PROVE  RowsAgree'
<1> SUFFICES ASSUME NEW a \in rows', NEW b \in rows', a.key < 0, a.key = b.key PROVE a.name = b.name
  BY DEF RowsAgree
<1>1. PICK c \in rows : c.key = a.key /\ c.name = a.name /\ c.format = a.format
  BY DEF RowsKeepNames
<1>2. PICK d \in rows : d.key = b.key /\ d.name = b.name /\ d.format = b.format
  BY DEF RowsKeepNames
<1> QED BY <1>1, <1>2 DEF TreeInv, ListHolds, RowsAgree

LEMMA QuietKeeps ==
    ASSUME TreeInv, Carried, UNCHANGED <<tab, rows, readers, confirm, dropped, store, made, cluster>>,
           acts' \in Nat
    PROVE  TreeTyped' /\ ListHolds' /\ ClusterWordsHold'
<1>1. TreeTyped'
  BY DEF TreeInv, TreeTyped, Carried
<1>2. ListHolds'
  BY <1>1, RowsStand, ListKept DEF Carried
<1>3. ClusterWordsHold'
  BY DEF TreeInv, ClusterWordsHold, Carried, Awaited
<1> QED BY <1>1, <1>2, <1>3

-----------------------------------------------------------------------------
LEMMA EventCounts == TreeTyped /\ Event => acts' \in Nat
  BY DEF TreeTyped, Event

LEMMA ClockStep ==
    ASSUME TreeInv, EnableAutorefresh \/ DisableAutorefresh \/ Tick \/ ClickRefresh
    PROVE  TreeInv'
<1>0. TreeTyped /\ ClockHolds /\ acts' \in Nat
  BY EventCounts DEF TreeInv, EnableAutorefresh, DisableAutorefresh, Tick, ClickRefresh
<1>1. ajax' \in {ajax, Append(ajax, Load)}
  BY DEF EnableAutorefresh, DisableAutorefresh, Tick, ClickRefresh, Refresh, Send
<1>2. UNCHANGED <<tab, rows, readers, confirm, dropped, store, made, cluster>>
  BY DEF EnableAutorefresh, DisableAutorefresh, Tick, ClickRefresh, list, server
<1>3. TreeTyped' /\ ListHolds' /\ ClusterWordsHold'
  BY <1>0, <1>1, <1>2, LoadCarries, QuietKeeps
<1>4. ClockHolds'
  <2>1. CASE EnableAutorefresh
    <3>1. heard' = "focus" /\ recorded' = TRUE /\ ticking' = 1
      BY <1>0, <2>1 DEF EnableAutorefresh, StartedInterval, ClockHolds
    <3> QED BY <3>1 DEF ClockHolds
  <2>2. CASE DisableAutorefresh
    <3>1. recorded' = FALSE /\ ticking' = 0
      BY <1>0, <2>2 DEF DisableAutorefresh, ClockHolds
    <3> QED BY <3>1 DEF ClockHolds
  <2>3. CASE Tick \/ ClickRefresh
    BY <1>0, <2>3 DEF Tick, ClickRefresh, ClockHolds, clock
  <2> QED BY <2>1, <2>2, <2>3
<1> QED BY <1>3, <1>4 DEF TreeInv

LEMMA ClockStands == ClockHolds /\ UNCHANGED clock => ClockHolds'
  BY DEF ClockHolds, clock

-----------------------------------------------------------------------------
(* The rows *)
LEMMA ItemIs ==
    ASSUME NEW upload \in UploadFile, NEW key \in Int
    PROVE  /\ Item(upload, key) \in Rows
           /\ Item(upload, key).key = key /\ Item(upload, key).buttons = "none"
           /\ Item(upload, key).name = upload.name /\ Item(upload, key).format = FormatOf(upload)
<1>0. NoFile \in UploadFile
  BY DEF NoFile, UploadFile
<1>1. NoRow \in Rows
  BY <1>0 DEF NoRow, Rows, Called, Formats, Gone
<1>2. PICK base \in Rows : base = NoRow /\ base.buttons = "none"
  BY <1>1 DEF NoRow
<1>3. upload.name \in Called /\ FormatOf(upload) \in Formats
  BY DEF UploadFile, FormatOf, Formats, Called
<1>4. PICK format \in Formats, called \in Called : format = FormatOf(upload) /\ called = upload.name
  BY <1>3
<1>5. Item(upload, key) = [base EXCEPT !.key = key, !.name = called, !.format = format]
  BY <1>2, <1>4 DEF Item
<1> QED BY <1>2, <1>4, <1>5 DEF Rows

LEMMA DropStep == TreeInv /\ HandleFilesUpload => TreeInv'
<1> SUFFICES ASSUME TreeInv, HandleFilesUpload PROVE TreeInv'
  OBVIOUS
<1>0. TreeTyped /\ ListHolds /\ acts' \in Nat /\ dropped \in Nat
  BY EventCounts DEF TreeInv, TreeTyped, HandleFilesUpload
<1> DEFINE Key(i) == 0 - (dropped + i)
<1>1. PICK files \in Drops :
        /\ rows' = rows \cup {Item(files[i], Key(i)) : i \in Accepted(files)}
        /\ readers' = readers \cup {[file |-> files[i], key |-> Key(i)] : i \in Accepted(files)}
        /\ dropped' = dropped + Len(files)
  BY DEF HandleFilesUpload
<1>2. UNCHANGED <<tab, confirm, cluster, ajax, ticking, recorded, heard, store, made, clusterRuns>>
  BY DEF HandleFilesUpload, clock, server
<1>3. ASSUME NEW i \in Accepted(files)
      PROVE  /\ Key(i) \in Int /\ Key(i) < 0 - dropped /\ Key(i) < 0 /\ 0 - dropped' <= Key(i)
             /\ i \in Int
  <2>1. files \in Seq(UploadFile)
    BY DropsAssumption
  <2>2. i \in 1..Len(files) /\ Len(files) \in Nat
    BY <2>1 DEF Accepted
  <2> QED BY <1>0, <1>1, <2>2
<1>4. ASSUME NEW i \in Accepted(files)
      PROVE  /\ files[i] \in UploadFile
             /\ Item(files[i], Key(i)) \in Rows /\ [file |-> files[i], key |-> Key(i)] \in Readers
             /\ Item(files[i], Key(i)).key = Key(i) /\ Item(files[i], Key(i)).buttons = "none"
             /\ Item(files[i], Key(i)).name = files[i].name
             /\ Item(files[i], Key(i)).format = FormatOf(files[i])
  <2>1. files[i] \in UploadFile
    BY DropsAssumption DEF Accepted
  <2>2. PICK upload \in UploadFile, key \in Int : upload = files[i] /\ key = Key(i)
    BY <1>3, <2>1
  <2>3. [file |-> upload, key |-> key] \in Readers
    BY DEF Readers
  <2> QED BY <2>1, <2>2, <2>3, ItemIs
<1>5. ASSUME NEW i \in Accepted(files), NEW j \in Accepted(files), Key(i) = Key(j) PROVE i = j
  <2>1. i \in Int /\ j \in Int
    BY <1>3
  <2> QED BY <1>0, <1>5, <2>1
<1> HIDE DEF Key
<1>6. TreeTyped'
  <2>1. dropped' \in Nat
    BY <1>0, <1>1, DropsAssumption
  <2>2. rows' \subseteq Rows /\ readers' \subseteq Readers
    BY <1>0, <1>1, <1>4 DEF TreeTyped
  <2> QED BY <1>0, <1>2, <2>1, <2>2 DEF TreeTyped
<1>7. ASSUME NEW row \in rows'
      PROVE  \/ row \in rows /\ row.key \in Int /\ 0 - dropped <= row.key
             \/ \E i \in Accepted(files) : row = Item(files[i], Key(i))
  BY <1>0, <1>1 DEF TreeTyped, ListHolds, RowGood, Rows
<1>8. RowsKeepNames
  <2> SUFFICES ASSUME NEW row \in rows', 0 - dropped <= row.key, row.key < 0 PROVE row \in rows
    BY DEF RowsKeepNames
  <2>1. ASSUME NEW i \in Accepted(files), row = Item(files[i], Key(i)) PROVE FALSE
    <3>1. row.key = Key(i) /\ Key(i) < 0 - dropped /\ Key(i) \in Int
      BY <1>3, <1>4, <2>1
    <3> QED BY <1>0, <3>1
  <2> QED BY <1>7, <2>1
<1>9. StoreKeepsNames /\ StoreHolds'
  <2>1. dropped <= dropped' /\ made <= made'
    BY <1>0, <1>1, <1>2, DropsAssumption DEF TreeTyped
  <2> QED BY <1>0, <1>2, <2>1 DEF StoreKeepsNames, StoreHolds, ListHolds
<1>10. RowsAgree'
  <2> SUFFICES ASSUME NEW a \in rows', NEW b \in rows', a.key < 0, a.key = b.key
               PROVE  a.name = b.name
    BY DEF RowsAgree
  <2>1. CASE a \in rows /\ b \in rows
    BY <1>0, <2>1 DEF ListHolds, RowsAgree
  <2>2. ASSUME NEW i \in Accepted(files), a = Item(files[i], Key(i)) PROVE a.name = b.name
    <3>1. a.key = Key(i) /\ Key(i) < 0 - dropped /\ Key(i) \in Int /\ a.name = files[i].name
      BY <1>3, <1>4, <2>2
    <3>4. ~(b.key \in Int /\ 0 - dropped <= b.key)
      BY <1>0, <3>1
    <3>2. PICK j \in Accepted(files) : b = Item(files[j], Key(j))
      BY <1>7, <3>4
    <3>3. b.key = Key(j) /\ b.name = files[j].name
      BY <1>3, <1>4, <3>2
    <3> QED BY <1>5, <3>1, <3>3
  <2>3. ASSUME NEW i \in Accepted(files), b = Item(files[i], Key(i)), a \in rows PROVE FALSE
    <3>1. b.key = Key(i) /\ Key(i) < 0 - dropped /\ Key(i) \in Int
      BY <1>3, <1>4, <2>3
    <3>2. a.key \in Int /\ 0 - dropped <= a.key
      BY <1>0, <2>3 DEF TreeTyped, ListHolds, RowGood, Rows
    <3> QED BY <1>0, <3>1, <3>2
  <2> QED BY <1>7, <2>1, <2>2, <2>3
<1>11. ASSUME NEW row \in rows' PROVE row \in rows \/ RowGood(row)'
  <2>1. ASSUME NEW i \in Accepted(files), row = Item(files[i], Key(i)) PROVE RowGood(row)'
    <3>1. row.key = Key(i) /\ row.buttons = "none" /\ 0 - dropped' <= Key(i)
      BY <1>3, <1>4, <2>1
    <3> QED BY <3>1 DEF RowGood
  <2> QED BY <1>7, <2>1
<1>12. ASSUME NEW rd \in readers' PROVE rd \in readers \/ ReaderGood(rd)'
  <2>1. ASSUME NEW i \in Accepted(files), rd = [file |-> files[i], key |-> Key(i)]
        PROVE  ReaderGood(rd)'
    <3>1. rd.key = Key(i) /\ rd.file = files[i]
      BY <2>1
    <3>2. ASSUME NEW row \in rows', row.key = rd.key
          PROVE  row.name = rd.file.name /\ row.format = FormatOf(rd.file)
      <4>1. Key(i) < 0 - dropped /\ Key(i) \in Int
        BY <1>3
      <4>2. PICK j \in Accepted(files) : row = Item(files[j], Key(j))
        BY <1>0, <1>7, <3>1, <3>2, <4>1
      <4>3. row.key = Key(j) /\ row.name = files[j].name /\ row.format = FormatOf(files[j])
        BY <1>3, <1>4, <4>2
      <4>4. j = i
        BY <1>5, <3>1, <3>2, <4>3
      <4> QED BY <3>1, <4>3, <4>4
    <3>3. 0 - dropped' <= rd.key /\ rd.key < 0
      BY <1>3, <3>1
    <3> QED BY <3>2, <3>3 DEF ReaderGood
  <2> QED BY <1>1, <2>1
<1>13. ListHolds'
  BY <1>2, <1>6, <1>8, <1>9, <1>10, <1>11, <1>12, ListKept
<1>14. ClockHolds' /\ ClusterWordsHold'
  BY <1>2 DEF TreeInv, ClockHolds, ClusterWordsHold, Awaited
<1> QED BY <1>6, <1>13, <1>14 DEF TreeInv

\* Rows that are amended keep their name and their key.
LEMMA AmendedKeeps ==
    ASSUME TreeInv, NEW key, \A row \in rows' :
              row \in rows \/ \E old \in rows : /\ row.key = old.key /\ row.name = old.name
                                                /\ row.format = old.format
    PROVE  RowsKeepNames /\ RowsAgree'
<1>1. RowsKeepNames
  BY DEF RowsKeepNames
<1>2. ASSUME NEW row \in rows' PROVE 0 - dropped <= row.key
  BY DEF TreeInv, ListHolds, RowGood
<1> QED BY <1>1, <1>2, OldRowsAgree

LEMMA OnloadStep == TreeInv /\ Onload => TreeInv'
<1> SUFFICES ASSUME TreeInv, Onload PROVE TreeInv'
  OBVIOUS
<1>0. TreeTyped /\ ListHolds
  BY DEF TreeInv
<1> DEFINE Offered(r, row) == [row EXCEPT !.data = r.file, !.buttons = "upload"]
<1>1. PICK r \in readers :
        /\ readers' = readers \ {r}
        /\ rows' = {IF row.key = r.key THEN Offered(r, row) ELSE row : row \in rows}
        /\ UNCHANGED <<tab, confirm, dropped, cluster, ajax, clock, server, acts>>
  BY DEF Onload, Amended, ItemOf
<1>2. r.file \in UploadFile /\ r.key \in Int /\ ReaderGood(r)
  BY <1>0 DEF TreeTyped, ListHolds, Readers
<1>3. ASSUME NEW row \in rows
      PROVE  /\ Offered(r, row) \in Rows /\ Offered(r, row).key = row.key
             /\ Offered(r, row).name = row.name /\ Offered(r, row).format = row.format
             /\ Offered(r, row).buttons = "upload" /\ Offered(r, row).data = r.file
  <2>1. row \in Rows
    BY <1>0 DEF TreeTyped
  <2> QED BY <1>2, <2>1 DEF Rows
<1> HIDE DEF Offered
<1>4. ASSUME NEW row \in rows'
      PROVE  row \in rows \/ \E old \in rows : old.key = r.key /\ row = Offered(r, old)
  BY <1>1
<1>5. TreeTyped'
  <2>1. rows' \subseteq Rows
    BY <1>0, <1>3, <1>4 DEF TreeTyped
  <2> QED BY <1>0, <1>1, <2>1 DEF TreeTyped, server
<1>6. RowsKeepNames /\ RowsAgree'
  <2>1. \A row \in rows' :
           row \in rows \/ \E old \in rows : /\ row.key = old.key /\ row.name = old.name
                                             /\ row.format = old.format
    BY <1>3, <1>4
  <2> QED BY <2>1, AmendedKeeps
<1>7. StoreKeepsNames /\ StoreHolds'
  BY <1>1, StoreStands DEF server
<1>8. ASSUME NEW row \in rows' PROVE row \in rows \/ RowGood(row)'
  <2>1. ASSUME NEW old \in rows, old.key = r.key, row = Offered(r, old) PROVE RowGood(row)'
    <3>1. /\ row.key = r.key /\ row.name = old.name /\ row.format = old.format
          /\ row.buttons = "upload" /\ row.data = r.file
      BY <1>3, <2>1
    <3>2. /\ 0 - dropped <= r.key /\ r.key < 0
          /\ old.name = r.file.name /\ old.format = FormatOf(r.file)
      BY <1>2, <2>1 DEF ReaderGood
    <3> QED BY <1>1, <3>1, <3>2 DEF RowGood
  <2> QED BY <1>4, <2>1
<1>9. ListHolds'
  <2>1. /\ \A rd \in readers' : rd \in readers \/ ReaderGood(rd)'
        /\ \A q \in Elems(ajax') : q \in Elems(ajax) \/ RequestGood(q)'
        /\ confirm' = confirm
    BY <1>1
  <2> QED BY <2>1, <1>5, <1>6, <1>7, <1>8, ListKept
<1>10. ClockHolds' /\ ClusterWordsHold'
  BY <1>1, ClockStands DEF TreeInv, ClusterWordsHold, Awaited
<1> QED BY <1>5, <1>9, <1>10 DEF TreeInv

\* A row, a reader or a dialog that goes, and a request or a dialog for a row that is there.
LEMMA FewerKeeps ==
    ASSUME TreeInv, rows' \subseteq rows, readers' \subseteq readers, Carried, confirm' \in Dialogs,
           \/ ~confirm'.open \/ Named(confirm.id, confirm.name)'
           \/ confirm'.open = confirm.open /\ confirm'.id = confirm.id /\ confirm'.name = confirm.name,
           UNCHANGED <<tab, dropped, store, made, cluster>>, UNCHANGED clock, acts' \in Nat
    PROVE  TreeInv'
<1>1. TreeTyped'
  BY DEF TreeInv, TreeTyped, Carried
<1>2. RowsKeepNames /\ RowsAgree'
  BY DEF TreeInv, ListHolds, RowsKeepNames, RowsAgree
<1>3. ListHolds'
  BY <1>1, <1>2, StoreStands, ListKept DEF Carried
<1>4. ClockHolds' /\ ClusterWordsHold'
  BY ClockStands DEF TreeInv, ClusterWordsHold, Carried
<1> QED BY <1>1, <1>3, <1>4 DEF TreeInv

LEMMA StillCarried == TreeTyped /\ ajax' = ajax => Carried
  BY DEF TreeTyped, Carried

LEMMA FewerStep ==
    ASSUME TreeInv, ReadFails \/ ClickCancel
    PROVE  TreeInv'
<1>1. /\ rows' \subseteq rows /\ readers' \subseteq readers /\ ajax' = ajax /\ confirm' = confirm
      /\ UNCHANGED <<tab, dropped, store, made, cluster>> /\ UNCHANGED clock
  BY DEF ReadFails, ClickCancel, server
<1>2. acts' \in Nat /\ confirm' \in Dialogs
  BY <1>1, EventCounts DEF TreeInv, TreeTyped, ReadFails, ClickCancel
<1> QED BY <1>1, <1>2, StillCarried, FewerKeeps DEF TreeInv

LEMMA PlainFields ==
    ASSUME NEW what \in Kinds
    PROVE  /\ Plain(what).what = what /\ Plain(what).status = "sent" /\ Plain(what).list = {}
  BY DEF Plain

LEMMA ClickUploadStep == TreeInv /\ ClickUpload => TreeInv'
<1> SUFFICES ASSUME TreeInv, ClickUpload PROVE TreeInv'
  OBVIOUS
<1>1. PICK row \in rows :
        /\ row.buttons = "upload"
        /\ ajax' = Append(ajax, [Plain("upload") EXCEPT !.key = row.key, !.name = row.name,
                                                       !.format = row.format, !.data = row.data])
  BY DEF ClickUpload, Send
<1>2. row \in Rows /\ RowGood(row) /\ RowsAgree /\ TreeTyped
  BY DEF TreeInv, TreeTyped, ListHolds
<1>3. PICK base \in Requests : base = Plain("upload") /\ base.what = "upload" /\ base.status = "sent"
  BY PlainTyped, PlainFields DEF Kinds
<1>4. PICK r : r = [base EXCEPT !.key = row.key, !.name = row.name, !.format = row.format,
                                !.data = row.data]
  OBVIOUS
<1>5. /\ r \in Requests /\ r.what = "upload" /\ r.status = "sent" /\ r.key = row.key
      /\ r.name = row.name /\ r.format = row.format /\ r.data = row.data
  BY <1>2, <1>3, <1>4 DEF Requests, Rows
<1>6. UNCHANGED <<tab, rows, readers, confirm, dropped, cluster, store, made>> /\ UNCHANGED clock
  BY DEF ClickUpload, list, server
<1>7. RequestGood(r)'
  <2>1. row.key < 0 /\ row.name = row.data.name /\ row.format = FormatOf(row.data)
        /\ 0 - dropped <= row.key /\ row.key \in Int
    BY <1>1, <1>2 DEF RowGood, Rows
  <2>2. \A other \in rows' : r.key < 0 /\ other.key = r.key => other.name = r.name
    BY <1>2, <1>5, <1>6 DEF RowsAgree
  <2>3. 0 - dropped' <= r.key /\ r.key <= 0
    BY <1>5, <1>6, <2>1
  <2> QED BY <1>5, <2>1, <2>2, <2>3 DEF RequestGood
<1>8. Carried
  BY <1>1, <1>2, <1>3, <1>4, <1>5, <1>7, SendCarries
<1>9. acts' \in Nat
  BY <1>2, EventCounts DEF ClickUpload
<1>10. confirm' \in Dialogs
  BY <1>2, <1>6 DEF TreeTyped
<1> QED BY <1>6, <1>8, <1>9, <1>10, FewerKeeps

LEMMA ClickDeleteStep == TreeInv /\ ClickDelete => TreeInv'
<1> SUFFICES ASSUME TreeInv, ClickDelete PROVE TreeInv'
  OBVIOUS
<1>1. PICK row \in rows :
        /\ row.buttons = "delete"
        /\ confirm' = [open |-> TRUE, key |-> row.key, id |-> row.id, name |-> row.name]
  BY DEF ClickDelete
<1>2. row \in Rows /\ RowGood(row) /\ TreeTyped
  BY DEF TreeInv, TreeTyped, ListHolds
<1>3. UNCHANGED <<tab, rows, readers, dropped, cluster, ajax, store, made>> /\ UNCHANGED clock
  BY DEF ClickDelete, server
<1>4. confirm' \in Dialogs /\ confirm'.id = row.id /\ confirm'.name = row.name
  BY <1>1, <1>2 DEF Rows, Dialogs
<1>5. Named(confirm.id, confirm.name)'
  BY <1>1, <1>2, <1>3, <1>4 DEF RowGood, Named
<1>6. acts' \in Nat /\ Carried
  BY <1>2, <1>3, EventCounts, StillCarried DEF ClickDelete
<1> QED BY <1>3, <1>4, <1>5, <1>6, FewerKeeps

LEMMA AnswerDialogStep == TreeInv /\ AnswerDialog => TreeInv'
<1> SUFFICES ASSUME TreeInv, AnswerDialog PROVE TreeInv'
  OBVIOUS
<1>1. /\ confirm.open /\ confirm' = NoDialog
      /\ UNCHANGED <<tab, rows, readers, dropped, cluster, store, made, acts>> /\ UNCHANGED clock
  BY DEF AnswerDialog, server
<1>2. TreeTyped /\ Named(confirm.id, confirm.name) /\ acts' \in Nat
  BY <1>1 DEF TreeInv, TreeTyped, ListHolds
<1>3. confirm' \in Dialogs /\ ~confirm'.open
  <2>1. NoDialog \in Dialogs
    BY DEF NoDialog, Dialogs, Gone, Called
  <2>2. ~NoDialog.open
    BY DEF NoDialog
  <2> QED BY <1>1, <2>1, <2>2
<1>4. Carried
  <2>1. CASE ajax' = ajax
    BY <1>2, <2>1, StillCarried
  <2>2. CASE ajax' = Append(ajax, [Plain("delete") EXCEPT !.key = confirm.key, !.id = confirm.id,
                                                        !.name = confirm.name])
    <3>1. PICK base \in Requests : base = Plain("delete") /\ base.what = "delete"
      BY PlainTyped, PlainFields DEF Kinds
    <3>2. PICK r : r = [base EXCEPT !.key = confirm.key, !.id = confirm.id, !.name = confirm.name]
      OBVIOUS
    <3>3. confirm \in Dialogs
      BY <1>2 DEF TreeTyped
    <3>4. r \in Requests /\ r.what = "delete" /\ r.id = confirm.id /\ r.name = confirm.name
      BY <3>1, <3>2, <3>3 DEF Requests, Dialogs
    <3>5. RequestGood(r)'
      BY <1>1, <1>2, <3>4 DEF RequestGood, Named
    <3> QED BY <1>2, <2>2, <3>1, <3>2, <3>4, <3>5, SendCarries
  <2> QED BY <2>1, <2>2 DEF AnswerDialog, Send
<1> QED BY <1>1, <1>2, <1>3, <1>4, FewerKeeps

LEMMA ClickShutdownStep == TreeInv /\ ClickShutdown => TreeInv'
<1> SUFFICES ASSUME TreeInv, ClickShutdown PROVE TreeInv'
  OBVIOUS
<1>1. PICK row \in rows : ajax' = Append(ajax, [Plain("shutdown") EXCEPT !.id = row.kernel])
  BY DEF ClickShutdown, Send
<1>2. row \in Rows /\ TreeTyped
  BY DEF TreeInv, TreeTyped
<1>3. UNCHANGED <<tab, rows, readers, confirm, dropped, cluster, store, made>> /\ UNCHANGED clock
  BY DEF ClickShutdown, list, server
<1>4. PICK base \in Requests : base = Plain("shutdown") /\ base.what = "shutdown"
  BY PlainTyped, PlainFields DEF Kinds
<1>5. PICK r : r = [base EXCEPT !.id = row.kernel]
  OBVIOUS
<1>6. r \in Requests /\ r.what = "shutdown"
  BY <1>2, <1>4, <1>5 DEF Requests, Rows
<1>7. RequestGood(r)'
  BY <1>6 DEF RequestGood
<1>8. Carried
  BY <1>1, <1>2, <1>4, <1>5, <1>6, <1>7, SendCarries
<1>9. acts' \in Nat /\ confirm' \in Dialogs
  BY <1>2, <1>3, EventCounts DEF ClickShutdown, TreeTyped
<1> QED BY <1>3, <1>8, <1>9, FewerKeeps

-----------------------------------------------------------------------------
(* The cluster and the server *)
LEMMA ClusterStep ==
    ASSUME TreeInv, ClickStart \/ ClickStop
    PROVE  TreeInv'
<1>0. TreeTyped /\ acts' \in Nat
  BY EventCounts DEF TreeInv, ClickStart, ClickStop
<1>1. UNCHANGED <<tab, rows, readers, confirm, dropped, store, made>> /\ UNCHANGED clock
  BY DEF ClickStart, ClickStop, list, server
<1>2. PICK words : /\ words \in {"invalid", "starting", "stopping"}
                   /\ cluster' = [cluster EXCEPT !.words = words]
                   /\ \/ words = "invalid" /\ ajax' = ajax
                      \/ \E what \in {"start", "stop"} :
                            ajax' = Append(ajax, [Plain(what) EXCEPT !.key = Words])
  BY DEF ClickStart, ClickStop, Send
<1>3. cluster' \in Clusters /\ cluster'.words = words
  BY <1>0, <1>2 DEF TreeTyped, Clusters
<1>4. Carried /\ (words # "invalid" => Awaited(ajax'))
  <2>1. CASE words = "invalid" /\ ajax' = ajax
    BY <1>0, <2>1, StillCarried
  <2>2. ASSUME NEW what \in {"start", "stop"}, ajax' = Append(ajax, [Plain(what) EXCEPT !.key = Words])
        PROVE  Carried /\ Awaited(ajax')
    <3>1. PICK base \in Requests : base = Plain(what) /\ base.what = what
      BY PlainTyped, PlainFields DEF Kinds
    <3>2. PICK q : q = [base EXCEPT !.key = Words]
      OBVIOUS
    <3>3. q \in Requests /\ q.what = what /\ q.key = Words
      BY <3>1, <3>2 DEF Requests, Words
    <3>4. RequestGood(q)'
      BY <3>3 DEF RequestGood
    <3>5. Carried
      BY <1>0, <2>2, <3>1, <3>2, <3>3, <3>4, SendCarries
    <3>6. Elems(ajax') = Elems(ajax) \cup {q}
      BY <1>0, <2>2, <3>1, <3>2, <3>3, ElemsAppend DEF TreeTyped
    <3> QED BY <3>3, <3>5, <3>6 DEF Awaited
  <2> QED BY <1>2, <2>1, <2>2
<1>5. TreeTyped'
  BY <1>0, <1>1, <1>3, <1>4 DEF TreeTyped, Carried
<1>6. ListHolds'
  BY <1>1, <1>4, <1>5, RowsStand, ListKept DEF Carried
<1>7. ClockHolds' /\ ClusterWordsHold'
  BY <1>1, <1>2, <1>3, <1>4, ClockStands DEF TreeInv, ClusterWordsHold, Awaited
<1> QED BY <1>5, <1>6, <1>7 DEF TreeInv

\* An answer keeps the kind of its request and its place.
LEMMA AnswerCarries ==
    ASSUME TreeTyped, NEW i \in DOMAIN ajax, NEW q \in Requests, q.what = ajax[i].what,
           q.key = ajax[i].key, Answered(i, q), RequestGood(q)'
    PROVE  Carried
<1>1. ajax \in Seq(Requests) /\ ajax' = [ajax EXCEPT ![i] = q]
  BY DEF TreeTyped, Answered
<1>2. /\ ajax' \in Seq(Requests) /\ Elems(ajax') \subseteq Elems(ajax) \cup {q}
      /\ q \in Elems(ajax')
      /\ \A y \in Elems(ajax) : y # ajax[i] => y \in Elems(ajax')
  BY <1>1, ElemsReplaced
<1>3. Awaited(ajax) => Awaited(ajax')
  BY <1>2 DEF Awaited
<1> QED BY <1>2, <1>3 DEF Carried

\* The server's notebooks keep their names.
LEMMA StoreStep ==
    ASSUME TreeInv, \/ \E n \in store : store' = store \ {n}
                    \/ \E n \in store, k \in Nat : store' = WithKernel(n, k),
           UNCHANGED <<made, dropped>>
    PROVE  store' \subseteq ServerNotebook /\ StoreKeepsNames /\ StoreHolds'
<1>0. TreeTyped /\ StoreHolds /\ store \subseteq ServerNotebook /\ made \in Nat /\ dropped \in Nat
  BY DEF TreeInv, TreeTyped, ListHolds, StoreHolds
<1>1. CASE \E n \in store : store' = store \ {n}
  BY <1>0, <1>1 DEF StoreKeepsNames, StoreHolds
<1>2. ASSUME NEW n \in store, NEW k \in Nat, store' = WithKernel(n, k)
      PROVE  store' \subseteq ServerNotebook /\ StoreKeepsNames /\ StoreHolds'
  <2>1. PICK m : m = [n EXCEPT !.kernel = k]
    OBVIOUS
  <2>2. m \in ServerNotebook /\ m.id = n.id /\ m.name = n.name
    BY <1>0, <2>1 DEF ServerNotebook
  <2>3. store' = (store \ {n}) \cup {m}
    BY <1>2, <2>1 DEF WithKernel
  <2>4. store' \subseteq ServerNotebook
    BY <1>0, <2>2, <2>3
  <2>5. StoreKeepsNames
    BY <1>0, <2>2, <2>3 DEF StoreKeepsNames
  <2>6. StoreHolds'
    <3>1. \A x \in store' : 1 <= x.id /\ x.id <= made'
      BY <1>0, <2>2, <2>3 DEF StoreHolds
    <3>2. \A x, y \in store' : x.id = y.id => x = y
      BY <1>0, <2>2, <2>3 DEF StoreHolds
    <3> QED BY <3>1, <3>2 DEF StoreHolds
  <2> QED BY <2>4, <2>5, <2>6
<1> QED BY <1>1, <1>2

\* What the server does changes no row.
LEMMA ServerKeeps ==
    ASSUME TreeInv, UNCHANGED <<tab, rows, readers, confirm, dropped, cluster>>, UNCHANGED clock,
           acts' \in Nat, made' \in Nat, store' \subseteq ServerNotebook, StoreKeepsNames,
           StoreHolds', Carried
    PROVE  TreeInv'
<1>1. TreeTyped'
  BY DEF TreeInv, TreeTyped, Carried
<1>2. RowsKeepNames /\ RowsAgree'
  BY DEF TreeInv, ListHolds, RowsKeepNames, RowsAgree
<1>3. ListHolds'
  BY <1>1, <1>2, ListKept DEF Carried
<1>4. ClockHolds' /\ ClusterWordsHold'
  BY ClockStands DEF TreeInv, ClusterWordsHold, Carried
<1> QED BY <1>1, <1>3, <1>4 DEF TreeInv

LEMMA ElsewhereStep == TreeInv /\ Elsewhere => TreeInv'
<1> SUFFICES ASSUME TreeInv, Elsewhere PROVE TreeInv'
  OBVIOUS
<1>1. /\ UNCHANGED <<tab, rows, readers, confirm, dropped, cluster, ajax, made>> /\ UNCHANGED clock
      /\ Event
  BY DEF Elsewhere, list
<1>2. TreeTyped /\ acts' \in Nat /\ acts + 1 \in Nat /\ made' \in Nat
  BY <1>1, EventCounts DEF TreeInv, TreeTyped
<1>3. \/ \E n \in store : store' = store \ {n}
      \/ \E n \in store, k \in Nat : store' = WithKernel(n, k)
  BY <1>2 DEF Elsewhere
<1>4. store' \subseteq ServerNotebook /\ StoreKeepsNames /\ StoreHolds'
  BY <1>1, <1>3, StoreStep
<1> QED BY <1>1, <1>2, <1>4, StillCarried, ServerKeeps

LEMMA ServeStep == TreeInv /\ Serve => TreeInv'
<1> SUFFICES ASSUME TreeInv, Serve PROVE TreeInv'
  OBVIOUS
<1>0. TreeTyped /\ ListHolds /\ ajax \in Seq(Requests) /\ made \in Nat /\ dropped \in Nat
      /\ store \subseteq ServerNotebook
  BY DEF TreeInv, TreeTyped
<1>1. PICK i \in DOMAIN ajax :
        /\ \/ Answered(i, [ajax[i] EXCEPT !.status = "failed"]) /\ UNCHANGED server
           \/ /\ ajax[i].what = "notebooks" /\ UNCHANGED server
              /\ Answered(i, [[ajax[i] EXCEPT !.status = "ok"] EXCEPT !.list = store])
           \/ /\ ajax[i].what = "clusters" /\ UNCHANGED server
              /\ Answered(i, [[ajax[i] EXCEPT !.status = "ok"] EXCEPT !.id = IF clusterRuns THEN 1 ELSE 0])
           \/ /\ ajax[i].what = "upload" /\ made' = made + 1
              /\ Answered(i, [[ajax[i] EXCEPT !.status = "ok"] EXCEPT !.id = made'])
              /\ store' = store \cup {[id |-> made', name |-> ajax[i].name, data |-> ajax[i].data,
                                       kernel |-> 0]}
           \/ /\ ajax[i].what \in {"delete", "shutdown"} /\ UNCHANGED made
              /\ Answered(i, [ajax[i] EXCEPT !.status = "ok"])
              /\ \/ \E n \in store : store' = store \ {n}
                 \/ \E n \in store : store' = WithKernel(n, 0)
           \/ /\ ajax[i].what \in {"start", "stop"} /\ UNCHANGED <<store, made>>
              /\ Answered(i, [ajax[i] EXCEPT !.status = "ok"])
        /\ UNCHANGED <<list, cluster, clock, acts>>
  BY DEF Serve
<1>2. /\ UNCHANGED <<tab, rows, readers, confirm, dropped, cluster>> /\ UNCHANGED clock
      /\ acts' \in Nat
  BY <1>0, <1>1 DEF TreeTyped, list
<1>3. ajax[i] \in Requests /\ RequestGood(ajax[i])
  BY <1>0 DEF ListHolds, Elems
<1>4. PICK r \in Requests : r = ajax[i]
  BY <1>3
<1>5. PICK f, ok : f = [r EXCEPT !.status = "failed"] /\ ok = [r EXCEPT !.status = "ok"]
  OBVIOUS
<1>6. /\ f \in Requests /\ f.what = r.what /\ f.key = r.key /\ f.name = r.name /\ f.format = r.format
      /\ f.data = r.data /\ f.id = r.id /\ f.list = r.list /\ f.status = "failed"
  BY <1>5 DEF Requests
<1>7. /\ ok \in Requests /\ ok.what = r.what /\ ok.key = r.key /\ ok.name = r.name
      /\ ok.format = r.format /\ ok.data = r.data /\ ok.id = r.id /\ ok.list = r.list
      /\ ok.status = "ok"
  BY <1>5 DEF Requests
<1>s. UNCHANGED <<store, made>> => store' \subseteq ServerNotebook /\ StoreKeepsNames /\ StoreHolds'
                                   /\ made' \in Nat
  BY <1>0, <1>2, StoreStands
<1>n. ASSUME NEW id \in Nat, NEW w, Named(id, w), StoreKeepsNames, made' \in Nat,
             store' \subseteq ServerNotebook
      PROVE  Named(id, w)'
  <2>1. ASSUME NEW n \in store', n.id = id PROVE n.name = w
    <3>1. ~(n.id > made)
      BY <1>0, <1>n, <2>1 DEF Named
    <3>2. PICK old \in store : old.id = n.id /\ old.name = n.name
      BY <1>n, <3>1 DEF StoreKeepsNames
    <3> QED BY <1>n, <2>1, <3>2 DEF Named
  <2>2. id <= made'
    BY <1>0, <1>n DEF Named, StoreKeepsNames
  <2> QED BY <2>1, <2>2 DEF Named
<1>8. CASE Answered(i, [ajax[i] EXCEPT !.status = "failed"]) /\ UNCHANGED server
  <2>1. UNCHANGED <<store, made>> /\ Answered(i, f)
    BY <1>4, <1>5, <1>8 DEF server
  <2>2. RequestGood(f)'
    BY <1>2, <1>3, <1>4, <1>6, <2>1 DEF RequestGood, Named
  <2> QED BY <1>0, <1>2, <1>4, <1>6, <1>s, <2>1, <2>2, AnswerCarries, ServerKeeps
<1>9. CASE /\ ajax[i].what = "notebooks" /\ UNCHANGED server
           /\ Answered(i, [[ajax[i] EXCEPT !.status = "ok"] EXCEPT !.list = store])
  <2>1. PICK q : q = [ok EXCEPT !.list = store]
    OBVIOUS
  <2>2. q \in Requests /\ q.what = "notebooks" /\ q.key = r.key /\ q.list = store /\ r.what = q.what
    BY <1>0, <1>4, <1>7, <1>9, <2>1 DEF Requests
  <2>3. UNCHANGED <<store, made>> /\ Answered(i, q)
    BY <1>4, <1>5, <1>9, <2>1 DEF server
  <2>4. RequestGood(q)'
    BY <1>0, <2>2, <2>3 DEF RequestGood, ListHolds, Named
  <2> QED BY <1>0, <1>2, <1>4, <1>s, <2>2, <2>3, <2>4, AnswerCarries, ServerKeeps
<1>10. CASE /\ ajax[i].what = "clusters" /\ UNCHANGED server
            /\ Answered(i, [[ajax[i] EXCEPT !.status = "ok"] EXCEPT !.id = IF clusterRuns THEN 1 ELSE 0])
  <2>1. PICK id \in Nat : id = IF clusterRuns THEN 1 ELSE 0
    OBVIOUS
  <2>2. PICK q : q = [ok EXCEPT !.id = id]
    OBVIOUS
  <2>3. q \in Requests /\ q.what = "clusters" /\ q.key = r.key /\ r.what = q.what
    BY <1>4, <1>7, <1>10, <2>2 DEF Requests
  <2>4. UNCHANGED <<store, made>> /\ Answered(i, q)
    BY <1>4, <1>5, <1>10, <2>1, <2>2 DEF server
  <2>5. RequestGood(q)'
    BY <2>3 DEF RequestGood
  <2> QED BY <1>0, <1>2, <1>4, <1>s, <2>3, <2>4, <2>5, AnswerCarries, ServerKeeps
<1>11. CASE /\ ajax[i].what = "upload" /\ made' = made + 1
            /\ Answered(i, [[ajax[i] EXCEPT !.status = "ok"] EXCEPT !.id = made'])
            /\ store' = store \cup {[id |-> made', name |-> ajax[i].name, data |-> ajax[i].data,
                                     kernel |-> 0]}
  <2>1. PICK q, n : /\ q = [ok EXCEPT !.id = made']
                    /\ n = [id |-> made', name |-> r.name, data |-> r.data, kernel |-> 0]
    OBVIOUS
  <2>0. made' \in Nat /\ made' > made /\ made <= made'
    BY <1>0, <1>11
  <2>2. /\ q \in Requests /\ q.what = "upload" /\ q.key = r.key /\ r.what = q.what
        /\ q.name = r.name /\ q.format = r.format /\ q.data = r.data /\ q.id = made'
    BY <1>4, <1>7, <1>11, <2>0, <2>1 DEF Requests
  <2>3. Answered(i, q) /\ store' = store \cup {n}
    BY <1>4, <1>5, <1>11, <2>1
  <2>4. n \in ServerNotebook /\ n.id = made' /\ n.name = r.name
    BY <2>0, <2>1 DEF ServerNotebook, Requests, Called
  <2>5. store' \subseteq ServerNotebook /\ StoreKeepsNames
    BY <1>0, <1>2, <2>0, <2>3, <2>4 DEF StoreKeepsNames
  <2>6. \A old \in store : old.id \in Nat /\ 1 <= old.id /\ old.id <= made
    BY <1>0 DEF ListHolds, ServerNotebook
  <2>7. StoreHolds'
    <3>1. \A x \in store' : 1 <= x.id /\ x.id <= made'
      BY <1>0, <2>0, <2>3, <2>4, <2>6
    <3>2. \A x, y \in store' : x.id = y.id => x = y
      <4>1. \A x \in store : x.id # made'
        BY <1>0, <2>0, <2>6
      <4>2. \A x, y \in store : x.id = y.id => x = y
        BY <1>0 DEF ListHolds
      <4> QED BY <2>3, <2>4, <4>1, <4>2
    <3> QED BY <3>1, <3>2 DEF StoreHolds
  <2>8. RequestGood(q)'
    <3>1. \A x \in store' : x.id = made' => x.name = r.name
      <4>1. \A x \in store : x.id # made'
        BY <1>0, <2>0, <2>6
      <4> QED BY <2>3, <2>4, <4>1
    <3>2. Named(q.id, q.name)'
      <4>1. q.id <= made'
        BY <2>0, <2>2
      <4>2. \A x \in store' : x.id = q.id => x.name = q.name
        BY <2>2, <3>1
      <4> QED BY <4>1, <4>2 DEF Named
    <3>3. /\ r.name = r.data.name /\ r.format = FormatOf(r.data)
          /\ 0 - dropped <= r.key /\ r.key <= 0
          /\ \A row \in rows : r.key < 0 /\ row.key = r.key => row.name = r.name
      BY <1>3, <1>4, <2>2 DEF RequestGood
    <3> QED BY <1>2, <2>2, <3>2, <3>3 DEF RequestGood
  <2> QED BY <1>0, <1>2, <1>4, <2>0, <2>2, <2>3, <2>5, <2>7, <2>8, AnswerCarries, ServerKeeps
<1>12. CASE /\ ajax[i].what \in {"delete", "shutdown"} /\ UNCHANGED made
            /\ Answered(i, [ajax[i] EXCEPT !.status = "ok"])
            /\ \/ \E n \in store : store' = store \ {n}
               \/ \E n \in store : store' = WithKernel(n, 0)
  <2>1. Answered(i, ok) /\ r.what \in {"delete", "shutdown"} /\ made' \in Nat
    BY <1>0, <1>4, <1>5, <1>12
  <2>2. store' \subseteq ServerNotebook /\ StoreKeepsNames /\ StoreHolds'
    <3>1. \/ \E n \in store : store' = store \ {n}
          \/ \E n \in store, k \in Nat : store' = WithKernel(n, k)
      BY <1>12
    <3> QED BY <1>2, <1>12, <3>1, StoreStep
  <2>3. RequestGood(ok)'
    <3>1. r.what = "delete" => Named(r.id, r.name)
      BY <1>3, <1>4 DEF RequestGood
    <3>2. r.what = "delete" => Named(r.id, r.name)'
      BY <1>n, <2>1, <2>2, <3>1 DEF Requests
    <3>3. ok.what = "delete" => Named(ok.id, ok.name)'
      BY <1>7, <3>2 DEF Named
    <3> QED BY <1>7, <2>1, <3>3 DEF RequestGood
  <2> QED BY <1>0, <1>2, <1>4, <1>7, <2>1, <2>2, <2>3, AnswerCarries, ServerKeeps
<1>13. CASE /\ ajax[i].what \in {"start", "stop"} /\ UNCHANGED <<store, made>>
            /\ Answered(i, [ajax[i] EXCEPT !.status = "ok"])
  <2>1. Answered(i, ok) /\ r.what \in {"start", "stop"}
    BY <1>4, <1>5, <1>13
  <2>2. RequestGood(ok)'
    BY <1>7, <2>1 DEF RequestGood
  <2> QED BY <1>0, <1>2, <1>4, <1>7, <1>s, <1>13, <2>1, <2>2, AnswerCarries, ServerKeeps
<1> QED BY <1>1, <1>8, <1>9, <1>10, <1>11, <1>12, <1>13

-----------------------------------------------------------------------------
(* The answers *)
\* The list is drawn with what the server had: no row of a file is left.
LEMMA ListLoadedStep ==
    ASSUME TreeInv, NEW notebooks, NEW rest \in Seq(Requests), notebooks \subseteq ServerNotebook,
           \A n \in notebooks : 1 <= n.id /\ Named(n.id, n.name),
           Elems(rest) \subseteq Elems(ajax), Awaited(ajax) => Awaited(rest),
           ListLoaded(notebooks, rest), UNCHANGED <<clock, server, acts>>
    PROVE  TreeInv'
<1>0. TreeTyped /\ ListHolds /\ dropped \in Nat
  BY DEF TreeInv, TreeTyped
<1>1. UNCHANGED <<tab, readers, dropped, cluster, store, made, acts>> /\ UNCHANGED clock
  BY DEF ListLoaded, server
<1>2. ASSUME NEW n \in notebooks
      PROVE  /\ Listed(n) \in Rows /\ 0 <= Listed(n).key /\ Listed(n).buttons # "upload"
             /\ Listed(n).id = n.id /\ Listed(n).name = n.name
  <2>1. NoRow \in Rows
    <3>1. NoFile \in UploadFile
      BY DEF NoFile, UploadFile
    <3> QED BY <3>1 DEF NoRow, Rows, Called, Formats, Gone
  <2>2. PICK base \in Rows : base = NoRow
    BY <2>1
  <2>3. PICK buttons : buttons = (IF n.kernel = 0 THEN "delete" ELSE "shutdown")
                       /\ buttons \in {"delete", "shutdown"}
    OBVIOUS
  <2>4. PICK id \in Nat, called \in Called, session \in Nat :
          id = n.id /\ called = n.name /\ session = n.kernel
    BY DEF ServerNotebook, Called
  <2>5. Listed(n) = [base EXCEPT !.key = id, !.name = called, !.id = id, !.kernel = session,
                                 !.buttons = buttons]
    BY <2>2, <2>3, <2>4 DEF Listed
  <2>6. PICK row : row = [base EXCEPT !.key = id, !.name = called, !.id = id, !.kernel = session,
                                      !.buttons = buttons]
    OBVIOUS
  <2>7. row \in Rows
    <3>1. id \in Int /\ buttons \in {"none", "upload", "delete", "shutdown"}
      BY <2>3
    <3>2. base \in Rows
      BY <2>2
    <3> QED BY <2>6, <3>1, <3>2 DEF Rows
  <2>9. row.key = id /\ row.buttons = buttons /\ row.id = id /\ row.name = called
    BY <2>2, <2>6 DEF Rows
  <2>8. 0 <= id
    OBVIOUS
  <2> QED BY <2>3, <2>4, <2>5, <2>6, <2>7, <2>8, <2>9
<1>3. NoRow \in Rows /\ NoRow.key = 0 /\ NoRow.buttons = "none"
  <2>1. NoFile \in UploadFile
    BY DEF NoFile, UploadFile
  <2> QED BY <2>1 DEF NoRow, Rows, Called, Formats, Gone
<1>4. ASSUME NEW row \in rows'
      PROVE  row = NoRow \/ \E n \in notebooks : row = Listed(n)
  BY DEF ListLoaded
<1>5. ASSUME NEW row \in rows'
      PROVE  row \in Rows /\ 0 <= row.key /\ row.key \in Int
  BY <1>2, <1>3, <1>4 DEF Rows
<1>6. RowsKeepNames /\ RowsAgree'
  <2>1. \A row \in rows' : ~(row.key < 0)
    BY <1>5
  <2> QED BY <2>1 DEF RowsKeepNames, RowsAgree
<1>7. ASSUME NEW row \in rows' PROVE RowGood(row)'
  <2>1. 0 - dropped' <= row.key
    BY <1>0, <1>1, <1>5
  <2>2. CASE row = NoRow
    BY <1>3, <2>1, <2>2 DEF RowGood
  <2>3. ASSUME NEW n \in notebooks, row = Listed(n) PROVE RowGood(row)'
    <3>1. Named(row.id, row.name)'
      BY <1>1, <1>2, <2>3 DEF Named
    <3> QED BY <1>2, <2>1, <2>3, <3>1 DEF RowGood
  <2> QED BY <1>4, <2>2, <2>3
<1>8. confirm' \in Dialogs /\ confirm'.open = confirm.open /\ confirm'.id = confirm.id
      /\ confirm'.name = confirm.name
  BY <1>0 DEF TreeTyped, Dialogs, ListLoaded, Gone
<1>9. /\ DOMAIN ajax' = DOMAIN rest /\ ajax' = [i \in DOMAIN rest |-> ajax'[i]]
      /\ \A i \in DOMAIN rest :
           IF rest[i].what \in {"upload", "delete"} THEN ajax'[i] = [rest[i] EXCEPT !.key = Gone]
           ELSE ajax'[i] = rest[i]
  BY DEF ListLoaded
<1>10. ASSUME NEW i \in DOMAIN rest
       PROVE  \E q \in Requests : q = ajax'[i] /\ (q \in Elems(ajax) \/ RequestGood(q)')
  <2>1. rest[i] \in Requests /\ rest[i] \in Elems(ajax) /\ RequestGood(rest[i])
    <3>1. rest[i] \in Requests /\ rest[i] \in Elems(rest)
      BY DEF Elems
    <3> QED BY <1>0, <3>1 DEF ListHolds
  <2>2. CASE rest[i].what \notin {"upload", "delete"}
    BY <1>9, <2>1, <2>2
  <2>3. CASE rest[i].what \in {"upload", "delete"}
    <3>1. PICK r \in Requests : r = rest[i]
      BY <2>1
    <3>2. PICK q : q = ajax'[i] /\ q = [r EXCEPT !.key = Gone]
      BY <1>9, <2>3, <3>1
    <3>3. /\ q \in Requests /\ q.what = r.what /\ q.key = 0 /\ q.name = r.name
          /\ q.format = r.format /\ q.data = r.data /\ q.id = r.id /\ q.status = r.status
      BY <3>2 DEF Requests, Gone
    <3>4. 0 - dropped' <= 0
      BY <1>0, <1>1
    <3>5. r.what = "upload" =>
             r.name = r.data.name /\ r.format = FormatOf(r.data)
             /\ (r.status = "ok" => Named(r.id, r.name))
      BY <2>1, <3>1 DEF RequestGood
    <3>6. r.what = "delete" => Named(r.id, r.name)
      BY <2>1, <3>1 DEF RequestGood
    <3>7. Named(r.id, r.name) => Named(q.id, q.name)'
      BY <1>1, <3>3 DEF Named
    <3>8. RequestGood(q)'
      BY <2>3, <3>1, <3>3, <3>4, <3>5, <3>6, <3>7 DEF RequestGood
    <3> QED BY <2>3, <3>2, <3>3, <3>8
  <2> QED BY <2>2, <2>3
<1>o. \A i \in DOMAIN rest : rest[i].what \in {"start", "stop"} => ajax'[i] = rest[i]
  BY <1>9
<1>11. Carried
  <2>1. ajax' \in Seq(Requests)
    <3>1. \A i \in DOMAIN rest : ajax'[i] \in Requests
      BY <1>10
    <3> QED BY <1>9, <3>1, ElemsMapped
  <2>2. ASSUME NEW r \in Elems(ajax') PROVE r \in Elems(ajax) \/ RequestGood(r)'
    <3>1. PICK i \in DOMAIN rest : r = ajax'[i]
      BY <1>9 DEF Elems
    <3> QED BY <1>10, <3>1
  <2>3. Awaited(rest) => Awaited(ajax')
    BY <1>9, <1>o DEF Awaited, Elems
  <2> QED BY <2>1, <2>2, <2>3 DEF Carried
<1>12. TreeTyped'
  BY <1>0, <1>1, <1>5, <1>8, <1>11 DEF TreeTyped, Carried
<1>13. ListHolds'
  <2>1. \A rd \in readers' : rd \in readers \/ ReaderGood(rd)'
    BY <1>1
  <2> QED BY <2>1, <1>1, <1>6, <1>7, <1>8, <1>11, <1>12, StoreStands, ListKept DEF Carried
<1>14. ClockHolds' /\ ClusterWordsHold'
  BY <1>1, <1>11, ClockStands DEF TreeInv, ClusterWordsHold, Carried
<1> QED BY <1>12, <1>13, <1>14 DEF TreeInv

\* The row of the cluster is drawn: its words say what it is, and wait for nothing.
LEMMA ClusterDrawn ==
    ASSUME TreeInv, NEW rest \in Seq(Requests), NEW key \in Int, NEW state \in {"running", "stopped"},
           Elems(rest) \subseteq Elems(ajax), cluster' = Drawn(state), ajax' = Redrawn(key, rest),
           UNCHANGED <<tab, rows, readers, confirm, dropped, store, made, acts>>, UNCHANGED clock
    PROVE  TreeInv'
<1>0. TreeTyped /\ ListHolds
  BY DEF TreeInv
<1>1. cluster' \in Clusters /\ cluster'.words \notin {"starting", "stopping"}
  BY DEF Drawn, Clusters
<1>2. /\ DOMAIN ajax' = DOMAIN rest /\ ajax' = [i \in DOMAIN rest |-> ajax'[i]]
      /\ \A i \in DOMAIN rest :
           \/ ajax'[i] = rest[i]
           \/ rest[i].what \in {"start", "stop"} /\ ajax'[i] = [rest[i] EXCEPT !.key = key]
  BY DEF Redrawn
<1>3. ASSUME NEW i \in DOMAIN rest
      PROVE  \E q \in Requests : q = ajax'[i] /\ (q \in Elems(ajax) \/ RequestGood(q)')
  <2>1. rest[i] \in Requests /\ rest[i] \in Elems(ajax)
    BY DEF Elems
  <2>2. CASE rest[i].what \in {"start", "stop"} /\ ajax'[i] = [rest[i] EXCEPT !.key = key]
    <3>1. PICK r \in Requests : r = rest[i]
      BY <2>1
    <3>2. PICK q : q = ajax'[i] /\ q = [r EXCEPT !.key = key]
      BY <2>2, <3>1
    <3>3. q \in Requests /\ q.what \in {"start", "stop"}
      BY <2>2, <3>1, <3>2 DEF Requests
    <3>4. RequestGood(q)'
      BY <3>3 DEF RequestGood
    <3> QED BY <3>2, <3>3, <3>4
  <2> QED BY <1>2, <2>1, <2>2
<1>4. ajax' \in Seq(Requests)
  <2>1. \A i \in DOMAIN rest : ajax'[i] \in Requests
    BY <1>3
  <2> QED BY <1>2, <2>1, ElemsMapped
<1>5. ASSUME NEW r \in Elems(ajax') PROVE r \in Elems(ajax) \/ RequestGood(r)'
  <2>1. PICK i \in DOMAIN rest : r = ajax'[i]
    BY <1>2 DEF Elems
  <2> QED BY <1>3, <2>1
<1>6. TreeTyped'
  BY <1>0, <1>1, <1>4 DEF TreeTyped
<1>7. ListHolds'
  BY <1>5, <1>6, RowsStand, ListKept
<1>8. ClockHolds' /\ ClusterWordsHold'
  BY <1>1, ClockStands DEF TreeInv, ClusterWordsHold
<1> QED BY <1>6, <1>7, <1>8 DEF TreeInv

LEMMA ArriveStep == TreeInv /\ Arrive => TreeInv'
<1> SUFFICES ASSUME TreeInv, Arrive PROVE TreeInv'
  OBVIOUS
<1>0. TreeTyped /\ ListHolds /\ ajax \in Seq(Requests)
  BY DEF TreeInv, TreeTyped
<1>1. PICK i \in DOMAIN ajax :
        /\ ajax[i].status # "sent" /\ UNCHANGED <<clock, server, acts>>
        /\ IF ajax[i].status = "ok" THEN Succeeded(ajax[i], RemoveAt(ajax, i))
                                    ELSE Failed(ajax[i], RemoveAt(ajax, i))
  BY DEF Arrive
<1>2. ajax[i] \in Requests /\ RequestGood(ajax[i])
  BY <1>0 DEF ListHolds, Elems
<1>3. PICK r \in Requests : r = ajax[i]
  BY <1>2
<1>4. PICK rest \in Seq(Requests) :
        /\ rest = RemoveAt(ajax, i) /\ Elems(rest) \subseteq Elems(ajax)
        /\ \A y \in Elems(ajax) : y # r => y \in Elems(rest)
  BY <1>0, <1>3, ElemsRemoved
<1>5. RequestGood(r) /\ IF r.status = "ok" THEN Succeeded(r, rest) ELSE Failed(r, rest)
  BY <1>1, <1>2, <1>3, <1>4
<1>6. UNCHANGED <<store, made, acts>> /\ UNCHANGED clock /\ acts' \in Nat
  BY <1>0, <1>1 DEF server, TreeTyped
<1>w. r.what \notin {"start", "stop"} \/ r.key # Words => (Awaited(ajax) => Awaited(rest))
  BY <1>4 DEF Awaited
<1>c. r.what \notin {"start", "stop"} /\ ajax' = rest => Carried
  BY <1>4, <1>w DEF Carried
\* The list.
<1>7. ASSUME NEW notebooks, r.what = "notebooks", notebooks = {} \/ notebooks = r.list,
             ListLoaded(notebooks, rest)
      PROVE  TreeInv'
  <2>1. notebooks \subseteq ServerNotebook
    BY <1>7 DEF Requests
  <2>2. \A n \in notebooks : 1 <= n.id /\ Named(n.id, n.name)
    BY <1>5, <1>7 DEF RequestGood
  <2>3. Awaited(ajax) => Awaited(rest)
    BY <1>7, <1>w
  <2> QED BY <1>1, <1>4, <1>7, <2>1, <2>2, <2>3, ListLoadedStep
\* An answer nobody waits for.
<1>8. ASSUME ajax' = rest, UNCHANGED <<list, cluster>>, r.what \notin {"start", "stop"}
      PROVE  TreeInv'
  BY <1>6, <1>8, <1>c, QuietKeeps, ClockStands DEF TreeInv, list
\* The uploaded notebook gets its link and its button.
<1>9. ASSUME r.what = "upload", r.status = "ok", Succeeded(r, rest) PROVE TreeInv'
  <2> DEFINE Linked(row) == [row EXCEPT !.id = r.id, !.buttons = "delete"]
  <2>1. /\ rows' = IF r.key = Gone THEN rows
                   ELSE {IF row.key = r.key THEN Linked(row) ELSE row : row \in rows}
        /\ ajax' = rest /\ UNCHANGED <<tab, readers, confirm, dropped, cluster>>
    BY <1>9 DEF Succeeded, Amended
  <2>2. ASSUME NEW row \in rows
        PROVE  /\ Linked(row) \in Rows /\ Linked(row).key = row.key
               /\ Linked(row).name = row.name /\ Linked(row).format = row.format
               /\ Linked(row).buttons = "delete" /\ Linked(row).id = r.id
    <3>1. row \in Rows /\ r.id \in Nat
      BY <1>0 DEF TreeTyped, Requests
    <3> QED BY <3>1 DEF Rows
  <2> HIDE DEF Linked
  <2>3. ASSUME NEW row \in rows'
        PROVE  \/ row \in rows
               \/ r.key # 0 /\ \E old \in rows : old.key = r.key /\ row = Linked(old)
    BY <2>1 DEF Gone
  <2>4. TreeTyped'
    <3>1. rows' \subseteq Rows
      BY <1>0, <2>2, <2>3 DEF TreeTyped
    <3> QED BY <1>0, <1>4, <1>6, <2>1, <3>1 DEF TreeTyped
  <2>5. RowsKeepNames /\ RowsAgree'
    <3>1. \A row \in rows' :
             row \in rows \/ \E old \in rows : /\ row.key = old.key /\ row.name = old.name
                                               /\ row.format = old.format
      BY <2>2, <2>3
    <3> QED BY <3>1, AmendedKeeps
  <2>6. ASSUME NEW row \in rows' PROVE row \in rows \/ RowGood(row)'
    <3>1. ASSUME NEW old \in rows, r.key # 0, old.key = r.key, row = Linked(old) PROVE RowGood(row)'
      <4>1. row.key = old.key /\ row.name = old.name /\ row.buttons = "delete" /\ row.id = r.id
        BY <2>2, <3>1
      <4>2. r.key \in Int /\ r.key <= 0 /\ r.key < 0
        BY <1>5, <1>9, <3>1 DEF RequestGood, Requests
      <4>3. old.name = r.name /\ Named(r.id, r.name)
        BY <1>5, <1>9, <3>1, <4>2 DEF RequestGood
      <4>4. Named(row.id, row.name)'
        BY <1>6, <4>1, <4>3 DEF Named
      <4>5. 0 - dropped' <= row.key
        BY <1>0, <2>1, <4>1 DEF ListHolds, RowGood
      <4> QED BY <4>1, <4>4, <4>5 DEF RowGood
    <3> QED BY <2>3, <3>1
  <2>7. Carried
    BY <1>9, <1>c, <2>1
  <2>8. ListHolds'
    <3>1. /\ \A rd \in readers' : rd \in readers \/ ReaderGood(rd)'
          /\ confirm' = confirm
      BY <2>1
    <3> QED BY <1>6, <2>1, <2>4, <2>5, <2>6, <2>7, <3>1, StoreStands, ListKept DEF Carried
  <2>9. ClockHolds' /\ ClusterWordsHold'
    BY <1>6, <2>1, <2>7, ClockStands DEF TreeInv, ClusterWordsHold, Carried
  <2> QED BY <2>4, <2>8, <2>9 DEF TreeInv
<1>10. ASSUME r.what = "delete", r.status = "ok", Succeeded(r, rest) PROVE TreeInv'
  <2>1. /\ rows' \subseteq rows /\ ajax' = rest
        /\ UNCHANGED <<tab, readers, confirm, dropped, cluster>>
    BY <1>10 DEF Succeeded
  <2>2. Carried /\ confirm' \in Dialogs
    BY <1>0, <1>10, <1>c, <2>1 DEF TreeTyped
  <2> QED BY <1>6, <2>1, <2>2, FewerKeeps
<1>11. ASSUME r.what = "shutdown", r.status = "ok", Succeeded(r, rest) PROVE TreeInv'
  <2>1. ajax' = Append(rest, Load) /\ UNCHANGED <<list, cluster>>
    BY <1>11 DEF Succeeded
  <2>2. PICK q \in Requests : q = Load /\ q.what \notin {"upload", "delete"} /\ q.list = {}
    <3>1. Load \in Requests
      BY <1>0, PlainTyped DEF TreeTyped, Load, Kinds
    <3>2. Load.what = tab /\ Load.list = {}
      BY DEF Load, Plain
    <3> QED BY <1>0, <3>1, <3>2 DEF TreeTyped
  <2>3. RequestGood(q)'
    BY <2>2 DEF RequestGood
  <2>4. ajax' \in Seq(Requests) /\ Elems(ajax') = Elems(rest) \cup {q}
    BY <2>1, <2>2, ElemsAppend
  <2>5. Carried
    BY <1>4, <1>11, <1>w, <2>3, <2>4 DEF Carried, Awaited
  <2> QED BY <1>6, <2>1, <2>5, QuietKeeps, ClockStands DEF TreeInv, list
\* The cluster.
<1>12. ASSUME r.what = "clusters", r.status = "ok", Succeeded(r, rest) PROVE TreeInv'
  <2>1. PICK state \in {"running", "stopped"} : cluster' = Drawn(state)
    BY <1>12 DEF Succeeded, LoadListSuccess
  <2>2. ajax' = Redrawn(Gone, rest) /\ UNCHANGED list
    BY <1>12 DEF Succeeded, LoadListSuccess
  <2> QED BY <1>4, <1>6, <2>1, <2>2, ClusterDrawn DEF Gone, list
<1>13. ASSUME r.what \in {"start", "stop"}, r.status = "ok", Succeeded(r, rest) PROVE TreeInv'
  <2>1. UpdateState(r, rest)
    BY <1>13 DEF Succeeded
  <2>2. CASE r.key = Gone
    <3>1. ajax' = rest /\ cluster' = cluster /\ UNCHANGED list
      BY <2>1, <2>2 DEF UpdateState
    <3>2. Carried
      BY <1>4, <1>w, <2>2, <3>1 DEF Carried, Gone, Words
    <3> QED BY <1>6, <3>1, <3>2, QuietKeeps, ClockStands DEF TreeInv, list
  <2>3. CASE r.key # Gone
    <3>1. PICK state \in {"running", "stopped"} : cluster' = Drawn(state)
      BY <2>1, <2>3 DEF UpdateState
    <3>2. ajax' = Redrawn(Row, rest) /\ UNCHANGED list
      BY <2>1, <2>3 DEF UpdateState
    <3> QED BY <1>4, <1>6, <3>1, <3>2, ClusterDrawn DEF Row, list
  <2> QED BY <2>2, <2>3
<1>14. ASSUME r.what \in {"start", "stop"}, Failed(r, rest) PROVE TreeInv'
  <2>1. cluster' = Worded(r) /\ ajax' = rest /\ UNCHANGED list
    BY <1>14 DEF Failed
  <2>2. CASE r.key # Words
    <3>1. cluster' = cluster
      BY <2>1, <2>2 DEF Worded
    <3>2. Carried
      BY <1>4, <1>w, <2>1, <2>2 DEF Carried
    <3> QED BY <1>6, <2>1, <3>1, <3>2, QuietKeeps, ClockStands DEF TreeInv, list
  <2>3. CASE r.key = Words
    <3>1. cluster' \in Clusters /\ cluster'.words = "error"
      BY <1>0, <2>1, <2>3 DEF TreeTyped, Worded, Clusters
    <3>2. UNCHANGED <<tab, rows, readers, confirm, dropped>>
      BY <2>1 DEF list
    <3>3. TreeTyped'
      BY <1>0, <1>4, <1>6, <2>1, <3>1, <3>2 DEF TreeTyped
    <3>4. ListHolds'
      BY <1>4, <1>6, <2>1, <3>2, <3>3, RowsStand, ListKept
    <3>5. ClockHolds' /\ ClusterWordsHold'
      BY <1>6, <3>1, ClockStands DEF TreeInv, ClusterWordsHold
    <3> QED BY <3>3, <3>4, <3>5 DEF TreeInv
  <2> QED BY <2>2, <2>3
<1>15. CASE r.status = "ok"
  <2>1. CASE r.what = "notebooks"
    BY <1>5, <1>7, <1>15, <2>1 DEF Succeeded
  <2>2. r.what \in Kinds
    BY DEF Requests
  <2> QED BY <1>5, <1>9, <1>10, <1>11, <1>12, <1>13, <1>15, <2>1, <2>2 DEF Kinds
<1>16. CASE r.status # "ok"
  <2>1. Failed(r, rest)
    BY <1>5, <1>16
  <2>2. CASE r.what = "notebooks"
    BY <1>7, <2>1, <2>2 DEF Failed
  <2>3. CASE r.what \in {"start", "stop"}
    BY <1>14, <2>1, <2>3
  <2>4. CASE r.what \notin {"notebooks", "start", "stop"}
    BY <1>8, <2>1, <2>4 DEF Failed
  <2> QED BY <2>2, <2>3, <2>4
<1> QED BY <1>15, <1>16

LEMMA TreeInit == TInit => TreeInv
<1> SUFFICES ASSUME TInit PROVE TreeInv
  OBVIOUS
<1>1. /\ store \subseteq ServerNotebook /\ IsFiniteSet(store) /\ made = Cardinality(store)
      /\ \A n \in store : n.id \in 1..made
      /\ \A m, n \in store : m.id = n.id => m = n
  BY StoresAssumption DEF TInit
<1>2. made \in Nat
  BY <1>1, FS_CardinalityType
<1>3. PICK load \in Requests : load = Load /\ load.what \in {"notebooks", "clusters"} /\ load.list = {}
  <2>1. Load \in Requests
    BY PlainTyped DEF TInit, Load, Kinds
  <2>2. Load.what = tab /\ Load.list = {}
    BY DEF Load, Plain
  <2> QED BY <2>1, <2>2 DEF TInit
<1>4. ajax = <<load>> /\ ajax \in Seq(Requests) /\ Elems(ajax) = {load}
  <2>1. ajax = <<load>>
    BY <1>3 DEF TInit
  <2>2. <<load>> \in Seq(Requests) /\ DOMAIN <<load>> = {1} /\ <<load>>[1] = load
    OBVIOUS
  <2> QED BY <2>1, <2>2 DEF Elems
<1>5. rows = {} /\ readers = {} /\ dropped = 0 /\ acts = 0 /\ confirm = NoDialog
      /\ tab \in {"notebooks", "clusters"}
  BY DEF TInit
<1>6. confirm \in Dialogs /\ ~confirm.open
  <2>1. NoDialog \in Dialogs
    BY DEF NoDialog, Dialogs, Gone, Called
  <2>2. ~NoDialog.open
    BY DEF NoDialog
  <2> QED BY <1>5, <2>1, <2>2
<1>7. cluster \in Clusters /\ cluster.words = ""
  BY DEF TInit, Clusters
<1>8. TreeTyped
  BY <1>1, <1>2, <1>4, <1>5, <1>6, <1>7 DEF TreeTyped
<1>9. RequestGood(load)
  BY <1>3 DEF RequestGood
<1>10. \A n \in store : 1 <= n.id /\ n.id <= made
  BY <1>1, <1>2
<1>11. ListHolds
  BY <1>1, <1>4, <1>5, <1>6, <1>9, <1>10 DEF ListHolds, RowsAgree
<1>12. ClockHolds
  BY DEF TInit, ClockHolds
<1>13. ClusterWordsHold
  BY <1>7 DEF ClusterWordsHold
<1> QED BY <1>8, <1>11, <1>12, <1>13 DEF TreeInv

LEMMA TreeStep == TreeInv /\ [TNext]_tvars => TreeInv'
<1> SUFFICES ASSUME TreeInv, [TNext]_tvars PROVE TreeInv'
  OBVIOUS
<1>1. CASE UNCHANGED tvars
  <2>1. /\ UNCHANGED <<tab, rows, readers, confirm, dropped, store, made, cluster, ajax, acts>>
        /\ UNCHANGED clock
    BY <1>1 DEF tvars, clock
  <2>2. TreeTyped /\ acts' \in Nat
    BY <2>1 DEF TreeInv, TreeTyped
  <2> QED BY <2>1, <2>2, StillCarried, QuietKeeps, ClockStands DEF TreeInv
<1>2. CASE TNext
  BY <1>2, ClockStep, DropStep, OnloadStep, FewerStep, ClickUploadStep, ClickDeleteStep,
     AnswerDialogStep, ClickShutdownStep, ClusterStep, ServeStep, ElsewhereStep, ArriveStep DEF TNext
<1> QED BY <1>1, <1>2

\* Inductive: rows and requests carry the name of their file or notebook, the
\* page has the one interval it recorded, waiting words have their request.
THEOREM TreeInvariant == TreeSpec => []TreeInv
  BY TreeInit, TreeStep, PTL DEF TreeSpec

\* What is uploaded under a name is the file of that name, what is deleted has
\* the name that was confirmed, whatever is loaded, read and answered in between.
THEOREM ButtonsAndRows == TreeSpec => []ButtonsKeepTheirRow
<1>1. TreeInv => ButtonsKeepTheirRow
  <2> SUFFICES ASSUME TreeInv PROVE ButtonsKeepTheirRow
    OBVIOUS
  <2>1. TreeTyped /\ ListHolds /\ ClockHolds /\ ClusterWordsHold
    BY DEF TreeInv
  <2>2. ASSUME NEW i \in DOMAIN ajax
        PROVE  /\ ajax[i].what = "upload" =>
                     ajax[i].name = ajax[i].data.name /\ ajax[i].format = FormatOf(ajax[i].data)
               /\ ajax[i].what = "delete" =>
                     \A n \in store : n.id = ajax[i].id => n.name = ajax[i].name
    <3>1. RequestGood(ajax[i])
      BY <2>1 DEF ListHolds, Elems
    <3> QED BY <3>1 DEF RequestGood, Named
  <2>3. cluster.words \in {"starting", "stopping"} =>
           \E i \in DOMAIN ajax : ajax[i].what \in {"start", "stop"} /\ ajax[i].key = Words
    BY <2>1 DEF ClusterWordsHold, Awaited, Elems
  <2>4. ticking <= 1 /\ (heard = "blur" => ticking = 0)
    BY <2>1 DEF ClockHolds
  <2> QED BY <2>2, <2>3, <2>4 DEF ButtonsKeepTheirRow
<1> QED BY <1>1, TreeInvariant, PTL

-----------------------------------------------------------------------------
(********************************** The notebook ***************************)

\* What a notebook is made of.
CellRecords == [id : 1..MaxCells + 1, type : Types, text : Seq(STRING), level : Nat,
                selected : BOOLEAN, rendered : BOOLEAN, shown : BOOLEAN]
DataRecords == [type : Types, text : Seq(STRING), level : Nat]
NotebookRecords == [cells : Seq(CellRecords), dirty : BOOLEAN, clip : Seq(DataRecords),
                    backup : Seq(DataRecords), uindex : Nat \cup {NoIndex}, below : BOOLEAN,
                    chord : BOOLEAN, kernel : BOOLEAN, bar : Types \X Nat]
GoneRecords == [data : DataRecords, above : 0..MaxCells + 1, below : 0..MaxCells + 1]

\* Cell i is the selected one; at most one cell is; no two cells have one id.
Selects(n, i) == i \in DOMAIN n.cells /\ \A j \in DOMAIN n.cells : n.cells[j].selected <=> j = i
OneAtMost(n) == \A i, j \in DOMAIN n.cells : n.cells[i].selected /\ n.cells[j].selected => i = j
Distinct(n) == \A i, j \in DOMAIN n.cells : n.cells[i].id = n.cells[j].id => i = j

\* The notebook between two commands: cells that can be told apart, and exactly
\* one of them selected as soon as there is one.
Good(n) == /\ n \in NotebookRecords /\ Distinct(n)
           /\ HasCell(n) => \E i \in DOMAIN n.cells : Selects(n, i)

\* The place that undelete remembers is beside the neighbour the deleted cell had.
Linked(n, g) ==
    /\ n.backup = <<g.data>> /\ n.uindex # NoIndex
    /\ \/ g.above = Null /\ g.below = Null
       \/ /\ g.below # Null /\ ~n.below /\ n.uindex \in DOMAIN n.cells
          /\ n.cells[n.uindex].id = g.below
       \/ /\ g.above # Null /\ n.below /\ n.uindex \in DOMAIN n.cells
          /\ n.cells[n.uindex].id = g.above

\* The types, and the invariant.
NTypeOK == /\ nb \in NotebookRecords /\ show \in {"off", "on", "failed"} /\ slide \in Nat
           /\ file \in Seq(DataRecords) /\ steady \in BOOLEAN
           /\ (gone = NoData \/ \E g \in GoneRecords : gone = <<g>>)
NotebookInv == /\ NTypeOK /\ Good(nb) /\ Fits(nb)
               /\ gone # NoData => Linked(nb, gone[1])
               /\ CleanIsTheFile /\ OneSlide

(* What a loop leaves: a property of its first notebook that every round     *)
(* hands on.                                                                *)

\* The least element of a set of numbers.
LEMMA LeastNumber ==
    ASSUME NEW T, T \subseteq Nat, T # {}
    PROVE  \E m \in T : \A k \in T : m <= k
<1> DEFINE R == StrictSubsetOrdering(Nat)
<1> DEFINE F == FiniteSubsetsOf(Nat)
<1> DEFINE U == {0..n - 1 : n \in T}
<1>1. IsWellFoundedOn(R, F)
  BY FS_StrictSubsetOrderingWellFounded
<1>2. U \subseteq F /\ U # {}
  <2>1. ASSUME NEW n \in T PROVE IsFiniteSet(0..n - 1) /\ 0..n - 1 \subseteq Nat
    <3>1. 0 \in Int /\ n - 1 \in Int
      OBVIOUS
    <3> QED BY <3>1, FS_Interval
  <2> QED BY <2>1 DEF FiniteSubsetsOf
<1>3. \E x \in U : \A y \in U : ~ (<<y, x>> \in R)
  <2> HIDE DEF R, F, U
  <2> QED BY <1>1, <1>2, WFMin
<1>4. PICK m \in T : \A n \in T : ~ (<<0..n - 1, 0..m - 1>> \in R)
  BY <1>3
<1>5. ASSUME NEW k \in T, ~ m <= k PROVE FALSE
  <2>1. m \in Nat /\ k \in Nat /\ k < m
    BY <1>5
  <2>2. 0..k - 1 \subseteq 0..m - 1 /\ 0..k - 1 \in SUBSET Nat /\ 0..m - 1 \in SUBSET Nat
    BY <2>1
  <2>3. 0..k - 1 # 0..m - 1
    <3>1. k \in 0..m - 1 /\ k \notin 0..k - 1
      BY <2>1
    <3> QED BY <3>1
  <2>4. <<0..k - 1, 0..m - 1>> \in R
    BY <2>2, <2>3 DEF StrictSubsetOrdering
  <2> QED BY <1>4, <2>4
<1> QED BY <1>5

\* Induction on a set of rounds.
LEMMA Rounds ==
    ASSUME NEW N \in Nat, NEW T, 0 \in T, \A k \in 1..N : k - 1 \in T => k \in T
    PROVE  0..N \subseteq T
<1> SUFFICES ASSUME (0..N) \ T # {} PROVE FALSE
  OBVIOUS
<1>1. PICK m \in (0..N) \ T : \A k \in (0..N) \ T : m <= k
  <2>1. (0..N) \ T \subseteq Nat
    OBVIOUS
  <2> QED BY <2>1, LeastNumber
<1>2. m \in 1..N /\ m - 1 \in 0..N /\ ~ (m <= m - 1)
  BY <1>1
<1>3. m - 1 \in T
  BY <1>1, <1>2
<1> QED BY <1>1, <1>2, <1>3

\* What every round preserves holds after each of them.
LEMMA EachRound ==
    ASSUME NEW N \in Nat, NEW A, NEW d, d[0] \in A[0],
           \A k \in 1..N : d[k - 1] \in A[k - 1] => d[k] \in A[k]
    PROVE  \A k \in 0..N : d[k] \in A[k]
<1> DEFINE T == {k \in 0..N : d[k] \in A[k]}
<1>1. 0 \in T
  OBVIOUS
<1>2. ASSUME NEW k \in 1..N, k - 1 \in T PROVE k \in T
  BY <1>2
<1>3. 0..N \subseteq T
  <2> HIDE DEF T
  <2> QED BY <1>1, <1>2, Rounds
<1> QED BY <1>3

\* A loop whose round k takes A[k - 1] to A[k] by the function step[k] is a function
\* on the rounds.
Runs(g, N, A, step, a) == /\ g = [k \in 0..N |-> g[k]] /\ g[0] = a
                          /\ \A k \in 1..N : g[k - 1] \in A[k - 1] /\ g[k] = step[k][g[k - 1]]

\* A loop whose rounds stay in the sets A has a run.
LEMMA LoopExists ==
    ASSUME NEW N \in Nat, NEW A, NEW step, NEW a \in A[0],
           \A k \in 1..N : \A m \in A[k - 1] : step[k][m] \in A[k]
    PROVE  \E g : Runs(g, N, A, step, a)
<1> DEFINE Upto(g, n) == Runs(g, n, A, step, a) /\ g[n] \in A[n]
<1> DEFINE T == {n \in 0..N : \E g : Upto(g, n)}
<1>1. 0 \in T
  <2>1. Upto([k \in 0..0 |-> a], 0)
    BY DEF Runs
  <2> HIDE DEF Upto
  <2> QED BY <2>1
<1>2. ASSUME NEW n \in 1..N, n - 1 \in T PROVE n \in T
  <2>1. PICK g : Upto(g, n - 1)
    BY <1>2
  <2> DEFINE h == [k \in 0..n |-> IF k = n THEN step[n][g[n - 1]] ELSE g[k]]
  <2>2. h = [k \in 0..n |-> h[k]] /\ h[0] = a
    BY <2>1 DEF Runs
  <2>3. h[n] = step[n][g[n - 1]] /\ \A k \in 0..n - 1 : h[k] = g[k]
    OBVIOUS
  <2>4. h[n] \in A[n] /\ g[n - 1] \in A[n - 1]
    BY <2>1, <2>3 DEF Runs
  <2>5. ASSUME NEW k \in 1..n PROVE h[k - 1] \in A[k - 1] /\ h[k] = step[k][h[k - 1]]
    <3> HIDE DEF h
    <3>1. CASE k = n
      <4>1. h[n - 1] = g[n - 1]
        BY <2>3
      <4> QED BY <3>1, <4>1, <2>3, <2>4
    <3>2. CASE k # n
      <4>1. k \in 1..n - 1 /\ k \in 0..n - 1 /\ k - 1 \in 0..n - 1
        BY <3>2
      <4> QED BY <4>1, <2>1, <2>3 DEF Runs
    <3> QED BY <3>1, <3>2
  <2>6. Upto(h, n)
    <3> HIDE DEF h
    <3> QED BY <2>2, <2>4, <2>5 DEF Runs
  <2> HIDE DEF Upto, h
  <2> QED BY <2>6
<1>3. 0..N \subseteq T
  <2> HIDE DEF T
  <2> QED BY <1>1, <1>2, Rounds
<1>4. \E g : Upto(g, N)
  <2>1. N \in T
    <3> HIDE DEF T
    <3> QED BY <1>3
  <2> HIDE DEF Upto
  <2> QED BY <2>1
<1> QED BY <1>4
-----------------------------------------------------------------------------
(* Selecting.                                                               *)

\* Two cells that differ only in what selecting changes.
Alike(c, d) == /\ c.id = d.id /\ c.type = d.type /\ c.text = d.text /\ c.level = d.level
               /\ c.shown = d.shown
\* Everything of a notebook but its cells and the toolbar.
Beside(n, m) == /\ m.dirty = n.dirty /\ m.clip = n.clip /\ m.backup = n.backup
                /\ m.uindex = n.uindex /\ m.below = n.below /\ m.chord = n.chord
                /\ m.kernel = n.kernel

\* The cells of a notebook are a sequence of cells.
LEMMA CellsOf ==
    ASSUME NEW n \in NotebookRecords
    PROVE  /\ n.cells \in Seq(CellRecords) /\ Len(n.cells) \in Nat
           /\ DOMAIN n.cells = 1..Len(n.cells)
           /\ \A i \in DOMAIN n.cells : n.cells[i] \in CellRecords
           /\ HasCell(n) <=> Len(n.cells) # 0
<1>1. n.cells \in Seq(CellRecords)
  BY DEF NotebookRecords
<1> QED BY <1>1 DEF HasCell

\* get_selected_index finds the cell that is selected, when only one is.
LEMMA SelectedIs ==
    ASSUME NEW n, NEW i \in DOMAIN n.cells, OneAtMost(n), n.cells[i].selected,
           DOMAIN n.cells \subseteq Nat
    PROVE  SelectedIndex(n) = i
<1> DEFINE S == {j \in DOMAIN n.cells : n.cells[j].selected}
<1>1. i \in S /\ \A j \in S : j = i
  BY DEF OneAtMost
<1>2. \A j \in S : (\A k \in S : k <= j) => j = i
  BY <1>1
<1>3. i \in S /\ \A j \in S : j <= i
  BY <1>1
<1>4. (CHOOSE j \in S : \A k \in S : k <= j) = i
  <2> HIDE DEF S
  <2> QED BY <1>2, <1>3
<1>5. S # {}
  BY <1>1
<1>6. SelectedIndex(n) = IF S = {} THEN Null ELSE CHOOSE j \in S : \A k \in S : k <= j
  BY DEF SelectedIndex
<1> HIDE DEF S
<1> QED BY <1>4, <1>5, <1>6

\* ... and null when none is.
LEMMA NoneSelected ==
    ASSUME NEW n, \A i \in DOMAIN n.cells : ~ n.cells[i].selected
    PROVE  SelectedIndex(n) = Null
  BY DEF SelectedIndex

\* A notebook with one selected cell.
LEMMA SelectsIs ==
    ASSUME NEW n \in NotebookRecords, NEW i, Selects(n, i)
    PROVE  SelectedIndex(n) = i /\ i \in 1..Len(n.cells) /\ OneAtMost(n)
<1>1. i \in DOMAIN n.cells /\ n.cells[i].selected /\ OneAtMost(n)
  BY DEF Selects, OneAtMost
<1>2. DOMAIN n.cells = 1..Len(n.cells) /\ Len(n.cells) \in Nat
  BY CellsOf
<1>3. SelectedIndex(n) = i
  BY <1>1, <1>2, SelectedIs
<1> QED BY <1>1, <1>2, <1>3

\* select leaves all but which cell is selected.
LEMMA SelectKeeps ==
    ASSUME NEW n \in NotebookRecords, OneAtMost(n), NEW i \in Int
    PROVE  /\ Select(n, i) \in NotebookRecords /\ Beside(n, Select(n, i))
           /\ Len(Select(n, i).cells) = Len(n.cells)
           /\ \A j \in DOMAIN n.cells : Alike(Select(n, i).cells[j], n.cells[j])
           /\ i \notin DOMAIN n.cells => Select(n, i) = n
           /\ i \in DOMAIN n.cells => Selects(Select(n, i), i)
<1>c. /\ n.cells \in Seq(CellRecords) /\ Len(n.cells) \in Nat
      /\ DOMAIN n.cells = 1..Len(n.cells)
      /\ \A j \in DOMAIN n.cells : n.cells[j] \in CellRecords
  BY CellsOf
<1>1. CASE i \notin DOMAIN n.cells
  <2>1. Select(n, i) = n
    BY <1>1 DEF Select, Inside
  <2> QED BY <1>1, <2>1 DEF Alike, Beside
<1>2. CASE i \in DOMAIN n.cells
  <2> DEFINE left == SelectedIndex(n)
  <2> DEFINE cell(j) == [n.cells[j] EXCEPT !.selected = (j = i \/ (@ /\ j # left)),
                            !.rendered = (@ \/ (j = left /\ j # i /\ Renders(n.cells[j].type)))]
  <2> DEFINE cs == [j \in DOMAIN n.cells |-> cell(j)]
  <2>1. Select(n, i) = [n EXCEPT !.cells = cs, !.bar = <<n.cells[i].type, n.cells[i].level>>]
    BY <1>2 DEF Select, Inside
  <2>2. ASSUME NEW j \in DOMAIN n.cells
        PROVE  /\ cell(j) \in CellRecords /\ Alike(cell(j), n.cells[j])
               /\ cell(j).selected <=> j = i
    <3>1. n.cells[j] \in CellRecords
      BY <1>c
    <3>2. PICK c \in CellRecords : c = n.cells[j]
      BY <3>1
    <3>3. c.selected \in BOOLEAN /\ c.rendered \in BOOLEAN /\ Renders(c.type) \in BOOLEAN
      BY DEF CellRecords, Renders
    <3>4. (j = i \/ (c.selected /\ j # left)) \in BOOLEAN
          /\ (c.rendered \/ (j = left /\ j # i /\ Renders(c.type))) \in BOOLEAN
      OBVIOUS
    <3>5. PICK s \in BOOLEAN, r \in BOOLEAN :
             /\ s = (j = i \/ (c.selected /\ j # left))
             /\ r = (c.rendered \/ (j = left /\ j # i /\ Renders(c.type)))
      BY <3>4
    <3>6. cell(j) = [c EXCEPT !.selected = s, !.rendered = r]
      <4>1. cell(j) = [c EXCEPT !.selected = (j = i \/ (c.selected /\ j # left)),
                         !.rendered = (c.rendered \/ (j = left /\ j # i /\ Renders(c.type)))]
        BY <3>2, Zenon
      <4> QED BY <4>1, <3>5, Zenon
    <3>7. [c EXCEPT !.selected = s, !.rendered = r] \in CellRecords
          /\ Alike([c EXCEPT !.selected = s, !.rendered = r], c)
          /\ [c EXCEPT !.selected = s, !.rendered = r].selected = s
      BY DEF CellRecords, Alike
    <3>8. n.cells[j].selected /\ j # i => j = left
      BY SelectedIs, <1>c DEF OneAtMost
    <3>9. s <=> j = i
      BY <3>5, <3>8, <3>2
    <3> QED BY <3>2, <3>6, <3>7, <3>9
  <2>3. cs \in Seq(CellRecords) /\ Len(cs) = Len(n.cells) /\ DOMAIN cs = DOMAIN n.cells
        /\ \A j \in DOMAIN n.cells : cs[j] = cell(j)
    <3> HIDE DEF cell
    <3>1. \A j \in DOMAIN n.cells : cell(j) \in CellRecords
      BY <2>2
    <3> QED BY <1>c, <3>1
  <2>4. /\ Select(n, i).cells = cs /\ Beside(n, Select(n, i))
        /\ Select(n, i) \in NotebookRecords
    <3> HIDE DEF cs, cell
    <3>1. PICK b : b = <<n.cells[i].type, n.cells[i].level>>
      OBVIOUS
    <3>2. b \in Types \X Nat
      <4>1. n.cells[i] \in CellRecords
        BY <1>2, <1>c
      <4>2. n.cells[i].type \in Types /\ n.cells[i].level \in Nat
        BY <4>1 DEF CellRecords
      <4> QED BY <3>1, <4>2
    <3>3. Select(n, i) = [n EXCEPT !.cells = cs, !.bar = b]
      BY <2>1, <3>1
    <3> QED BY <2>3, <3>2, <3>3 DEF NotebookRecords, Beside
  <2> HIDE DEF cs, cell
  <2>5. \A j \in DOMAIN n.cells : cs[j].selected <=> j = i
    BY <2>2, <2>3
  <2>6. Selects(Select(n, i), i)
    BY <1>2, <2>3, <2>4, <2>5 DEF Selects
  <2> QED BY <1>2, <2>2, <2>3, <2>4, <2>6
<1> QED BY <1>1, <1>2
-----------------------------------------------------------------------------
(* Inserting.                                                               *)

\* A cell more, at place i and selected; what undelete remembers moves with it.
Grows(n, m, i) ==
    /\ i \in 1..Len(n.cells) + 1 /\ Len(m.cells) = Len(n.cells) + 1
    /\ \A j \in DOMAIN n.cells : n.cells[j].id # m.cells[i].id
    /\ \A j \in 1..i - 1 : Alike(m.cells[j], n.cells[j])
    /\ \A j \in i..Len(n.cells) : Alike(m.cells[j + 1], n.cells[j])
    /\ m.uindex = (IF n.uindex # NoIndex /\ i <= n.uindex THEN n.uindex + 1 ELSE n.uindex)
    /\ m.below = n.below /\ m.backup = n.backup /\ m.dirty

\* Inserting into a sequence moves what is at the place and after it.
LEMMA InsertAtIs ==
    ASSUME NEW S, NEW s \in Seq(S), NEW e \in S, NEW i \in 1..Len(s) + 1
    PROVE  /\ InsertAt(s, i, e) \in Seq(S) /\ Len(InsertAt(s, i, e)) = Len(s) + 1
           /\ InsertAt(s, i, e)[i] = e
           /\ \A j \in 1..i - 1 : InsertAt(s, i, e)[j] = s[j]
           /\ \A j \in i..Len(s) : InsertAt(s, i, e)[j + 1] = s[j]
<1> DEFINE a == SubSeq(s, 1, i - 1)
<1> DEFINE b == SubSeq(s, i, Len(s))
<1>1. Len(s) \in Nat /\ i \in Nat
  OBVIOUS
<1>2. a \in Seq(S) /\ Len(a) = i - 1 /\ \A j \in 1..i - 1 : a[j] = s[j]
  BY <1>1
<1>3. b \in Seq(S) /\ Len(b) = Len(s) - i + 1
  BY <1>1
<1>4. \A j \in 1..Len(s) - i + 1 : b[j] = s[i + j - 1]
  BY <1>1
<1>5. InsertAt(s, i, e) = a \o <<e>> \o b
  BY DEF InsertAt
<1> HIDE DEF a, b
<1>6. <<e>> \in Seq(S) /\ Len(<<e>>) = 1 /\ <<e>>[1] = e
  OBVIOUS
<1>7. /\ a \o <<e>> \in Seq(S) /\ Len(a \o <<e>>) = i
      /\ \A j \in 1..i - 1 : (a \o <<e>>)[j] = a[j]
      /\ (a \o <<e>>)[i] = e
  BY <1>1, <1>2, <1>6
<1>8. PICK x \in Seq(S) : x = a \o <<e>>
  BY <1>7
<1>9. /\ x \o b \in Seq(S) /\ Len(x \o b) = Len(s) + 1
      /\ \A j \in 1..i : (x \o b)[j] = x[j]
      /\ \A j \in i + 1..Len(s) + 1 : (x \o b)[j] = b[j - i]
  BY <1>1, <1>3, <1>7, <1>8
<1>10. \A j \in i..Len(s) : (x \o b)[j + 1] = s[j]
  <2> TAKE j \in i..Len(s)
  <2>1. j + 1 \in i + 1..Len(s) + 1 /\ (j + 1) - i \in 1..Len(s) - i + 1
        /\ i + ((j + 1) - i) - 1 = j
    BY <1>1
  <2> QED BY <2>1, <1>9, <1>4
<1> QED BY <1>1, <1>2, <1>5, <1>7, <1>8, <1>9, <1>10

\* Removing from a sequence moves what is after the place.
LEMMA RemoveAtIs ==
    ASSUME NEW S, NEW s \in Seq(S), NEW i \in 1..Len(s)
    PROVE  /\ RemoveAt(s, i) \in Seq(S) /\ Len(RemoveAt(s, i)) = Len(s) - 1
           /\ \A j \in 1..i - 1 : RemoveAt(s, i)[j] = s[j]
           /\ \A j \in i..Len(s) - 1 : RemoveAt(s, i)[j] = s[j + 1]
<1> DEFINE a == SubSeq(s, 1, i - 1)
<1> DEFINE b == SubSeq(s, i + 1, Len(s))
<1>1. Len(s) \in Nat /\ i \in Nat
  OBVIOUS
<1>2. a \in Seq(S) /\ Len(a) = i - 1 /\ \A j \in 1..i - 1 : a[j] = s[j]
  BY <1>1
<1>3. b \in Seq(S) /\ Len(b) = Len(s) - i
  BY <1>1
<1>4. \A j \in 1..Len(s) - i : b[j] = s[i + j]
  BY <1>1
<1>5. RemoveAt(s, i) = a \o b
  BY DEF RemoveAt
<1> HIDE DEF a, b
<1>6. /\ a \o b \in Seq(S) /\ Len(a \o b) = Len(s) - 1
      /\ \A j \in 1..i - 1 : (a \o b)[j] = a[j]
      /\ \A j \in i..Len(s) - 1 : (a \o b)[j] = b[j - (i - 1)]
  BY <1>1, <1>2, <1>3
<1>7. \A j \in i..Len(s) - 1 : (a \o b)[j] = s[j + 1]
  <2> TAKE j \in i..Len(s) - 1
  <2>1. j - (i - 1) \in 1..Len(s) - i /\ i + (j - (i - 1)) = j + 1
    BY <1>1
  <2> QED BY <2>1, <1>6, <1>4
<1> QED BY <1>2, <1>5, <1>6, <1>7

\* There is an id to give as long as the notebook is within its bound.
LEMMA FreshIs ==
    ASSUME NEW n \in NotebookRecords, Fits(n)
    PROVE  /\ FreshId(n) \in 1..MaxCells + 1
           /\ \A j \in DOMAIN n.cells : n.cells[j].id # FreshId(n)
<1> DEFINE I == 1..MaxCells + 1
<1> DEFINE D == 1..Len(n.cells)
<1>1. MaxCells \in Nat
  BY NotebookAssumption
<1>2. Len(n.cells) \in Nat /\ Len(n.cells) <= MaxCells /\ DOMAIN n.cells = D
  BY CellsOf DEF Fits
<1>3. IsFiniteSet(I) /\ IsFiniteSet(D) /\ Cardinality(D) < Cardinality(I)
  <2>1. 1 \in Int /\ MaxCells + 1 \in Int /\ Len(n.cells) \in Int
    BY <1>1, <1>2
  <2>2. IsFiniteSet(I) /\ Cardinality(I) = IF 1 > MaxCells + 1 THEN 0 ELSE (MaxCells + 1) - 1 + 1
    BY <2>1, FS_Interval
  <2>3. IsFiniteSet(D) /\ Cardinality(D) = IF 1 > Len(n.cells) THEN 0 ELSE Len(n.cells) - 1 + 1
    BY <2>1, FS_Interval
  <2> HIDE DEF I, D
  <2> QED BY <2>2, <2>3, <1>1, <1>2
<1>4. \E k \in I : \A j \in D : n.cells[j].id # k
  <2> SUFFICES ASSUME \A k \in I : \E j \in D : n.cells[j].id = k PROVE FALSE
    OBVIOUS
  <2> DEFINE f == [k \in I |-> CHOOSE j \in D : n.cells[j].id = k]
  <2>1. f \in [I -> D] /\ \A k \in I : n.cells[f[k]].id = k
    <3> HIDE DEF D, I
    <3>1. \A k \in I : (CHOOSE j \in D : n.cells[j].id = k) \in D
                       /\ n.cells[CHOOSE j \in D : n.cells[j].id = k].id = k
      OBVIOUS
    <3> QED BY <3>1
  <2>2. \E x, y \in I : x # y /\ f[x] = f[y]
    <3> HIDE DEF f, I, D
    <3> QED BY <2>1, <1>3, FS_PigeonHole
  <2> HIDE DEF f, I, D
  <2> QED BY <2>1, <2>2
<1>5. \E k \in I : k \notin {n.cells[j].id : j \in D}
  BY <1>4
<1>6. FreshId(n) = CHOOSE k \in I : k \notin {n.cells[j].id : j \in D}
  BY <1>2 DEF FreshId
<1>7. FreshId(n) \in I /\ FreshId(n) \notin {n.cells[j].id : j \in D}
  <2> HIDE DEF I, D
  <2> QED BY <1>5, <1>6
<1> QED BY <1>2, <1>7

\* set_dirty changes nothing else.
LEMMA DirtyIs ==
    ASSUME NEW n \in NotebookRecords
    PROVE  /\ Dirty(n) \in NotebookRecords /\ Dirty(n).dirty = TRUE
           /\ Dirty(n).cells = n.cells /\ Dirty(n).clip = n.clip /\ Dirty(n).backup = n.backup
           /\ Dirty(n).uindex = n.uindex /\ Dirty(n).below = n.below
           /\ Dirty(n).chord = n.chord /\ Dirty(n).kernel = n.kernel
  BY DEF Dirty, NotebookRecords

\* Between two commands the selected index is the one selected cell's.
LEMMA GoodSelects ==
    ASSUME NEW n \in NotebookRecords, Good(n)
    PROVE  /\ HasCell(n) => Selects(n, SelectedIndex(n)) /\ SelectedIndex(n) \in 1..Len(n.cells)
           /\ ~ HasCell(n) => SelectedIndex(n) = Null
           /\ OneAtMost(n)
<1>1. CASE HasCell(n)
  <2>1. PICK i \in DOMAIN n.cells : Selects(n, i)
    BY <1>1 DEF Good
  <2> QED BY <1>1, <2>1, SelectsIs
<1>2. CASE ~ HasCell(n)
  <2>1. DOMAIN n.cells = {}
    BY <1>2, CellsOf
  <2> QED BY <1>2, <2>1, NoneSelected DEF OneAtMost
<1> QED BY <1>1, <1>2

\* insert_cell_at_index: a blank cell, not seen before, which is selected.
LEMMA InsertCellDoes ==
    ASSUME NEW n \in NotebookRecords, Good(n), Fits(n), NEW type \in Types, NEW index \in Int,
           NEW i, i = Clamp(index, 1, Len(n.cells) + 1), NEW m, m = InsertCell(n, type, index)
    PROVE  /\ Good(m) /\ Selects(m, i) /\ Grows(n, m, i)
           /\ ToJSON(m.cells[i]) = Data(type, <<>>, 1)
<1>c. /\ n.cells \in Seq(CellRecords) /\ Len(n.cells) \in Nat
      /\ DOMAIN n.cells = 1..Len(n.cells)
      /\ \A j \in DOMAIN n.cells : n.cells[j] \in CellRecords
  BY CellsOf
<1>i. i \in 1..Len(n.cells) + 1
  BY <1>c DEF Clamp
<1> DEFINE e == NewCell(n, type)
<1>e. /\ e \in CellRecords /\ e.id = FreshId(n) /\ ~ e.selected
      /\ ToJSON(e) = Data(type, <<>>, 1)
  <2>1. FreshId(n) \in 1..MaxCells + 1 /\ Renders(type) \in BOOLEAN /\ <<>> \in Seq(STRING)
    BY FreshIs DEF Renders
  <2> QED BY <2>1 DEF NewCell, CellRecords, ToJSON, Data
<1>s. /\ InsertAt(n.cells, i, e) \in Seq(CellRecords)
      /\ Len(InsertAt(n.cells, i, e)) = Len(n.cells) + 1
      /\ InsertAt(n.cells, i, e)[i] = e
      /\ \A j \in 1..i - 1 : InsertAt(n.cells, i, e)[j] = n.cells[j]
      /\ \A j \in i..Len(n.cells) : InsertAt(n.cells, i, e)[j + 1] = n.cells[j]
  <2> HIDE DEF e
  <2> QED BY <1>c, <1>i, <1>e, InsertAtIs
<1> DEFINE w == InsertElement(n, e, i)
<1>w. /\ w \in NotebookRecords /\ w.cells = InsertAt(n.cells, i, e)
      /\ w.uindex = (IF n.uindex # NoIndex /\ i <= n.uindex THEN n.uindex + 1 ELSE n.uindex)
      /\ w.below = n.below /\ w.backup = n.backup
  <2> HIDE DEF e
  <2>1. PICK u : u = (IF n.uindex # NoIndex /\ i <= n.uindex THEN n.uindex + 1 ELSE n.uindex)
    OBVIOUS
  <2>2. u \in Nat \cup {NoIndex}
    BY <2>1, <1>i, <1>c DEF NotebookRecords, NoIndex
  <2>3. w = [n EXCEPT !.cells = InsertAt(n.cells, i, e), !.uindex = u]
    BY <2>1 DEF InsertElement
  <2> QED BY <2>1, <2>2, <2>3, <1>s DEF NotebookRecords
<1> HIDE DEF e, w
\* Every place but i holds a cell that stood in n.
<1>p. ASSUME NEW j \in DOMAIN w.cells, j # i
      PROVE  \E k \in DOMAIN n.cells : w.cells[j] = n.cells[k] /\ j = (IF k < i THEN k ELSE k + 1)
  <2>1. j \in 1..Len(n.cells) + 1
    BY <1>w, <1>s
  <2>2. CASE j < i
    <3>1. j \in DOMAIN n.cells /\ j \in 1..i - 1
      BY <2>1, <2>2, <1>i, <1>c
    <3> QED BY <3>1, <2>2, <1>w, <1>s
  <2>3. CASE j > i
    <3>1. j - 1 \in DOMAIN n.cells /\ j - 1 \in i..Len(n.cells) /\ ~ (j - 1 < i) /\ (j - 1) + 1 = j
      BY <2>1, <2>3, <1>i, <1>c
    <3> QED BY <3>1, <1>w, <1>s
  <2> QED BY <2>1, <2>2, <2>3, <1>p, <1>i, <1>c
<1>d. Distinct(w)
  <2> SUFFICES ASSUME NEW j \in DOMAIN w.cells, NEW k \in DOMAIN w.cells,
                      w.cells[j].id = w.cells[k].id
               PROVE  j = k
    BY DEF Distinct
  <2>1. \A x \in DOMAIN n.cells : n.cells[x].id # w.cells[i].id
    BY <1>w, <1>s, <1>e, FreshIs
  <2>2. CASE j # i /\ k # i
    <3>1. PICK x \in DOMAIN n.cells : w.cells[j] = n.cells[x] /\ j = (IF x < i THEN x ELSE x + 1)
      BY <2>2, <1>p
    <3>2. PICK y \in DOMAIN n.cells : w.cells[k] = n.cells[y] /\ k = (IF y < i THEN y ELSE y + 1)
      BY <2>2, <1>p
    <3>3. x = y
      BY <3>1, <3>2 DEF Good, Distinct
    <3> QED BY <3>1, <3>2, <3>3
  <2>3. CASE j = i /\ k # i
    BY <2>1, <2>3, <1>p
  <2>4. CASE k = i /\ j # i
    BY <2>1, <2>4, <1>p
  <2> QED BY <2>2, <2>3, <2>4
<1>o. OneAtMost(w)
  <2> SUFFICES ASSUME NEW j \in DOMAIN w.cells, NEW k \in DOMAIN w.cells,
                      w.cells[j].selected, w.cells[k].selected
               PROVE  j = k
    BY DEF OneAtMost
  <2>0. j # i /\ k # i
    BY <1>w, <1>s, <1>e
  <2>1. PICK x \in DOMAIN n.cells : w.cells[j] = n.cells[x] /\ j = (IF x < i THEN x ELSE x + 1)
    BY <2>0, <1>p
  <2>2. PICK y \in DOMAIN n.cells : w.cells[k] = n.cells[y] /\ k = (IF y < i THEN y ELSE y + 1)
    BY <2>0, <1>p
  <2>3. x = y
    BY <2>1, <2>2, GoodSelects DEF OneAtMost
  <2> QED BY <2>1, <2>2, <2>3
<1> DEFINE x == Select(w, i)
<1>x. /\ x \in NotebookRecords /\ Beside(w, x) /\ Len(x.cells) = Len(w.cells)
      /\ \A j \in DOMAIN w.cells : Alike(x.cells[j], w.cells[j])
      /\ i \in DOMAIN w.cells /\ Selects(x, i)
  <2>1. i \in DOMAIN w.cells /\ i \in Int
    BY <1>w, <1>s, <1>i
  <2> QED BY <2>1, <1>w, <1>o, SelectKeeps
<1> HIDE DEF x
<1>m. m = Dirty(x)
  BY DEF x, w, e, InsertCell
<1>n. /\ m \in NotebookRecords /\ m.dirty = TRUE /\ m.cells = x.cells
      /\ m.backup = x.backup /\ m.uindex = x.uindex /\ m.below = x.below
  BY <1>m, <1>x, DirtyIs
<1>1. Selects(m, i)
  BY <1>n, <1>x DEF Selects
<1>2. DOMAIN m.cells = DOMAIN w.cells /\ Len(m.cells) = Len(n.cells) + 1
      /\ \A j \in DOMAIN w.cells : Alike(m.cells[j], w.cells[j])
  BY <1>n, <1>x, <1>w, <1>s, CellsOf
<1>3. Distinct(m)
  BY <1>d, <1>2 DEF Distinct, Alike
<1>4. Good(m)
  BY <1>1, <1>3, <1>n DEF Good, Selects
<1>5. \A j \in 1..i - 1 : Alike(m.cells[j], n.cells[j])
  <2> TAKE j \in 1..i - 1
  <2>1. j \in DOMAIN w.cells
    BY <1>i, <1>c, <1>w, <1>s
  <2> QED BY <2>1, <1>2, <1>w, <1>s
<1>6. \A j \in i..Len(n.cells) : Alike(m.cells[j + 1], n.cells[j])
  <2> TAKE j \in i..Len(n.cells)
  <2>1. j + 1 \in DOMAIN w.cells
    BY <1>i, <1>c, <1>w, <1>s
  <2> QED BY <2>1, <1>2, <1>w, <1>s
<1>7. Alike(m.cells[i], e)
  BY <1>2, <1>x, <1>w, <1>s
<1>8. \A j \in DOMAIN n.cells : n.cells[j].id # m.cells[i].id
  BY <1>7, <1>e, FreshIs DEF Alike
<1>9. Grows(n, m, i)
  BY <1>i, <1>2, <1>5, <1>6, <1>8, <1>n, <1>x, <1>w DEF Grows, Beside
<1>10. ToJSON(m.cells[i]) = Data(type, <<>>, 1)
  BY <1>7, <1>e DEF Alike, ToJSON
<1> QED BY <1>1, <1>4, <1>9, <1>10
-----------------------------------------------------------------------------
(* Changing a cell's text, and deleting a cell.                             *)

\* Only the text and the level of cell i are not what they were.
Refills(n, m, i) ==
    /\ Len(m.cells) = Len(n.cells) /\ \A j \in DOMAIN n.cells : j # i => m.cells[j] = n.cells[j]
    /\ m.cells[i].id = n.cells[i].id /\ m.cells[i].type = n.cells[i].type
    /\ m.cells[i].shown = n.cells[i].shown /\ m.cells[i].selected = n.cells[i].selected
    /\ m.dirty /\ m.backup = n.backup /\ m.uindex = n.uindex /\ m.below = n.below

\* A cell less, and what undelete remembers.
Shrinks(n, m, i) ==
    /\ i \in DOMAIN n.cells /\ Len(m.cells) = Len(n.cells) - 1
    /\ \A j \in 1..i - 1 : Alike(m.cells[j], n.cells[j])
    /\ \A j \in i..Len(n.cells) - 1 : Alike(m.cells[j], n.cells[j + 1])
    /\ m.dirty /\ m.backup = <<ToJSON(n.cells[SelectedIndex(n)])>>
    /\ m.uindex = (IF i = Len(n.cells) THEN i - 1 ELSE i) /\ m.below = (i = Len(n.cells))

\* Replacing one cell.
LEMMA WriteIs ==
    ASSUME NEW n \in NotebookRecords, NEW i \in DOMAIN n.cells, NEW c \in CellRecords,
           NEW m, m = [n EXCEPT !.cells[i] = c]
    PROVE  /\ m \in NotebookRecords /\ Len(m.cells) = Len(n.cells) /\ m.cells[i] = c
           /\ DOMAIN m.cells = DOMAIN n.cells
           /\ \A j \in DOMAIN n.cells : j # i => m.cells[j] = n.cells[j]
           /\ Beside(n, m)
<1>c. /\ n.cells \in Seq(CellRecords) /\ Len(n.cells) \in Nat
      /\ DOMAIN n.cells = 1..Len(n.cells)
  BY CellsOf
<1> DEFINE cs == [n.cells EXCEPT ![i] = c]
<1>1. /\ cs \in Seq(CellRecords) /\ Len(cs) = Len(n.cells) /\ cs[i] = c
      /\ DOMAIN cs = DOMAIN n.cells
      /\ \A j \in DOMAIN n.cells : j # i => cs[j] = n.cells[j]
  BY <1>c
<1>2. m = [n EXCEPT !.cells = cs]
  OBVIOUS
<1>3. m.cells = cs /\ m \in NotebookRecords /\ Beside(n, m)
  <2> HIDE DEF cs
  <2> QED BY <1>1, <1>2 DEF NotebookRecords, Beside
<1> HIDE DEF cs
<1> QED BY <1>1, <1>3

\* set_text changes one cell's text.
LEMMA SetTextDoes ==
    ASSUME NEW n \in NotebookRecords, NEW i \in DOMAIN n.cells, NEW text \in Seq(STRING),
           NEW m, m = SetText(n, i, text)
    PROVE  /\ m \in NotebookRecords /\ Refills(n, m, i)
           /\ m.cells[i].text = text /\ m.cells[i].level = n.cells[i].level
           /\ m.clip = n.clip /\ m.kernel = n.kernel
<1>1. PICK c \in CellRecords : c = n.cells[i]
  BY CellsOf
<1>2. PICK d : d = [c EXCEPT !.text = text]
  OBVIOUS
<1>3. /\ d \in CellRecords /\ d.id = c.id /\ d.type = c.type /\ d.shown = c.shown
      /\ d.selected = c.selected /\ d.text = text /\ d.level = c.level
  BY <1>2 DEF CellRecords
<1>4. PICK x : x = [n EXCEPT !.cells[i] = d]
  OBVIOUS
<1>5. x = [n EXCEPT !.cells[i].text = text]
  BY <1>1, <1>2, <1>4
<1>6. /\ x \in NotebookRecords /\ Len(x.cells) = Len(n.cells) /\ x.cells[i] = d
      /\ \A j \in DOMAIN n.cells : j # i => x.cells[j] = n.cells[j]
      /\ Beside(n, x)
  BY <1>3, <1>4, WriteIs
<1>7. m = Dirty(x)
  BY <1>5 DEF SetText
<1>8. /\ m \in NotebookRecords /\ m.dirty = TRUE /\ m.cells = x.cells /\ m.clip = x.clip
      /\ m.backup = x.backup /\ m.uindex = x.uindex /\ m.below = x.below /\ m.kernel = x.kernel
  BY <1>6, <1>7, DirtyIs
<1>9. Refills(n, m, i)
  BY <1>1, <1>3, <1>6, <1>8 DEF Refills, Beside
<1> QED BY <1>1, <1>3, <1>6, <1>8, <1>9 DEF Beside

\* fromJSON of the selected cell changes its text and its level.
LEMMA FilledDoes ==
    ASSUME NEW n \in NotebookRecords, NEW i, Selects(n, i), NEW data,
           data.text \in Seq(STRING), data.level \in Nat, NEW m, m = Filled(n, data)
    PROVE  /\ m \in NotebookRecords /\ Refills(n, m, i)
           /\ m.cells[i].text = data.text /\ m.cells[i].level = data.level
<1>0. SelectedIndex(n) = i /\ i \in DOMAIN n.cells
  BY SelectsIs DEF Selects
<1>1. PICK s : s = SetText(n, i, data.text)
  OBVIOUS
<1>2. /\ s \in NotebookRecords /\ Refills(n, s, i) /\ s.cells[i].text = data.text
  BY <1>0, <1>1, SetTextDoes
<1>3. i \in DOMAIN s.cells
  BY <1>0, <1>2, CellsOf DEF Refills
<1>4. PICK c \in CellRecords : c = s.cells[i]
  BY <1>2, <1>3, CellsOf
<1>5. PICK l \in Nat : l = data.level
  OBVIOUS
<1>6. PICK d : d = [c EXCEPT !.level = l]
  OBVIOUS
<1>7. /\ d \in CellRecords /\ d.id = c.id /\ d.type = c.type /\ d.shown = c.shown
      /\ d.selected = c.selected /\ d.text = c.text /\ d.level = l
  BY <1>6 DEF CellRecords
<1>8. m = [s EXCEPT !.cells[i] = d]
  <2>1. m = [s EXCEPT !.cells[i].level = data.level]
    BY <1>0, <1>1 DEF Filled
  <2> QED BY <2>1, <1>4, <1>5, <1>6
<1>9. /\ m \in NotebookRecords /\ Len(m.cells) = Len(s.cells) /\ m.cells[i] = d
      /\ \A j \in DOMAIN s.cells : j # i => m.cells[j] = s.cells[j]
      /\ Beside(s, m)
  BY <1>2, <1>3, <1>7, <1>8, WriteIs
<1>10. DOMAIN s.cells = DOMAIN n.cells
  BY <1>2, CellsOf DEF Refills
<1> QED BY <1>2, <1>4, <1>5, <1>7, <1>9, <1>10 DEF Refills, Beside

\* A cell whose text is changed stays selected, or not.
LEMMA RefillsKeeps ==
    ASSUME NEW n \in NotebookRecords, NEW m \in NotebookRecords, NEW i \in DOMAIN n.cells,
           Refills(n, m, i), Good(n)
    PROVE  Good(m) /\ \A k : Selects(n, k) => Selects(m, k)
<1>1. DOMAIN m.cells = DOMAIN n.cells
  BY CellsOf DEF Refills
<1>2. \A j \in DOMAIN n.cells : m.cells[j].id = n.cells[j].id
                              /\ m.cells[j].selected = n.cells[j].selected
  BY DEF Refills
<1>3. \A k : Selects(n, k) => Selects(m, k)
  BY <1>1, <1>2 DEF Selects
<1>4. Distinct(m)
  BY <1>1, <1>2 DEF Good, Distinct
<1>5. HasCell(m) => HasCell(n)
  BY <1>1, CellsOf
<1> QED BY <1>1, <1>3, <1>4, <1>5 DEF Good

\* fromJSON and set_text on the cell just inserted.
LEMMA InsertFilled ==
    ASSUME NEW n \in NotebookRecords, Good(n), Fits(n), NEW type \in Types, NEW index \in Int,
           NEW i, i = Clamp(index, 1, Len(n.cells) + 1), NEW data,
           data.text \in Seq(STRING), data.level \in Nat,
           NEW m, m = Filled(InsertCell(n, type, index), data)
    PROVE  /\ Good(m) /\ Selects(m, i) /\ Grows(n, m, i)
           /\ ToJSON(m.cells[i]) = Data(type, data.text, data.level)
<1>1. PICK x : x = InsertCell(n, type, index)
  OBVIOUS
<1>2. /\ Good(x) /\ Selects(x, i) /\ Grows(n, x, i)
      /\ ToJSON(x.cells[i]) = Data(type, <<>>, 1)
  BY <1>1, InsertCellDoes
<1>3. x \in NotebookRecords /\ i \in DOMAIN x.cells
  BY <1>2 DEF Good, Selects
<1>4. /\ m \in NotebookRecords /\ Refills(x, m, i)
      /\ m.cells[i].text = data.text /\ m.cells[i].level = data.level
  BY <1>1, <1>2, <1>3, FilledDoes
<1>5. Good(m) /\ Selects(m, i)
  BY <1>2, <1>3, <1>4, RefillsKeeps
<1>6. Grows(n, m, i)
  <2>1. Len(n.cells) \in Nat /\ i \in 1..Len(n.cells) + 1 /\ DOMAIN x.cells = 1..Len(n.cells) + 1
    BY <1>2, <1>3, CellsOf DEF Grows
  <2>2. \A j \in 1..i - 1 : Alike(m.cells[j], n.cells[j])
    <3> TAKE j \in 1..i - 1
    <3>1. j \in DOMAIN x.cells /\ j # i
      BY <2>1
    <3> QED BY <3>1, <1>2, <1>4 DEF Grows, Refills
  <2>3. \A j \in i..Len(n.cells) : Alike(m.cells[j + 1], n.cells[j])
    <3> TAKE j \in i..Len(n.cells)
    <3>1. j + 1 \in DOMAIN x.cells /\ j + 1 # i
      BY <2>1
    <3> QED BY <3>1, <1>2, <1>4 DEF Grows, Refills
  <2> QED BY <2>2, <2>3, <1>2, <1>4 DEF Grows, Refills
<1>7. m.cells[i].type = type
  BY <1>2, <1>4 DEF Refills, ToJSON, Data
<1>8. ToJSON(m.cells[i]) = Data(type, data.text, data.level)
  BY <1>4, <1>7 DEF ToJSON
<1> QED BY <1>5, <1>6, <1>8

\* delete_cell: the cell is gone, and the one in its place is selected.
LEMMA DeleteDoes ==
    ASSUME NEW n \in NotebookRecords, Good(n), NEW i \in DOMAIN n.cells,
           NEW index, IndexOrSelected(n, index) = i, NEW m, m = Delete(n, index)
    PROVE  Good(m) /\ Shrinks(n, m, i) /\ (HasCell(m) => Selects(m, m.uindex))
<1>c. /\ n.cells \in Seq(CellRecords) /\ Len(n.cells) \in Nat
      /\ DOMAIN n.cells = 1..Len(n.cells) /\ HasCell(n)
      /\ \A j \in DOMAIN n.cells : n.cells[j] \in CellRecords
  BY CellsOf
<1>s. SelectedIndex(n) \in DOMAIN n.cells /\ OneAtMost(n)
  BY <1>c, GoodSelects
<1>r. /\ RemoveAt(n.cells, i) \in Seq(CellRecords) /\ Len(RemoveAt(n.cells, i)) = Len(n.cells) - 1
      /\ \A j \in 1..i - 1 : RemoveAt(n.cells, i)[j] = n.cells[j]
      /\ \A j \in i..Len(n.cells) - 1 : RemoveAt(n.cells, i)[j] = n.cells[j + 1]
  BY <1>c, RemoveAtIs
<1> DEFINE last == i = Len(n.cells)
<1>1. PICK u : u = IF last THEN i - 1 ELSE i
  OBVIOUS
<1>2. PICK b : b = <<ToJSON(n.cells[SelectedIndex(n)])>>
  OBVIOUS
<1>3. PICK l \in BOOLEAN : l = last
  OBVIOUS
<1>4. PICK w : w = [n EXCEPT !.backup = b, !.cells = RemoveAt(n.cells, i), !.uindex = u, !.below = l]
  OBVIOUS
<1>5. m = Dirty(Select(w, u))
  <2>1. b = <<ToJSON(Current(n))>>
    BY <1>2 DEF Current
  <2>2. w = [n EXCEPT !.backup = <<ToJSON(Current(n))>>, !.cells = RemoveAt(@, i),
                      !.uindex = IF last THEN i - 1 ELSE i, !.below = last]
    BY <2>1, <1>1, <1>3, <1>4
  <2>3. m = Dirty(Select(w, w.uindex))
    BY <2>2 DEF Delete
  <2>4. w.uindex = u
    BY <1>4 DEF NotebookRecords
  <2> QED BY <2>3, <2>4
<1>6. u \in Nat /\ b \in Seq(DataRecords)
  <2>1. u \in Nat
    BY <1>1, <1>c
  <2>2. n.cells[SelectedIndex(n)] \in CellRecords
    BY <1>c, <1>s
  <2>3. ToJSON(n.cells[SelectedIndex(n)]) \in DataRecords
    BY <2>2 DEF ToJSON, Data, DataRecords, CellRecords
  <2> QED BY <2>1, <2>3, <1>2
<1>w. /\ w \in NotebookRecords /\ w.cells = RemoveAt(n.cells, i) /\ w.backup = b
      /\ w.uindex = u /\ w.below = l
  BY <1>3, <1>4, <1>6, <1>r DEF NotebookRecords
\* Every cell that is left stood in n.
<1>p. ASSUME NEW j \in DOMAIN w.cells
      PROVE  \E k \in DOMAIN n.cells : w.cells[j] = n.cells[k] /\ k = (IF j < i THEN j ELSE j + 1)
  <2>1. j \in 1..Len(n.cells) - 1
    BY <1>w, <1>r
  <2>2. CASE j < i
    <3>1. j \in DOMAIN n.cells /\ j \in 1..i - 1
      BY <2>1, <2>2, <1>c
    <3> QED BY <3>1, <2>2, <1>w, <1>r
  <2>3. CASE ~ (j < i)
    <3>1. j + 1 \in DOMAIN n.cells /\ j \in i..Len(n.cells) - 1
      BY <2>1, <2>3, <1>c
    <3> QED BY <3>1, <2>3, <1>w, <1>r
  <2> QED BY <2>2, <2>3
<1>d. Distinct(w) /\ OneAtMost(w)
  <2>1. ASSUME NEW j \in DOMAIN w.cells, NEW k \in DOMAIN w.cells,
               w.cells[j].id = w.cells[k].id \/ (w.cells[j].selected /\ w.cells[k].selected)
        PROVE  j = k
    <3>1. PICK x \in DOMAIN n.cells : w.cells[j] = n.cells[x] /\ x = (IF j < i THEN j ELSE j + 1)
      BY <1>p
    <3>2. PICK y \in DOMAIN n.cells : w.cells[k] = n.cells[y] /\ y = (IF k < i THEN k ELSE k + 1)
      BY <1>p
    <3>3. x = y
      BY <3>1, <3>2, <2>1, <1>s DEF Good, Distinct, OneAtMost
    <3>4. j \in Nat /\ k \in Nat /\ i \in Nat
      BY <1>w, <1>r, <1>c
    <3> QED BY <3>1, <3>2, <3>3, <3>4
  <2> QED BY <2>1 DEF Distinct, OneAtMost
<1>7. PICK x : x = Select(w, u)
  OBVIOUS
<1>x. /\ x \in NotebookRecords /\ Beside(w, x) /\ Len(x.cells) = Len(w.cells)
      /\ \A j \in DOMAIN w.cells : Alike(x.cells[j], w.cells[j])
      /\ u \in DOMAIN w.cells => Selects(x, u)
  BY <1>6, <1>7, <1>w, <1>d, SelectKeeps
<1>n. /\ m \in NotebookRecords /\ m.dirty = TRUE /\ m.cells = x.cells
      /\ m.backup = b /\ m.uindex = u /\ m.below = l
  <2>1. m = Dirty(x)
    BY <1>5, <1>7
  <2>2. /\ m \in NotebookRecords /\ m.dirty = TRUE /\ m.cells = x.cells
        /\ m.backup = x.backup /\ m.uindex = x.uindex /\ m.below = x.below
    BY <2>1, <1>x, DirtyIs
  <2> QED BY <2>2, <1>x, <1>w DEF Beside
<1>8. DOMAIN m.cells = 1..Len(n.cells) - 1 /\ Len(m.cells) = Len(n.cells) - 1
      /\ DOMAIN w.cells = 1..Len(n.cells) - 1
  BY <1>n, <1>x, <1>w, <1>r, <1>c, CellsOf
<1>9. HasCell(m) => Selects(m, u)
  <2> SUFFICES ASSUME HasCell(m) PROVE Selects(m, u)
    OBVIOUS
  <2>1. Len(n.cells) - 1 > 0
    BY <1>n, <1>8, <1>c, CellsOf
  <2>2. u \in DOMAIN w.cells
    BY <2>1, <1>1, <1>8, <1>c
  <2> QED BY <2>2, <1>x, <1>n DEF Selects
<1>10. Distinct(m)
  BY <1>d, <1>x, <1>n, <1>8 DEF Distinct, Alike
<1>11. Good(m)
  BY <1>9, <1>10, <1>n DEF Good, Selects
<1>12. Shrinks(n, m, i)
  <2>1. \A j \in 1..i - 1 : Alike(m.cells[j], n.cells[j])
    <3> TAKE j \in 1..i - 1
    <3>1. j \in DOMAIN w.cells
      BY <1>8, <1>c
    <3> QED BY <3>1, <1>x, <1>n, <1>w, <1>r
  <2>2. \A j \in i..Len(n.cells) - 1 : Alike(m.cells[j], n.cells[j + 1])
    <3> TAKE j \in i..Len(n.cells) - 1
    <3>1. j \in DOMAIN w.cells
      BY <1>8, <1>c
    <3> QED BY <3>1, <1>x, <1>n, <1>w, <1>r
  <2> QED BY <2>1, <2>2, <1>1, <1>2, <1>3, <1>8, <1>n DEF Shrinks
<1> QED BY <1>9, <1>11, <1>12, <1>n
-----------------------------------------------------------------------------
(* What the commands have in common.                                        *)

\* m is n but for what is selected, rendered, copied or marked.
Mirrors(n, m) == /\ Len(m.cells) = Len(n.cells)
                 /\ \A j \in DOMAIN n.cells : Alike(m.cells[j], n.cells[j])
                 /\ m.uindex = n.uindex /\ m.backup = n.backup /\ m.below = n.below

\* The cells are not the ones that were there, or not where they were.
Relaid(n, m) == \/ Len(m.cells) # Len(n.cells)
                \/ \E j \in DOMAIN n.cells : m.cells[j].id # n.cells[j].id

\* The cells have the same types and texts, in the same order.
SameText(n, m) == /\ Len(m.cells) = Len(n.cells)
                  /\ \A j \in DOMAIN n.cells : /\ m.cells[j].type = n.cells[j].type
                                               /\ m.cells[j].text = n.cells[j].text

\* The cells are visible or hidden as they were.
SameShow(n, m) == /\ Len(m.cells) = Len(n.cells)
                  /\ \A j \in DOMAIN n.cells : m.cells[j].shown = n.cells[j].shown

\* A command marks the notebook or leaves its text, and leaves what the slideshow
\* shows unless cells come, go or move.
Follows(n, m) == /\ Good(m)
                 /\ m.dirty \/ (m.dirty = n.dirty /\ SameText(n, m))
                 /\ Relaid(n, m) \/ SameShow(n, m)
\* What undelete remembers is still where it was.
Links(n, m) == \A g \in GoneRecords : Linked(n, g) => Linked(m, g)

\* Doing nothing is a command.
LEMMA FollowsSelf == ASSUME NEW n, Good(n) PROVE Follows(n, n) /\ Links(n, n) /\ Mirrors(n, n)
  BY DEF Follows, SameText, SameShow, Links, Mirrors, Alike

\* What is not in the cells and not for undelete may change freely.
LEMMA SameCells ==
    ASSUME NEW n \in NotebookRecords, NEW m \in NotebookRecords, Good(n), m.cells = n.cells,
           m.uindex = n.uindex, m.backup = n.backup, m.below = n.below
    PROVE  /\ Good(m) /\ Mirrors(n, m) /\ \A k : Selects(n, k) => Selects(m, k)
           /\ SelectedIndex(m) = SelectedIndex(n)
  BY DEF Good, Distinct, HasCell, Selects, Mirrors, Alike, SelectedIndex

\* set_dirty as a command.
LEMMA DirtyDoes ==
    ASSUME NEW n \in NotebookRecords, Good(n), NEW m, m = Dirty(n)
    PROVE  /\ m \in NotebookRecords /\ Good(m) /\ Mirrors(n, m) /\ m.dirty
           /\ \A k : Selects(n, k) => Selects(m, k)
<1>1. /\ m \in NotebookRecords /\ m.dirty = TRUE /\ m.cells = n.cells
      /\ m.backup = n.backup /\ m.uindex = n.uindex /\ m.below = n.below
  BY DirtyIs
<1> QED BY <1>1, SameCells

\* select as a command: only the selection, the rendering and the toolbar change.
LEMMA SelectDoes ==
    ASSUME NEW n \in NotebookRecords, Good(n), NEW i \in Int, NEW m, m = Select(n, i)
    PROVE  /\ m \in NotebookRecords /\ Good(m) /\ Mirrors(n, m) /\ m.dirty = n.dirty
           /\ i \in DOMAIN n.cells => Selects(m, i)
           /\ i \notin DOMAIN n.cells => m = n
<1>1. /\ m \in NotebookRecords /\ Beside(n, m) /\ Len(m.cells) = Len(n.cells)
      /\ \A j \in DOMAIN n.cells : Alike(m.cells[j], n.cells[j])
      /\ i \in DOMAIN n.cells => Selects(m, i)
      /\ i \notin DOMAIN n.cells => m = n
  BY GoodSelects, SelectKeeps
<1>2. Mirrors(n, m)
  BY <1>1 DEF Mirrors, Beside
<1>3. CASE i \in DOMAIN n.cells
  <2>1. DOMAIN m.cells = DOMAIN n.cells
    BY <1>1, CellsOf
  <2>2. Distinct(m)
    BY <2>1, <1>1 DEF Good, Distinct, Alike
  <2>3. Good(m)
    BY <2>2, <1>1, <1>3 DEF Good, Selects
  <2> QED BY <2>3, <1>1, <1>2 DEF Beside
<1>4. CASE i \notin DOMAIN n.cells
  BY <1>1, <1>2, <1>4
<1> QED BY <1>3, <1>4

\* Two such changes are one.
LEMMA MirrorsTrans ==
    ASSUME NEW n \in NotebookRecords, NEW x \in NotebookRecords, NEW m,
           Mirrors(n, x), Mirrors(x, m)
    PROVE  Mirrors(n, m)
<1>1. DOMAIN x.cells = DOMAIN n.cells
  BY CellsOf DEF Mirrors
<1> QED BY <1>1 DEF Mirrors, Alike

\* Such a change may follow any command.
LEMMA MirrorsFollow ==
    ASSUME NEW b \in NotebookRecords, NEW n \in NotebookRecords, NEW m \in NotebookRecords,
           Follows(b, n), Good(m), Mirrors(n, m), m.dirty \/ m.dirty = n.dirty
    PROVE  Follows(b, m)
<1>0. /\ Len(b.cells) \in Nat /\ Len(n.cells) \in Nat
      /\ DOMAIN b.cells = 1..Len(b.cells) /\ DOMAIN n.cells = 1..Len(n.cells)
      /\ Len(m.cells) = Len(n.cells)
  BY CellsOf DEF Mirrors
<1>1. m.dirty \/ (m.dirty = b.dirty /\ SameText(b, m))
  <2>1. CASE m.dirty
    BY <2>1
  <2>2. CASE m.dirty = n.dirty /\ ~ m.dirty
    <3>1. n.dirty = b.dirty /\ SameText(b, n)
      BY <2>2 DEF Follows
    <3>2. DOMAIN b.cells = DOMAIN n.cells
      BY <3>1, <1>0 DEF SameText
    <3>3. SameText(b, m)
      BY <3>1, <3>2 DEF SameText, Mirrors, Alike
    <3> QED BY <3>1, <3>3, <2>2
  <2> QED BY <2>1, <2>2
<1>2. Relaid(b, m) \/ SameShow(b, m)
  <2>1. CASE Len(n.cells) # Len(b.cells)
    BY <2>1, <1>0 DEF Relaid
  <2>2. CASE Len(n.cells) = Len(b.cells)
    <3>1. DOMAIN b.cells = DOMAIN n.cells
      BY <2>2, <1>0
    <3>2. CASE SameShow(b, n)
      BY <3>1, <3>2 DEF SameShow, Mirrors, Alike
    <3>3. CASE Relaid(b, n)
      BY <3>1, <3>3, <2>2 DEF Relaid, Mirrors, Alike
    <3> QED BY <3>2, <3>3 DEF Follows
  <2> QED BY <2>1, <2>2
<1> QED BY <1>1, <1>2 DEF Follows

\* Such a change leaves the place for undelete where it was.
LEMMA MirrorsLink ==
    ASSUME NEW n \in NotebookRecords, NEW m \in NotebookRecords, Mirrors(n, m)
    PROVE  Links(n, m)
<1>1. DOMAIN m.cells = DOMAIN n.cells
  BY CellsOf DEF Mirrors
<1> QED BY <1>1 DEF Links, Linked, Mirrors, Alike

\* The place for undelete, over two commands.
LEMMA LinksTrans ==
    ASSUME NEW n, NEW x, NEW m, Links(n, x), Links(x, m) PROVE Links(n, m)
  BY DEF Links

\* Inserting moves the place for undelete with its cell.
LEMMA GrowsDoes ==
    ASSUME NEW n \in NotebookRecords, NEW m, NEW i, Good(m), Grows(n, m, i)
    PROVE  Follows(n, m) /\ Links(n, m) /\ m.dirty /\ Len(m.cells) # Len(n.cells)
<1>0. /\ Len(n.cells) \in Nat /\ DOMAIN n.cells = 1..Len(n.cells) /\ i \in Nat
      /\ DOMAIN m.cells = 1..Len(n.cells) + 1 /\ Len(m.cells) # Len(n.cells)
  BY CellsOf DEF Grows, Good
<1>1. Follows(n, m)
  BY <1>0 DEF Follows, Relaid, Grows
<1>2. ASSUME NEW g \in GoneRecords, Linked(n, g) PROVE Linked(m, g)
  <2>u. n.uindex # NoIndex /\ m.backup = n.backup /\ m.below = n.below
    BY <1>2 DEF Linked, Grows
  <2>1. n.uindex \in Nat
    BY <2>u DEF NotebookRecords, NoIndex
  <2>2. m.uindex = (IF i <= n.uindex THEN n.uindex + 1 ELSE n.uindex) /\ m.uindex # NoIndex
    BY <2>1, <2>u DEF Grows, NoIndex
  <2>3. n.uindex \in DOMAIN n.cells => /\ m.uindex \in DOMAIN m.cells
                                       /\ m.cells[m.uindex].id = n.cells[n.uindex].id
    <3> SUFFICES ASSUME n.uindex \in DOMAIN n.cells
                 PROVE  /\ m.uindex \in DOMAIN m.cells
                        /\ m.cells[m.uindex].id = n.cells[n.uindex].id
      OBVIOUS
    <3>1. CASE i <= n.uindex
      <4>1. n.uindex \in i..Len(n.cells) /\ n.uindex + 1 \in DOMAIN m.cells
        BY <1>0, <2>1, <3>1
      <4>2. Alike(m.cells[n.uindex + 1], n.cells[n.uindex])
        BY <4>1 DEF Grows
      <4> QED BY <3>1, <4>1, <4>2, <2>2 DEF Alike
    <3>2. CASE ~ (i <= n.uindex)
      <4>1. n.uindex \in 1..i - 1 /\ n.uindex \in DOMAIN m.cells
        BY <1>0, <2>1, <3>2
      <4>2. Alike(m.cells[n.uindex], n.cells[n.uindex])
        BY <4>1 DEF Grows
      <4> QED BY <3>2, <4>1, <4>2, <2>2 DEF Alike
    <3> QED BY <3>1, <3>2
  <2> QED BY <1>2, <2>u, <2>2, <2>3 DEF Linked
<1> QED BY <1>0, <1>1, <1>2 DEF Links, Grows

\* Deleting as a command.
LEMMA ShrinksDoes ==
    ASSUME NEW n \in NotebookRecords, NEW m, NEW i, Good(m), Shrinks(n, m, i)
    PROVE  Follows(n, m) /\ m.dirty /\ Len(m.cells) # Len(n.cells)
<1>0. Len(n.cells) \in Nat /\ Len(m.cells) # Len(n.cells)
  BY CellsOf DEF Shrinks
<1> QED BY <1>0 DEF Follows, Relaid, Shrinks

\* Changing a text as a command.
LEMMA RefillsDoes ==
    ASSUME NEW n \in NotebookRecords, NEW m \in NotebookRecords, NEW i \in DOMAIN n.cells,
           Good(n), Refills(n, m, i)
    PROVE  Follows(n, m) /\ Links(n, m) /\ m.dirty
<1>1. Good(m) /\ DOMAIN m.cells = DOMAIN n.cells
  BY RefillsKeeps, CellsOf DEF Refills
<1>2. \A j \in DOMAIN n.cells : m.cells[j].id = n.cells[j].id /\ m.cells[j].shown = n.cells[j].shown
  BY DEF Refills
<1>3. Follows(n, m)
  BY <1>1, <1>2 DEF Follows, SameShow, Refills
<1>4. Links(n, m)
  BY <1>1, <1>2 DEF Links, Linked, Refills
<1> QED BY <1>3, <1>4 DEF Refills
-----------------------------------------------------------------------------
(* The lines of text of a notebook.                                         *)

\* The line at a place; every line of n has a place of its own in m.
At(n, p) == n.cells[p[1]].text[p[2]]
Within(n, m) ==
    \E f \in [Places(n) -> Places(m)] :
        /\ \A p \in Places(n) : At(m, f[p]) = At(n, p)
        /\ \A p, q \in Places(n) : f[p] = f[q] => p = q

SameLines(n, m) == Within(n, m) /\ Within(m, n)

\* A place is a cell's number and a line's, and there are finitely many.
LEMMA PlacesAre ==
    ASSUME NEW n \in NotebookRecords
    PROVE  /\ Places(n) = {p \in Nat \X Nat : p[1] \in DOMAIN n.cells /\ p[2] \in DOMAIN n.cells[p[1]].text}
           /\ \A i \in DOMAIN n.cells : /\ n.cells[i].text \in Seq(STRING)
                                        /\ Len(n.cells[i].text) \in Nat
                                        /\ DOMAIN n.cells[i].text = 1..Len(n.cells[i].text)
           /\ IsFiniteSet(Places(n))
<1>c. Len(n.cells) \in Nat /\ DOMAIN n.cells = 1..Len(n.cells)
  BY CellsOf
<1>1. ASSUME NEW i \in DOMAIN n.cells
      PROVE  /\ n.cells[i].text \in Seq(STRING) /\ Len(n.cells[i].text) \in Nat
             /\ DOMAIN n.cells[i].text = 1..Len(n.cells[i].text)
  <2>1. n.cells[i] \in CellRecords
    BY CellsOf
  <2> QED BY <2>1 DEF CellRecords
<1>2. ASSUME NEW p
      PROVE  p \in Places(n) <=> p \in Nat \X Nat /\ p[1] \in DOMAIN n.cells /\ p[2] \in DOMAIN n.cells[p[1]].text
  <2>1. p \in Places(n) <=> \E i \in DOMAIN n.cells : p \in {i} \X DOMAIN n.cells[i].text
    BY DEF Places
  <2> QED BY <2>1, <1>c, <1>1
<1>3. IsFiniteSet(Places(n))
  <2> DEFINE D == DOMAIN n.cells
  <2> DEFINE LinesOf(i) == {i} \X DOMAIN n.cells[i].text
  <2> DEFINE g == [i \in D |-> LinesOf(i)]
  <2> DEFINE G == {LinesOf(i) : i \in D}
  <2>1. IsFiniteSet(D)
    BY <1>c, FS_Interval
  <2>2. ASSUME NEW i \in D PROVE IsFiniteSet(LinesOf(i))
    <3>1. IsFiniteSet({i})
      BY FS_Singleton
    <3>2. DOMAIN n.cells[i].text = 1..Len(n.cells[i].text) /\ Len(n.cells[i].text) \in Int
      BY <1>1
    <3>3. IsFiniteSet(1..Len(n.cells[i].text))
      BY <3>2, FS_Interval
    <3> QED BY <3>1, <3>2, <3>3, FS_Product
  <2>3. IsFiniteSet(G)
    <3>1. g \in Surjection(D, G)
      <4> HIDE DEF LinesOf
      <4> QED BY DEF Surjection
    <3> QED BY <2>1, <3>1, FS_Surjection
  <2>4. \A T \in G : IsFiniteSet(T)
    <3> HIDE DEF LinesOf
    <3> QED BY <2>2
  <2>5. Places(n) = UNION G
    BY DEF Places
  <2> HIDE DEF G
  <2> QED BY <2>3, <2>4, <2>5, FS_UNION
<1> QED BY <1>1, <1>2, <1>3

\* How often a line occurs is a number.
LEMMA CountIs ==
    ASSUME NEW n \in NotebookRecords, NEW l PROVE Count(n, l) \in Nat
<1> DEFINE S == {p \in Places(n) : n.cells[p[1]].text[p[2]] = l}
<1>1. S \in SUBSET Places(n) /\ IsFiniteSet(Places(n))
  BY PlacesAre
<1>2. Cardinality(S) \in Nat
  <2> HIDE DEF S
  <2> QED BY <1>1, FS_Subset, FS_CardinalityType
<1> QED BY <1>2 DEF Count

\* No line occurs less often.
LEMMA WithinCounts ==
    ASSUME NEW n \in NotebookRecords, NEW m \in NotebookRecords, Within(n, m), NEW l
    PROVE  Count(n, l) <= Count(m, l)
<1> DEFINE S == {p \in Places(n) : At(n, p) = l}
<1> DEFINE T == {p \in Places(m) : At(m, p) = l}
<1>1. PICK f \in [Places(n) -> Places(m)] :
        /\ \A p \in Places(n) : At(m, f[p]) = At(n, p)
        /\ \A p, q \in Places(n) : f[p] = f[q] => p = q
  BY DEF Within
<1> DEFINE g == [p \in S |-> f[p]]
<1>2. g \in Injection(S, T)
  BY <1>1 DEF Injection, IsInjective
<1>3. IsFiniteSet(T)
  <2>1. T \in SUBSET Places(m) /\ IsFiniteSet(Places(m))
    BY PlacesAre
  <2> HIDE DEF T
  <2> QED BY <2>1, FS_Subset
<1>4. Cardinality(S) <= Cardinality(T)
  <2> HIDE DEF S, T, g
  <2> QED BY <1>2, <1>3, FS_Injection
<1> QED BY <1>4 DEF Count, At

\* Over two changes.
LEMMA WithinTrans ==
    ASSUME NEW n, NEW x, NEW m, Within(n, x), Within(x, m) PROVE Within(n, m)
<1>1. PICK f \in [Places(n) -> Places(x)] :
        /\ \A p \in Places(n) : At(x, f[p]) = At(n, p)
        /\ \A p, q \in Places(n) : f[p] = f[q] => p = q
  BY DEF Within
<1>2. PICK g \in [Places(x) -> Places(m)] :
        /\ \A p \in Places(x) : At(m, g[p]) = At(x, p)
        /\ \A p, q \in Places(x) : g[p] = g[q] => p = q
  BY DEF Within
<1> DEFINE h == [p \in Places(n) |-> g[f[p]]]
<1>3. h \in [Places(n) -> Places(m)]
  BY <1>1, <1>2
<1>4. \A p \in Places(n) : h[p] = g[f[p]] /\ f[p] \in Places(x)
  BY <1>1
<1> HIDE DEF h
<1>5. \A p \in Places(n) : At(m, h[p]) = At(n, p)
  BY <1>1, <1>2, <1>4
<1>6. \A p, q \in Places(n) : h[p] = h[q] => p = q
  BY <1>1, <1>2, <1>4
<1> QED BY <1>3, <1>5, <1>6 DEF Within

\* Cells that hold text stand in the other notebook with the same text.
LEMMA CellsStay ==
    ASSUME NEW n \in NotebookRecords, NEW m \in NotebookRecords, NEW h \in [DOMAIN n.cells -> Int],
           \A i \in DOMAIN n.cells : n.cells[i].text # <<>> =>
              h[i] \in DOMAIN m.cells /\ m.cells[h[i]].text = n.cells[i].text,
           \A i, j \in DOMAIN n.cells :
              n.cells[i].text # <<>> /\ n.cells[j].text # <<>> /\ h[i] = h[j] => i = j
    PROVE  Within(n, m)
<1> DEFINE f == [p \in Places(n) |-> <<h[p[1]], p[2]>>]
<1>1. \A p \in Places(n) : /\ p \in Nat \X Nat /\ p[1] \in DOMAIN n.cells
                           /\ p[2] \in DOMAIN n.cells[p[1]].text
                           /\ n.cells[p[1]].text # <<>>
  BY PlacesAre
<1>2. ASSUME NEW p \in Places(n)
      PROVE  f[p] \in Places(m) /\ At(m, f[p]) = At(n, p)
  <2>1. h[p[1]] \in DOMAIN m.cells /\ m.cells[h[p[1]]].text = n.cells[p[1]].text
    BY <1>1
  <2>2. h[p[1]] \in Nat
    BY <2>1, CellsOf
  <2>3. f[p] = <<h[p[1]], p[2]>>
    OBVIOUS
  <2> QED BY <1>1, <2>1, <2>2, <2>3, PlacesAre DEF At
<1>3. f \in [Places(n) -> Places(m)]
  BY <1>2
<1>4. \A p, q \in Places(n) : f[p] = f[q] => p = q
  <2> SUFFICES ASSUME NEW p \in Places(n), NEW q \in Places(n), f[p] = f[q] PROVE p = q
    OBVIOUS
  <2>1. h[p[1]] = h[q[1]] /\ p[2] = q[2]
    OBVIOUS
  <2>2. p[1] = q[1]
    BY <1>1, <2>1
  <2> QED BY <1>1, <2>1, <2>2
<1> HIDE DEF f
<1> QED BY <1>2, <1>3, <1>4 DEF Within

\* m is n with cell i in two parts.
TwoParts(n, m, i) ==
    /\ i \in DOMAIN n.cells /\ Len(m.cells) = Len(n.cells) + 1
    /\ n.cells[i].text = m.cells[i].text \o m.cells[i + 1].text
    /\ \A j \in 1..i - 1 : m.cells[j].text = n.cells[j].text
    /\ \A j \in i + 1..Len(n.cells) : m.cells[j + 1].text = n.cells[j].text

\* Two texts one after the other.
LEMMA Joined ==
    ASSUME NEW S, NEW a \in Seq(S), NEW b \in Seq(S)
    PROVE  /\ Len(a) \in Nat /\ Len(b) \in Nat /\ DOMAIN a = 1..Len(a) /\ DOMAIN b = 1..Len(b)
           /\ DOMAIN (a \o b) = 1..Len(a) + Len(b)
           /\ \A k \in 1..Len(a) : (a \o b)[k] = a[k]
           /\ \A k \in 1..Len(b) : (a \o b)[k + Len(a)] = b[k]
  OBVIOUS

\* A text cut in two.
LEMMA CutText ==
    ASSUME NEW S, NEW a \in Seq(S), NEW k \in 0..Len(a)
    PROVE  a = SubSeq(a, 1, k) \o SubSeq(a, k + 1, Len(a))
<1>0. Len(a) \in Nat /\ k \in Nat /\ k <= Len(a)
  OBVIOUS
<1>1. PICK b \in Seq(S), c \in Seq(S) : b = SubSeq(a, 1, k) /\ c = SubSeq(a, k + 1, Len(a))
  <2>1. SubSeq(a, 1, k) \in Seq(S)
    BY <1>0
  <2>2. SubSeq(a, k + 1, Len(a)) \in Seq(S)
    BY <1>0
  <2> QED BY <2>1, <2>2
<1>2. /\ Len(b) = k /\ Len(c) = Len(a) - k
      /\ \A j \in 1..k : b[j] = a[j]
      /\ \A j \in 1..Len(a) - k : c[j] = a[j + k]
  BY <1>1
<1>3. DOMAIN (b \o c) = DOMAIN a /\ b \o c \in Seq(S) /\ Len(b \o c) = Len(a)
  <2>1. DOMAIN (b \o c) = 1..Len(b) + Len(c) /\ b \o c \in Seq(S)
    BY Joined
  <2> QED BY <2>1, <1>2
<1>4. ASSUME NEW j \in DOMAIN a PROVE (b \o c)[j] = a[j]
  <2>1. CASE j <= k
    <3>1. j \in 1..k
      BY <2>1
    <3> QED BY <3>1, <1>2, Joined
  <2>2. CASE ~ (j <= k)
    <3>1. j - k \in 1..Len(c) /\ j - k + Len(b) = j /\ j - k \in 1..Len(a) - k /\ j - k + k = j
      BY <2>2, <1>2
    <3>2. (b \o c)[j - k + Len(b)] = c[j - k]
      BY <3>1, Joined
    <3> QED BY <3>1, <3>2, <1>2
  <2> QED BY <2>1, <2>2
<1>5. b \o c = a
  <2>1. PICK d \in Seq(S) : d = b \o c
    BY <1>3
  <2>2. DOMAIN d = DOMAIN a /\ Len(d) = Len(a) /\ \A j \in DOMAIN a : d[j] = a[j]
    BY <2>1, <1>3, <1>4
  <2>3. d = a
    BY <2>2
  <2> QED BY <2>1, <2>3
<1> QED BY <1>1, <1>5

\* No line is lost or repeated by taking a cell apart, or by the reverse.
LEMMA PartsWithin ==
    ASSUME NEW n \in NotebookRecords, NEW m \in NotebookRecords, NEW i, TwoParts(n, m, i)
    PROVE  Within(n, m) /\ Within(m, n)
<1>c. /\ Len(n.cells) \in Nat /\ DOMAIN n.cells = 1..Len(n.cells)
      /\ DOMAIN m.cells = 1..Len(n.cells) + 1
      /\ i \in 1..Len(n.cells)
  BY CellsOf DEF TwoParts
<1>t. PICK a \in Seq(STRING), b \in Seq(STRING) :
         a = m.cells[i].text /\ b = m.cells[i + 1].text
  <2>1. i \in DOMAIN m.cells /\ i + 1 \in DOMAIN m.cells
    BY <1>c
  <2> QED BY <2>1, PlacesAre
<1>s. /\ Len(a) \in Nat /\ Len(b) \in Nat /\ DOMAIN a = 1..Len(a) /\ DOMAIN b = 1..Len(b)
      /\ n.cells[i].text = a \o b /\ DOMAIN (a \o b) = 1..Len(a) + Len(b)
      /\ \A k \in 1..Len(a) : (a \o b)[k] = a[k]
      /\ \A k \in 1..Len(b) : (a \o b)[k + Len(a)] = b[k]
  <2>1. n.cells[i].text = a \o b
    BY <1>t DEF TwoParts
  <2> QED BY <2>1, Joined
<1>a. \A k, x, y : At(k, <<x, y>>) = k.cells[x].text[y]
  BY DEF At
<1>n. \A p : p \in Places(n) <=> p \in Nat \X Nat /\ p[1] \in 1..Len(n.cells) /\ p[2] \in DOMAIN n.cells[p[1]].text
  BY <1>c, PlacesAre
<1>m. \A p : p \in Places(m) <=> p \in Nat \X Nat /\ p[1] \in 1..Len(n.cells) + 1 /\ p[2] \in DOMAIN m.cells[p[1]].text
  BY <1>c, PlacesAre
<1>p. /\ \A j \in 1..i - 1 : m.cells[j].text = n.cells[j].text
      /\ \A j \in i + 1..Len(n.cells) : m.cells[j + 1].text = n.cells[j].text
  BY DEF TwoParts
<1> DEFINE down(p) == IF p[1] < i THEN p
                      ELSE IF p[1] > i THEN <<p[1] + 1, p[2]>>
                      ELSE IF p[2] <= Len(a) THEN p ELSE <<i + 1, p[2] - Len(a)>>
<1> DEFINE up(p) == IF p[1] <= i THEN p
                    ELSE IF p[1] = i + 1 THEN <<i, p[2] + Len(a)>> ELSE <<p[1] - 1, p[2]>>
<1>1. ASSUME NEW p \in Places(n)
      PROVE  down(p) \in Places(m) /\ At(m, down(p)) = At(n, p) /\ up(down(p)) = p
  <2>0. PICK x \in Nat, y \in Nat : p = <<x, y>> /\ x \in 1..Len(n.cells) /\ y \in DOMAIN n.cells[x].text
    BY <1>n
  <2>1. CASE x < i
    <3>1. down(p) = p /\ up(p) = p
      BY <2>0, <2>1, <1>c
    <3>2. x \in 1..i - 1
      BY <2>0, <2>1, <1>c
    <3>3. m.cells[x].text = n.cells[x].text /\ x \in 1..Len(n.cells) + 1
      BY <3>2, <1>p, <1>c
    <3>4. p \in Places(m)
      BY <2>0, <3>3, <1>m
    <3>5. At(m, p) = m.cells[x].text[y] /\ At(n, p) = n.cells[x].text[y]
      BY <2>0, <1>a
    <3> HIDE DEF up, down
    <3> QED BY <3>1, <3>3, <3>4, <3>5
  <2>2. CASE x > i
    <3>1. down(p) = <<x + 1, y>>
      BY <2>0, <2>2, <1>c
    <3>2. up(<<x + 1, y>>) = p
      BY <2>0, <2>2, <1>c
    <3>3. x \in i + 1..Len(n.cells)
      BY <2>0, <2>2, <1>c
    <3>4. m.cells[x + 1].text = n.cells[x].text /\ x + 1 \in 1..Len(n.cells) + 1 /\ x + 1 \in Nat
      BY <3>3, <1>p, <1>c
    <3>5. <<x + 1, y>> \in Places(m)
      BY <2>0, <3>4, <1>m
    <3>6. At(m, <<x + 1, y>>) = m.cells[x + 1].text[y] /\ At(n, p) = n.cells[x].text[y]
      BY <2>0, <1>a
    <3> QED BY <3>1, <3>2, <3>4, <3>5, <3>6
  <2>3. CASE x = i /\ y <= Len(a)
    <3>1. down(p) = p /\ up(p) = p
      BY <2>0, <2>3, <1>c
    <3>2. y \in DOMAIN a /\ x \in 1..Len(n.cells) + 1
      BY <2>0, <2>3, <1>s, <1>c
    <3> QED BY <2>0, <2>3, <3>1, <3>2, <1>s, <1>t, <1>m DEF At
  <2>4. CASE x = i /\ ~ (y <= Len(a))
    <3>1. down(p) = <<i + 1, y - Len(a)>>
      BY <2>0, <2>4, <1>c
    <3>2. up(<<i + 1, y - Len(a)>>) = p
      BY <2>0, <2>4, <1>c, <1>s
    <3>3. y - Len(a) \in DOMAIN b /\ y - Len(a) \in Nat /\ i + 1 \in 1..Len(n.cells) + 1 /\ i + 1 \in Nat
      BY <2>0, <2>4, <1>s, <1>c
    <3>4. <<i + 1, y - Len(a)>> \in Places(m)
      BY <3>3, <1>m, <1>t
    <3>5. (a \o b)[y - Len(a) + Len(a)] = b[y - Len(a)] /\ y - Len(a) + Len(a) = y
      BY <3>3, <1>s, <2>0
    <3>6. At(m, <<i + 1, y - Len(a)>>) = b[y - Len(a)] /\ At(n, p) = (a \o b)[y]
      BY <1>t, <1>s, <2>0, <2>4 DEF At
    <3> QED BY <3>1, <3>2, <3>4, <3>5, <3>6
  <2> QED BY <2>1, <2>2, <2>3, <2>4, <1>c
<1>2. ASSUME NEW p \in Places(m)
      PROVE  up(p) \in Places(n) /\ At(n, up(p)) = At(m, p) /\ down(up(p)) = p
  <2>0. PICK x \in Nat, y \in Nat : p = <<x, y>> /\ x \in 1..Len(n.cells) + 1 /\ y \in DOMAIN m.cells[x].text
    BY <1>m
  <2>1. CASE x < i
    <3>1. up(p) = p /\ down(p) = p
      BY <2>0, <2>1, <1>c
    <3>2. x \in 1..i - 1
      BY <2>0, <2>1, <1>c
    <3>3. m.cells[x].text = n.cells[x].text /\ x \in 1..Len(n.cells)
      BY <3>2, <1>p, <1>c
    <3>4. p \in Places(n)
      BY <2>0, <3>3, <1>n
    <3> QED BY <2>0, <3>1, <3>3, <3>4, <1>a
  <2>2. CASE x > i + 1
    <3>1. up(p) = <<x - 1, y>> /\ x - 1 \in Nat
      BY <2>0, <2>2, <1>c
    <3>2. down(<<x - 1, y>>) = p
      BY <2>0, <2>2, <1>c
    <3>3. x - 1 \in i + 1..Len(n.cells) /\ x - 1 + 1 = x
      BY <2>0, <2>2, <1>c
    <3>4. m.cells[x].text = n.cells[x - 1].text
      BY <3>3, <1>p
    <3>5. x - 1 \in 1..Len(n.cells)
      BY <3>3, <1>c
    <3>6. <<x - 1, y>> \in Places(n)
      BY <2>0, <3>1, <3>4, <3>5, <1>n
    <3> QED BY <2>0, <3>1, <3>2, <3>4, <3>6, <1>a
  <2>3. CASE x = i
    <3>0. y \in DOMAIN a
      BY <2>0, <2>3, <1>t
    <3>1. y \in 1..Len(a) /\ y \in 1..Len(a) + Len(b)
      BY <3>0, <1>s
    <3>2. up(p) = p /\ down(p) = p
      BY <2>0, <2>3, <1>c, <1>s, <3>1
    <3>3. p \in Places(n)
      BY <2>0, <2>3, <3>1, <1>n, <1>s, <1>c
    <3>4. At(m, p) = a[y] /\ At(n, p) = (a \o b)[y]
      <4>1. At(m, p) = m.cells[i].text[y] /\ At(n, p) = n.cells[i].text[y]
        BY <2>0, <2>3, <1>a
      <4> QED BY <4>1, <1>t, <1>s
    <3> QED BY <3>1, <3>2, <3>3, <3>4, <1>s
  <2>4. CASE x = i + 1
    <3>0. y \in DOMAIN b
      BY <2>0, <2>4, <1>t
    <3>1. y \in 1..Len(b) /\ y + Len(a) \in 1..Len(a) + Len(b) /\ y + Len(a) \in Nat
      BY <3>0, <1>s
    <3>2. up(p) = <<i, y + Len(a)>> /\ i \in Nat
      BY <2>0, <2>4, <1>c
    <3>3. down(<<i, y + Len(a)>>) = p
      <4>1. ~ (y + Len(a) <= Len(a)) /\ y + Len(a) - Len(a) = y
        BY <3>1, <1>s
      <4> QED BY <4>1, <2>0, <2>4, <1>c
    <3>4. <<i, y + Len(a)>> \in Places(n)
      BY <3>1, <3>2, <1>n, <1>s, <1>c
    <3>5. At(n, <<i, y + Len(a)>>) = (a \o b)[y + Len(a)] /\ At(m, p) = b[y]
      BY <1>t, <1>s, <2>0, <2>4 DEF At
    <3> QED BY <3>1, <3>2, <3>3, <3>4, <3>5, <1>s
  <2> QED BY <2>0, <2>1, <2>2, <2>3, <2>4, <1>c
<1> HIDE DEF up, down
<1>3. Within(n, m)
  <2> DEFINE f == [p \in Places(n) |-> down(p)]
  <2>1. f \in [Places(n) -> Places(m)] /\ \A p \in Places(n) : f[p] = down(p)
    BY <1>1
  <2> HIDE DEF f
  <2>2. \A p \in Places(n) : At(m, f[p]) = At(n, p)
    BY <2>1, <1>1
  <2>3. \A p, q \in Places(n) : f[p] = f[q] => p = q
    BY <2>1, <1>1
  <2> QED BY <2>1, <2>2, <2>3 DEF Within
<1>4. Within(m, n)
  <2> DEFINE f == [p \in Places(m) |-> up(p)]
  <2>1. f \in [Places(m) -> Places(n)] /\ \A p \in Places(m) : f[p] = up(p)
    BY <1>2
  <2> HIDE DEF f
  <2>2. \A p \in Places(m) : At(n, f[p]) = At(m, p)
    BY <2>1, <1>2
  <2>3. \A p, q \in Places(m) : f[p] = f[q] => p = q
    BY <2>1, <1>2
  <2> QED BY <2>1, <2>2, <2>3 DEF Within
<1> QED BY <1>3, <1>4

\* The same texts in the same order.
LEMMA TextsStay ==
    ASSUME NEW n \in NotebookRecords, NEW m \in NotebookRecords, Len(m.cells) = Len(n.cells),
           \A j \in DOMAIN n.cells : m.cells[j].text = n.cells[j].text
    PROVE  SameLines(n, m)
<1>c. /\ Len(n.cells) \in Nat /\ DOMAIN n.cells = 1..Len(n.cells)
      /\ DOMAIN m.cells = 1..Len(n.cells)
  BY CellsOf
<1> DEFINE h == [j \in 1..Len(n.cells) |-> j]
<1>1. Within(n, m)
  <2>1. h \in [DOMAIN n.cells -> Int] /\ \A j \in DOMAIN n.cells : h[j] = j
    BY <1>c
  <2> HIDE DEF h
  <2> QED BY <1>c, <2>1, CellsStay
<1>2. Within(m, n)
  <2>1. h \in [DOMAIN m.cells -> Int] /\ \A j \in DOMAIN m.cells : h[j] = j
    BY <1>c
  <2> HIDE DEF h
  <2> QED BY <1>c, <2>1, CellsStay
<1> QED BY <1>1, <1>2 DEF SameLines

\* Two rearrangements are one.
LEMMA LinesTrans ==
    ASSUME NEW n, NEW x, NEW m, SameLines(n, x), SameLines(x, m) PROVE SameLines(n, m)
  BY WithinTrans DEF SameLines

\* Selecting and marking move no text.
LEMMA MirrorsLines ==
    ASSUME NEW n \in NotebookRecords, NEW m \in NotebookRecords, Mirrors(n, m)
    PROVE  SameLines(n, m)
  BY TextsStay DEF Mirrors, Alike

\* A blank cell more.
LEMMA BlankLines ==
    ASSUME NEW n \in NotebookRecords, NEW m \in NotebookRecords, NEW i, Grows(n, m, i),
           m.cells[i].text = <<>>
    PROVE  SameLines(n, m)
<1>c. /\ Len(n.cells) \in Nat /\ DOMAIN n.cells = 1..Len(n.cells)
      /\ DOMAIN m.cells = 1..Len(n.cells) + 1 /\ i \in 1..Len(n.cells) + 1
  BY CellsOf DEF Grows
<1>t. /\ \A j \in 1..i - 1 : m.cells[j].text = n.cells[j].text
      /\ \A j \in i..Len(n.cells) : m.cells[j + 1].text = n.cells[j].text
  BY DEF Grows, Alike
<1>1. Within(n, m)
  <2> DEFINE h == [j \in DOMAIN n.cells |-> IF j < i THEN j ELSE j + 1]
  <2>1. h \in [DOMAIN n.cells -> Int] /\ \A j \in DOMAIN n.cells : h[j] = IF j < i THEN j ELSE j + 1
    BY <1>c
  <2>2. ASSUME NEW j \in DOMAIN n.cells
        PROVE  h[j] \in DOMAIN m.cells /\ m.cells[h[j]].text = n.cells[j].text
    <3> HIDE DEF h
    <3>1. CASE j < i
      <4>1. j \in 1..i - 1
        BY <3>1, <1>c
      <4> QED BY <4>1, <3>1, <2>1, <1>c, <1>t
    <3>2. CASE ~ (j < i)
      <4>1. j \in i..Len(n.cells) /\ j + 1 \in DOMAIN m.cells
        BY <3>2, <1>c
      <4> QED BY <4>1, <3>2, <2>1, <1>t
    <3> QED BY <3>1, <3>2
  <2>3. \A j, k \in DOMAIN n.cells : h[j] = h[k] => j = k
    BY <1>c
  <2> HIDE DEF h
  <2> QED BY <2>1, <2>2, <2>3, CellsStay
<1>2. Within(m, n)
  <2> DEFINE h == [j \in DOMAIN m.cells |-> IF j <= i THEN j ELSE j - 1]
  <2>1. h \in [DOMAIN m.cells -> Int] /\ \A j \in DOMAIN m.cells : h[j] = IF j <= i THEN j ELSE j - 1
    BY <1>c
  <2>2. ASSUME NEW j \in DOMAIN m.cells, m.cells[j].text # <<>>
        PROVE  j # i /\ h[j] \in DOMAIN n.cells /\ n.cells[h[j]].text = m.cells[j].text
    <3> HIDE DEF h
    <3>1. CASE j < i
      <4>1. j \in 1..i - 1 /\ j \in DOMAIN n.cells /\ h[j] = j
        BY <3>1, <1>c, <2>1
      <4> QED BY <4>1, <3>1, <1>t
    <3>2. CASE j > i
      <4>1. j - 1 \in i..Len(n.cells) /\ j - 1 \in DOMAIN n.cells /\ j - 1 + 1 = j /\ h[j] = j - 1
        BY <3>2, <1>c, <2>1
      <4>2. m.cells[j - 1 + 1].text = n.cells[j - 1].text
        BY <4>1, <1>t
      <4> QED BY <4>1, <4>2, <3>2
    <3>3. j # i
      BY <2>2
    <3> QED BY <1>c, <3>1, <3>2, <3>3
  <2>3. ASSUME NEW j \in DOMAIN m.cells, NEW k \in DOMAIN m.cells, j # i, k # i, h[j] = h[k]
        PROVE  j = k
    BY <1>c, <2>3
  <2> HIDE DEF h
  <2> QED BY <2>1, <2>2, <2>3, CellsStay
<1> QED BY <1>1, <1>2 DEF SameLines

-----------------------------------------------------------------------------
(* The commands, one by one.                                                *)

\* index_or_selected.
LEMMA IndexIs ==
    ASSUME NEW n \in NotebookRecords, Good(n), NEW index \in Int
    PROVE  /\ IndexOrSelected(n, index) \in Int
           /\ index # Null => IndexOrSelected(n, index) = index
           /\ index = Null /\ HasCell(n) => /\ IndexOrSelected(n, index) = SelectedIndex(n)
                                            /\ SelectedIndex(n) \in DOMAIN n.cells
           /\ index = Null /\ ~ HasCell(n) => IndexOrSelected(n, index) = 1
<1>1. HasCell(n) => SelectedIndex(n) \in 1..Len(n.cells)
  BY GoodSelects
<1>2. ~ HasCell(n) => SelectedIndex(n) = Null
  BY GoodSelects
<1>3. Len(n.cells) \in Nat /\ DOMAIN n.cells = 1..Len(n.cells)
  BY CellsOf
<1> QED BY <1>1, <1>2, <1>3 DEF IndexOrSelected, Null

\* insert_cell_at_index as a command.
LEMMA InsertDoes ==
    ASSUME NEW n \in NotebookRecords, Good(n), Fits(n), NEW type \in Types, NEW index \in Int,
           NEW m, m = InsertCell(n, type, index)
    PROVE  /\ m \in NotebookRecords /\ Follows(n, m) /\ Links(n, m)
           /\ m.dirty /\ Len(m.cells) = Len(n.cells) + 1
<1>1. PICK i : i = Clamp(index, 1, Len(n.cells) + 1)
  OBVIOUS
<1>2. Good(m) /\ Grows(n, m, i)
  BY <1>1, InsertCellDoes
<1> QED BY <1>2, GrowsDoes DEF Good, Grows

\* insert_cell_at_index, then fromJSON or set_text of the new cell.
LEMMA InsertFilledDoes ==
    ASSUME NEW n \in NotebookRecords, Good(n), Fits(n), NEW type \in Types, NEW index \in Int,
           NEW data, data.text \in Seq(STRING), data.level \in Nat,
           NEW m, m = Filled(InsertCell(n, type, index), data)
    PROVE  /\ m \in NotebookRecords /\ Follows(n, m) /\ Links(n, m)
           /\ m.dirty /\ Len(m.cells) = Len(n.cells) + 1
<1>1. PICK i : i = Clamp(index, 1, Len(n.cells) + 1)
  OBVIOUS
<1>2. Good(m) /\ Grows(n, m, i)
  BY <1>1, InsertFilled
<1> QED BY <1>2, GrowsDoes DEF Good, Grows

\* move_cell_up and move_cell_down: cells i and k change places.
LEMMA SwapDoes ==
    ASSUME NEW n \in NotebookRecords, Good(n), NEW i \in DOMAIN n.cells, NEW k \in DOMAIN n.cells,
           i # k, NEW m, m = Dirty(Select([n EXCEPT !.cells = Swap(@, i, k)], k))
    PROVE  m \in NotebookRecords /\ Follows(n, m) /\ SameLines(n, m)
<1>c. /\ n.cells \in Seq(CellRecords) /\ Len(n.cells) \in Nat
      /\ DOMAIN n.cells = 1..Len(n.cells)
      /\ \A j \in DOMAIN n.cells : n.cells[j] \in CellRecords
  BY CellsOf
<1> DEFINE cs == Swap(n.cells, i, k)
<1>1. /\ cs \in Seq(CellRecords) /\ Len(cs) = Len(n.cells) /\ DOMAIN cs = DOMAIN n.cells
      /\ \A j \in DOMAIN n.cells : cs[j] = n.cells[IF j = i THEN k ELSE IF j = k THEN i ELSE j]
  BY <1>c DEF Swap
<1>2. PICK w : w = [n EXCEPT !.cells = cs]
  OBVIOUS
<1> HIDE DEF cs
<1>3. w \in NotebookRecords /\ w.cells = cs
  BY <1>1, <1>2 DEF NotebookRecords
<1>4. Distinct(w) /\ OneAtMost(w)
  <2>1. ASSUME NEW x \in DOMAIN w.cells, NEW y \in DOMAIN w.cells,
               w.cells[x].id = w.cells[y].id \/ (w.cells[x].selected /\ w.cells[y].selected)
        PROVE  x = y
    <3> DEFINE p(j) == IF j = i THEN k ELSE IF j = k THEN i ELSE j
    <3>1. p(x) \in DOMAIN n.cells /\ p(y) \in DOMAIN n.cells
          /\ w.cells[x] = n.cells[p(x)] /\ w.cells[y] = n.cells[p(y)]
      BY <1>1, <1>3
    <3>2. p(x) = p(y)
      <4> HIDE DEF p
      <4> QED BY <3>1, <2>1, GoodSelects DEF Good, Distinct, OneAtMost
    <3> QED BY <3>2
  <2> QED BY <2>1 DEF Distinct, OneAtMost
<1>5. PICK x : x = Select(w, k)
  OBVIOUS
<1>6. /\ x \in NotebookRecords /\ Len(x.cells) = Len(w.cells)
      /\ \A j \in DOMAIN w.cells : Alike(x.cells[j], w.cells[j])
      /\ k \in DOMAIN w.cells /\ Selects(x, k)
  <2>1. k \in DOMAIN w.cells /\ k \in Int
    BY <1>1, <1>3, <1>c
  <2> QED BY <2>1, <1>3, <1>4, <1>5, SelectKeeps
<1>7. DOMAIN x.cells = DOMAIN w.cells
  BY <1>3, <1>6, CellsOf
<1>8. Good(x)
  <2>1. Distinct(x)
    BY <1>4, <1>6, <1>7 DEF Distinct, Alike
  <2> QED BY <2>1, <1>6, <1>7 DEF Good
<1>9. m = Dirty(x)
  BY <1>2, <1>5 DEF cs
<1>10. m \in NotebookRecords /\ Good(m) /\ m.dirty /\ m.cells = x.cells
  BY <1>6, <1>8, <1>9, DirtyIs, DirtyDoes
<1>11. m.cells[i].id # n.cells[i].id
  <2>1. w.cells[i] = n.cells[k] /\ n.cells[k].id # n.cells[i].id
    BY <1>1, <1>3 DEF Good, Distinct
  <2>2. Alike(x.cells[i], w.cells[i])
    BY <1>6, <1>3, <1>1
  <2> QED BY <2>1, <2>2, <1>10 DEF Alike
<1>12. SameLines(n, m)
  <2> DEFINE h == [j \in 1..Len(n.cells) |-> IF j = i THEN k ELSE IF j = k THEN i ELSE j]
  <2>0. DOMAIN m.cells = 1..Len(n.cells) /\ i \in 1..Len(n.cells) /\ k \in 1..Len(n.cells)
    BY <1>1, <1>3, <1>7, <1>10, <1>c
  <2>1. /\ h \in [1..Len(n.cells) -> Int]
        /\ \A j \in 1..Len(n.cells) : h[j] \in 1..Len(n.cells) /\ h[h[j]] = j
    BY <2>0, <1>c
  <2>2. \A j \in 1..Len(n.cells) : m.cells[j].text = n.cells[h[j]].text
    <3>1. \A j \in 1..Len(n.cells) : w.cells[j] = n.cells[h[j]]
      BY <1>1, <1>3, <1>c
    <3> HIDE DEF h
    <3> QED BY <3>1, <1>1, <1>3, <1>6, <1>10, <1>c DEF Alike
  <2> HIDE DEF h
  <2>3. \A j, l \in 1..Len(n.cells) : h[j] = h[l] => j = l
    BY <2>1
  <2>d. DOMAIN m.cells = DOMAIN n.cells /\ DOMAIN n.cells = 1..Len(n.cells)
    BY <2>0, <1>c
  <2>4. Within(m, n)
    <3>1. /\ h \in [DOMAIN m.cells -> Int]
          /\ \A j \in DOMAIN m.cells : h[j] \in DOMAIN n.cells /\ n.cells[h[j]].text = m.cells[j].text
          /\ \A j, l \in DOMAIN m.cells : h[j] = h[l] => j = l
      BY <2>d, <2>1, <2>2, <2>3
    <3> QED BY <3>1, <1>10, CellsStay
  <2>5. \A j \in 1..Len(n.cells) : m.cells[h[j]].text = n.cells[j].text
    BY <2>1, <2>2
  <2>6. Within(n, m)
    <3>1. /\ h \in [DOMAIN n.cells -> Int]
          /\ \A j \in DOMAIN n.cells : h[j] \in DOMAIN m.cells /\ m.cells[h[j]].text = n.cells[j].text
          /\ \A j, l \in DOMAIN n.cells : h[j] = h[l] => j = l
      BY <2>d, <2>1, <2>5, <2>3
    <3> QED BY <3>1, <1>10, CellsStay
  <2> QED BY <2>4, <2>6 DEF SameLines
<1> QED BY <1>10, <1>11, <1>12 DEF Follows, Relaid

\* move_cell_up and move_cell_down as commands.
LEMMA MovesDo ==
    ASSUME NEW n \in NotebookRecords, Good(n)
    PROVE  /\ MoveUp(n) \in NotebookRecords /\ Follows(n, MoveUp(n)) /\ SameLines(n, MoveUp(n))
           /\ MoveDown(n) \in NotebookRecords /\ Follows(n, MoveDown(n))
           /\ SameLines(n, MoveDown(n))
<1>c. Len(n.cells) \in Nat /\ DOMAIN n.cells = 1..Len(n.cells)
  BY CellsOf
<1>i. PICK i \in Int : i = IndexOrSelected(n, Null)
  BY IndexIs DEF Null
<1>1. MoveUp(n) \in NotebookRecords /\ Follows(n, MoveUp(n)) /\ SameLines(n, MoveUp(n))
  <2>1. CASE Inside(n, i) /\ i > 1
    <3>1. MoveUp(n) = Dirty(Select([n EXCEPT !.cells = Swap(@, i, i - 1)], i - 1))
      BY <2>1, <1>i DEF MoveUp
    <3>2. i \in DOMAIN n.cells /\ i - 1 \in DOMAIN n.cells /\ i # i - 1
      BY <2>1, <1>c DEF Inside
    <3> QED BY <3>1, <3>2, SwapDoes
  <2>2. CASE ~ (Inside(n, i) /\ i > 1)
    <3>1. MoveUp(n) = n
      BY <2>2, <1>i DEF MoveUp
    <3> QED BY <3>1, FollowsSelf, MirrorsLines
  <2> QED BY <2>1, <2>2
<1>2. MoveDown(n) \in NotebookRecords /\ Follows(n, MoveDown(n)) /\ SameLines(n, MoveDown(n))
  <2>1. CASE Inside(n, i) /\ Inside(n, i + 1)
    <3>1. MoveDown(n) = Dirty(Select([n EXCEPT !.cells = Swap(@, i, i + 1)], i + 1))
      BY <2>1, <1>i DEF MoveDown
    <3>2. i \in DOMAIN n.cells /\ i + 1 \in DOMAIN n.cells /\ i # i + 1
      BY <2>1, <1>c DEF Inside
    <3> QED BY <3>1, <3>2, SwapDoes
  <2>2. CASE ~ (Inside(n, i) /\ Inside(n, i + 1))
    <3>1. MoveDown(n) = Dirty(n)
      BY <2>2, <1>i DEF MoveDown
    <3> QED BY <3>1, FollowsSelf, DirtyDoes, MirrorsFollow, MirrorsLines
  <2> QED BY <2>1, <2>2
<1> QED BY <1>1, <1>2

\* copy_cell only writes the clipboard.
LEMMA CopyDoes ==
    ASSUME NEW n \in NotebookRecords, Good(n), HasCell(n), NEW m, m = Copy(n)
    PROVE  /\ m \in NotebookRecords /\ Good(m) /\ Mirrors(n, m) /\ m.dirty = n.dirty
           /\ m.cells = n.cells /\ SelectedIndex(m) = SelectedIndex(n)
<1>1. SelectedIndex(n) \in DOMAIN n.cells
  BY GoodSelects, CellsOf
<1>2. n.cells[SelectedIndex(n)] \in CellRecords
  BY <1>1, CellsOf
<1>3. ToJSON(Current(n)) \in DataRecords
  BY <1>2 DEF ToJSON, Data, DataRecords, CellRecords, Current
<1>d. PICK d \in DataRecords : d = ToJSON(Current(n))
  BY <1>3
<1>e. <<d>> \in Seq(DataRecords)
  OBVIOUS
<1>4. PICK c \in Seq(DataRecords) : c = <<d>>
  BY <1>e
<1>5. m = [n EXCEPT !.clip = c]
  BY <1>d, <1>4 DEF Copy
<1>6. /\ m \in NotebookRecords /\ m.cells = n.cells /\ m.dirty = n.dirty
      /\ m.uindex = n.uindex /\ m.backup = n.backup /\ m.below = n.below
  BY <1>5 DEF NotebookRecords
<1> QED BY <1>6, SameCells

\* cut_cell deletes the selected cell.
LEMMA CutDoes ==
    ASSUME NEW n \in NotebookRecords, Good(n), HasCell(n), NEW m, m = Cut(n)
    PROVE  /\ Good(m) /\ Follows(n, m) /\ m.backup = <<ToJSON(n.cells[SelectedIndex(n)])>>
           /\ Shrinks(n, m, SelectedIndex(n))
<1>1. PICK x : x = Copy(n)
  OBVIOUS
<1>2. /\ x \in NotebookRecords /\ Good(x) /\ x.cells = n.cells
      /\ SelectedIndex(x) = SelectedIndex(n)
  BY <1>1, CopyDoes
<1>3. HasCell(x)
  BY <1>2 DEF HasCell
<1>4. SelectedIndex(x) \in DOMAIN x.cells /\ IndexOrSelected(x, Null) = SelectedIndex(x)
  BY <1>2, <1>3, IndexIs DEF Null
<1>5. Good(m) /\ Shrinks(x, m, SelectedIndex(x))
  BY <1>1, <1>2, <1>4, DeleteDoes DEF Cut
<1>6. Shrinks(n, m, SelectedIndex(n))
  BY <1>2, <1>5 DEF Shrinks
<1> QED BY <1>5, <1>6, ShrinksDoes DEF Shrinks

\* paste_cell_replace as a command.
LEMMA PasteReplaceDoes ==
    ASSUME NEW n \in NotebookRecords, Good(n), Fits(n), n.clip # <<>>, NEW m, m = PasteReplace(n)
    PROVE  m \in NotebookRecords /\ Follows(n, m)
<1>0. /\ Len(n.cells) \in Nat /\ DOMAIN n.cells = 1..Len(n.cells)
      /\ n.clip \in Seq(DataRecords)
  BY CellsOf DEF NotebookRecords
<1>d. PICK d \in DataRecords : d = n.clip[1]
  BY <1>0
<1>t. d.type \in Types /\ d.text \in Seq(STRING) /\ d.level \in Nat
  BY DEF DataRecords
<1>k. PICK k \in Int : k = IndexOrSelected(n, Null)
  BY IndexIs DEF Null
<1>i. PICK i : i = Clamp(k, 1, Len(n.cells) + 1)
  OBVIOUS
<1>p. PICK p : p = PasteAbove(n)
  OBVIOUS
<1>1. p = Filled(InsertCell(n, d.type, k), d)
  BY <1>d, <1>k, <1>p DEF PasteAbove, InsertAbove
<1>2. Good(p) /\ Selects(p, i) /\ Grows(n, p, i)
  BY <1>1, <1>i, <1>t, InsertFilled
<1>3. /\ p \in NotebookRecords /\ SelectedIndex(p) = i /\ i \in 1..Len(n.cells) + 1
      /\ Len(p.cells) = Len(n.cells) + 1 /\ DOMAIN p.cells = 1..Len(n.cells) + 1 /\ HasCell(p)
  BY <1>2, SelectsIs, CellsOf, <1>0 DEF Good, Grows
\* With a cell below, the pasted cell stays; it was not there before.
<1>4. CASE Inside(p, i + 1)
  <2>1. m = Select(Delete(p, i + 1), i)
    BY <1>4, <1>3, <1>p DEF PasteReplace
  <2>2. PICK x : x = Delete(p, i + 1)
    OBVIOUS
  <2>3. i + 1 \in DOMAIN p.cells /\ i + 1 \in Int /\ i + 1 # Null
    BY <1>4, <1>3 DEF Inside, Null
  <2>4. IndexOrSelected(p, i + 1) = i + 1
    BY <2>3, <1>2, <1>3, IndexIs
  <2>5. Good(x) /\ Shrinks(p, x, i + 1)
    BY <2>2, <2>3, <2>4, <1>2, <1>3, DeleteDoes
  <2>6. x \in NotebookRecords /\ i \in Int /\ i \in DOMAIN n.cells
    BY <2>5, <2>3, <1>3, <1>0 DEF Good
  <2>7. m \in NotebookRecords /\ Good(m) /\ Mirrors(x, m) /\ m.dirty = x.dirty
    BY <2>1, <2>2, <2>5, <2>6, SelectDoes
  <2>8. m.cells[i].id # n.cells[i].id
    <3>1. i \in 1..(i + 1) - 1 /\ i \in DOMAIN x.cells
      BY <2>5, <2>6, <2>3, <1>3, <1>0, CellsOf DEF Shrinks
    <3>2. m.cells[i].id = p.cells[i].id
      BY <3>1, <2>5, <2>7 DEF Shrinks, Mirrors, Alike
    <3> QED BY <3>2, <2>6, <1>2 DEF Grows
  <2> QED BY <2>5, <2>6, <2>7, <2>8 DEF Follows, Relaid, Shrinks
\* With none it is deleted, and the selection ends on the last cell.
<1>5. CASE ~ Inside(p, i + 1)
  <2>1. m = Delete(p, Null)
    BY <1>5, <1>3, <1>p DEF PasteReplace
  <2>2. i = Len(n.cells) + 1
    BY <1>5, <1>3, <1>0 DEF Inside
  <2>3. IndexOrSelected(p, Null) = i /\ i \in DOMAIN p.cells
    BY <1>2, <1>3, IndexIs DEF Null
  <2>4. Good(m) /\ Shrinks(p, m, i)
    BY <2>1, <2>3, <1>2, <1>3, DeleteDoes
  <2>5. SameShow(n, m)
    <3>1. Len(m.cells) = Len(n.cells)
      BY <2>4, <1>3, <1>0 DEF Shrinks
    <3>2. ASSUME NEW j \in DOMAIN n.cells PROVE m.cells[j].shown = n.cells[j].shown
      <4>1. j \in 1..i - 1
        BY <2>2, <1>0
      <4> QED BY <4>1, <2>4, <1>2 DEF Grows, Shrinks, Alike
    <3> QED BY <3>1, <3>2 DEF SameShow
  <2> QED BY <2>4, <2>5 DEF Follows, Shrinks, Good
<1> QED BY <1>4, <1>5

\* split_cell as a command.
LEMMA SplitDoes ==
    ASSUME NEW n \in NotebookRecords, Good(n), Fits(n), HasCell(n),
           NEW k \in 0..Len(Current(n).text), NEW m, m = Split(n, k)
    PROVE  m \in NotebookRecords /\ Follows(n, m) /\ Links(n, m) /\ SameLines(n, m)
<1>s. PICK s \in DOMAIN n.cells : s = SelectedIndex(n) /\ Selects(n, s)
  BY GoodSelects, CellsOf
<1>c. PICK c \in CellRecords : c = Current(n)
  BY <1>s, CellsOf DEF Current
<1>t. c.text \in Seq(STRING) /\ c.type \in Types /\ k \in Nat /\ k <= Len(c.text)
  BY <1>c DEF CellRecords
<1>1. CASE c.type \notin {"code", "markdown"}
  <2>1. m = n
    BY <1>1, <1>c DEF Split
  <2> QED BY <2>1, FollowsSelf, MirrorsLines
<1>2. CASE c.type \in {"code", "markdown"}
  <2>1. PICK u : u = SetText(n, s, SubSeq(c.text, 1, k))
    OBVIOUS
  <2>2. PICK rest : rest = SubSeq(c.text, k + 1, Len(c.text))
    OBVIOUS
  <2>3. SubSeq(c.text, 1, k) \in Seq(STRING) /\ rest \in Seq(STRING)
    BY <1>t, <2>2
  <2>4. PICK data : data = Data(c.type, rest, 1)
    OBVIOUS
  <2>5. data.text \in Seq(STRING) /\ data.level \in Nat
    BY <2>3, <2>4 DEF Data
  <2>6. u \in NotebookRecords /\ Refills(n, u, s) /\ u.cells[s].text = SubSeq(c.text, 1, k)
    <3>1. PICK kept \in Seq(STRING) : kept = SubSeq(c.text, 1, k)
      BY <2>3
    <3>2. u = SetText(n, s, kept)
      BY <2>1, <3>1
    <3>3. u \in NotebookRecords /\ Refills(n, u, s) /\ u.cells[s].text = kept
      BY <3>2, SetTextDoes
    <3> QED BY <3>1, <3>3
  <2>7. Good(u) /\ Fits(u)
    BY <2>6, RefillsKeeps DEF Fits, Refills
  <2>8. PICK x \in Int : x = IndexOrSelected(u, Null) + 1
    BY <2>6, <2>7, IndexIs DEF Null
  <2>9. m = Filled(InsertCell(u, c.type, x), data)
    BY <1>2, <1>c, <1>s, <2>1, <2>2, <2>4, <2>8 DEF Split, InsertBelow
  <2>10. /\ m \in NotebookRecords /\ Follows(u, m) /\ Links(u, m)
         /\ m.dirty /\ Len(m.cells) = Len(u.cells) + 1
    BY <2>5, <2>6, <2>7, <2>9, <1>t, InsertFilledDoes
  <2>11. Links(n, m)
    BY <2>6, <2>10, RefillsDoes, LinksTrans
  <2>12. Len(m.cells) # Len(n.cells)
    BY <2>6, <2>10, CellsOf DEF Refills
  <2>13. s \in 1..Len(u.cells) /\ x = s + 1 /\ Len(u.cells) = Len(n.cells)
         /\ DOMAIN u.cells = 1..Len(u.cells) /\ Len(u.cells) \in Nat /\ DOMAIN n.cells = DOMAIN u.cells
    <3>1. DOMAIN n.cells = 1..Len(n.cells) /\ Len(u.cells) = Len(n.cells) /\ HasCell(n) /\ HasCell(u)
          /\ DOMAIN u.cells = 1..Len(u.cells) /\ Len(u.cells) \in Nat
      BY <1>s, <2>6, CellsOf DEF Refills
    <3>2. SelectedIndex(u) = s
      BY <1>s, <2>6, RefillsKeeps, SelectsIs
    <3>3. IndexOrSelected(u, Null) = SelectedIndex(u)
      BY <2>6, <2>7, <3>1, IndexIs DEF Null
    <3> QED BY <1>s, <2>8, <3>1, <3>2, <3>3
  <2>14. x = Clamp(x, 1, Len(u.cells) + 1)
    BY <2>13 DEF Clamp
  <2>15. Grows(u, m, x) /\ m.cells[s + 1].text = rest
    <3>1. Grows(u, m, x) /\ ToJSON(m.cells[x]) = Data(c.type, data.text, data.level)
      BY <2>5, <2>6, <2>7, <2>9, <2>14, <1>t, InsertFilled
    <3> QED BY <3>1, <2>13, <2>4 DEF ToJSON, Data
  <2>16. /\ \A j \in 1..s : m.cells[j].text = u.cells[j].text
         /\ \A j \in s + 1..Len(u.cells) : m.cells[j + 1].text = u.cells[j].text
    <3>1. x - 1 = s /\ x = s + 1
      BY <2>13
    <3>2. \A j \in 1..x - 1 : Alike(m.cells[j], u.cells[j])
      BY <2>15 DEF Grows
    <3>3. \A j \in 1..s : Alike(m.cells[j], u.cells[j])
      BY <3>1, <3>2
    <3>4. \A j \in s + 1..Len(u.cells) : Alike(m.cells[j + 1], u.cells[j])
      BY <2>15, <3>1 DEF Grows
    <3> QED BY <3>3, <3>4 DEF Alike
  <2>17. m.cells[s].text = SubSeq(c.text, 1, k) /\ m.cells[s + 1].text = rest
    BY <2>6, <2>13, <2>15, <2>16
  <2>18. n.cells[s].text = m.cells[s].text \o m.cells[s + 1].text
    <3>1. n.cells[s].text = c.text
      BY <1>c, <1>s DEF Current
    <3>2. c.text = SubSeq(c.text, 1, k) \o rest
      <4>1. PICK text \in Seq(STRING) : text = c.text
        BY <1>t
      <4>2. k \in 0..Len(text) /\ rest = SubSeq(text, k + 1, Len(text))
        BY <4>1, <1>t, <2>2
      <4>3. text = SubSeq(text, 1, k) \o SubSeq(text, k + 1, Len(text))
        BY <4>2, CutText
      <4> QED BY <4>1, <4>2, <4>3
    <3> QED BY <3>1, <3>2, <2>17
  <2>19. \A j \in 1..Len(u.cells) : j # s => u.cells[j].text = n.cells[j].text
    BY <2>6, <2>13 DEF Refills
  <2>20. TwoParts(n, m, s)
    <3>1. \A j \in 1..s - 1 : m.cells[j].text = n.cells[j].text
      BY <2>13, <2>16, <2>19
    <3>2. \A j \in s + 1..Len(n.cells) : m.cells[j + 1].text = n.cells[j].text
      BY <2>13, <2>16, <2>19
    <3> QED BY <1>s, <2>10, <2>13, <2>18, <3>1, <3>2 DEF TwoParts
  <2>21. SameLines(n, m)
    BY <2>10, <2>20, PartsWithin DEF SameLines
  <2> QED BY <2>10, <2>11, <2>12, <2>21 DEF Follows, Relaid
<1> QED BY <1>1, <1>2

\* A cell takes its neighbour's text, if it takes text at all.
LEMMA TakesDoes ==
    ASSUME NEW n \in NotebookRecords, Good(n), NEW i \in DOMAIN n.cells, NEW text \in Seq(STRING),
           NEW m, m = Takes(n, i, text)
    PROVE  /\ m \in NotebookRecords /\ Good(m) /\ Len(m.cells) = Len(n.cells)
           /\ \A j \in DOMAIN n.cells : j # i => m.cells[j].text = n.cells[j].text
           /\ n.cells[i].type \in {"code", "markdown"} => m.cells[i].text = text
<1>1. CASE n.cells[i].type \notin {"code", "markdown"}
  <2>1. m = n
    BY <1>1 DEF Takes
  <2> QED BY <1>1, <2>1
<1>2. CASE n.cells[i].type \in {"code", "markdown"}
  <2>1. PICK t : t = SetText(n, i, text)
    OBVIOUS
  <2>2. t \in NotebookRecords /\ Refills(n, t, i) /\ t.cells[i].text = text
    BY <2>1, SetTextDoes
  <2>3. Good(t) /\ i \in DOMAIN t.cells
    BY <2>2, RefillsKeeps, CellsOf DEF Refills
  <2>4. PICK r \in BOOLEAN : r = (t.cells[i].type = "markdown")
    OBVIOUS
  <2>5. PICK c \in CellRecords : c = t.cells[i]
    BY <2>2, <2>3, CellsOf
  <2>6. PICK d : d = [c EXCEPT !.rendered = r]
    OBVIOUS
  <2>7. d \in CellRecords /\ d.id = c.id /\ d.selected = c.selected /\ d.text = c.text
    BY <2>6 DEF CellRecords
  <2>8. m = [t EXCEPT !.cells[i] = d]
    <3>1. m = [t EXCEPT !.cells[i].rendered = r]
      BY <1>2, <2>1, <2>4 DEF Takes
    <3> QED BY <3>1, <2>5, <2>6
  <2>9. /\ m \in NotebookRecords /\ Len(m.cells) = Len(t.cells) /\ m.cells[i] = d
        /\ DOMAIN m.cells = DOMAIN t.cells
        /\ \A j \in DOMAIN t.cells : j # i => m.cells[j] = t.cells[j]
    BY <2>2, <2>3, <2>7, <2>8, WriteIs
  <2>10. \A j \in DOMAIN t.cells : /\ m.cells[j].id = t.cells[j].id
                                   /\ m.cells[j].selected = t.cells[j].selected
    BY <2>5, <2>7, <2>9
  <2>11. Distinct(m)
    BY <2>3, <2>9, <2>10 DEF Good, Distinct
  <2>12. HasCell(m) => \E j \in DOMAIN m.cells : Selects(m, j)
    <3>1. HasCell(t)
      BY <2>2, <2>3, CellsOf
    <3>2. PICK j \in DOMAIN t.cells : Selects(t, j)
      BY <3>1, <2>3 DEF Good
    <3>3. Selects(m, j)
      BY <3>2, <2>9, <2>10 DEF Selects
    <3> QED BY <3>3, <2>9
  <2>13. m.cells[i].text = text
    BY <2>2, <2>5, <2>7, <2>9
  <2>14. \A j \in DOMAIN n.cells : j # i => m.cells[j].text = n.cells[j].text
    <3>1. DOMAIN t.cells = DOMAIN n.cells
      BY <2>2, CellsOf DEF Refills
    <3> QED BY <3>1, <2>2, <2>9 DEF Refills
  <2> QED BY <2>2, <2>9, <2>11, <2>12, <2>13, <2>14 DEF Good, Refills
<1> QED BY <1>1, <1>2

\* A text is two texts, one after the other.
Joins(text, a, b) == text = a \o b

\* merge_cell_above and merge_cell_below as commands.
LEMMA MergesDo ==
    ASSUME NEW n \in NotebookRecords, Good(n)
    PROVE  /\ MergeAbove(n) \in NotebookRecords /\ Follows(n, MergeAbove(n))
           /\ MergeBelow(n) \in NotebookRecords /\ Follows(n, MergeBelow(n))
           /\ Current(n).type \in {"code", "markdown"} =>
                 SameLines(n, MergeAbove(n)) /\ SameLines(n, MergeBelow(n))
<1>c. /\ Len(n.cells) \in Nat /\ DOMAIN n.cells = 1..Len(n.cells)
      /\ \A j \in DOMAIN n.cells : n.cells[j].text \in Seq(STRING)
  <2>1. \A j \in DOMAIN n.cells : n.cells[j] \in CellRecords
    BY CellsOf
  <2> QED BY <2>1, CellsOf DEF CellRecords
<1>i. PICK i : i = SelectedIndex(n)
  OBVIOUS
<1>s. (HasCell(n) => i \in 1..Len(n.cells)) /\ (~ HasCell(n) => i = 0)
  BY <1>i, GoodSelects DEF Null
<1>e. HasCell(n) <=> Len(n.cells) # 0
  BY CellsOf
\* One cell takes the text, another goes.
<1>m. ASSUME NEW k \in DOMAIN n.cells, i \in DOMAIN n.cells, NEW text \in Seq(STRING), NEW to \in Int,
             NEW m, m = Select(Delete(Takes(n, i, text), k), to),
             NEW p, NEW q, q = p + 1, (k = i - 1 /\ p = k) \/ (k = i + 1 /\ p = i),
             Joins(text, n.cells[p].text, n.cells[q].text)
      PROVE  /\ m \in NotebookRecords /\ Follows(n, m)
             /\ Current(n).type \in {"code", "markdown"} => SameLines(n, m)
  <2>1. PICK t : t = Takes(n, i, text)
    OBVIOUS
  <2>2. /\ t \in NotebookRecords /\ Good(t) /\ Len(t.cells) = Len(n.cells)
        /\ \A j \in DOMAIN n.cells : j # i => t.cells[j].text = n.cells[j].text
        /\ n.cells[i].type \in {"code", "markdown"} => t.cells[i].text = text
    BY <1>m, <2>1, TakesDoes
  <2>3. k \in DOMAIN t.cells /\ k \in Int /\ k # Null
    BY <2>2, <1>c, CellsOf DEF Null
  <2>4. PICK x : x = Delete(t, k)
    OBVIOUS
  <2>5. Good(x) /\ Shrinks(t, x, k)
    BY <2>2, <2>3, <2>4, IndexIs, DeleteDoes
  <2>6. m \in NotebookRecords /\ Good(m) /\ Mirrors(x, m) /\ m.dirty = x.dirty
    BY <1>m, <2>1, <2>4, <2>5, SelectDoes DEF Good
  <2>7. m.dirty /\ Len(m.cells) # Len(n.cells)
    BY <2>2, <2>5, <2>6, <1>c DEF Shrinks, Mirrors
  <2>8. ASSUME Current(n).type \in {"code", "markdown"} PROVE SameLines(n, m)
    <3>0. /\ i \in 1..Len(n.cells) /\ k \in 1..Len(n.cells) /\ Len(m.cells) = Len(n.cells) - 1
          /\ DOMAIN m.cells = 1..Len(n.cells) - 1 /\ Len(x.cells) = Len(n.cells) - 1
          /\ DOMAIN x.cells = 1..Len(n.cells) - 1
      <4>1. Len(x.cells) = Len(n.cells) - 1 /\ Len(m.cells) = Len(x.cells)
        BY <2>2, <2>5, <2>6 DEF Shrinks, Mirrors
      <4> QED BY <4>1, <1>m, <1>c, <2>5, <2>6, CellsOf DEF Good
    <3>1. t.cells[i].text = text
      BY <2>8, <2>2, <1>i DEF Current
    <3>2. \A j \in 1..Len(n.cells) - 1 : m.cells[j].text = x.cells[j].text
      BY <2>6, <3>0 DEF Mirrors, Alike
    <3>3. /\ \A j \in 1..k - 1 : x.cells[j].text = t.cells[j].text
          /\ \A j \in k..Len(n.cells) - 1 : x.cells[j].text = t.cells[j + 1].text
      BY <2>2, <2>5 DEF Shrinks, Alike
    <3>4. p \in 1..Len(n.cells) - 1 /\ p + 1 \in 1..Len(n.cells)
      BY <1>m, <1>c, <3>0
    <3>5. m.cells[p].text = text
      <4>1. CASE k = i - 1 /\ p = k
        <5>1. p \in k..Len(n.cells) - 1 /\ p + 1 = i
          BY <4>1, <3>0, <3>4, <1>c
        <5> QED BY <5>1, <3>1, <3>2, <3>3, <3>4
      <4>2. CASE k = i + 1 /\ p = i
        <5>1. p \in 1..k - 1
          BY <4>2, <3>0, <1>c
        <5> QED BY <5>1, <4>2, <3>1, <3>2, <3>3, <3>4
      <4> QED BY <1>m, <4>1, <4>2
    <3>6. ASSUME NEW j \in 1..p - 1 PROVE n.cells[j].text = m.cells[j].text
      <4>1. j \in 1..k - 1 /\ j # i /\ j \in 1..Len(n.cells) - 1 /\ j \in DOMAIN n.cells
        BY <1>m, <1>c, <3>0, <3>4
      <4> QED BY <4>1, <2>2, <3>2, <3>3
    <3>7. ASSUME NEW j \in p + 1..Len(m.cells) PROVE n.cells[j + 1].text = m.cells[j].text
      <4>1. j \in k..Len(n.cells) - 1 /\ j + 1 # i /\ j \in 1..Len(n.cells) - 1 /\ j + 1 \in DOMAIN n.cells
        BY <1>m, <1>c, <3>0, <3>4
      <4> QED BY <4>1, <2>2, <3>2, <3>3
    <3>8. TwoParts(m, n, p)
      <4>1. m.cells[p].text = n.cells[p].text \o n.cells[p + 1].text
        BY <3>5, <1>m DEF Joins
      <4>2. p \in DOMAIN m.cells /\ Len(n.cells) = Len(m.cells) + 1
        BY <3>0, <3>4, <1>c
      <4> QED BY <4>1, <4>2, <3>6, <3>7 DEF TwoParts
    <3> QED BY <3>8, <2>6, PartsWithin DEF SameLines
  <2> QED BY <2>6, <2>7, <2>8 DEF Follows, Relaid
<1>1. /\ MergeAbove(n) \in NotebookRecords /\ Follows(n, MergeAbove(n))
      /\ Current(n).type \in {"code", "markdown"} => SameLines(n, MergeAbove(n))
  <2>1. CASE i <= 1
    <3>1. MergeAbove(n) = n
      BY <2>1, <1>i DEF MergeAbove
    <3> QED BY <3>1, FollowsSelf, MirrorsLines
  <2>2. CASE ~ (i <= 1)
    <3>1. i \in DOMAIN n.cells /\ i - 1 \in DOMAIN n.cells /\ i - 1 \in Int
      BY <2>2, <1>c, <1>s
    <3>2. PICK text \in Seq(STRING) : text = n.cells[i - 1].text \o n.cells[i].text
      <4>1. PICK a \in Seq(STRING), b \in Seq(STRING) : a = n.cells[i - 1].text /\ b = n.cells[i].text
        BY <3>1, <1>c
      <4>2. a \o b \in Seq(STRING)
        OBVIOUS
      <4> QED BY <4>1, <4>2
    <3>3. MergeAbove(n) = Select(Delete(Takes(n, i, text), i - 1), i - 1)
      BY <2>2, <1>i, <3>2 DEF MergeAbove
    <3>4. Joins(text, n.cells[i - 1].text, n.cells[i].text) /\ i = i - 1 + 1
      BY <3>1, <3>2, <1>c DEF Joins
    <3> QED BY <3>1, <3>3, <3>4, <1>m
  <2> QED BY <2>1, <2>2
<1>2. /\ MergeBelow(n) \in NotebookRecords /\ Follows(n, MergeBelow(n))
      /\ Current(n).type \in {"code", "markdown"} => SameLines(n, MergeBelow(n))
  <2>1. CASE i = Null \/ i = Len(n.cells)
    <3>1. MergeBelow(n) = n
      BY <2>1, <1>i DEF MergeBelow
    <3> QED BY <3>1, FollowsSelf, MirrorsLines
  <2>2. CASE ~ (i = Null \/ i = Len(n.cells))
    <3>1. i \in DOMAIN n.cells /\ i + 1 \in DOMAIN n.cells /\ i \in Int
      BY <2>2, <1>c, <1>s, <1>e DEF Null
    <3>2. PICK text \in Seq(STRING) : text = n.cells[i].text \o n.cells[i + 1].text
      <4>1. PICK a \in Seq(STRING), b \in Seq(STRING) : a = n.cells[i].text /\ b = n.cells[i + 1].text
        BY <3>1, <1>c
      <4>2. a \o b \in Seq(STRING)
        OBVIOUS
      <4> QED BY <4>1, <4>2
    <3>3. MergeBelow(n) = Select(Delete(Takes(n, i, text), i + 1), i)
      BY <2>2, <1>i, <3>2 DEF MergeBelow
    <3>4. Joins(text, n.cells[i].text, n.cells[i + 1].text)
      BY <3>2 DEF Joins
    <3> QED BY <3>1, <3>3, <3>4, <1>m
  <2> QED BY <2>1, <2>2
<1> QED BY <1>1, <1>2

\* to_heading on a heading changes its level alone; another type is a new cell.
LEMMA ConvertDoes ==
    ASSUME NEW n \in NotebookRecords, Good(n), Fits(n), NEW type \in Types, NEW level \in Nat,
           NEW m, m = Convert(n, type, level)
    PROVE  m \in NotebookRecords /\ Follows(n, m) /\ SameLines(n, m)
<1>c. /\ Len(n.cells) \in Nat /\ DOMAIN n.cells = 1..Len(n.cells)
      /\ \A j \in DOMAIN n.cells : n.cells[j] \in CellRecords
  BY CellsOf
<1>i. PICK i \in Int : i = IndexOrSelected(n, Null)
  BY IndexIs DEF Null
<1>1. CASE ~ Inside(n, i)
  <2>1. m = n
    BY <1>1, <1>i DEF Convert
  <2> QED BY <2>1, FollowsSelf, MirrorsLines
<1>2. CASE Inside(n, i) /\ n.cells[i].type = type /\ type # "heading"
  <2>1. m = n
    BY <1>2, <1>i DEF Convert
  <2> QED BY <2>1, FollowsSelf, MirrorsLines
<1>b. PICK b \in Types \X Nat : b = <<type, level>>
  OBVIOUS
<1>3. CASE Inside(n, i) /\ n.cells[i].type = type /\ type = "heading"
  <2>0. i \in DOMAIN n.cells
    BY <1>3 DEF Inside
  <2>1. PICK c \in CellRecords : c = n.cells[i]
    BY <2>0, <1>c
  <2>2. PICK d : d = [c EXCEPT !.level = level]
    OBVIOUS
  <2>3. /\ d \in CellRecords /\ d.id = c.id /\ d.selected = c.selected /\ d.type = c.type
        /\ d.text = c.text /\ d.shown = c.shown
    BY <2>2 DEF CellRecords
  <2>4. PICK x : x = [n EXCEPT !.cells[i] = d]
    OBVIOUS
  <2>5. /\ x \in NotebookRecords /\ Len(x.cells) = Len(n.cells) /\ x.cells[i] = d
        /\ DOMAIN x.cells = DOMAIN n.cells
        /\ \A j \in DOMAIN n.cells : j # i => x.cells[j] = n.cells[j]
        /\ Beside(n, x)
    BY <2>0, <2>3, <2>4, WriteIs
  <2>6. m = [x EXCEPT !.bar = b]
    <3>1. m = [n EXCEPT !.cells[i].level = level, !.bar = <<type, level>>]
      BY <1>3, <1>i DEF Convert
    <3>2. [n EXCEPT !.cells[i].level = level] = x
      BY <2>1, <2>2, <2>4
    <3> QED BY <3>1, <3>2, <1>b
  <2>7. m \in NotebookRecords /\ m.cells = x.cells /\ m.dirty = n.dirty
    BY <2>5, <2>6 DEF NotebookRecords, Beside
  <2>8. \A j \in DOMAIN n.cells :
            /\ m.cells[j].id = n.cells[j].id /\ m.cells[j].selected = n.cells[j].selected
            /\ m.cells[j].type = n.cells[j].type /\ m.cells[j].text = n.cells[j].text
            /\ m.cells[j].shown = n.cells[j].shown
    BY <2>1, <2>3, <2>5, <2>7
  <2>9. DOMAIN m.cells = DOMAIN n.cells /\ Len(m.cells) = Len(n.cells)
    BY <2>5, <2>7
  <2>10. Distinct(m)
    BY <2>8, <2>9 DEF Good, Distinct
  <2>11. \E j \in DOMAIN m.cells : Selects(m, j)
    <3>1. PICK j \in DOMAIN n.cells : Selects(n, j)
      BY <2>0, CellsOf DEF Good
    <3>2. \A k \in DOMAIN m.cells : m.cells[k].selected <=> k = j
      BY <3>1, <2>8, <2>9 DEF Selects
    <3>3. Selects(m, j)
      BY <3>2, <2>9 DEF Selects
    <3> QED BY <3>3, <2>9
  <2>12. Good(m)
    BY <2>7, <2>10, <2>11 DEF Good
  <2> QED BY <2>7, <2>8, <2>9, <2>12, TextsStay DEF Follows, SameText, SameShow
<1>4. CASE Inside(n, i) /\ n.cells[i].type # type
  <2>0. i \in DOMAIN n.cells /\ i # Null
    BY <1>4, <1>c DEF Inside, Null
  <2>1. PICK data : data = Data(type, n.cells[i].text, level)
    OBVIOUS
  <2>2. data.text \in Seq(STRING) /\ data.level \in Nat
    <3>1. n.cells[i] \in CellRecords
      BY <2>0, <1>c
    <3> QED BY <3>1, <2>1 DEF Data, CellRecords
  <2>3. PICK w : w = Filled(InsertBelow(n, type, i), data)
    OBVIOUS
  <2>4. w = Filled(InsertCell(n, type, i + 1), data)
    BY <2>0, <2>3, IndexIs DEF InsertBelow
  <2>5. i + 1 = Clamp(i + 1, 1, Len(n.cells) + 1)
    BY <2>0, <1>c DEF Clamp
  <2>6. /\ Good(w) /\ Selects(w, i + 1) /\ Grows(n, w, i + 1)
        /\ ToJSON(w.cells[i + 1]) = Data(type, data.text, data.level)
    BY <2>2, <2>4, <2>5, InsertFilled
  <2>7. /\ w \in NotebookRecords /\ i + 1 \in DOMAIN w.cells /\ i \in DOMAIN w.cells
        /\ Len(w.cells) = Len(n.cells) + 1 /\ DOMAIN w.cells = 1..Len(n.cells) + 1
    BY <2>6, <2>0, <1>c, CellsOf DEF Good, Grows
  <2>8. PICK c \in CellRecords : c = w.cells[i + 1]
    BY <2>7, CellsOf
  <2>9. PICK d : d = [c EXCEPT !.rendered = FALSE]
    OBVIOUS
  <2>10. d \in CellRecords /\ d.id = c.id /\ d.selected = c.selected /\ d.text = c.text
    BY <2>9 DEF CellRecords
  <2>11. PICK x : x = [w EXCEPT !.cells[i + 1] = d]
    OBVIOUS
  <2>12. /\ x \in NotebookRecords /\ Len(x.cells) = Len(w.cells) /\ x.cells[i + 1] = d
         /\ DOMAIN x.cells = DOMAIN w.cells
         /\ \A j \in DOMAIN w.cells : j # i + 1 => x.cells[j] = w.cells[j]
         /\ Beside(w, x)
    <3>1. PICK p : p = i + 1
      OBVIOUS
    <3>2. p \in DOMAIN w.cells /\ x = [w EXCEPT !.cells[p] = d]
      BY <3>1, <2>7, <2>11
    <3>3. /\ x \in NotebookRecords /\ Len(x.cells) = Len(w.cells) /\ x.cells[p] = d
          /\ DOMAIN x.cells = DOMAIN w.cells
          /\ \A j \in DOMAIN w.cells : j # p => x.cells[j] = w.cells[j]
          /\ Beside(w, x)
      <4>1. w \in NotebookRecords /\ d \in CellRecords
        BY <2>7, <2>10
      <4> QED BY <3>2, <4>1, WriteIs
    <3> QED BY <3>1, <3>3
  <2>13. \A j \in DOMAIN w.cells : /\ x.cells[j].id = w.cells[j].id
                                     /\ x.cells[j].selected = w.cells[j].selected
                                     /\ x.cells[j].text = w.cells[j].text
    BY <2>8, <2>10, <2>12
  <2>14. PICK cs : cs = RemoveAt(x.cells, i)
    OBVIOUS
  <2>15. /\ cs \in Seq(CellRecords) /\ Len(cs) = Len(n.cells)
         /\ \A j \in 1..i - 1 : cs[j] = x.cells[j]
         /\ \A j \in i..Len(n.cells) : cs[j] = x.cells[j + 1]
    <3>1. x.cells \in Seq(CellRecords) /\ i \in 1..Len(x.cells) /\ Len(x.cells) - 1 = Len(n.cells)
      BY <2>7, <2>12, <1>c, CellsOf
    <3> QED BY <3>1, <2>14, RemoveAtIs
  <2>16. m = [w EXCEPT !.cells = cs, !.bar = b]
    <3>1. m = [w EXCEPT !.cells = RemoveAt([@ EXCEPT ![i + 1].rendered = FALSE], i),
                          !.bar = <<type, level>>]
      BY <1>4, <1>i, <2>1, <2>3 DEF Convert
    <3>2. [w.cells EXCEPT ![i + 1].rendered = FALSE] = x.cells
      <4>1. [w.cells EXCEPT ![i + 1].rendered = FALSE] = [w.cells EXCEPT ![i + 1] = d]
        BY <2>8, <2>9
      <4>2. x.cells = [w.cells EXCEPT ![i + 1] = d]
        BY <2>7, <2>11 DEF NotebookRecords
      <4> QED BY <4>1, <4>2
    <3> QED BY <3>1, <3>2, <2>14, <1>b
  <2>17. m \in NotebookRecords /\ m.cells = cs /\ m.dirty = w.dirty
    BY <2>7, <2>15, <2>16 DEF NotebookRecords
  <2>18. DOMAIN m.cells = 1..Len(n.cells)
    BY <2>17, <2>15, CellsOf
  <2>19. ASSUME NEW j \in DOMAIN m.cells
         PROVE  /\ (IF j < i THEN j ELSE j + 1) \in DOMAIN w.cells
                /\ m.cells[j].id = w.cells[IF j < i THEN j ELSE j + 1].id
                /\ m.cells[j].selected = w.cells[IF j < i THEN j ELSE j + 1].selected
                /\ m.cells[j].text = w.cells[IF j < i THEN j ELSE j + 1].text
    <3>1. j \in 1..Len(n.cells)
      BY <2>18
    <3>2. CASE j < i
      <4>1. j \in 1..i - 1 /\ j \in DOMAIN w.cells
        BY <3>1, <3>2, <2>7, <2>0, <1>c
      <4> QED BY <4>1, <3>2, <2>13, <2>15, <2>17
    <3>3. CASE ~ (j < i)
      <4>1. j \in i..Len(n.cells) /\ j + 1 \in DOMAIN w.cells
        BY <3>1, <3>3, <2>7, <2>0, <1>c
      <4> QED BY <4>1, <3>3, <2>13, <2>15, <2>17
    <3> QED BY <3>2, <3>3
  <2>20. Distinct(m)
    <3> SUFFICES ASSUME NEW j \in DOMAIN m.cells, NEW k \in DOMAIN m.cells,
                        m.cells[j].id = m.cells[k].id
                 PROVE  j = k
      BY DEF Distinct
    <3>1. (IF j < i THEN j ELSE j + 1) = (IF k < i THEN k ELSE k + 1)
      BY <2>19, <2>6 DEF Good, Distinct
    <3>2. j \in Nat /\ k \in Nat /\ i \in Nat
      BY <2>18, <2>0, <1>c
    <3> QED BY <3>1, <3>2
  <2>21. Selects(m, i)
    <3>1. i \in DOMAIN m.cells
      BY <2>18, <2>0, <1>c
    <3>2. ASSUME NEW j \in DOMAIN m.cells PROVE m.cells[j].selected <=> j = i
      <4>1. (IF j < i THEN j ELSE j + 1) = i + 1 <=> j = i
        BY <2>18, <2>0, <1>c
      <4> QED BY <4>1, <2>19, <2>6 DEF Selects
    <3> QED BY <3>1, <3>2 DEF Selects
  <2>22. Good(m)
    BY <2>17, <2>20, <2>21 DEF Good, Selects
  <2>23. m.cells[i].id # n.cells[i].id
    <3>1. i \in DOMAIN m.cells /\ ~ (i < i)
      BY <2>18, <2>0, <1>c
    <3>2. m.cells[i].id = w.cells[i + 1].id
      BY <3>1, <2>19
    <3> QED BY <3>2, <2>0, <2>6 DEF Grows
  <2>24. ASSUME NEW j \in DOMAIN n.cells PROVE m.cells[j].text = n.cells[j].text
    <3>0. j \in 1..Len(n.cells) /\ j \in DOMAIN m.cells /\ i \in 1..Len(n.cells)
      BY <2>18, <2>0, <1>c
    <3>1. CASE j < i
      <4>1. j \in 1..i + 1 - 1
        BY <3>0, <3>1
      <4>2. w.cells[j].text = n.cells[j].text
        BY <4>1, <2>6 DEF Grows, Alike
      <4> QED BY <3>0, <3>1, <4>2, <2>19
    <3>2. CASE j = i
      <4>1. w.cells[i + 1].text = n.cells[i].text
        BY <2>6, <2>1 DEF ToJSON, Data
      <4> QED BY <3>0, <3>2, <4>1, <2>19
    <3>3. CASE j > i
      <4>1. j \in i + 1..Len(n.cells)
        BY <3>0, <3>3
      <4>2. w.cells[j + 1].text = n.cells[j].text
        BY <4>1, <2>6 DEF Grows, Alike
      <4> QED BY <3>0, <3>3, <4>2, <2>19
    <3> QED BY <3>0, <3>1, <3>2, <3>3
  <2>25. SameLines(n, m)
    BY <2>15, <2>17, <2>24, TextsStay
  <2> QED BY <2>0, <2>6, <2>17, <2>22, <2>23, <2>25 DEF Follows, Relaid, Grows
<1> QED BY <1>1, <1>2, <1>3, <1>4

\* execute_selected_cell as a command; the cell it selects is an old one if it holds text.
LEMMA ExecuteDoes ==
    ASSUME NEW n \in NotebookRecords, Good(n), Fits(n), NEW m, m = Execute(n, TRUE)
    PROVE  /\ m \in NotebookRecords /\ Follows(n, m) /\ Links(n, m) /\ SameLines(n, m)
           /\ HasCell(n) /\ Current(m).text # <<>> => Len(m.cells) = Len(n.cells)
<1>i. PICK i \in Int : i = SelectedIndex(n)
  <2>1. SelectedIndex(n) \in Int
    BY GoodSelects, CellsOf DEF Null
  <2> QED BY <2>1
<1>1. CASE HasCell(n) /\ i = Len(n.cells)
  <2>1. m = Dirty(InsertBelow(n, "code", Null))
    BY <1>1, <1>i DEF Execute
  <2>2. PICK k \in Int : k = IndexOrSelected(n, Null) + 1
    BY IndexIs DEF Null
  <2>3. PICK j : j = Clamp(k, 1, Len(n.cells) + 1)
    OBVIOUS
  <2>4. PICK x : x = InsertCell(n, "code", k)
    OBVIOUS
  <2>t. "code" \in Types
    BY DEF Types
  <2>5. /\ Good(x) /\ Selects(x, j) /\ Grows(n, x, j)
        /\ ToJSON(x.cells[j]) = Data("code", <<>>, 1)
    BY <2>t, <2>3, <2>4, InsertCellDoes
  <2>6. m = Dirty(x) /\ x \in NotebookRecords
    BY <2>1, <2>2, <2>4, <2>5 DEF InsertBelow, Good
  <2>7. m \in NotebookRecords /\ Good(m) /\ Mirrors(x, m) /\ m.dirty /\ m.cells = x.cells
        /\ Selects(m, j)
    BY <2>5, <2>6, DirtyDoes, DirtyIs
  <2>8. Follows(n, m) /\ Links(n, m)
    <3>1. Follows(n, x) /\ Links(n, x)
      BY <2>5, GrowsDoes
    <3> QED BY <3>1, <2>6, <2>7, MirrorsFollow, MirrorsLink, LinksTrans
  <2>9. Current(m).text = <<>>
    <3>1. SelectedIndex(m) = j
      BY <2>7, SelectsIs
    <3> QED BY <3>1, <2>5, <2>7 DEF Current, ToJSON, Data
  <2>10. SameLines(n, m)
    <3>1. x.cells[j].text = <<>>
      BY <2>5 DEF ToJSON, Data
    <3>2. SameLines(n, x)
      BY <3>1, <2>5, <2>6, BlankLines
    <3> QED BY <3>2, <2>6, <2>7, MirrorsLines, LinesTrans
  <2> QED BY <2>7, <2>8, <2>9, <2>10
<1>2. CASE ~ (HasCell(n) /\ i = Len(n.cells))
  <2>1. m = Dirty(Select(n, i + 1))
    BY <1>2, <1>i DEF Execute
  <2>2. PICK x : x = Select(n, i + 1)
    OBVIOUS
  <2>3. x \in NotebookRecords /\ Good(x) /\ Mirrors(n, x) /\ x.dirty = n.dirty
    BY <2>2, SelectDoes
  <2>4. m \in NotebookRecords /\ Good(m) /\ Mirrors(x, m) /\ m.dirty
    BY <2>1, <2>2, <2>3, DirtyDoes
  <2>5. Mirrors(n, m)
    BY <2>3, <2>4, MirrorsTrans
  <2> QED BY <2>4, <2>5, FollowsSelf, MirrorsFollow, MirrorsLink, MirrorsLines DEF Mirrors
<1> QED BY <1>1, <1>2

\* execute_cell_range as a command.
LEMMA ExecuteRangeDoes ==
    ASSUME NEW n \in NotebookRecords, Good(n), NEW lo \in Int, NEW hi \in Int,
           NEW m, m = ExecuteRange(n, lo, hi)
    PROVE  m \in NotebookRecords /\ Follows(n, m) /\ Links(n, m)
<1>1. CASE lo > hi
  <2>1. m = n
    BY <1>1 DEF ExecuteRange
  <2> QED BY <2>1, FollowsSelf
<1>2. CASE ~ (lo > hi)
  <2>1. PICK to \in Int : to = Clamp(hi + 1, 1, Len(n.cells))
    BY CellsOf DEF Clamp
  <2>2. PICK x : x = Select(n, lo)
    OBVIOUS
  <2>3. PICK y : y = Select(x, hi)
    OBVIOUS
  <2>4. PICK z : z = Select(y, to)
    OBVIOUS
  <2>5. x \in NotebookRecords /\ Good(x) /\ Mirrors(n, x)
    BY <2>2, SelectDoes
  <2>6. y \in NotebookRecords /\ Good(y) /\ Mirrors(x, y)
    BY <2>3, <2>5, SelectDoes
  <2>7. z \in NotebookRecords /\ Good(z) /\ Mirrors(y, z)
    BY <2>4, <2>6, SelectDoes
  <2>8. m = Dirty(z)
    BY <1>2, <2>1, <2>2, <2>3, <2>4 DEF ExecuteRange
  <2>9. m \in NotebookRecords /\ Good(m) /\ Mirrors(z, m) /\ m.dirty
    BY <2>7, <2>8, DirtyDoes
  <2>10. Mirrors(n, m)
    BY <2>5, <2>6, <2>7, <2>9, MirrorsTrans
  <2> QED BY <2>9, <2>10, FollowsSelf, MirrorsFollow, MirrorsLink
<1> QED BY <1>1, <1>2

-----------------------------------------------------------------------------
(* Undelete.                                                                *)

\* delete_cell remembers the selected cell and a neighbour that stays.
LEMMA DeleteRemembers ==
    ASSUME NEW n \in NotebookRecords, Good(n), HasCell(n), NEW s, s = SelectedIndex(n),
           NEW m, Good(m), Shrinks(n, m, s), NEW g,
           g = [data |-> ToJSON(n.cells[s]),
                above |-> IF Inside(n, s - 1) THEN n.cells[s - 1].id ELSE Null,
                below |-> IF Inside(n, s + 1) THEN n.cells[s + 1].id ELSE Null]
    PROVE  g \in GoneRecords /\ Linked(m, g)
<1>c. /\ Len(n.cells) \in Nat /\ DOMAIN n.cells = 1..Len(n.cells)
      /\ \A j \in DOMAIN n.cells : n.cells[j].id \in 1..MaxCells + 1
  <2>1. \A j \in DOMAIN n.cells : n.cells[j] \in CellRecords
    BY CellsOf
  <2> QED BY <2>1, CellsOf DEF CellRecords
<1>s. s \in 1..Len(n.cells) /\ MaxCells \in Nat
  BY GoodSelects, NotebookAssumption
<1>m. DOMAIN m.cells = 1..Len(n.cells) - 1
  BY <1>c, CellsOf DEF Good, Shrinks
<1>d. ToJSON(n.cells[s]) \in DataRecords
  <2>1. n.cells[s] \in CellRecords
    BY <1>c, <1>s, CellsOf
  <2> QED BY <2>1 DEF ToJSON, Data, DataRecords, CellRecords
<1>1. g \in GoneRecords
  <2>1. g.above \in 0..MaxCells + 1 /\ g.below \in 0..MaxCells + 1
    BY <1>c, <1>s DEF Inside, Null
  <2> QED BY <2>1, <1>d DEF GoneRecords
<1>2. m.backup = <<g.data>>
  BY DEF Shrinks
<1>u. /\ m.uindex = (IF s = Len(n.cells) THEN s - 1 ELSE s)
      /\ m.below = (s = Len(n.cells))
  BY DEF Shrinks
<1>n. s \in Nat /\ 1 <= s /\ s <= Len(n.cells) /\ Len(n.cells) \in Nat
  BY <1>c, <1>s
<1>3. CASE s = Len(n.cells) /\ s = 1
  <2>1. g.above = Null /\ g.below = Null /\ m.uindex # NoIndex
    BY <1>3, <1>c DEF Inside, Shrinks, NoIndex
  <2> QED BY <2>1, <1>1, <1>2 DEF Linked
<1>4. CASE s = Len(n.cells) /\ s # 1
  <2>1. s - 1 \in DOMAIN n.cells /\ s - 1 \in 1..s - 1 /\ s - 1 \in DOMAIN m.cells
    <3>0. PICK l \in Nat, r \in Nat : l = Len(n.cells) /\ r = s
      BY <1>n
    <3>1. s - 1 \in Nat /\ 1 <= s - 1 /\ s - 1 <= Len(n.cells) - 1
      <4>1. r = l /\ r # 1 /\ 1 <= r
        BY <1>4, <1>n, <3>0
      <4>2. r - 1 \in Nat /\ 1 <= r - 1 /\ r - 1 <= l - 1
        BY <4>1
      <4> QED BY <4>2, <3>0
    <3> QED BY <3>1, <1>n, <1>c, <1>m
  <2>2. m.uindex = s - 1 /\ m.below /\ m.uindex # NoIndex
    <3>1. m.uindex = s - 1 /\ m.below
      BY <1>4, <1>u
    <3> QED BY <3>1, <1>n DEF NoIndex
  <2>3. g.above = n.cells[s - 1].id /\ g.above # Null
    BY <2>1, <1>c DEF Inside, Null
  <2>4. m.cells[s - 1].id = n.cells[s - 1].id
    BY <2>1 DEF Shrinks, Alike
  <2> QED BY <2>1, <2>2, <2>3, <2>4, <1>1, <1>2 DEF Linked
<1>5. CASE s # Len(n.cells)
  <2>1. s + 1 \in DOMAIN n.cells /\ s \in s..Len(n.cells) - 1 /\ s \in DOMAIN m.cells
    BY <1>5, <1>c, <1>s, <1>m
  <2>2. m.uindex = s /\ ~ m.below /\ m.uindex # NoIndex
    <3>1. m.uindex = s /\ ~ m.below
      BY <1>5, <1>u
    <3> QED BY <3>1, <1>n DEF NoIndex
  <2>3. g.below = n.cells[s + 1].id /\ g.below # Null
    BY <2>1, <1>c DEF Inside, Null
  <2>4. m.cells[s].id = n.cells[s + 1].id
    BY <2>1 DEF Shrinks, Alike
  <2> QED BY <2>1, <2>2, <2>3, <2>4, <1>1, <1>2 DEF Linked
<1> QED BY <1>3, <1>4, <1>5, <1>s

\* The deleted cell is back, beside the neighbour it had.
Returned(n, m, g) ==
    \E j \in DOMAIN m.cells :
        /\ m.cells[j].id \notin {n.cells[i].id : i \in DOMAIN n.cells}
        /\ ToJSON(m.cells[j]) = g.data
        /\ \/ g.above = Null /\ g.below = Null
           \/ g.above # Null /\ j > 1 /\ m.cells[j - 1].id = g.above
           \/ g.below # Null /\ j < Len(m.cells) /\ m.cells[j + 1].id = g.below

\* undelete_cell: the cell is back, next to a neighbour it had.
LEMMA UndeleteDoes ==
    ASSUME NEW n \in NotebookRecords, Good(n), Fits(n), NEW m, m = Undelete(n)
    PROVE  /\ m \in NotebookRecords /\ Follows(n, m)
           /\ \A g \in GoneRecords : Linked(n, g) => Returned(n, m, g)
<1>c. /\ Len(n.cells) \in Nat /\ DOMAIN n.cells = 1..Len(n.cells)
      /\ n.backup \in Seq(DataRecords) /\ n.uindex \in Nat \cup {NoIndex} /\ n.below \in BOOLEAN
  BY CellsOf DEF NotebookRecords
<1>1. CASE n.backup = <<>> \/ n.uindex = NoIndex
  <2>1. m = n
    BY <1>1 DEF Undelete
  <2>2. ASSUME NEW g \in GoneRecords PROVE ~ Linked(n, g)
    <3>1. n.backup = <<g.data>> => n.backup # <<>>
      OBVIOUS
    <3> QED BY <3>1, <1>1 DEF Linked
  <2> QED BY <2>1, <2>2, FollowsSelf
<1>2. CASE ~ (n.backup = <<>> \/ n.uindex = NoIndex)
  <2>d. PICK data \in DataRecords : data = n.backup[1]
    BY <1>2, <1>c
  <2>t. data.type \in Types /\ data.text \in Seq(STRING) /\ data.level \in Nat
    BY DEF DataRecords
  <2>u. PICK u \in Nat : u = (IF n.uindex > Len(n.cells) THEN Len(n.cells) ELSE n.uindex)
    BY <1>2, <1>c
  <2>b. PICK back \in Int : back = (IF n.uindex < SelectedIndex(n) THEN SelectedIndex(n) + 1 ELSE SelectedIndex(n))
    <3>1. SelectedIndex(n) \in Int
      BY GoodSelects, <1>c DEF Null
    <3> QED BY <3>1
  <2>a. PICK a : a = Select(n, u)
    OBVIOUS
  <2>1. /\ a \in NotebookRecords /\ Good(a) /\ Mirrors(n, a)
        /\ u \in DOMAIN n.cells => Selects(a, u)
    BY <2>a, SelectDoes
  <2>2. /\ Fits(a) /\ DOMAIN a.cells = DOMAIN n.cells /\ Len(a.cells) = Len(n.cells)
    BY <2>1, CellsOf DEF Fits, Mirrors
  <2>3. PICK k \in Int : k = IF n.below THEN IndexOrSelected(a, Null) + 1 ELSE IndexOrSelected(a, Null)
    <3>1. IndexOrSelected(a, Null) \in Int
      BY <2>1, IndexIs DEF Null
    <3> QED BY <3>1
  <2>4. PICK i : i = Clamp(k, 1, Len(a.cells) + 1)
    OBVIOUS
  <2>5. PICK f : f = Filled(InsertCell(a, data.type, k), data)
    OBVIOUS
  <2>6. PICK x : x = Select(f, back)
    OBVIOUS
  <2>7. m = [x EXCEPT !.backup = <<>>, !.uindex = NoIndex]
    <3>1. f = Filled(IF n.below THEN InsertBelow(a, data.type, Null) ELSE InsertAbove(a, data.type, Null), data)
      BY <2>3, <2>5 DEF InsertBelow, InsertAbove
    <3>2. m = [Select(f, back) EXCEPT !.backup = <<>>, !.uindex = NoIndex]
      BY <1>2, <2>d, <2>u, <2>b, <2>a, <3>1 DEF Undelete
    <3> QED BY <3>2, <2>6
  <2>8. /\ Good(f) /\ Selects(f, i) /\ Grows(a, f, i)
        /\ ToJSON(f.cells[i]) = Data(data.type, data.text, data.level)
    BY <2>1, <2>2, <2>4, <2>5, <2>t, InsertFilled
  <2>9. x \in NotebookRecords /\ Good(x) /\ Mirrors(f, x) /\ x.dirty = f.dirty
    BY <2>6, <2>8, SelectDoes DEF Good
  <2>10. m \in NotebookRecords /\ m.cells = x.cells /\ m.dirty = x.dirty
    <3>1. <<>> \in Seq(DataRecords) /\ NoIndex \in Nat \cup {NoIndex}
      OBVIOUS
    <3> QED BY <3>1, <2>7, <2>9 DEF NotebookRecords
  <2>11. Good(m)
    BY <2>9, <2>10 DEF Good, Distinct, HasCell, Selects
  <2>12. /\ Len(m.cells) = Len(n.cells) + 1 /\ DOMAIN m.cells = 1..Len(n.cells) + 1
         /\ DOMAIN f.cells = 1..Len(n.cells) + 1 /\ i \in 1..Len(n.cells) + 1
    BY <2>2, <2>8, <2>9, <2>10, <1>c, CellsOf DEF Good, Grows, Mirrors
  <2>13. \A j \in DOMAIN f.cells : Alike(m.cells[j], f.cells[j])
    BY <2>9, <2>10 DEF Mirrors
  <2>14. Follows(n, m)
    BY <2>8, <2>9, <2>10, <2>11, <2>12, <1>c DEF Follows, Relaid, Grows
  <2>15. ASSUME NEW g \in GoneRecords, Linked(n, g) PROVE Returned(n, m, g)
    <3>1. i \in DOMAIN m.cells /\ i \in DOMAIN f.cells
      BY <2>12
    <3>2. m.cells[i].id \notin {n.cells[j].id : j \in DOMAIN n.cells}
      <4>1. \A j \in DOMAIN n.cells : a.cells[j].id = n.cells[j].id
        BY <2>1 DEF Mirrors, Alike
      <4>2. \A j \in DOMAIN n.cells : a.cells[j].id # f.cells[i].id
        BY <2>2, <2>8 DEF Grows
      <4>3. m.cells[i].id = f.cells[i].id
        BY <3>1, <2>13 DEF Alike
      <4> QED BY <4>1, <4>2, <4>3
    <3>3. ToJSON(m.cells[i]) = g.data
      <4>1. g.data = data
        BY <2>15, <2>d DEF Linked
      <4>2. ToJSON(m.cells[i]) = ToJSON(f.cells[i])
        BY <3>1, <2>13 DEF Alike, ToJSON
      <4>3. Data(data.type, data.text, data.level) = data
        BY DEF Data, DataRecords
      <4> QED BY <4>1, <4>2, <4>3, <2>8
    <3>4. CASE g.above = Null /\ g.below = Null
      BY <3>1, <3>2, <3>3, <3>4 DEF Returned
    <3>5. CASE /\ g.below # Null /\ ~ n.below /\ n.uindex \in DOMAIN n.cells
               /\ n.cells[n.uindex].id = g.below
      <4>1. u = n.uindex /\ u \in DOMAIN n.cells
        BY <3>5, <2>u, <1>c
      <4>2. k = u /\ i = u
        <5>1. SelectedIndex(a) = u /\ HasCell(a)
          BY <4>1, <2>1, <2>2, SelectsIs, CellsOf
        <5>2. IndexOrSelected(a, Null) = u
          BY <5>1, <2>1, IndexIs DEF Null
        <5> QED BY <5>2, <4>1, <3>5, <2>2, <2>3, <2>4, <1>c DEF Clamp
      <4>3. u \in i..Len(a.cells) /\ u + 1 \in DOMAIN f.cells /\ i + 1 = u + 1
        BY <4>1, <4>2, <2>2, <2>12, <1>c
      <4>4. m.cells[i + 1].id = g.below
        <5>1. f.cells[u + 1].id = a.cells[u].id
          BY <4>3, <2>8 DEF Grows, Alike
        <5>2. a.cells[u].id = n.cells[u].id
          BY <4>1, <2>1 DEF Mirrors, Alike
        <5>3. m.cells[u + 1].id = f.cells[u + 1].id
          BY <4>3, <2>13 DEF Alike
        <5> QED BY <5>1, <5>2, <5>3, <4>1, <4>2, <3>5
      <4>5. i < Len(m.cells)
        BY <4>1, <4>2, <2>12, <1>c
      <4> QED BY <3>1, <3>2, <3>3, <3>5, <4>4, <4>5 DEF Returned
    <3>6. CASE /\ g.above # Null /\ n.below /\ n.uindex \in DOMAIN n.cells
               /\ n.cells[n.uindex].id = g.above
      <4>1. u = n.uindex /\ u \in DOMAIN n.cells
        BY <3>6, <2>u, <1>c
      <4>2. k = u + 1 /\ i = u + 1
        <5>1. SelectedIndex(a) = u /\ HasCell(a)
          BY <4>1, <2>1, <2>2, SelectsIs, CellsOf
        <5>2. IndexOrSelected(a, Null) = u
          BY <5>1, <2>1, IndexIs DEF Null
        <5> QED BY <5>2, <4>1, <3>6, <2>2, <2>3, <2>4, <1>c DEF Clamp
      <4>3. u \in 1..i - 1 /\ u \in DOMAIN f.cells /\ i - 1 = u
        BY <4>1, <4>2, <2>12, <1>c
      <4>4. m.cells[i - 1].id = g.above
        <5>1. f.cells[u].id = a.cells[u].id
          BY <4>3, <2>8 DEF Grows, Alike
        <5>2. a.cells[u].id = n.cells[u].id
          BY <4>1, <2>1 DEF Mirrors, Alike
        <5>3. m.cells[u].id = f.cells[u].id
          BY <4>3, <2>13 DEF Alike
        <5> QED BY <5>1, <5>2, <5>3, <4>1, <4>3, <3>6
      <4>5. i > 1
        BY <4>1, <4>2, <1>c
      <4> QED BY <3>1, <3>2, <3>3, <3>6, <4>4, <4>5 DEF Returned
    <3> QED BY <2>15, <3>4, <3>5, <3>6 DEF Linked
  <2> QED BY <2>10, <2>14, <2>15
<1> QED BY <1>1, <1>2

-----------------------------------------------------------------------------
(* Loading: fromJSON deletes every cell, then inserts the file's.           *)

\* The first loop of fromJSON leaves no cell.
LEMMA DeleteAllDoes ==
    ASSUME NEW n \in NotebookRecords, Good(n)
    PROVE  LET m == DeleteAll(n)
           IN  /\ m \in NotebookRecords /\ Good(m) /\ ~ HasCell(m)
               /\ HasCell(n) => m.dirty
               /\ ~ HasCell(n) => m = n
<1> DEFINE N == Len(n.cells)
<1> DEFINE Left(k) == {m \in NotebookRecords : Good(m) /\ Len(m.cells) = N - k /\ (k # 0 => m.dirty)}
<1> DEFINE A == [k \in 0..N |-> Left(k)]
<1> DEFINE step == [k \in 1..N |-> [m \in A[k - 1] |-> Delete(m, 1)]]
<1> DEFINE IsLoop(d) == d = [k \in 0..N |-> IF k = 0 THEN n ELSE Delete(d[k - 1], 1)]
<1>0. N \in Nat
  BY CellsOf
<1>1. n \in A[0]
  BY <1>0
<1>2. ASSUME NEW k \in 1..N, NEW m \in A[k - 1] PROVE Delete(m, 1) \in A[k]
  <2>0. k - 1 \in 0..N /\ k \in 0..N /\ k # 0
    BY <1>0
  <2>1. m \in NotebookRecords /\ Good(m) /\ Len(m.cells) = N - (k - 1)
    BY <1>2, <2>0
  <2>2. 1 \in DOMAIN m.cells
    BY <2>1, <1>0, CellsOf
  <2>3. IndexOrSelected(m, 1) = 1
    BY <2>1, IndexIs DEF Null
  <2>4. PICK x : x = Delete(m, 1)
    OBVIOUS
  <2>5. Good(x) /\ Shrinks(m, x, 1)
    BY <2>1, <2>2, <2>3, <2>4, DeleteDoes
  <2>6. Len(x.cells) = N - k /\ x.dirty
    BY <2>1, <2>5, <1>0 DEF Shrinks
  <2> QED BY <2>0, <2>4, <2>5, <2>6 DEF Good
<1>3. \A k \in 1..N : \A m \in A[k - 1] : step[k][m] \in A[k]
  <2> HIDE DEF A
  <2> QED BY <1>2
<1>4. PICK g : Runs(g, N, A, step, n)
  <2> HIDE DEF A, step, N
  <2> QED BY <1>0, <1>1, <1>3, LoopExists
<1>5. IsLoop(g)
  <2> HIDE DEF A, N
  <2>1. \A k \in 1..N : g[k] = Delete(g[k - 1], 1)
    BY <1>4 DEF Runs
  <2>2. ASSUME NEW k \in 0..N PROVE g[k] = IF k = 0 THEN n ELSE Delete(g[k - 1], 1)
    <3>1. CASE k = 0
      BY <3>1, <1>4 DEF Runs
    <3>2. CASE k # 0
      <4>1. k \in 1..N
        BY <3>2, <1>0
      <4> QED BY <4>1, <3>2, <2>1
    <3> QED BY <3>1, <3>2
  <2>3. g = [k \in 0..N |-> g[k]]
    BY <1>4 DEF Runs
  <2> QED BY <2>2, <2>3
<1>6. PICK d : d = Deleting(n)
  OBVIOUS
<1>7. IsLoop(d)
  <2>1. Deleting(n) = CHOOSE f : IsLoop(f)
    BY Zenon DEF Deleting
  <2> HIDE DEF IsLoop
  <2> QED BY <1>5, <1>6, <2>1
<1>8. d[0] = n /\ \A k \in 1..N : d[k] = Delete(d[k - 1], 1)
  <2> HIDE DEF N
  <2>1. \A k \in 0..N : d[k] = IF k = 0 THEN n ELSE Delete(d[k - 1], 1)
    BY <1>7
  <2>2. 0 \in 0..N /\ \A k \in 1..N : k \in 0..N /\ k # 0
    BY <1>0
  <2> QED BY <2>1, <2>2
<1>9. \A k \in 0..N : d[k] \in A[k]
  <2> HIDE DEF A, N
  <2>1. \A k \in 1..N : d[k - 1] \in A[k - 1] => d[k] \in A[k]
    BY <1>2, <1>8
  <2>2. d[0] \in A[0]
    BY <1>1, <1>8
  <2> QED BY <2>1, <2>2, <1>0, EachRound
<1>10. d[N] \in Left(N)
  <2>1. N \in 0..N
    BY <1>0
  <2>2. A[N] = Left(N)
    BY <2>1
  <2> HIDE DEF A, N, Left
  <2> QED BY <2>1, <2>2, <1>9
<1>11. DeleteAll(n) = d[N]
  BY <1>6 DEF DeleteAll
<1> HIDE DEF A, step, IsLoop
<1>12. d[N] \in NotebookRecords /\ Good(d[N]) /\ Len(d[N].cells) = 0 /\ (N # 0 => d[N].dirty)
  BY <1>0, <1>10
<1>13. ~ HasCell(d[N]) /\ (HasCell(n) <=> N # 0)
  BY <1>12, CellsOf
<1>14. N = 0 => d[N] = n
  BY <1>8
<1> QED BY <1>11, <1>12, <1>13, <1>14

\* The data of a file's cell under the cell's present type.
Renamed(data) == [data EXCEPT !.type = FileType(@)]

\* Renaming makes cell data of a file into cell data of a notebook.
LEMMA RenamedIs ==
    ASSUME NEW data \in FileCells
    PROVE  /\ Renamed(data) \in DataRecords /\ FileType(data.type) \in Types
           /\ data.text \in Seq(STRING) /\ data.level \in Nat
           /\ Renamed(data) = Data(FileType(data.type), data.text, data.level)
<1>1. data.type \in Types \cup {"plaintext"} /\ data.text \in Seq(STRING) /\ data.level \in Nat
  BY DEF FileCells
<1>2. FileType(data.type) \in Types
  BY <1>1 DEF FileType, Types
<1>3. PICK t \in Types : t = FileType(data.type)
  BY <1>2
<1>4. Renamed(data) = [data EXCEPT !.type = t]
  BY <1>3 DEF Renamed
<1>5. [data EXCEPT !.type = t] = [type |-> t, text |-> data.text, level |-> data.level]
  BY DEF FileCells
<1> QED BY <1>1, <1>3, <1>4, <1>5 DEF Data, DataRecords

\* After round k the first k cells are the file's, and the last of them is selected.
Holding(k, cells) ==
    {m \in NotebookRecords : /\ Good(m) /\ Len(m.cells) = k
                             /\ \A j \in 1..k : ToJSON(m.cells[j]) = Renamed(cells[j])
                             /\ k # 0 => Selects(m, k) /\ m.dirty}

\* One round of the second loop of fromJSON.
LEMMA InsertDataDoes ==
    ASSUME NEW cells \in Seq(FileCells), Len(cells) <= MaxCells, NEW k \in 1..Len(cells),
           NEW n \in Holding(k - 1, cells), NEW m, m = InsertData(n, cells[k])
    PROVE  m \in Holding(k, cells)
<1>0. /\ Len(cells) \in Nat /\ k \in Nat /\ 1 <= k /\ k <= Len(cells) /\ MaxCells \in Nat
      /\ cells[k] \in FileCells
  BY NotebookAssumption
<1>1. /\ n \in NotebookRecords /\ Good(n) /\ Len(n.cells) = k - 1
      /\ \A j \in 1..k - 1 : ToJSON(n.cells[j]) = Renamed(cells[j])
      /\ k - 1 # 0 => Selects(n, k - 1)
  BY DEF Holding
<1>2. Fits(n) /\ DOMAIN n.cells = 1..k - 1 /\ (HasCell(n) <=> k - 1 # 0)
  BY <1>0, <1>1, CellsOf DEF Fits
<1>d. PICK data \in FileCells : data = cells[k]
  BY <1>0
<1>t. /\ FileType(data.type) \in Types /\ data.text \in Seq(STRING) /\ data.level \in Nat
      /\ Renamed(data) = Data(FileType(data.type), data.text, data.level)
  BY RenamedIs
<1>3. PICK x \in Int : x = IndexOrSelected(n, Null) + 1
  BY <1>1, IndexIs DEF Null
<1>4. k = Clamp(x, 1, Len(n.cells) + 1)
  <2>1. CASE k = 1
    <3>1. ~ HasCell(n)
      BY <2>1, <1>2
    <3>2. x = 2
      BY <3>1, <1>1, <1>3, IndexIs DEF Null
    <3> QED BY <3>2, <2>1, <1>1 DEF Clamp
  <2>2. CASE k # 1
    <3>1. HasCell(n) /\ Selects(n, k - 1)
      BY <2>2, <1>0, <1>1, <1>2
    <3>2. SelectedIndex(n) = k - 1
      BY <3>1, <1>1, SelectsIs
    <3>3. x = k
      BY <3>1, <3>2, <1>0, <1>1, <1>3, IndexIs DEF Null
    <3> QED BY <3>3, <1>0, <1>1 DEF Clamp
  <2> QED BY <2>1, <2>2
<1>5. m = Filled(InsertCell(n, FileType(data.type), x), data)
  BY <1>d, <1>3 DEF InsertData, InsertBelow
<1>6. /\ Good(m) /\ Selects(m, k) /\ Grows(n, m, k)
      /\ ToJSON(m.cells[k]) = Data(FileType(data.type), data.text, data.level)
  BY <1>1, <1>2, <1>4, <1>5, <1>t, InsertFilled
<1>7. \A j \in 1..k : ToJSON(m.cells[j]) = Renamed(cells[j])
  <2> TAKE j \in 1..k
  <2>1. CASE j = k
    BY <2>1, <1>6, <1>t, <1>d
  <2>2. CASE j # k
    <3>1. j \in 1..k - 1
      BY <2>2, <1>0
    <3>2. Alike(m.cells[j], n.cells[j])
      BY <3>1, <1>6 DEF Grows
    <3> QED BY <3>1, <3>2, <1>1 DEF Alike, ToJSON
  <2> QED BY <2>1, <2>2
<1>8. Len(m.cells) = k /\ m.dirty /\ m \in NotebookRecords
  BY <1>0, <1>1, <1>6 DEF Grows, Good
<1> QED BY <1>6, <1>7, <1>8 DEF Holding

\* The second loop of fromJSON.
LEMMA InsertAllDoes ==
    ASSUME NEW n \in NotebookRecords, Good(n), ~ HasCell(n),
           NEW cells \in Seq(FileCells), Len(cells) <= MaxCells
    PROVE  /\ InsertAll(n, cells) \in Holding(Len(cells), cells)
           /\ Len(cells) = 0 => InsertAll(n, cells) = n
<1> DEFINE N == Len(cells)
<1> DEFINE A == [k \in 0..N |-> Holding(k, cells)]
<1> DEFINE step == [k \in 1..N |-> [m \in A[k - 1] |-> InsertData(m, cells[k])]]
<1> DEFINE IsLoop(d) == d = [k \in 0..N |-> IF k = 0 THEN n ELSE InsertData(d[k - 1], cells[k])]
<1>0. N \in Nat
  OBVIOUS
<1>1. n \in A[0]
  BY <1>0, CellsOf DEF Holding
<1>2. ASSUME NEW k \in 1..N, NEW m \in A[k - 1] PROVE InsertData(m, cells[k]) \in A[k]
  <2>0. k - 1 \in 0..N /\ k \in 0..N
    BY <1>0
  <2>1. m \in Holding(k - 1, cells)
    BY <1>2, <2>0
  <2> QED BY <2>0, <2>1, InsertDataDoes
<1>3. \A k \in 1..N : \A m \in A[k - 1] : step[k][m] \in A[k]
  <2> HIDE DEF A
  <2> QED BY <1>2
<1>4. PICK g : Runs(g, N, A, step, n)
  <2> HIDE DEF A, step, N
  <2> QED BY <1>0, <1>1, <1>3, LoopExists
<1>5. IsLoop(g)
  <2> HIDE DEF A, N
  <2>1. \A k \in 1..N : g[k] = InsertData(g[k - 1], cells[k])
    BY <1>4 DEF Runs
  <2>2. ASSUME NEW k \in 0..N PROVE g[k] = IF k = 0 THEN n ELSE InsertData(g[k - 1], cells[k])
    <3>1. CASE k = 0
      BY <3>1, <1>4 DEF Runs
    <3>2. CASE k # 0
      <4>1. k \in 1..N
        BY <3>2, <1>0
      <4> QED BY <4>1, <3>2, <2>1
    <3> QED BY <3>1, <3>2
  <2>3. g = [k \in 0..N |-> g[k]]
    BY <1>4 DEF Runs
  <2> QED BY <2>2, <2>3
<1>6. PICK d : d = Inserting(n, cells)
  OBVIOUS
<1>7. IsLoop(d)
  <2>1. Inserting(n, cells) = CHOOSE f : IsLoop(f)
    BY Zenon DEF Inserting
  <2> HIDE DEF IsLoop
  <2> QED BY <1>5, <1>6, <2>1
<1>8. d[0] = n /\ \A k \in 1..N : d[k] = InsertData(d[k - 1], cells[k])
  <2> HIDE DEF N
  <2>1. \A k \in 0..N : d[k] = IF k = 0 THEN n ELSE InsertData(d[k - 1], cells[k])
    BY <1>7
  <2>2. 0 \in 0..N /\ \A k \in 1..N : k \in 0..N /\ k # 0
    BY <1>0
  <2> QED BY <2>1, <2>2
<1>9. \A k \in 0..N : d[k] \in A[k]
  <2> HIDE DEF A, N
  <2>1. \A k \in 1..N : d[k - 1] \in A[k - 1] => d[k] \in A[k]
    BY <1>2, <1>8
  <2>2. d[0] \in A[0]
    BY <1>1, <1>8
  <2> QED BY <2>1, <2>2, <1>0, EachRound
<1>10. d[N] \in Holding(N, cells)
  <2>1. N \in 0..N
    BY <1>0
  <2>2. A[N] = Holding(N, cells)
    BY <2>1
  <2> HIDE DEF A, N
  <2> QED BY <2>1, <2>2, <1>9
<1>11. InsertAll(n, cells) = d[N]
  BY <1>6 DEF InsertAll
<1> QED BY <1>8, <1>10, <1>11

\* fromJSON: the notebook holds the file's cells, in their order.
LEMMA FromJSONDoes ==
    ASSUME NEW n \in NotebookRecords, Good(n), NEW f \in Files
    PROVE  /\ f \in Seq(FileCells) /\ FromJSON(n, f) \in Holding(Len(f), f)
           /\ HasCell(n) /\ Len(f) = 0 => FromJSON(n, f).dirty
           /\ ~ HasCell(n) /\ Len(f) = 0 => FromJSON(n, f) = n
<1>1. f \in Seq(FileCells) /\ Len(f) <= MaxCells
  BY NotebookAssumption
<1>2. PICK e : e = DeleteAll(n)
  OBVIOUS
<1>3. /\ e \in NotebookRecords /\ Good(e) /\ ~ HasCell(e)
      /\ HasCell(n) => e.dirty
      /\ ~ HasCell(n) => e = n
  BY <1>2, DeleteAllDoes
<1>4. FromJSON(n, f) = InsertAll(e, f)
  BY <1>2 DEF FromJSON
<1> QED BY <1>1, <1>3, <1>4, InsertAllDoes

\* A loaded notebook holds the file, and is not marked.
LEMMA LoadedDoes ==
    ASSUME NEW n \in NotebookRecords, Good(n), NEW f \in Files, NEW m, m = LoadedWith(n, f)
    PROVE  /\ m \in NotebookRecords /\ Good(m) /\ Fits(m)
           /\ FileContents(f) \in Seq(DataRecords) /\ Len(m.cells) = Len(FileContents(f))
           /\ \A j \in DOMAIN m.cells : ToJSON(m.cells[j]) = FileContents(f)[j]
<1>0. f \in Seq(FileCells) /\ Len(f) <= MaxCells /\ Len(f) \in Nat /\ MaxCells \in Nat \ {0}
  BY NotebookAssumption
<1>1. PICK from : from = FromJSON(n, f)
  OBVIOUS
<1>2. from \in Holding(Len(f), f)
  BY <1>1, FromJSONDoes
<1>3. /\ from \in NotebookRecords /\ Good(from) /\ Len(from.cells) = Len(f)
      /\ \A j \in 1..Len(f) : ToJSON(from.cells[j]) = Renamed(f[j])
  BY <1>2 DEF Holding
<1>4. PICK full : full = IF HasCell(from) THEN from ELSE InsertBelow(from, "code", Null)
  OBVIOUS
<1>5. /\ full \in NotebookRecords /\ Good(full) /\ Len(full.cells) <= MaxCells
      /\ FileContents(f) \in Seq(DataRecords) /\ Len(full.cells) = Len(FileContents(f))
      /\ \A j \in DOMAIN full.cells : ToJSON(full.cells[j]) = FileContents(f)[j]
  <2>1. CASE HasCell(from)
    <3>1. full = from /\ Len(f) # 0 /\ DOMAIN from.cells = 1..Len(f)
      BY <2>1, <1>3, <1>4, CellsOf
    <3>2. FileContents(f) = [i \in DOMAIN f |-> Renamed(f[i])]
      <4>1. f # <<>>
        BY <3>1
      <4> QED BY <4>1 DEF FileContents, Renamed
    <3>3. \A i \in 1..Len(f) : Renamed(f[i]) \in DataRecords
      <4> TAKE i \in 1..Len(f)
      <4>1. f[i] \in FileCells
        BY <1>0
      <4> QED BY <4>1, RenamedIs
    <3>4. DOMAIN f = 1..Len(f)
      BY <1>0
    <3>5. /\ FileContents(f) \in Seq(DataRecords) /\ Len(FileContents(f)) = Len(f)
          /\ \A i \in 1..Len(f) : FileContents(f)[i] = Renamed(f[i])
      BY <3>2, <3>3, <3>4, <1>0
    <3> QED BY <3>1, <3>5, <1>0, <1>3
  <2>2. CASE ~ HasCell(from)
    <3>1. Len(f) = 0 /\ f = <<>> /\ Len(from.cells) = 0
      BY <2>2, <1>0, <1>3, CellsOf
    <3>2. PICK k \in Int : k = IndexOrSelected(from, Null) + 1
      BY <1>3, IndexIs DEF Null
    <3>3. full = InsertCell(from, "code", k)
      BY <2>2, <1>4, <3>2 DEF InsertBelow
    <3>4. 1 = Clamp(k, 1, Len(from.cells) + 1)
      BY <3>1 DEF Clamp
    <3>5. "code" \in Types /\ Fits(from)
      BY <3>1, <1>0 DEF Types, Fits
    <3>6. Good(full) /\ Grows(from, full, 1) /\ ToJSON(full.cells[1]) = Data("code", <<>>, 1)
      BY <3>3, <3>4, <3>5, <1>3, InsertCellDoes
    <3>7. FileContents(f) = <<Data("code", <<>>, 1)>>
      BY <3>1 DEF FileContents
    <3>8. PICK d \in DataRecords : d = Data("code", <<>>, 1)
      <4>1. <<>> \in Seq(STRING) /\ "code" \in Types
        BY <3>5
      <4>2. Data("code", <<>>, 1) \in DataRecords
        BY <4>1 DEF Data, DataRecords
      <4> QED BY <4>2
    <3>9. <<d>> \in Seq(DataRecords) /\ Len(<<d>>) = 1 /\ <<d>>[1] = d
      OBVIOUS
    <3>10. full \in NotebookRecords /\ Len(full.cells) = 1
      BY <3>1, <3>6 DEF Good, Grows
    <3>11. DOMAIN full.cells = {1}
      BY <3>10, CellsOf
    <3>12. 1 <= MaxCells
      BY <1>0
    <3> QED BY <3>6, <3>7, <3>8, <3>9, <3>10, <3>11, <3>12
  <2> QED BY <2>1, <2>2
<1>6. PICK w : w = [full EXCEPT !.dirty = FALSE]
  OBVIOUS
<1>7. /\ w \in NotebookRecords /\ w.cells = full.cells /\ w.uindex = full.uindex
      /\ w.backup = full.backup /\ w.below = full.below
  BY <1>5, <1>6 DEF NotebookRecords
<1>8. Good(w)
  BY <1>5, <1>7, SameCells
<1>9. PICK s : s = Select(w, 1)
  OBVIOUS
<1>10. s \in NotebookRecords /\ Good(s) /\ Mirrors(w, s)
  BY <1>7, <1>8, <1>9, SelectDoes
<1>11. m = [s EXCEPT !.kernel = TRUE]
  BY <1>1, <1>4, <1>6, <1>9 DEF LoadedWith
<1>12. /\ m \in NotebookRecords /\ m.cells = s.cells /\ m.uindex = s.uindex
       /\ m.backup = s.backup /\ m.below = s.below
  BY <1>10, <1>11 DEF NotebookRecords
<1>13. Good(m)
  BY <1>10, <1>12, SameCells
<1>14. Len(m.cells) = Len(full.cells) /\ DOMAIN m.cells = DOMAIN full.cells
  BY <1>5, <1>7, <1>10, <1>12, CellsOf DEF Mirrors
<1>15. \A j \in DOMAIN full.cells : ToJSON(m.cells[j]) = ToJSON(full.cells[j])
  BY <1>7, <1>10, <1>12 DEF Mirrors, Alike, ToJSON
<1> QED BY <1>5, <1>12, <1>13, <1>14, <1>15 DEF Fits

-----------------------------------------------------------------------------
(* The invariant.                                                           *)

\* The contents without the levels, line by line.
LEMMA LeveledIs ==
    ASSUME NEW n \in NotebookRecords, NEW f \in Seq(DataRecords)
    PROVE  Leveled(Contents(n)) = Leveled(f) <=>
              /\ Len(n.cells) = Len(f)
              /\ \A j \in DOMAIN n.cells : n.cells[j].type = f[j].type /\ n.cells[j].text = f[j].text
<1>c. /\ Len(n.cells) \in Nat /\ DOMAIN n.cells = 1..Len(n.cells)
      /\ Len(f) \in Nat /\ DOMAIN f = 1..Len(f)
  BY CellsOf
<1> DEFINE Line(c) == [type |-> c.type, text |-> c.text, level |-> 1]
<1>1. Leveled(Contents(n)) = [j \in 1..Len(n.cells) |-> Line(n.cells[j])]
  <2>1. DOMAIN Contents(n) = 1..Len(n.cells)
        /\ \A j \in 1..Len(n.cells) : Contents(n)[j] = ToJSON(n.cells[j])
    BY <1>c DEF Contents
  <2>2. \A c : [ToJSON(c) EXCEPT !.level = 1] = Line(c)
    BY DEF ToJSON, Data
  <2> QED BY <2>1, <2>2 DEF Leveled
<1>2. Leveled(f) = [j \in 1..Len(f) |-> Line(f[j])]
  <2>1. ASSUME NEW j \in 1..Len(f) PROVE [f[j] EXCEPT !.level = 1] = Line(f[j])
    <3>1. PICK d \in DataRecords : d = f[j]
      BY <1>c
    <3>2. [d EXCEPT !.level = 1] = Line(d)
      BY DEF DataRecords
    <3> QED BY <3>1, <3>2
  <2>2. Leveled(f) = [j \in 1..Len(f) |-> [f[j] EXCEPT !.level = 1]]
    BY <1>c DEF Leveled
  <2> HIDE DEF Line
  <2> QED BY <2>1, <2>2
<1>3. ASSUME Leveled(Contents(n)) = Leveled(f)
      PROVE  /\ Len(n.cells) = Len(f)
             /\ \A j \in DOMAIN n.cells : n.cells[j].type = f[j].type /\ n.cells[j].text = f[j].text
  <2>1. [j \in 1..Len(n.cells) |-> Line(n.cells[j])] = [j \in 1..Len(f) |-> Line(f[j])]
    BY <1>1, <1>2, <1>3
  <2>2. 1..Len(n.cells) = 1..Len(f)
    <3> HIDE DEF Line
    <3>1. DOMAIN [j \in 1..Len(n.cells) |-> Line(n.cells[j])] = DOMAIN [j \in 1..Len(f) |-> Line(f[j])]
      BY <2>1
    <3> QED BY <3>1
  <2>3. Len(n.cells) = Len(f)
    BY <2>2, <1>c
  <2>4. ASSUME NEW j \in 1..Len(f) PROVE Line(n.cells[j]) = Line(f[j])
    <3> HIDE DEF Line
    <3> QED BY <2>1, <2>3
  <2>5. ASSUME NEW j \in 1..Len(f) PROVE n.cells[j].type = f[j].type /\ n.cells[j].text = f[j].text
    <3>1. Line(n.cells[j]) = Line(f[j])
      BY <2>4
    <3>2. Line(n.cells[j]).type = Line(f[j]).type /\ Line(n.cells[j]).text = Line(f[j]).text
      <4> HIDE DEF Line
      <4> QED BY <3>1
    <3> QED BY <3>2
  <2> QED BY <2>3, <2>5, <1>c
<1>4. ASSUME Len(n.cells) = Len(f),
             \A j \in DOMAIN n.cells : n.cells[j].type = f[j].type /\ n.cells[j].text = f[j].text
      PROVE  Leveled(Contents(n)) = Leveled(f)
  <2>1. ASSUME NEW j \in 1..Len(f) PROVE Line(n.cells[j]) = Line(f[j])
    BY <1>4, <1>c
  <2> HIDE DEF Line
  <2> QED BY <1>1, <1>2, <1>4, <2>1
<1> HIDE DEF Line
<1> QED BY <1>3, <1>4

\* The same texts are the same contents.
LEMMA SameTextLeveled ==
    ASSUME NEW n \in NotebookRecords, NEW m \in NotebookRecords, NEW f \in Seq(DataRecords),
           SameText(n, m), Leveled(Contents(n)) = Leveled(f)
    PROVE  Leveled(Contents(m)) = Leveled(f)
<1>1. DOMAIN m.cells = DOMAIN n.cells
  BY CellsOf DEF SameText
<1> QED BY <1>1, LeveledIs DEF SameText

\* A cell that came, went or moved shows in the ids.
LEMMA RelaidIds ==
    ASSUME NEW n \in NotebookRecords, NEW m \in NotebookRecords, Relaid(n, m)
    PROVE  Ids(m) # Ids(n)
<1>c. /\ DOMAIN n.cells = 1..Len(n.cells) /\ DOMAIN m.cells = 1..Len(m.cells)
      /\ Len(n.cells) \in Nat /\ Len(m.cells) \in Nat
  BY CellsOf
<1> SUFFICES ASSUME Ids(m) = Ids(n) PROVE FALSE
  OBVIOUS
<1>1. DOMAIN Ids(m) = 1..Len(m.cells) /\ DOMAIN Ids(n) = 1..Len(n.cells)
  BY <1>c DEF Ids
<1>2. Len(m.cells) = Len(n.cells)
  BY <1>1, <1>c
<1>3. PICK j \in DOMAIN n.cells : m.cells[j].id # n.cells[j].id
  BY <1>2 DEF Relaid
<1>4. Ids(m)[j] = m.cells[j].id /\ Ids(n)[j] = n.cells[j].id
  BY <1>2, <1>c DEF Ids
<1> QED BY <1>3, <1>4

\* What a command does to the memory of the deleted cell: nothing is
\* remembered, the memory still fits, or a new one does.
Remembered(n) == \/ gone' = NoData
                 \/ gone' = gone /\ Links(nb, n)
                 \/ \E g \in GoneRecords : gone' = <<g>> /\ Linked(n, g)

\* A command whose result follows the notebook keeps the invariant.
LEMMA DoesKeeps ==
    ASSUME NotebookInv, NEW n \in NotebookRecords, Follows(nb, n), Does(n), Remembered(n)
    PROVE  NotebookInv'
<1>0. /\ nb \in NotebookRecords /\ Good(nb) /\ file \in Seq(DataRecords) /\ NTypeOK
      /\ nb' = n /\ Good(n) /\ Fits(n) /\ file' = file /\ show' = show /\ slide' = slide
  BY DEF NotebookInv, NTypeOK, Does, Follows
<1>1. steady' = (steady /\ Ids(n) = Ids(nb))
  BY DEF Does
<1>2. gone' = NoData \/ \E g \in GoneRecords : gone' = <<g>>
  BY <1>0 DEF Remembered, NTypeOK
<1>3. NTypeOK'
  <2>1. steady' \in BOOLEAN
    BY <1>1
  <2> QED BY <1>0, <1>2, <2>1 DEF NTypeOK
<1>4. ASSUME gone' # NoData PROVE Linked(n, gone'[1])
  <2>1. CASE gone' = gone /\ Links(nb, n)
    <3>1. PICK g \in GoneRecords : gone = <<g>>
      BY <1>4, <2>1, <1>0 DEF NTypeOK
    <3>2. gone # NoData /\ gone[1] = g
      BY <3>1 DEF NoData
    <3>3. Linked(nb, g)
      BY <3>2 DEF NotebookInv
    <3>4. Linked(n, g)
      BY <3>3, <2>1 DEF Links
    <3> QED BY <3>4, <3>2, <2>1
  <2>2. CASE \E g \in GoneRecords : gone' = <<g>> /\ Linked(n, g)
    <3>1. PICK g \in GoneRecords : gone' = <<g>> /\ Linked(n, g)
      BY <2>2
    <3>2. gone'[1] = g
      BY <3>1
    <3> QED BY <3>1, <3>2
  <2> QED BY <1>4, <2>1, <2>2 DEF Remembered
<1>5. ASSUME ~ n.dirty PROVE Leveled(Contents(n)) = Leveled(file)
  <2>1. ~ nb.dirty /\ SameText(nb, n)
    BY <1>5 DEF Follows
  <2>2. Leveled(Contents(nb)) = Leveled(file)
    BY <2>1 DEF NotebookInv, CleanIsTheFile
  <2> QED BY <2>1, <2>2, <1>0, SameTextLeveled
<1>6. ASSUME show' = "on", steady' PROVE {i \in DOMAIN n.cells : n.cells[i].shown} = {slide'}
  <2>1. steady /\ Ids(n) = Ids(nb)
    BY <1>1, <1>6
  <2>2. {i \in DOMAIN nb.cells : nb.cells[i].shown} = {slide}
    BY <2>1, <1>0, <1>6 DEF NotebookInv, OneSlide
  <2>3. ~ Relaid(nb, n)
    BY <2>1, <1>0, RelaidIds
  <2>4. SameShow(nb, n)
    BY <2>3 DEF Follows
  <2>5. DOMAIN n.cells = DOMAIN nb.cells
    BY <2>4, <1>0, CellsOf DEF SameShow
  <2>6. {i \in DOMAIN n.cells : n.cells[i].shown} = {i \in DOMAIN nb.cells : nb.cells[i].shown}
    BY <2>4, <2>5 DEF SameShow
  <2> QED BY <2>2, <2>6, <1>0
<1> QED BY <1>0, <1>3, <1>4, <1>5, <1>6 DEF NotebookInv, CleanIsTheFile, OneSlide

\* Ending a chord changes nothing else.
LEMMA Unchorded ==
    ASSUME NEW b \in NotebookRecords, NEW n \in NotebookRecords, Follows(b, n),
           NEW m, \E c \in BOOLEAN : m = [n EXCEPT !.chord = c]
    PROVE  m \in NotebookRecords /\ Follows(b, m) /\ Links(n, m) /\ m.cells = n.cells
<1>1. PICK c \in BOOLEAN : m = [n EXCEPT !.chord = c]
  OBVIOUS
<1>2. /\ m \in NotebookRecords /\ m.cells = n.cells /\ m.uindex = n.uindex
      /\ m.backup = n.backup /\ m.below = n.below /\ m.dirty = n.dirty
  BY <1>1 DEF NotebookRecords
<1>3. Good(n)
  BY DEF Follows
<1>4. Good(m) /\ Mirrors(n, m)
  BY <1>2, <1>3, SameCells
<1> QED BY <1>2, <1>4, MirrorsFollow, MirrorsLink

\* The same for a command that may end a chord.
LEMMA BoundKeeps ==
    ASSUME NotebookInv, NEW n \in NotebookRecords, Follows(nb, n), Bound(n), Remembered(n)
    PROVE  NotebookInv'
<1>1. CASE Does(n)
  BY <1>1, DoesKeeps
<1>2. CASE Does([n EXCEPT !.chord = FALSE])
  <2>0. nb \in NotebookRecords
    BY DEF NotebookInv, NTypeOK
  <2>1. PICK m : m = [n EXCEPT !.chord = FALSE]
    OBVIOUS
  <2>2. m \in NotebookRecords /\ Follows(nb, m) /\ Links(n, m)
    BY <2>0, <2>1, Unchorded
  <2>3. Remembered(m)
    BY <2>2, LinksTrans DEF Remembered, Links
  <2>4. Does(m)
    BY <1>2, <2>1
  <2> QED BY <2>2, <2>3, <2>4, DoesKeeps
<1> QED BY <1>1, <1>2 DEF Bound

\* A command that keeps the place undelete remembers, and one that forgets it.
LEMMA KeepsOrForgets ==
    ASSUME NotebookInv, NEW n \in NotebookRecords, Follows(nb, n), Bound(n),
           (Keeps /\ Links(nb, n)) \/ Forgets
    PROVE  NotebookInv'
<1>1. Remembered(n)
  BY DEF Remembered, Keeps, Forgets
<1> QED BY <1>1, BoundKeeps

\* Selecting another cell.
LEMMA SelectFollows ==
    ASSUME NEW n \in NotebookRecords, Good(n), NEW i \in Int, NEW m, m = Select(n, i)
    PROVE  m \in NotebookRecords /\ Follows(n, m) /\ Links(n, m)
<1>1. m \in NotebookRecords /\ Good(m) /\ Mirrors(n, m) /\ m.dirty = n.dirty
  BY SelectDoes
<1> QED BY <1>1, FollowsSelf, MirrorsFollow, MirrorsLink

\* Marking the notebook dirty.
LEMMA DirtyFollows ==
    ASSUME NEW n \in NotebookRecords, Good(n), NEW m, m = Dirty(n)
    PROVE  m \in NotebookRecords /\ Follows(n, m) /\ Links(n, m)
<1>1. m \in NotebookRecords /\ Good(m) /\ Mirrors(n, m) /\ m.dirty
  BY DirtyDoes
<1> QED BY <1>1, FollowsSelf, MirrorsFollow, MirrorsLink

\* A sequence of one element.
LEMMA Single == ASSUME NEW S, NEW e \in S PROVE <<e>> \in Seq(S)
  OBVIOUS

\* Selecting, moving, typing, opening a cell and the commands on outputs.
LEMMA SelectionKeeps ==
    ASSUME NotebookInv,
           \/ Chord \/ Type \/ OpenCell \/ SelectByClick \/ SelectNextCell \/ SelectPrevCell
           \/ MoveCellUp \/ MoveCellDown \/ OutputCommand \/ ExecuteInPlace \/ CopyCell
    PROVE  NotebookInv'
<1>0. nb \in NotebookRecords /\ Good(nb) /\ Fits(nb)
  BY DEF NotebookInv, NTypeOK
<1>c. DOMAIN nb.cells = 1..Len(nb.cells) /\ Len(nb.cells) \in Nat
  BY <1>0, CellsOf
<1>s. PICK s : s = SelectedIndex(nb)
  OBVIOUS
<1>t. /\ HasCell(nb) => Selects(nb, s) /\ s \in DOMAIN nb.cells
      /\ ~ HasCell(nb) => s = Null
      /\ s \in Int
  BY <1>0, <1>c, <1>s, GoodSelects DEF Null
<1>f. Follows(nb, nb) /\ Links(nb, nb)
  BY <1>0, FollowsSelf
<1>1. CASE Chord
  <2>1. PICK m : m = [nb EXCEPT !.chord = TRUE]
    OBVIOUS
  <2>2. m \in NotebookRecords /\ Follows(nb, m) /\ Links(nb, m)
    BY <1>0, <1>f, <2>1, Unchorded
  <2>3. Does(m) /\ Keeps
    BY <1>1, <2>1 DEF Chord
  <2> QED BY <2>2, <2>3, KeepsOrForgets DEF Bound
<1>2. CASE Type
  <2>1. PICK n : n = SetText(nb, s, <<Typed>>)
    OBVIOUS
  <2>2. HasCell(nb)
    BY <1>2 DEF Type
  <2>3. <<Typed>> \in Seq(STRING)
    <3>1. Typed \in STRING
      BY NotebookAssumption
    <3> QED BY <3>1, Single
  <2>4. n \in NotebookRecords /\ Refills(nb, n, s)
    BY <1>0, <1>t, <2>1, <2>2, <2>3, SetTextDoes
  <2>5. Follows(nb, n) /\ Links(nb, n)
    BY <1>0, <1>t, <2>2, <2>4, RefillsDoes
  <2>6. PICK m : m = [n EXCEPT !.chord = FALSE]
    OBVIOUS
  <2>7. m \in NotebookRecords /\ Follows(nb, m) /\ Links(nb, m)
    BY <1>0, <2>4, <2>5, <2>6, Unchorded, LinksTrans
  <2>8. Does(m) /\ Keeps
    BY <1>2, <1>s, <2>1, <2>6 DEF Type
  <2> QED BY <2>7, <2>8, KeepsOrForgets DEF Bound
<1>3. CASE OpenCell
  <2>1. HasCell(nb) /\ s \in DOMAIN nb.cells /\ nb.cells[s] \in CellRecords
    BY <1>3, <1>0, <1>t, CellsOf DEF OpenCell
  <2>2. PICK c : c = [nb.cells[s] EXCEPT !.rendered = FALSE]
    OBVIOUS
  <2>3. c \in CellRecords /\ Alike(c, nb.cells[s]) /\ c.selected = nb.cells[s].selected
    BY <2>1, <2>2 DEF CellRecords, Alike
  <2>4. PICK m : m = [nb EXCEPT !.cells[s] = c]
    OBVIOUS
  <2>5. /\ m \in NotebookRecords /\ Len(m.cells) = Len(nb.cells) /\ m.cells[s] = c
        /\ DOMAIN m.cells = DOMAIN nb.cells /\ Beside(nb, m)
        /\ \A j \in DOMAIN nb.cells : j # s => m.cells[j] = nb.cells[j]
    BY <1>0, <2>1, <2>3, <2>4, WriteIs
  <2>6. \A j \in DOMAIN nb.cells : Alike(m.cells[j], nb.cells[j])
                                   /\ m.cells[j].selected = nb.cells[j].selected
    BY <2>3, <2>5 DEF Alike
  <2>7. Mirrors(nb, m) /\ m.dirty = nb.dirty
    BY <2>5, <2>6 DEF Mirrors, Beside
  <2>8. Good(m)
    <3>1. Distinct(m)
      BY <1>0, <2>5, <2>6 DEF Good, Distinct, Alike
    <3>2. Selects(m, s)
      BY <1>t, <2>1, <2>5, <2>6 DEF Selects
    <3> QED BY <2>1, <2>5, <3>1, <3>2 DEF Good
  <2>9. Follows(nb, m) /\ Links(nb, m)
    BY <1>0, <1>f, <2>5, <2>7, <2>8, MirrorsFollow, MirrorsLink
  <2>10. m = [nb EXCEPT !.cells[s].rendered = FALSE]
    BY <2>2, <2>4
  <2>11. Does(m) /\ Keeps
    BY <1>3, <1>s, <2>10 DEF OpenCell
  <2> QED BY <2>5, <2>9, <2>11, KeepsOrForgets DEF Bound
<1>4. CASE SelectByClick
  <2>1. PICK i \in DOMAIN nb.cells : Does(Select(nb, i)) /\ Keeps
    BY <1>4 DEF SelectByClick
  <2>2. PICK m : m = Select(nb, i)
    OBVIOUS
  <2>3. m \in NotebookRecords /\ Follows(nb, m) /\ Links(nb, m)
    BY <1>0, <1>c, <2>2, SelectFollows
  <2>4. Bound(m) /\ Keeps
    BY <2>1, <2>2 DEF Bound
  <2> QED BY <2>3, <2>4, KeepsOrForgets
<1>5. CASE SelectNextCell
  <2>1. PICK m : m = SelectNext(nb)
    OBVIOUS
  <2>2. PICK k \in Int : k = s + 1
    BY <1>t
  <2>3. m \in NotebookRecords /\ Follows(nb, m) /\ Links(nb, m)
    BY <1>0, <1>s, <2>1, <2>2, SelectFollows DEF SelectNext
  <2>4. Bound(m) /\ Keeps
    BY <1>5, <2>1 DEF SelectNextCell
  <2> QED BY <2>3, <2>4, KeepsOrForgets
<1>6. CASE SelectPrevCell
  <2>1. PICK m : m = SelectPrev(nb)
    OBVIOUS
  <2>2. PICK k \in Int : k = s - 1
    BY <1>t
  <2>3. m \in NotebookRecords /\ Follows(nb, m) /\ Links(nb, m)
    BY <1>0, <1>s, <2>1, <2>2, SelectFollows DEF SelectPrev
  <2>4. Bound(m) /\ Keeps
    BY <1>6, <2>1 DEF SelectPrevCell
  <2> QED BY <2>3, <2>4, KeepsOrForgets
<1>7. CASE MoveCellUp
  <2>1. PICK m : m = MoveUp(nb)
    OBVIOUS
  <2>2. m \in NotebookRecords /\ Follows(nb, m)
    BY <1>0, <2>1, MovesDo
  <2>3. Bound(m) /\ Forgets
    BY <1>7, <2>1 DEF MoveCellUp
  <2> QED BY <2>2, <2>3, KeepsOrForgets
<1>8. CASE MoveCellDown
  <2>1. PICK m : m = MoveDown(nb)
    OBVIOUS
  <2>2. m \in NotebookRecords /\ Follows(nb, m)
    BY <1>0, <2>1, MovesDo
  <2>3. Bound(m) /\ Forgets
    BY <1>8, <2>1 DEF MoveCellDown
  <2> QED BY <2>2, <2>3, KeepsOrForgets
<1>9. CASE OutputCommand \/ ExecuteInPlace
  <2>1. PICK m : m = Dirty(nb)
    OBVIOUS
  <2>2. m \in NotebookRecords /\ Follows(nb, m) /\ Links(nb, m)
    BY <1>0, <2>1, DirtyFollows
  <2>3. Bound(m) /\ Keeps
    BY <1>9, <2>1 DEF OutputCommand, ExecuteInPlace, Bound
  <2> QED BY <2>2, <2>3, KeepsOrForgets
<1>10. CASE CopyCell
  <2>1. PICK m : m = Copy(nb)
    OBVIOUS
  <2>2. HasCell(nb) /\ Bound(m) /\ Keeps
    BY <1>10, <2>1 DEF CopyCell
  <2>3. m \in NotebookRecords /\ Good(m) /\ Mirrors(nb, m) /\ m.dirty = nb.dirty
    BY <1>0, <2>1, <2>2, CopyDoes
  <2>4. Follows(nb, m) /\ Links(nb, m)
    BY <1>0, <1>f, <2>3, MirrorsFollow, MirrorsLink
  <2> QED BY <2>2, <2>3, <2>4, KeepsOrForgets
<1> QED BY <1>1, <1>2, <1>3, <1>4, <1>5, <1>6, <1>7, <1>8, <1>9, <1>10

\* Inserting a cell above or below an index or the selected cell.
LEMMA InsertsFollow ==
    ASSUME NEW n \in NotebookRecords, Good(n), Fits(n), NEW type \in Types, NEW index \in Int
    PROVE  /\ InsertAbove(n, type, index) \in NotebookRecords
           /\ Follows(n, InsertAbove(n, type, index)) /\ Links(n, InsertAbove(n, type, index))
           /\ InsertAbove(n, type, index).dirty
           /\ Len(InsertAbove(n, type, index).cells) = Len(n.cells) + 1
           /\ InsertBelow(n, type, index) \in NotebookRecords
           /\ Follows(n, InsertBelow(n, type, index)) /\ Links(n, InsertBelow(n, type, index))
<1>1. PICK k \in Int : k = IndexOrSelected(n, index)
  BY IndexIs
<1>2. PICK l \in Int : l = k + 1
  OBVIOUS
<1>3. InsertAbove(n, type, index) = InsertCell(n, type, k)
  BY <1>1 DEF InsertAbove
<1>4. InsertBelow(n, type, index) = InsertCell(n, type, l)
  BY <1>1, <1>2 DEF InsertBelow
<1>5. PICK a : a = InsertCell(n, type, k)
  OBVIOUS
<1>6. PICK b : b = InsertCell(n, type, l)
  OBVIOUS
<1>7. /\ a \in NotebookRecords /\ Follows(n, a) /\ Links(n, a)
      /\ a.dirty /\ Len(a.cells) = Len(n.cells) + 1
  BY <1>5, InsertDoes
<1>8. b \in NotebookRecords /\ Follows(n, b) /\ Links(n, b)
  BY <1>6, InsertDoes
<1> QED BY <1>3, <1>4, <1>5, <1>6, <1>7, <1>8

\* The same with the text and level of some data.
LEMMA InsertsFilledFollow ==
    ASSUME NEW n \in NotebookRecords, Good(n), Fits(n), NEW type \in Types, NEW index \in Int,
           NEW data, data.text \in Seq(STRING), data.level \in Nat,
           NEW m, m = Filled(InsertAbove(n, type, index), data)
                  \/ m = Filled(InsertBelow(n, type, index), data)
    PROVE  m \in NotebookRecords /\ Follows(n, m) /\ Links(n, m)
<1>1. PICK k \in Int : k = IndexOrSelected(n, index)
  BY IndexIs
<1>2. PICK l \in Int : l = k + 1
  OBVIOUS
<1>3. CASE m = Filled(InsertAbove(n, type, index), data)
  <2>1. m = Filled(InsertCell(n, type, k), data)
    BY <1>1, <1>3 DEF InsertAbove
  <2> QED BY <2>1, InsertFilledDoes
<1>4. CASE m = Filled(InsertBelow(n, type, index), data)
  <2>1. m = Filled(InsertCell(n, type, l), data)
    BY <1>1, <1>2, <1>4 DEF InsertBelow
  <2> QED BY <2>1, InsertFilledDoes
<1> QED BY <1>3, <1>4

\* Inserting, pasting, and the cell the kernel asks for.
LEMMA InsertionKeeps ==
    ASSUME NotebookInv,
           \/ InsertCellAbove \/ InsertCellBelow \/ InsertCellAtEnd \/ SetNextInput
           \/ PasteCellAbove \/ PasteCellBelow
    PROVE  NotebookInv'
<1>0. nb \in NotebookRecords /\ Good(nb) /\ Fits(nb)
  BY DEF NotebookInv, NTypeOK
<1>c. Len(nb.cells) \in Nat /\ Null \in Int /\ "code" \in Types
  BY <1>0, CellsOf DEF Null, Types
<1>1. CASE InsertCellAbove
  <2>1. PICK m : m = InsertAbove(nb, "code", Null)
    OBVIOUS
  <2>2. m \in NotebookRecords /\ Follows(nb, m) /\ Links(nb, m)
    BY <1>0, <1>c, <2>1, InsertsFollow
  <2>3. Bound(m) /\ Keeps
    BY <1>1, <2>1 DEF InsertCellAbove
  <2> QED BY <2>2, <2>3, KeepsOrForgets
<1>2. CASE InsertCellBelow
  <2>1. PICK m : m = InsertBelow(nb, "code", Null)
    OBVIOUS
  <2>2. m \in NotebookRecords /\ Follows(nb, m) /\ Links(nb, m)
    BY <1>0, <1>c, <2>1, InsertsFollow
  <2>3. Bound(m) /\ Keeps
    BY <1>2, <2>1 DEF InsertCellBelow
  <2> QED BY <2>2, <2>3, KeepsOrForgets
<1>3. CASE InsertCellAtEnd
  <2>0. PICK l \in Int : l = Len(nb.cells)
    BY <1>c
  <2>1. PICK m : m = InsertBelow(nb, "code", l)
    OBVIOUS
  <2>2. m \in NotebookRecords /\ Follows(nb, m) /\ Links(nb, m)
    BY <1>0, <1>c, <2>1, InsertsFollow
  <2>3. Bound(m) /\ Keeps
    BY <1>3, <2>0, <2>1 DEF InsertCellAtEnd, Bound
  <2> QED BY <2>2, <2>3, KeepsOrForgets
<1>4. CASE SetNextInput
  <2>0. PICK data : data = Data("code", <<Typed>>, 1)
    OBVIOUS
  <2>1. data.text = <<Typed>> /\ data.level = 1 /\ Typed \in STRING
    BY <2>0, NotebookAssumption DEF Data
  <2>2. data.text \in Seq(STRING) /\ data.level \in Nat
    BY <2>1, Single
  <2>3. PICK i \in 0..Len(nb.cells) : Does(Filled(InsertBelow(nb, "code", i), data)) /\ Keeps
    BY <1>4, <2>0 DEF SetNextInput
  <2>4. PICK m : m = Filled(InsertBelow(nb, "code", i), data)
    OBVIOUS
  <2>5. m \in NotebookRecords /\ Follows(nb, m) /\ Links(nb, m)
    BY <1>0, <1>c, <2>2, <2>4, InsertsFilledFollow
  <2>6. Bound(m) /\ Keeps
    BY <2>3, <2>4 DEF Bound
  <2> QED BY <2>5, <2>6, KeepsOrForgets
<1>5. CASE PasteCellAbove \/ PasteCellBelow
  <2>0. nb.clip # <<>> /\ nb.clip \in Seq(DataRecords)
    BY <1>0, <1>5 DEF PasteCellAbove, PasteCellBelow, NotebookRecords
  <2>1. PICK data \in DataRecords : data = nb.clip[1]
    BY <2>0
  <2>2. data.type \in Types /\ data.text \in Seq(STRING) /\ data.level \in Nat
    BY <2>1 DEF DataRecords
  <2>3. PICK m : /\ m = Filled(InsertAbove(nb, data.type, Null), data)
                    \/ m = Filled(InsertBelow(nb, data.type, Null), data)
                 /\ Bound(m) /\ Keeps
    BY <1>5, <2>1 DEF PasteCellAbove, PasteCellBelow, PasteAbove, PasteBelow, Bound
  <2>4. m \in NotebookRecords /\ Follows(nb, m) /\ Links(nb, m)
    BY <1>0, <1>c, <2>2, <2>3, InsertsFilledFollow
  <2> QED BY <2>3, <2>4, KeepsOrForgets
<1> QED BY <1>1, <1>2, <1>3, <1>4, <1>5

\* Deleting and cutting remember a cell and its neighbours.
LEMMA DeletionKeeps ==
    ASSUME NotebookInv, DeleteCell \/ CutCell
    PROVE  NotebookInv'
<1>0. nb \in NotebookRecords /\ Good(nb) /\ HasCell(nb)
  BY DEF NotebookInv, NTypeOK, DeleteCell, CutCell
<1>1. PICK s : s = SelectedIndex(nb)
  OBVIOUS
<1>2. s \in DOMAIN nb.cells /\ IndexOrSelected(nb, Null) = s
  BY <1>0, <1>1, IndexIs DEF Null
<1>3. PICK m : (m = Delete(nb, Null) \/ m = Cut(nb)) /\ Bound(m) /\ Remembers
  BY DEF DeleteCell, CutCell
<1>4. Good(m) /\ Shrinks(nb, m, s) /\ Follows(nb, m)
  <2>1. CASE m = Delete(nb, Null)
    <3>1. Good(m) /\ Shrinks(nb, m, s)
      BY <1>0, <1>2, <2>1, DeleteDoes
    <3> QED BY <1>0, <3>1, ShrinksDoes
  <2>2. CASE m = Cut(nb)
    BY <1>0, <1>1, <2>2, CutDoes
  <2> QED BY <1>3, <2>1, <2>2
<1>5. m \in NotebookRecords
  BY <1>4 DEF Good
<1>6. PICK g : g = [data |-> ToJSON(nb.cells[s]),
                    above |-> IF Inside(nb, s - 1) THEN nb.cells[s - 1].id ELSE Null,
                    below |-> IF Inside(nb, s + 1) THEN nb.cells[s + 1].id ELSE Null]
  OBVIOUS
<1>7. g \in GoneRecords /\ Linked(m, g)
  BY <1>0, <1>1, <1>4, <1>5, <1>6, DeleteRemembers
<1>8. gone' = <<g>>
  BY <1>1, <1>3, <1>6 DEF Remembers, Neighbour
<1>9. Remembered(m)
  BY <1>7, <1>8 DEF Remembered
<1> QED BY <1>3, <1>4, <1>5, <1>9, BoundKeeps

\* Undelete, paste over, split, merge and convert.
LEMMA RewriteKeeps ==
    ASSUME NotebookInv,
           \/ UndeleteCell \/ PasteCellReplace \/ SplitCell \/ MergeCellAbove \/ MergeCellBelow
           \/ ConvertCell
    PROVE  NotebookInv'
<1>0. nb \in NotebookRecords /\ Good(nb) /\ Fits(nb)
  BY DEF NotebookInv, NTypeOK
<1>1. CASE UndeleteCell
  <2>1. PICK m : m = Undelete(nb)
    OBVIOUS
  <2>2. m \in NotebookRecords /\ Follows(nb, m)
    BY <1>0, <2>1, UndeleteDoes
  <2>3. Bound(m) /\ Forgets
    BY <1>1, <2>1 DEF UndeleteCell
  <2> QED BY <2>2, <2>3, KeepsOrForgets
<1>2. CASE PasteCellReplace
  <2>1. PICK m : m = PasteReplace(nb)
    OBVIOUS
  <2>2. nb.clip # <<>> /\ Bound(m) /\ Forgets
    BY <1>2, <2>1 DEF PasteCellReplace, Bound
  <2>3. m \in NotebookRecords /\ Follows(nb, m)
    BY <1>0, <2>1, <2>2, PasteReplaceDoes
  <2> QED BY <2>2, <2>3, KeepsOrForgets
<1>3. CASE SplitCell
  <2>1. PICK k \in 0..Len(Current(nb).text) : Bound(Split(nb, k))
    BY <1>3 DEF SplitCell
  <2>2. PICK m : m = Split(nb, k)
    OBVIOUS
  <2>3. HasCell(nb) /\ Bound(m) /\ Keeps
    BY <1>3, <2>1, <2>2 DEF SplitCell
  <2>4. m \in NotebookRecords /\ Follows(nb, m) /\ Links(nb, m)
    BY <1>0, <2>2, <2>3, SplitDoes
  <2> QED BY <2>3, <2>4, KeepsOrForgets
<1>4. CASE MergeCellAbove \/ MergeCellBelow
  <2>1. PICK m : (m = MergeAbove(nb) \/ m = MergeBelow(nb)) /\ Bound(m) /\ Forgets
    BY <1>4 DEF MergeCellAbove, MergeCellBelow, Bound
  <2>2. m \in NotebookRecords /\ Follows(nb, m)
    BY <1>0, <2>1, MergesDo
  <2> QED BY <2>1, <2>2, KeepsOrForgets
<1>5. CASE ConvertCell
  <2>1. PICK t \in Types, l \in 1..2 : Bound(Convert(nb, t, l)) /\ Forgets
    BY <1>5 DEF ConvertCell
  <2>2. PICK m : m = Convert(nb, t, l)
    OBVIOUS
  <2>3. m \in NotebookRecords /\ Follows(nb, m)
    BY <1>0, <2>2, ConvertDoes
  <2> QED BY <2>1, <2>2, <2>3, KeepsOrForgets
<1> QED BY <1>1, <1>2, <1>3, <1>4, <1>5

\* Running cells.
LEMMA ExecutionKeeps ==
    ASSUME NotebookInv, ExecuteCell \/ ExecuteAndInsert \/ ExecuteCells
    PROVE  NotebookInv'
<1>0. nb \in NotebookRecords /\ Good(nb) /\ Fits(nb)
  BY DEF NotebookInv, NTypeOK
<1>c. /\ Len(nb.cells) \in Nat /\ DOMAIN nb.cells = 1..Len(nb.cells)
      /\ Null \in Int /\ "code" \in Types
  BY <1>0, CellsOf DEF Null, Types
<1>e. PICK n : n = Execute(nb, TRUE)
  OBVIOUS
<1>n. /\ n \in NotebookRecords /\ Follows(nb, n) /\ Links(nb, n)
      /\ HasCell(nb) /\ Current(n).text # <<>> => Len(n.cells) = Len(nb.cells)
  BY <1>0, <1>e, ExecuteDoes
<1>1. CASE ExecuteCell
  <2>1. Bound(n) /\ Keeps
    BY <1>1, <1>e DEF ExecuteCell, Bound
  <2> QED BY <1>n, <2>1, KeepsOrForgets
<1>2. CASE ExecuteAndInsert
  <2>1. /\ HasCell(nb) /\ Keeps
        /\ Does(IF Current(n).text = <<>> THEN n ELSE InsertAbove(n, "code", Null))
    BY <1>2, <1>e DEF ExecuteAndInsert
  <2>2. CASE Current(n).text = <<>>
    <3>1. Bound(n)
      BY <2>1, <2>2 DEF Bound
    <3> QED BY <1>n, <2>1, <3>1, KeepsOrForgets
  <2>3. CASE Current(n).text # <<>>
    <3>1. Fits(n) /\ Good(n) /\ Len(n.cells) = Len(nb.cells)
      BY <1>0, <1>n, <2>1, <2>3 DEF Follows, Fits
    <3>2. PICK m : m = InsertAbove(n, "code", Null)
      OBVIOUS
    <3>3. /\ m \in NotebookRecords /\ Follows(n, m) /\ Links(n, m)
          /\ m.dirty /\ Len(m.cells) = Len(n.cells) + 1
      BY <1>n, <1>c, <3>1, <3>2, InsertsFollow
    <3>4. Bound(m)
      BY <2>1, <2>3, <3>2 DEF Bound
    <3>5. Links(nb, m)
      BY <1>n, <3>3, LinksTrans
    <3>6. Follows(nb, m)
      <4>1. Len(m.cells) # Len(nb.cells)
        BY <1>c, <3>1, <3>3
      <4> QED BY <3>3, <4>1 DEF Follows, Relaid
    <3> QED BY <2>1, <3>3, <3>4, <3>5, <3>6, KeepsOrForgets
  <2> QED BY <2>2, <2>3
<1>3. CASE ExecuteCells
  <2>1. PICK i : i = SelectedIndex(nb)
    OBVIOUS
  <2>2. HasCell(nb) /\ i \in 1..Len(nb.cells)
    BY <1>0, <1>3, <2>1, GoodSelects DEF ExecuteCells
  <2>3. PICK r \in {<<1, Len(nb.cells)>>, <<1, i - 1>>, <<i, Len(nb.cells)>>} :
           Does(ExecuteRange(nb, r[1], r[2]))
    BY <1>3, <2>1 DEF ExecuteCells
  <2>4. r[1] \in Int /\ r[2] \in Int
    BY <1>c, <2>2, <2>3
  <2>5. PICK m : m = ExecuteRange(nb, r[1], r[2])
    OBVIOUS
  <2>6. m \in NotebookRecords /\ Follows(nb, m) /\ Links(nb, m)
    BY <1>0, <2>4, <2>5, ExecuteRangeDoes
  <2>7. Bound(m) /\ Keeps
    BY <1>3, <2>3, <2>5 DEF Bound, ExecuteCells
  <2> QED BY <2>6, <2>7, KeepsOrForgets
<1> QED BY <1>1, <1>2, <1>3

-----------------------------------------------------------------------------
(* The slideshow.                                                           *)

\* The cells differ in nothing but their visibility.
Veils(n, m) == /\ m \in NotebookRecords /\ m.dirty = n.dirty
               /\ m.uindex = n.uindex /\ m.backup = n.backup /\ m.below = n.below
               /\ Len(m.cells) = Len(n.cells)
               /\ \A j \in DOMAIN n.cells :
                    /\ m.cells[j].id = n.cells[j].id /\ m.cells[j].type = n.cells[j].type
                    /\ m.cells[j].text = n.cells[j].text
                    /\ m.cells[j].selected = n.cells[j].selected

\* Such a change keeps the selection, the place for undelete, the texts and the ids.
LEMMA VeilsKeep ==
    ASSUME NEW n \in NotebookRecords, Good(n), NEW m, Veils(n, m)
    PROVE  Good(m) /\ Links(n, m) /\ SameText(n, m) /\ Ids(m) = Ids(n)
<1>1. DOMAIN m.cells = DOMAIN n.cells
  BY CellsOf DEF Veils
<1>2. Distinct(m)
  BY <1>1 DEF Good, Distinct, Veils
<1>3. HasCell(m) => HasCell(n)
  BY <1>1, CellsOf DEF Veils
<1>4. \A k : Selects(n, k) => Selects(m, k)
  BY <1>1 DEF Selects, Veils
<1>5. Good(m)
  BY <1>1, <1>2, <1>3, <1>4 DEF Good, Veils
<1>6. Links(n, m)
  BY <1>1 DEF Links, Linked, Veils
<1> QED BY <1>1, <1>5, <1>6 DEF SameText, Veils, Ids

\* lol of iocamlsaver.js: exactly the cells of S are visible.
LEMMA ShownIs ==
    ASSUME NEW n \in NotebookRecords, NEW S, NEW m, m = Shown(n, S)
    PROVE  Veils(n, m) /\ {j \in DOMAIN m.cells : m.cells[j].shown} = DOMAIN n.cells \cap S
<1>c. /\ Len(n.cells) \in Nat /\ DOMAIN n.cells = 1..Len(n.cells)
      /\ \A j \in DOMAIN n.cells : n.cells[j] \in CellRecords
  BY CellsOf
<1> DEFINE cs == [i \in 1..Len(n.cells) |-> [n.cells[i] EXCEPT !.shown = i \in S]]
<1>1. ASSUME NEW j \in 1..Len(n.cells)
      PROVE  /\ cs[j] \in CellRecords /\ cs[j].id = n.cells[j].id /\ cs[j].type = n.cells[j].type
             /\ cs[j].text = n.cells[j].text /\ cs[j].selected = n.cells[j].selected
             /\ (cs[j].shown <=> j \in S)
  <2>1. PICK c \in CellRecords : c = n.cells[j]
    BY <1>c
  <2>2. PICK b \in BOOLEAN : b = (j \in S)
    <3>1. (j \in S) \in BOOLEAN
      OBVIOUS
    <3> QED BY <3>1
  <2>3. cs[j] = [c EXCEPT !.shown = b]
    <3>1. cs[j] = [c EXCEPT !.shown = j \in S]
      BY <2>1
    <3> QED BY <3>1, <2>2, Zenon
  <2>4. /\ [c EXCEPT !.shown = b] \in CellRecords /\ [c EXCEPT !.shown = b].shown = b
        /\ [c EXCEPT !.shown = b].id = c.id /\ [c EXCEPT !.shown = b].type = c.type
        /\ [c EXCEPT !.shown = b].text = c.text /\ [c EXCEPT !.shown = b].selected = c.selected
    BY DEF CellRecords
  <2> HIDE DEF cs
  <2> QED BY <2>1, <2>2, <2>3, <2>4
<1>2. m = [n EXCEPT !.cells = cs]
  BY <1>c DEF Shown
<1>3. cs \in Seq(CellRecords) /\ Len(cs) = Len(n.cells) /\ DOMAIN cs = 1..Len(n.cells)
  <2>1. DOMAIN cs = 1..Len(n.cells) /\ cs = [j \in 1..Len(n.cells) |-> cs[j]]
    OBVIOUS
  <2> HIDE DEF cs
  <2>2. \A j \in 1..Len(n.cells) : cs[j] \in CellRecords
    BY <1>1
  <2>3. cs \in [1..Len(n.cells) -> CellRecords]
    BY <2>1, <2>2
  <2> QED BY <2>1, <2>3, <1>c
<1> HIDE DEF cs
<1>4. /\ m \in NotebookRecords /\ m.cells = cs /\ m.dirty = n.dirty
      /\ m.uindex = n.uindex /\ m.backup = n.backup /\ m.below = n.below
  BY <1>2, <1>3 DEF NotebookRecords
<1>5. Veils(n, m)
  BY <1>1, <1>3, <1>4, <1>c DEF Veils
<1> QED BY <1>1, <1>3, <1>4, <1>5, <1>c

\* One cell is shown or hidden.
LEMMA VeilsAt ==
    ASSUME NEW n \in NotebookRecords, NEW i \in DOMAIN n.cells, NEW c \in CellRecords,
           c.id = n.cells[i].id, c.type = n.cells[i].type, c.text = n.cells[i].text,
           c.selected = n.cells[i].selected, NEW m, m = [n EXCEPT !.cells[i] = c]
    PROVE  /\ Veils(n, m) /\ DOMAIN m.cells = DOMAIN n.cells /\ m.cells[i] = c
           /\ \A j \in DOMAIN n.cells : j # i => m.cells[j] = n.cells[j]
<1>1. /\ m \in NotebookRecords /\ Len(m.cells) = Len(n.cells) /\ m.cells[i] = c
      /\ DOMAIN m.cells = DOMAIN n.cells /\ Beside(n, m)
      /\ \A j \in DOMAIN n.cells : j # i => m.cells[j] = n.cells[j]
  BY WriteIs
<1> QED BY <1>1 DEF Veils, Beside

\* Showing one cell.
LEMMA ShownAtIs ==
    ASSUME NEW n \in NotebookRecords, NEW i \in DOMAIN n.cells, NEW m, m = ShownAt(n, i)
    PROVE  /\ Veils(n, m) /\ DOMAIN m.cells = DOMAIN n.cells /\ m.cells[i].shown
           /\ \A j \in DOMAIN n.cells : j # i => m.cells[j] = n.cells[j]
<1>1. PICK d \in CellRecords : d = n.cells[i]
  BY CellsOf
<1>2. PICK c : c = [d EXCEPT !.shown = TRUE]
  OBVIOUS
<1>3. /\ c \in CellRecords /\ c.id = d.id /\ c.type = d.type
      /\ c.text = d.text /\ c.selected = d.selected /\ c.shown = TRUE
  BY <1>2 DEF CellRecords
<1>4. m = [n EXCEPT !.cells[i] = c]
  BY <1>1, <1>2 DEF ShownAt
<1> QED BY <1>1, <1>3, <1>4, VeilsAt

\* Hiding one cell.
LEMMA HiddenAtIs ==
    ASSUME NEW n \in NotebookRecords, NEW i \in DOMAIN n.cells, NEW m, m = HiddenAt(n, i)
    PROVE  /\ Veils(n, m) /\ DOMAIN m.cells = DOMAIN n.cells /\ ~ m.cells[i].shown
           /\ \A j \in DOMAIN n.cells : j # i => m.cells[j] = n.cells[j]
<1>1. PICK d \in CellRecords : d = n.cells[i]
  BY CellsOf
<1>2. PICK c : c = [d EXCEPT !.shown = FALSE]
  OBVIOUS
<1>3. /\ c \in CellRecords /\ c.id = d.id /\ c.type = d.type
      /\ c.text = d.text /\ c.selected = d.selected /\ c.shown = FALSE
  BY <1>2 DEF CellRecords
<1>4. m = [n EXCEPT !.cells[i] = c]
  BY <1>1, <1>2 DEF HiddenAt
<1> QED BY <1>1, <1>3, <1>4, VeilsAt

\* Starting and stopping the slideshow.
LEMMA ShowKeeps ==
    ASSUME NotebookInv, StartShow \/ StopShow
    PROVE  NotebookInv'
<1>0. /\ nb \in NotebookRecords /\ Good(nb) /\ Fits(nb) /\ NTypeOK
      /\ file' = file /\ gone' = gone /\ slide' = slide
  BY DEF NotebookInv, NTypeOK, StartShow, StopShow
<1>1. PICK S, m : /\ m = Shown(nb, S) /\ nb' = m /\ show' \in {"on", "off", "failed"}
                  /\ steady' \in BOOLEAN
                  /\ show' = "on" /\ steady' => S = {slide} /\ slide \in DOMAIN nb.cells
  <2>1. CASE StartShow
    <3>1. CASE slide \in DOMAIN nb.cells /\ nb' = Shown(nb, {slide}) /\ show' = "on" /\ steady' = TRUE
      BY <3>1
    <3>2. CASE /\ nb' = Shown(nb, {}) /\ show' = (IF show = "on" THEN "on" ELSE "failed")
               /\ steady' = FALSE
      BY <3>2
    <3> QED BY <2>1, <3>1, <3>2 DEF StartShow
  <2>2. CASE StopShow
    BY <2>2 DEF StopShow
  <2> QED BY <2>1, <2>2
<1>2. Veils(nb, m) /\ {j \in DOMAIN m.cells : m.cells[j].shown} = DOMAIN nb.cells \cap S
  BY <1>0, <1>1, ShownIs
<1>3. /\ Good(m) /\ Links(nb, m) /\ SameText(nb, m) /\ m \in NotebookRecords
      /\ m.dirty = nb.dirty /\ Fits(m)
  BY <1>0, <1>2, VeilsKeep DEF Veils, Fits
<1>4. NTypeOK'
  BY <1>0, <1>1, <1>3 DEF NTypeOK
<1>5. ASSUME gone # NoData PROVE Linked(m, gone[1])
  <2>1. PICK g \in GoneRecords : gone = <<g>>
    BY <1>5, <1>0 DEF NTypeOK
  <2>2. gone[1] = g /\ Linked(nb, g)
    BY <1>5, <2>1 DEF NotebookInv
  <2> QED BY <2>2, <1>3 DEF Links
<1>6. ASSUME ~ m.dirty PROVE Leveled(Contents(m)) = Leveled(file)
  <2>1. Leveled(Contents(nb)) = Leveled(file)
    BY <1>3, <1>6 DEF NotebookInv, CleanIsTheFile
  <2> QED BY <1>0, <1>3, <2>1, SameTextLeveled DEF NTypeOK
<1>7. OneSlide'
  BY <1>0, <1>1, <1>2 DEF OneSlide
<1> QED BY <1>0, <1>1, <1>3, <1>4, <1>5, <1>6, <1>7 DEF NotebookInv, CleanIsTheFile

\* F1 and F2: the slide that is left is hidden, another cell is selected and
\* shown.
LEMMA TurnKeeps ==
    ASSUME NotebookInv, NextSlide \/ PrevSlide
    PROVE  NotebookInv'
<1>0. /\ nb \in NotebookRecords /\ Good(nb) /\ Fits(nb) /\ NTypeOK
      /\ slide \in DOMAIN nb.cells /\ show = "on" /\ show' = show
      /\ file' = file /\ gone' = gone /\ steady' = steady
  BY DEF NotebookInv, NTypeOK, NextSlide, PrevSlide, Turn
<1>c. DOMAIN nb.cells = 1..Len(nb.cells) /\ Len(nb.cells) \in Nat
  BY <1>0, CellsOf
<1>1. PICK h : h = HiddenAt(nb, slide)
  OBVIOUS
<1>2. /\ Veils(nb, h) /\ DOMAIN h.cells = DOMAIN nb.cells /\ ~ h.cells[slide].shown
      /\ \A j \in DOMAIN nb.cells : j # slide => h.cells[j] = nb.cells[j]
  BY <1>0, <1>1, HiddenAtIs
<1>3. /\ Good(h) /\ Links(nb, h) /\ SameText(nb, h) /\ h \in NotebookRecords
      /\ h.dirty = nb.dirty
  BY <1>0, <1>2, VeilsKeep DEF Veils
<1>4. SelectedIndex(h) \in Int
  BY <1>3, GoodSelects, CellsOf DEF Null
<1>5. PICK k \in Int, to \in DOMAIN nb.cells : Turn(Select(h, k), to)
  <2>1. /\ Clamp(slide + 1, 1, Len(nb.cells)) \in DOMAIN nb.cells
        /\ Clamp(slide - 1, 1, Len(nb.cells)) \in DOMAIN nb.cells
    BY <1>0, <1>c DEF Clamp
  <2> QED BY <1>1, <1>4, <2>1 DEF NextSlide, PrevSlide, SelectNext, SelectPrev
<1>6. to \in DOMAIN nb.cells
  BY <1>5
<1>7. PICK s : s = Select(h, k)
  OBVIOUS
<1>8. s \in NotebookRecords /\ Good(s) /\ Mirrors(h, s) /\ s.dirty = h.dirty
  BY <1>3, <1>7, SelectDoes
<1>9. PICK b : b = IF to = slide THEN nb ELSE s
  OBVIOUS
<1>10. DOMAIN s.cells = DOMAIN nb.cells
  BY <1>2, <1>3, <1>8, CellsOf DEF Mirrors
<1>11. /\ b \in NotebookRecords /\ Good(b) /\ Links(nb, b) /\ SameText(nb, b)
       /\ b.dirty = nb.dirty /\ DOMAIN b.cells = DOMAIN nb.cells
  <2>1. CASE to = slide
    BY <1>0, <1>9, <2>1, FollowsSelf DEF SameText
  <2>2. CASE to # slide
    <3>1. Links(nb, s)
      BY <1>3, <1>8, MirrorsLink, LinksTrans
    <3>2. SameText(nb, s)
      BY <1>2, <1>3, <1>8 DEF SameText, Mirrors, Alike
    <3> QED BY <1>3, <1>8, <1>9, <1>10, <2>2, <3>1, <3>2
  <2> QED BY <2>1, <2>2
<1>12. PICK m : m = ShownAt(b, to)
  OBVIOUS
<1>13. /\ Veils(b, m) /\ DOMAIN m.cells = DOMAIN b.cells /\ m.cells[to].shown
       /\ \A j \in DOMAIN b.cells : j # to => m.cells[j] = b.cells[j]
  BY <1>6, <1>11, <1>12, ShownAtIs
<1>14. /\ Good(m) /\ Links(b, m) /\ SameText(b, m) /\ m \in NotebookRecords
       /\ m.dirty = nb.dirty
  BY <1>11, <1>13, VeilsKeep DEF Veils
<1>15. nb' = m /\ slide' = to
  BY <1>5, <1>7, <1>9, <1>12 DEF Turn
<1>16. Links(nb, m) /\ SameText(nb, m) /\ Fits(m)
  BY <1>0, <1>11, <1>14, LinksTrans DEF SameText, Fits
<1>17. NTypeOK'
  BY <1>0, <1>c, <1>6, <1>14, <1>15 DEF NTypeOK
<1>18. ASSUME gone # NoData PROVE Linked(m, gone[1])
  <2>1. PICK g \in GoneRecords : gone = <<g>>
    BY <1>18, <1>0 DEF NTypeOK
  <2>2. gone[1] = g /\ Linked(nb, g)
    BY <1>18, <2>1 DEF NotebookInv
  <2> QED BY <2>2, <1>16 DEF Links
<1>19. ASSUME ~ m.dirty PROVE Leveled(Contents(m)) = Leveled(file)
  <2>1. Leveled(Contents(nb)) = Leveled(file)
    BY <1>14, <1>19 DEF NotebookInv, CleanIsTheFile
  <2> QED BY <1>0, <1>14, <1>16, <2>1, SameTextLeveled DEF NTypeOK
<1>20. ASSUME steady PROVE {j \in DOMAIN m.cells : m.cells[j].shown} = {to}
  <2>1. {j \in DOMAIN nb.cells : nb.cells[j].shown} = {slide}
    BY <1>0, <1>20 DEF NotebookInv, OneSlide
  <2>2. ASSUME NEW j \in DOMAIN nb.cells, j # to PROVE ~ m.cells[j].shown
    <3>1. m.cells[j] = b.cells[j]
      BY <1>11, <1>13, <2>2
    <3>2. CASE to = slide
      BY <1>9, <2>1, <2>2, <3>1, <3>2
    <3>3. CASE to # slide
      <4>1. s.cells[j].shown = h.cells[j].shown
        BY <1>2, <1>8 DEF Mirrors, Alike
      <4>2. ~ h.cells[j].shown
        <5>1. CASE j = slide
          BY <1>2, <5>1
        <5>2. CASE j # slide
          BY <1>2, <2>1, <5>2
        <5> QED BY <5>1, <5>2
      <4> QED BY <1>9, <3>1, <3>3, <4>1, <4>2
    <3> QED BY <3>2, <3>3
  <2>3. DOMAIN m.cells = DOMAIN nb.cells
    BY <1>11, <1>13
  <2> QED BY <1>6, <1>13, <2>2, <2>3
<1>21. OneSlide'
  BY <1>0, <1>15, <1>20 DEF OneSlide
<1> QED BY <1>0, <1>14, <1>15, <1>16, <1>17, <1>18, <1>19, <1>21 DEF NotebookInv, CleanIsTheFile

-----------------------------------------------------------------------------
(* Loading.                                                                 *)

\* A load replaces the notebook, forgets what was deleted and leaves the
\* slideshow aside.
LEMMA LoadKeeps ==
    ASSUME NotebookInv, LoadSucceeds \/ LoadIPYNB
    PROVE  NotebookInv'
<1>0. nb \in NotebookRecords /\ Good(nb) /\ NTypeOK
  BY DEF NotebookInv, NTypeOK
<1>1. ASSUME NEW m \in NotebookRecords, NEW f \in Seq(DataRecords), Good(m), Fits(m),
             Replaced(m), file' = f, ~ m.dirty => Leveled(Contents(m)) = Leveled(f)
      PROVE  NotebookInv'
  <2>1. nb' = m /\ gone' = NoData /\ steady' = FALSE /\ show' = show /\ slide' = slide
    BY <1>1 DEF Replaced
  <2>2. NTypeOK'
    BY <1>0, <1>1, <2>1 DEF NTypeOK
  <2> QED BY <1>1, <2>1, <2>2 DEF NotebookInv, CleanIsTheFile, OneSlide
<1>2. CASE LoadSucceeds
  <2>1. PICK f \in Files : Replaced(LoadedWith(nb, f)) /\ file' = FileContents(f)
    BY <1>2 DEF LoadSucceeds
  <2>2. PICK m : m = LoadedWith(nb, f)
    OBVIOUS
  <2>3. PICK d : d = FileContents(f)
    OBVIOUS
  <2>4. /\ m \in NotebookRecords /\ Good(m) /\ Fits(m) /\ d \in Seq(DataRecords)
        /\ Len(m.cells) = Len(d) /\ \A j \in DOMAIN m.cells : ToJSON(m.cells[j]) = d[j]
    BY <1>0, <2>2, <2>3, LoadedDoes
  <2>5. Leveled(Contents(m)) = Leveled(d)
    <3>1. \A j \in DOMAIN m.cells : m.cells[j].type = d[j].type /\ m.cells[j].text = d[j].text
      <4>1. \A c : ToJSON(c).type = c.type /\ ToJSON(c).text = c.text
        BY DEF ToJSON, Data
      <4> QED BY <2>4, <4>1
    <3> QED BY <2>4, <3>1, LeveledIs
  <2> QED BY <1>1, <2>1, <2>2, <2>3, <2>4, <2>5
<1>3. CASE LoadIPYNB
  <2>1. PICK f \in Files : Replaced(FromJSON(nb, f)) /\ file' = file
    BY <1>3 DEF LoadIPYNB
  <2>2. PICK m : m = FromJSON(nb, f)
    OBVIOUS
  <2>3. /\ f \in Seq(FileCells) /\ m \in Holding(Len(f), f)
        /\ HasCell(nb) /\ Len(f) = 0 => m.dirty
        /\ ~ HasCell(nb) /\ Len(f) = 0 => m = nb
    BY <1>0, <2>2, FromJSONDoes
  <2>4. Len(f) <= MaxCells
    BY NotebookAssumption
  <2>5. m \in NotebookRecords /\ Good(m) /\ Fits(m) /\ (Len(f) # 0 => m.dirty)
    BY <2>3, <2>4 DEF Holding, Fits
  <2>6. ~ m.dirty => Leveled(Contents(m)) = Leveled(file)
    BY <2>3, <2>5 DEF NotebookInv, CleanIsTheFile
  <2> QED BY <1>0, <1>1, <2>1, <2>2, <2>5, <2>6 DEF NTypeOK
<1> QED BY <1>2, <1>3

-----------------------------------------------------------------------------
\* At the start there is no cell, no file and nothing deleted.
LEMMA NotebookInit == NInit => NotebookInv
<1> SUFFICES ASSUME NInit PROVE NotebookInv
  OBVIOUS
<1>1. /\ nb.cells = <<>> /\ nb.clip = <<>> /\ nb.backup = <<>> /\ nb.dirty = FALSE
      /\ nb \in NotebookRecords
  BY DEF NInit, NotebookRecords, Types, NoIndex
<1>2. NTypeOK
  <2>1. file = <<>> /\ <<>> \in Seq(DataRecords) /\ show = "off" /\ slide = 1
    BY DEF NInit
  <2>2. steady = FALSE /\ gone = NoData
    BY DEF NInit
  <2> QED BY <1>1, <2>1, <2>2 DEF NTypeOK
<1>3. Good(nb) /\ Fits(nb)
  BY <1>1, NotebookAssumption DEF Good, Distinct, HasCell, Fits
<1>4. Leveled(Contents(nb)) = Leveled(file)
  <2>1. Contents(nb) = <<>> /\ file = <<>>
    BY <1>1 DEF NInit, Contents
  <2> QED BY <2>1
<1> QED BY <1>2, <1>3, <1>4 DEF NInit, NotebookInv, CleanIsTheFile, OneSlide

\* Every command, answer and key keeps the invariant.
LEMMA NotebookStep == NotebookInv /\ [NNext]_nvars => NotebookInv'
<1> SUFFICES ASSUME NotebookInv, [NNext]_nvars PROVE NotebookInv'
  OBVIOUS
<1>1. CASE \/ Chord \/ Type \/ OpenCell \/ SelectByClick \/ SelectNextCell \/ SelectPrevCell
           \/ MoveCellUp \/ MoveCellDown \/ OutputCommand \/ ExecuteInPlace \/ CopyCell
  BY <1>1, SelectionKeeps
<1>2. CASE \/ InsertCellAbove \/ InsertCellBelow \/ InsertCellAtEnd \/ SetNextInput
           \/ PasteCellAbove \/ PasteCellBelow
  BY <1>2, InsertionKeeps
<1>3. CASE DeleteCell \/ CutCell
  BY <1>3, DeletionKeeps
<1>4. CASE \/ UndeleteCell \/ PasteCellReplace \/ SplitCell \/ MergeCellAbove \/ MergeCellBelow
           \/ ConvertCell
  BY <1>4, RewriteKeeps
<1>5. CASE ExecuteCell \/ ExecuteAndInsert \/ ExecuteCells
  BY <1>5, ExecutionKeeps
<1>6. CASE LoadSucceeds \/ LoadIPYNB
  BY <1>6, LoadKeeps
<1>7. CASE StartShow \/ StopShow
  BY <1>7, ShowKeeps
<1>8. CASE NextSlide \/ PrevSlide
  BY <1>8, TurnKeeps
<1>9. CASE LoadFails \/ Restore \/ RestoreAnswered \/ UNCHANGED nvars
  <2>1. UNCHANGED <<nb, show, slide, file, gone, steady>>
    BY <1>9 DEF LoadFails, Restore, RestoreAnswered, nvars
  <2> QED BY <2>1 DEF NotebookInv, NTypeOK, CleanIsTheFile, OneSlide
<1> QED BY <1>1, <1>2, <1>3, <1>4, <1>5, <1>6, <1>7, <1>8, <1>9 DEF NNext

\* The invariant of the notebook (static/notebook/js/notebook.js): whatever the
\* visitor does, its cells can be told apart, one of them is selected, and the
\* place that undelete remembers is beside the neighbour of the deleted cell.
THEOREM NotebookInvariant == NotebookSpec => []NotebookInv
<1> QED BY NotebookInit, NotebookStep, PTL DEF NotebookSpec

\* A notebook that is not marked dirty holds what it was loaded with.
THEOREM CleanNotebook == NotebookSpec => []CleanIsTheFile
<1>1. NotebookInv => CleanIsTheFile
  BY DEF NotebookInv
<1> QED BY <1>1, NotebookInvariant, PTL

\* A slideshow shows one cell, the current slide, while no cell comes or goes.
THEOREM OneSlideShown == NotebookSpec => []OneSlide
<1>1. NotebookInv => OneSlide
  BY DEF NotebookInv
<1> QED BY <1>1, NotebookInvariant, PTL

\* undelete_cell puts the deleted cell back as it was, next to a neighbour it had.
LEMMA UndeleteReturns ==
    ASSUME NotebookInv, UndeleteCell, gone # NoData
    PROVE  Returned(nb, nb', gone[1])
<1>0. nb \in NotebookRecords /\ Good(nb) /\ Fits(nb) /\ NTypeOK
  BY DEF NotebookInv, NTypeOK
<1>1. PICK g \in GoneRecords : gone = <<g>>
  BY <1>0 DEF NTypeOK
<1>2. gone[1] = g /\ Linked(nb, g)
  BY <1>1 DEF NotebookInv
<1>3. PICK m : m = Undelete(nb)
  OBVIOUS
<1>4. m \in NotebookRecords /\ Returned(nb, m, g)
  BY <1>0, <1>2, <1>3, UndeleteDoes
<1>5. nb'.cells = m.cells
  <2>1. CASE Does(m)
    BY <2>1 DEF Does
  <2>2. CASE Does([m EXCEPT !.chord = FALSE])
    <3>1. nb' = [m EXCEPT !.chord = FALSE]
      BY <2>2 DEF Does
    <3> QED BY <1>4, <3>1 DEF NotebookRecords
  <2> QED BY <1>3, <2>1, <2>2 DEF UndeleteCell, Bound
<1> QED BY <1>2, <1>4, <1>5 DEF Returned

\* "Restore the most recently deleted cell": after any insertions, pastes, text
\* and runs, the cell comes back as it was, next to a neighbour it had.
THEOREM UndeletesInPlace == NotebookSpec => UndeleteInPlace
<1> DEFINE Back == UndeleteCell /\ gone # NoData => Returned(nb, nb', gone[1])
<1>1. NotebookInv /\ [NNext]_nvars => [Back]_nvars
  BY UndeleteReturns
<1>2. NotebookSpec => [][Back]_nvars
  <2> HIDE DEF Back
  <2> QED BY <1>1, NotebookInvariant, PTL DEF NotebookSpec
<1> QED BY <1>2 DEF UndeleteInPlace, Returned

\* The lines are those of the cells, so that ending a chord moves none.
LEMMA BoundLines ==
    ASSUME NEW n \in NotebookRecords, nb \in NotebookRecords, SameLines(nb, n), Bound(n)
    PROVE  nb' \in NotebookRecords /\ SameLines(nb, nb')
<1>1. CASE Does(n)
  BY <1>1 DEF Does
<1>2. CASE Does([n EXCEPT !.chord = FALSE])
  <2>1. nb' = [n EXCEPT !.chord = FALSE]
    BY <1>2 DEF Does
  <2>2. nb' \in NotebookRecords /\ nb'.cells = n.cells
    BY <2>1 DEF NotebookRecords
  <2>3. SameLines(n, nb')
    <3>1. PICK m \in NotebookRecords : m = nb'
      BY <2>2
    <3>2. Len(m.cells) = Len(n.cells) /\ \A k \in DOMAIN n.cells : m.cells[k].text = n.cells[k].text
      BY <3>1, <2>2
    <3> QED BY <3>1, <3>2, TextsStay
  <2> QED BY <2>2, <2>3, LinesTrans
<1> QED BY <1>1, <1>2 DEF Bound

\* Every command that rearranges keeps the lines.
LEMMA RearrangesLines ==
    ASSUME NotebookInv, Rearranges
    PROVE  nb \in NotebookRecords /\ nb' \in NotebookRecords /\ SameLines(nb, nb')
<1>0. nb \in NotebookRecords /\ Good(nb) /\ Fits(nb)
  BY DEF NotebookInv, NTypeOK
<1>1. CASE MoveCellUp \/ MoveCellDown
  <2>1. PICK m : (m = MoveUp(nb) \/ m = MoveDown(nb)) /\ Bound(m)
    BY <1>1 DEF MoveCellUp, MoveCellDown
  <2>2. m \in NotebookRecords /\ SameLines(nb, m)
    BY <1>0, <2>1, MovesDo
  <2> QED BY <1>0, <2>1, <2>2, BoundLines
<1>2. CASE SplitCell
  <2>1. PICK k \in 0..Len(Current(nb).text) : Bound(Split(nb, k))
    BY <1>2 DEF SplitCell
  <2>2. PICK m : m = Split(nb, k)
    OBVIOUS
  <2>3. HasCell(nb) /\ Bound(m)
    BY <1>2, <2>1, <2>2 DEF SplitCell
  <2>4. m \in NotebookRecords /\ SameLines(nb, m)
    BY <1>0, <2>2, <2>3, SplitDoes
  <2> QED BY <1>0, <2>3, <2>4, BoundLines
<1>3. CASE ConvertCell
  <2>1. PICK t \in Types, l \in 1..2 : Bound(Convert(nb, t, l))
    BY <1>3 DEF ConvertCell
  <2>2. PICK m : m = Convert(nb, t, l)
    OBVIOUS
  <2>3. m \in NotebookRecords /\ SameLines(nb, m)
    BY <1>0, <2>2, ConvertDoes
  <2> QED BY <1>0, <2>1, <2>2, <2>3, BoundLines
<1>4. CASE Merges /\ Current(nb).type \in {"code", "markdown"}
  <2>1. PICK m : (m = MergeAbove(nb) \/ m = MergeBelow(nb)) /\ Bound(m)
    BY <1>4 DEF Merges, MergeCellAbove, MergeCellBelow, Bound
  <2>2. m \in NotebookRecords /\ SameLines(nb, m)
    BY <1>0, <1>4, <2>1, MergesDo
  <2> QED BY <1>0, <2>1, <2>2, BoundLines
<1>e. PICK n : n = Execute(nb, TRUE)
  OBVIOUS
<1>n. /\ n \in NotebookRecords /\ Follows(nb, n) /\ SameLines(nb, n)
      /\ HasCell(nb) /\ Current(n).text # <<>> => Len(n.cells) = Len(nb.cells)
  BY <1>0, <1>e, ExecuteDoes
<1>5. CASE ExecuteCell
  <2>1. Bound(n)
    BY <1>5, <1>e DEF ExecuteCell, Bound
  <2> QED BY <1>0, <1>n, <2>1, BoundLines
<1>6. CASE ExecuteAndInsert
  <2>1. /\ HasCell(nb)
        /\ Does(IF Current(n).text = <<>> THEN n ELSE InsertAbove(n, "code", Null))
    BY <1>6, <1>e DEF ExecuteAndInsert
  <2>2. CASE Current(n).text = <<>>
    <3>1. Bound(n)
      BY <2>1, <2>2 DEF Bound
    <3> QED BY <1>0, <1>n, <3>1, BoundLines
  <2>3. CASE Current(n).text # <<>>
    <3>1. Fits(n) /\ Good(n)
      BY <1>0, <1>n, <2>1, <2>3 DEF Follows, Fits
    <3>2. PICK k \in Int : k = IndexOrSelected(n, Null)
      BY <1>n, <3>1, IndexIs DEF Null
    <3>3. PICK m : m = InsertCell(n, "code", k)
      OBVIOUS
    <3>4. PICK i : i = Clamp(k, 1, Len(n.cells) + 1)
      OBVIOUS
    <3>t. "code" \in Types
      BY DEF Types
    <3>5. Good(m) /\ Grows(n, m, i) /\ ToJSON(m.cells[i]) = Data("code", <<>>, 1)
      BY <1>n, <3>t, <3>1, <3>3, <3>4, InsertCellDoes
    <3>6. m \in NotebookRecords /\ SameLines(n, m)
      <4>1. m.cells[i].text = <<>>
        BY <3>5 DEF ToJSON, Data
      <4> QED BY <4>1, <1>n, <3>5, BlankLines DEF Good
    <3>7. Bound(m)
      BY <2>1, <2>3, <3>2, <3>3 DEF Bound, InsertAbove
    <3>8. SameLines(nb, m)
      BY <1>n, <3>6, LinesTrans
    <3> QED BY <1>0, <3>6, <3>7, <3>8, BoundLines
  <2> QED BY <2>2, <2>3
<1> QED BY <1>1, <1>2, <1>3, <1>4, <1>5, <1>6 DEF Rearranges

\* Moving, splitting, converting, running and merging cells of code or markdown
\* (static/notebook/js/notebook.js) neither loses a line of text nor repeats one.
THEOREM TextIsKept == NotebookSpec => KeepsText
<1> DEFINE Stays == Rearranges => \A l \in Lines(nb) \cup Lines(nb') : Count(nb, l) = Count(nb', l)
<1>1. NotebookInv /\ [NNext]_nvars => [Stays]_nvars
  <2> SUFFICES ASSUME NotebookInv, Rearranges, NEW l PROVE Count(nb, l) = Count(nb', l)
    OBVIOUS
  <2>1. PICK n \in NotebookRecords, m \in NotebookRecords : n = nb /\ m = nb' /\ SameLines(n, m)
    BY RearrangesLines
  <2>2. Count(n, l) <= Count(m, l) /\ Count(m, l) <= Count(n, l)
    BY <2>1, WithinCounts DEF SameLines
  <2>3. Count(n, l) \in Nat /\ Count(m, l) \in Nat
    BY CountIs
  <2> QED BY <2>1, <2>2, <2>3
<1>2. NotebookSpec => [][Stays]_nvars
  <2> HIDE DEF Stays
  <2> QED BY <1>1, NotebookInvariant, PTL DEF NotebookSpec
<1> QED BY <1>2 DEF KeepsText

-----------------------------------------------------------------------------
(************************** The outputs of a cell **************************)

\* What a cell has printed and shows.
OutputKinds == Streams \cup {"display_data", "pyout", "pyerr"}
OutputRecords == [kind : OutputKinds, text : Nat]
ElementRecords == [kind : OutputKinds \cup {"raw_input"}, texts : Seq(Int)]
Flags == BOOLEAN \X BOOLEAN \X BOOLEAN

\* No output of this kind is blank.
Unbroken(outs, kind) == \A i \in DOMAIN outs : outs[i].kind = kind => outs[i].text # Blank
\* Text k of element e is from an output.
Printed(els, e, k) == e \in DOMAIN els /\ els[e].kind # "raw_input" /\ k \in DOMAIN els[e].texts

\* The outputs are in the order they were printed in, the last under number n.
InOrder(outs, n) ==
    /\ \A i \in DOMAIN outs : outs[i].text <= n
    /\ \A i, j \in DOMAIN outs :
         i < j /\ outs[i].text # Blank /\ outs[j].text # Blank => outs[i].text < outs[j].text
\* The page shows outputs, and boxes.
Held(outs, els) ==
    \A e \in DOMAIN els : \A k \in DOMAIN els[e].texts :
        /\ els[e].kind = "raw_input" => els[e].texts[k] = Box
        /\ els[e].kind # "raw_input" => /\ els[e].texts[k] # Blank
                                        /\ \E i \in DOMAIN outs : outs[i] = Output(els[e].kind, els[e].texts[k])
\* What it shows of the kinds without a blank output is in order.
Sorted(outs, els) ==
    \A e, f \in DOMAIN els : \A k \in DOMAIN els[e].texts, l \in DOMAIN els[f].texts :
        /\ Printed(els, e, k) /\ Printed(els, f, l) /\ Precedes(<<e, k>>, <<f, l>>)
        /\ Unbroken(outs, els[e].kind) /\ Unbroken(outs, els[f].kind)
        => els[e].texts[k] < els[f].texts[l]
\* Of these kinds the streams are shown in full.
Streamed(outs, els) ==
    \A i \in DOMAIN outs :
        outs[i].kind \in Streams /\ Unbroken(outs, outs[i].kind) =>
            \E e \in DOMAIN els : els[e].kind = outs[i].kind /\ outs[i].text \in Range(els[e].texts)

Faithful(outs, els, n) == /\ outs \in Seq(OutputRecords) /\ els \in Seq(ElementRecords) /\ n \in Nat
                          /\ InOrder(outs, n) /\ Held(outs, els)
                          /\ Sorted(outs, els) /\ Streamed(outs, els)

\* A clear that is pending was asked for after everything on the page.
OutputsInv == /\ Faithful(outputs, elements, printed)
              /\ clearing = NoTimer \/ (clearing \in Flags /\ since = {})
              /\ printed = 0 => since = {}
              /\ NewOutputsSurvive

-----------------------------------------------------------------------------
(* The filter of a clear.                                                   *)

\* r is the part of s whose kinds are in K, in its order; m says where it was.
ThinsBy(s, r, K, m) ==
    /\ m \in [DOMAIN r -> DOMAIN s]
    /\ \A i \in DOMAIN r : r[i] = s[m[i]] /\ r[i].kind \in K
    /\ \A i, j \in DOMAIN r : i < j => m[i] < m[j]
    /\ \A j \in DOMAIN s : s[j].kind \in K => \E i \in DOMAIN r : m[i] = j
\* Of the first k of s.
Part(s, K, k, r, m) ==
    /\ m \in [DOMAIN r -> 1..k]
    /\ \A i \in DOMAIN r : r[i] = s[m[i]] /\ r[i].kind \in K
    /\ \A i, j \in DOMAIN r : i < j => m[i] < m[j]
    /\ \A j \in 1..k : s[j].kind \in K => \E i \in DOMAIN r : m[i] = j
Parts(S, s, K, k) == {r \in Seq(S) : \E m : Part(s, K, k, r, m)}

\* One more of the sequence is kept.
LEMMA PartKeeps ==
    ASSUME NEW S, NEW s \in Seq(S), NEW K, NEW k \in 1..Len(s), NEW r \in Parts(S, s, K, k - 1),
           s[k].kind \in K
    PROVE  Append(r, s[k]) \in Parts(S, s, K, k)
<1>1. r \in Seq(S) /\ s[k] \in S
  BY DEF Parts
<1>2. PICK m : Part(s, K, k - 1, r, m)
  BY DEF Parts
<1> DEFINE t == Append(r, s[k])
<1> DEFINE p == [i \in 1..Len(r) + 1 |-> IF i = Len(r) + 1 THEN k ELSE m[i]]
<1>3. /\ t \in Seq(S) /\ DOMAIN t = 1..Len(r) + 1 /\ DOMAIN r = 1..Len(r) /\ Len(r) \in Nat
      /\ t[Len(r) + 1] = s[k] /\ \A i \in 1..Len(r) : t[i] = r[i]
  BY <1>1
<1>m. \A i \in 1..Len(r) : m[i] \in 1..k - 1
  <2> HIDE DEF p, t
  <2> QED BY <1>2, <1>3 DEF Part
<1>4. p[Len(r) + 1] = k /\ \A i \in 1..Len(r) : p[i] = m[i] /\ m[i] \in 1..k - 1
  <2>1. Len(r) + 1 \in 1..Len(r) + 1 /\ \A i \in 1..Len(r) : i \in 1..Len(r) + 1 /\ i # Len(r) + 1
    BY <1>3
  <2> HIDE DEF t
  <2> QED BY <2>1, <1>m
<1>5. p \in [DOMAIN t -> 1..k]
  <2>1. ASSUME NEW i \in 1..Len(r) + 1 PROVE p[i] \in 1..k
    <3> HIDE DEF t, p
    <3>1. CASE i = Len(r) + 1
      BY <3>1, <1>4
    <3>2. CASE i # Len(r) + 1
      <4>1. i \in 1..Len(r)
        BY <3>2, <1>3
      <4> QED BY <4>1, <1>4
    <3> QED BY <3>1, <3>2
  <2>2. p = [i \in DOMAIN t |-> p[i]]
    BY <1>3
  <2> HIDE DEF t, p
  <2> QED BY <2>1, <2>2, <1>3
<1> HIDE DEF t, p
<1>6. ASSUME NEW i \in DOMAIN t PROVE t[i] = s[p[i]] /\ t[i].kind \in K
  BY <1>2, <1>3, <1>4 DEF Part
<1>7. ASSUME NEW i \in DOMAIN t, NEW j \in DOMAIN t, i < j PROVE p[i] < p[j]
  <2>1. i \in 1..Len(r)
    BY <1>3, <1>7
  <2>2. CASE j = Len(r) + 1
    BY <2>1, <2>2, <1>4
  <2>3. CASE j # Len(r) + 1
    <3>1. j \in 1..Len(r)
      BY <2>3, <1>3
    <3> QED BY <2>1, <3>1, <1>2, <1>3, <1>4, <1>7 DEF Part
  <2> QED BY <2>2, <2>3
<1>8. ASSUME NEW j \in 1..k, s[j].kind \in K PROVE \E i \in DOMAIN t : p[i] = j
  <2>1. CASE j = k
    BY <2>1, <1>3, <1>4
  <2>2. CASE j # k
    <3>1. j \in 1..k - 1
      BY <2>2
    <3>2. PICK i \in DOMAIN r : m[i] = j
      BY <3>1, <1>2, <1>8 DEF Part
    <3> QED BY <3>2, <1>3, <1>4
  <2> QED BY <2>1, <2>2
<1>9. Part(s, K, k, t, p)
  BY <1>5, <1>6, <1>7, <1>8 DEF Part
<1> QED BY <1>3, <1>9 DEF Parts, t

\* One more of the sequence is left out.
LEMMA PartDrops ==
    ASSUME NEW S, NEW s \in Seq(S), NEW K, NEW k \in 1..Len(s), NEW r \in Parts(S, s, K, k - 1),
           s[k].kind \notin K
    PROVE  r \in Parts(S, s, K, k)
<1>1. r \in Seq(S)
  BY DEF Parts
<1>2. PICK m : Part(s, K, k - 1, r, m)
  BY DEF Parts
<1>3. m \in [DOMAIN r -> 1..k]
  <2>1. m \in [DOMAIN r -> 1..k - 1]
    BY <1>2 DEF Part
  <2> QED BY <2>1
<1>4. ASSUME NEW j \in 1..k, s[j].kind \in K PROVE \E i \in DOMAIN r : m[i] = j
  <2>1. j \in 1..k - 1
    BY <1>4
  <2> QED BY <2>1, <1>2, <1>4 DEF Part
<1>5. Part(s, K, k, r, m)
  BY <1>2, <1>3, <1>4 DEF Part
<1> QED BY <1>1, <1>5 DEF Parts

\* What the filter of a sequence by kinds returns.
LEMMA KeptIs ==
    ASSUME NEW S, NEW s \in Seq(S), NEW K, NEW T,
           \A j \in DOMAIN s : s[j] \in T <=> s[j].kind \in K
    PROVE  Kept(s, T) \in Seq(S) /\ \E m : ThinsBy(s, Kept(s, T), K, m)
<1> DEFINE N == Len(s)
<1> DEFINE A == [k \in 0..N |-> Parts(S, s, K, k)]
<1> DEFINE Longer(k, r) == IF s[k] \in T THEN Append(r, s[k]) ELSE r
<1> DEFINE step == [k \in 1..N |-> [r \in A[k - 1] |-> Longer(k, r)]]
<1> DEFINE IsLoop(at) == at = [k \in 0..Len(s) |-> IF k = 0 THEN <<>>
                                                   ELSE IF s[k] \in T THEN Append(at[k - 1], s[k])
                                                   ELSE at[k - 1]]
<1>0. N \in Nat /\ DOMAIN s = 1..N
  OBVIOUS
<1>1. <<>> \in A[0]
  <2>1. Part(s, K, 0, <<>>, <<>>) /\ <<>> \in Seq(S)
    BY DEF Part
  <2>2. <<>> \in Parts(S, s, K, 0)
    BY <2>1 DEF Parts
  <2>3. 0 \in 0..N
    BY <1>0
  <2> QED BY <2>2, <2>3
<1>2. ASSUME NEW k \in 1..N, NEW r \in A[k - 1] PROVE Longer(k, r) \in A[k]
  <2>0. k - 1 \in 0..N /\ k \in 0..N
    BY <1>0
  <2>1. r \in Parts(S, s, K, k - 1) /\ (s[k] \in T <=> s[k].kind \in K)
    BY <1>0, <1>2, <2>0
  <2>2. Longer(k, r) \in Parts(S, s, K, k)
    BY <2>1, PartKeeps, PartDrops
  <2> QED BY <2>0, <2>2
<1>3. \A k \in 1..N : \A r \in A[k - 1] : step[k][r] \in A[k]
  <2> HIDE DEF A, Longer
  <2> QED BY <1>2
<1>4. PICK g : Runs(g, N, A, step, <<>>)
  <2> HIDE DEF A, step, N
  <2> QED BY <1>0, <1>1, <1>3, LoopExists
<1>5. IsLoop(g)
  <2>1. \A k \in 1..N : g[k] = Longer(k, g[k - 1])
    <3> HIDE DEF A, N, Longer
    <3> QED BY <1>4 DEF Runs
  <2>2. ASSUME NEW k \in 0..N
        PROVE  g[k] = IF k = 0 THEN <<>> ELSE IF s[k] \in T THEN Append(g[k - 1], s[k]) ELSE g[k - 1]
    <3>1. CASE k = 0
      BY <3>1, <1>4 DEF Runs
    <3>2. CASE k # 0
      <4>1. k \in 1..N
        BY <3>2, <1>0
      <4> QED BY <4>1, <3>2, <2>1
    <3> QED BY <3>1, <3>2
  <2>3. g = [k \in 0..N |-> g[k]]
    BY <1>4 DEF Runs
  <2> QED BY <2>2, <2>3
<1>6. PICK at : at = Keeping(s, T)
  OBVIOUS
<1>7. IsLoop(at)
  <2>1. Keeping(s, T) = CHOOSE at_1 : IsLoop(at_1)
    BY Zenon DEF Keeping
  <2> HIDE DEF IsLoop
  <2> QED BY <1>5, <1>6, <2>1
<1>8. at[0] = <<>> /\ \A k \in 1..N : at[k] = Longer(k, at[k - 1])
  <2>1. \A k \in 0..N : at[k] = IF k = 0 THEN <<>> ELSE Longer(k, at[k - 1])
    BY <1>7
  <2> HIDE DEF N, Longer
  <2>2. 0 \in 0..N /\ \A k \in 1..N : k \in 0..N /\ k # 0
    BY <1>0
  <2> QED BY <2>1, <2>2
<1>9. \A k \in 0..N : at[k] \in A[k]
  <2> HIDE DEF A, N, Longer
  <2>1. \A k \in 1..N : at[k - 1] \in A[k - 1] => at[k] \in A[k]
    BY <1>2, <1>8
  <2>2. at[0] \in A[0]
    BY <1>1, <1>8
  <2> QED BY <2>1, <2>2, <1>0, EachRound
<1>10. at[N] \in Parts(S, s, K, N)
  <2>1. N \in 0..N
    BY <1>0
  <2>2. A[N] = Parts(S, s, K, N)
    BY <2>1
  <2> HIDE DEF A, N
  <2> QED BY <2>1, <2>2, <1>9
<1>11. Kept(s, T) = at[N]
  BY <1>6 DEF Kept
<1> HIDE DEF A, step, IsLoop, Longer
<1>12. PICK m : Part(s, K, N, at[N], m)
  BY <1>10 DEF Parts
<1>13. ThinsBy(s, at[N], K, m)
  BY <1>0, <1>12 DEF Part, ThinsBy
<1> QED BY <1>10, <1>11, <1>13 DEF Parts

\* A filter by kinds keeps the page faithful to the outputs: what shows an output goes
\* with it, and what shows a stream stays with it.
LEMMA Thinned ==
    ASSUME NEW outs, NEW els, NEW n, Faithful(outs, els, n),
           NEW K, NEW J, J \ {"raw_input"} \subseteq K, K \cap Streams \subseteq J,
           NEW outs2 \in Seq(OutputRecords), NEW m, ThinsBy(outs, outs2, K, m),
           NEW els2 \in Seq(ElementRecords), NEW w, ThinsBy(els, els2, J, w)
    PROVE  Faithful(outs2, els2, n)
<1>1. /\ outs \in Seq(OutputRecords) /\ els \in Seq(ElementRecords) /\ n \in Nat
      /\ InOrder(outs, n) /\ Held(outs, els) /\ Sorted(outs, els) /\ Streamed(outs, els)
  BY DEF Faithful
<1>2. ASSUME NEW i \in DOMAIN outs2 PROVE m[i] \in DOMAIN outs /\ outs2[i] = outs[m[i]] /\ outs[m[i]].kind \in K
  BY <1>2 DEF ThinsBy
<1>3. \A i, j \in DOMAIN outs2 : i < j => m[i] < m[j]
  BY DEF ThinsBy
<1>4. \A j \in DOMAIN outs : outs[j].kind \in K => \E i \in DOMAIN outs2 : m[i] = j
  BY DEF ThinsBy
<1>5. ASSUME NEW e \in DOMAIN els2 PROVE w[e] \in DOMAIN els /\ els2[e] = els[w[e]] /\ els[w[e]].kind \in J
  BY <1>5 DEF ThinsBy
<1>6. \A e, f \in DOMAIN els2 : e < f => w[e] < w[f]
  BY DEF ThinsBy
<1>7. \A f \in DOMAIN els : els[f].kind \in J => \E e \in DOMAIN els2 : w[e] = f
  BY DEF ThinsBy
<1>8. InOrder(outs2, n)
  BY <1>1, <1>2, <1>3 DEF InOrder
<1>9. Held(outs2, els2)
  <2> SUFFICES ASSUME NEW e \in DOMAIN els2, NEW k \in DOMAIN els2[e].texts
               PROVE  /\ els2[e].kind = "raw_input" => els2[e].texts[k] = Box
                      /\ els2[e].kind # "raw_input" =>
                           /\ els2[e].texts[k] # Blank
                           /\ \E i \in DOMAIN outs2 : outs2[i] = Output(els2[e].kind, els2[e].texts[k])
    BY DEF Held
  <2>1. w[e] \in DOMAIN els /\ els2[e] = els[w[e]] /\ els[w[e]].kind \in J /\ k \in DOMAIN els[w[e]].texts
    BY <1>5
  <2>2. CASE els2[e].kind = "raw_input"
    BY <2>1, <2>2, <1>1 DEF Held
  <2>3. CASE els2[e].kind # "raw_input"
    <3>1. els2[e].texts[k] # Blank
      BY <2>1, <2>3, <1>1 DEF Held
    <3>2. PICK j \in DOMAIN outs : outs[j] = Output(els2[e].kind, els2[e].texts[k])
      BY <2>1, <2>3, <1>1 DEF Held
    <3>3. outs[j].kind \in K
      BY <3>2, <2>1, <2>3 DEF Output
    <3>4. PICK i \in DOMAIN outs2 : m[i] = j
      BY <3>3, <1>4
    <3> QED BY <3>1, <3>2, <3>4, <1>2, <2>3
  <2> QED BY <2>2, <2>3
<1>10. ASSUME NEW kind \in K, Unbroken(outs2, kind) PROVE Unbroken(outs, kind)
  BY <1>2, <1>4, <1>10 DEF Unbroken
<1>11. Sorted(outs2, els2)
  <2> SUFFICES ASSUME NEW e \in DOMAIN els2, NEW f \in DOMAIN els2,
                      NEW k \in DOMAIN els2[e].texts, NEW l \in DOMAIN els2[f].texts,
                      Printed(els2, e, k), Printed(els2, f, l), Precedes(<<e, k>>, <<f, l>>),
                      Unbroken(outs2, els2[e].kind), Unbroken(outs2, els2[f].kind)
               PROVE  els2[e].texts[k] < els2[f].texts[l]
    BY DEF Sorted
  <2>1. w[e] \in DOMAIN els /\ els2[e] = els[w[e]] /\ els[w[e]].kind \in J
    BY <1>5
  <2>2. w[f] \in DOMAIN els /\ els2[f] = els[w[f]] /\ els[w[f]].kind \in J
    BY <1>5
  <2>3. Printed(els, w[e], k) /\ Printed(els, w[f], l)
    BY <2>1, <2>2 DEF Printed
  <2>4. Unbroken(outs, els[w[e]].kind) /\ Unbroken(outs, els[w[f]].kind)
    <3>1. els[w[e]].kind \in K /\ els[w[f]].kind \in K
      BY <2>1, <2>2, <2>3 DEF Printed
    <3> QED BY <3>1, <2>1, <2>2, <1>10
  <2>5. Precedes(<<w[e], k>>, <<w[f], l>>)
    <3>1. (e < f \/ (e = f /\ k < l))
      BY DEF Precedes
    <3>2. w[e] < w[f] \/ (w[e] = w[f] /\ k < l)
      BY <3>1, <1>6
    <3> QED BY <3>2 DEF Precedes
  <2> QED BY <2>1, <2>2, <2>3, <2>4, <2>5, <1>1 DEF Sorted
<1>12. Streamed(outs2, els2)
  <2> SUFFICES ASSUME NEW i \in DOMAIN outs2, outs2[i].kind \in Streams, Unbroken(outs2, outs2[i].kind)
               PROVE  \E e \in DOMAIN els2 : els2[e].kind = outs2[i].kind /\ outs2[i].text \in Range(els2[e].texts)
    BY DEF Streamed
  <2>1. m[i] \in DOMAIN outs /\ outs2[i] = outs[m[i]] /\ outs[m[i]].kind \in K
    BY <1>2
  <2>2. PICK f \in DOMAIN els : els[f].kind = outs[m[i]].kind /\ outs[m[i]].text \in Range(els[f].texts)
    BY <2>1, <1>1, <1>10 DEF Streamed
  <2>3. PICK e \in DOMAIN els2 : w[e] = f
    BY <2>1, <2>2, <1>7
  <2> QED BY <2>1, <2>2, <2>3, <1>5
<1> QED BY <1>1, <1>8, <1>9, <1>11, <1>12 DEF Faithful

-----------------------------------------------------------------------------
(* One more output.                                                         *)

\* The page after output o, shown as text q of element p.
Adds(els, els2, p, q, o) ==
    /\ els2 \in Seq(ElementRecords) /\ DOMAIN els \subseteq DOMAIN els2
    /\ p \in DOMAIN els2 /\ q \in DOMAIN els2[p].texts
    /\ els2[p].kind = o.kind /\ els2[p].texts[q] = o.text
    /\ \A e \in DOMAIN els : els2[e].kind = els[e].kind
    /\ \A e \in DOMAIN els : \A k \in DOMAIN els[e].texts :
         k \in DOMAIN els2[e].texts /\ els2[e].texts[k] = els[e].texts[k]
    /\ \A e \in DOMAIN els2 : \A k \in DOMAIN els2[e].texts :
         (e \in DOMAIN els /\ k \in DOMAIN els[e].texts) \/ (e = p /\ k = q)
\* Nothing of a kind without a blank output comes after text q of element p.
NothingAfter(outs, els, p, q) ==
    \A e \in DOMAIN els : \A k \in DOMAIN els[e].texts :
        Printed(els, e, k) /\ Unbroken(outs, els[e].kind) => ~ Precedes(<<p, q>>, <<e, k>>)

\* The outputs with one more.
LEMMA OneMore ==
    ASSUME NEW outs \in Seq(OutputRecords), NEW o \in OutputRecords
    PROVE  LET more == Append(outs, o)
           IN  /\ more \in Seq(OutputRecords) /\ Len(outs) \in Nat /\ DOMAIN outs = 1..Len(outs)
               /\ DOMAIN more = 1..Len(outs) + 1 /\ more[Len(outs) + 1] = o
               /\ \A i \in DOMAIN outs : more[i] = outs[i] /\ i \in DOMAIN more
               /\ \A kind : Unbroken(more, kind) => Unbroken(outs, kind) /\ (kind = o.kind => o.text # Blank)
               /\ \A kind : Unbroken(outs, kind) /\ (kind = o.kind => o.text # Blank) => Unbroken(more, kind)
<1> DEFINE more == Append(outs, o)
<1>1. /\ more \in Seq(OutputRecords) /\ Len(outs) \in Nat /\ DOMAIN outs = 1..Len(outs)
      /\ DOMAIN more = 1..Len(outs) + 1 /\ more[Len(outs) + 1] = o
      /\ \A i \in DOMAIN outs : more[i] = outs[i] /\ i \in DOMAIN more
  OBVIOUS
<1> HIDE DEF more
<1>2. ASSUME NEW kind, Unbroken(more, kind) PROVE Unbroken(outs, kind) /\ (kind = o.kind => o.text # Blank)
  BY <1>1, <1>2 DEF Unbroken
<1>3. ASSUME NEW kind, Unbroken(outs, kind), kind = o.kind => o.text # Blank PROVE Unbroken(more, kind)
  <2>1. ASSUME NEW i \in DOMAIN more, more[i].kind = kind PROVE more[i].text # Blank
    <3>1. CASE i = Len(outs) + 1
      BY <3>1, <2>1, <1>1, <1>3
    <3>2. CASE i # Len(outs) + 1
      <4>1. i \in DOMAIN outs
        BY <3>2, <1>1
      <4> QED BY <4>1, <2>1, <1>1, <1>3 DEF Unbroken
    <3> QED BY <3>1, <3>2
  <2> QED BY <2>1 DEF Unbroken
<1> QED BY <1>1, <1>2, <1>3 DEF more

\* The next output is the last in order.
LEMMA StillInOrder ==
    ASSUME NEW outs \in Seq(OutputRecords), NEW n \in Nat, InOrder(outs, n),
           NEW o \in OutputRecords, o.text \in {n + 1, Blank}
    PROVE  InOrder(Append(outs, o), n + 1)
<1> DEFINE more == Append(outs, o)
<1>1. /\ Len(outs) \in Nat /\ DOMAIN outs = 1..Len(outs)
      /\ DOMAIN more = 1..Len(outs) + 1 /\ more[Len(outs) + 1] = o
      /\ \A i \in DOMAIN outs : more[i] = outs[i] /\ i \in DOMAIN more
  OBVIOUS
<1> HIDE DEF more
<1>2. \A i \in DOMAIN outs : outs[i].text <= n /\ outs[i].text \in Nat
  <2>1. \A r \in OutputRecords : r.text \in Nat
    BY DEF OutputRecords
  <2>2. \A i \in DOMAIN outs : outs[i] \in OutputRecords
    BY <1>1
  <2> QED BY <2>1, <2>2 DEF InOrder
<1>3. o.text \in Nat /\ o.text <= n + 1 /\ (o.text # Blank => o.text = n + 1)
  BY DEF Blank
<1>4. ASSUME NEW i \in DOMAIN more PROVE more[i].text <= n + 1
  <2>1. CASE i = Len(outs) + 1
    BY <2>1, <1>1, <1>3
  <2>2. CASE i # Len(outs) + 1
    <3>1. i \in DOMAIN outs
      BY <2>2, <1>1
    <3> QED BY <3>1, <1>1, <1>2
  <2> QED BY <2>1, <2>2
<1>5. ASSUME NEW i \in DOMAIN more, NEW j \in DOMAIN more, i < j, more[i].text # Blank, more[j].text # Blank
      PROVE  more[i].text < more[j].text
  <2>1. i \in DOMAIN outs
    BY <1>1, <1>5
  <2>2. CASE j = Len(outs) + 1
    BY <2>1, <2>2, <1>1, <1>2, <1>3, <1>5
  <2>3. CASE j # Len(outs) + 1
    <3>1. j \in DOMAIN outs
      BY <2>3, <1>1
    <3> QED BY <3>1, <2>1, <1>1, <1>5 DEF InOrder
  <2> QED BY <2>2, <2>3
<1>6. InOrder(more, n + 1)
  BY <1>4, <1>5 DEF InOrder
<1> QED BY <1>6 DEF more

\* An output that is shown after what is there leaves the page faithful.
LEMMA ShowsOneMore ==
    ASSUME NEW outs, NEW els, NEW n, Faithful(outs, els, n),
           NEW o \in OutputRecords, o.kind \in OutputKinds, o.text = n + 1,
           NEW els2, NEW p, NEW q, Adds(els, els2, p, q, o),
           Unbroken(outs, o.kind) => NothingAfter(outs, els, p, q)
    PROVE  Faithful(Append(outs, o), els2, n + 1)
<1>1. /\ outs \in Seq(OutputRecords) /\ els \in Seq(ElementRecords) /\ n \in Nat
      /\ InOrder(outs, n) /\ Held(outs, els) /\ Sorted(outs, els) /\ Streamed(outs, els)
  BY DEF Faithful
<1> DEFINE more == Append(outs, o)
<1>2. /\ more \in Seq(OutputRecords) /\ Len(outs) \in Nat /\ DOMAIN outs = 1..Len(outs)
      /\ DOMAIN more = 1..Len(outs) + 1 /\ more[Len(outs) + 1] = o
      /\ \A i \in DOMAIN outs : more[i] = outs[i] /\ i \in DOMAIN more
      /\ \A kind : Unbroken(more, kind) => Unbroken(outs, kind)
  BY <1>1, OneMore
<1>3. InOrder(more, n + 1)
  BY <1>1, StillInOrder
<1> HIDE DEF more
<1>4. /\ els2 \in Seq(ElementRecords) /\ DOMAIN els \subseteq DOMAIN els2
      /\ p \in DOMAIN els2 /\ q \in DOMAIN els2[p].texts
      /\ els2[p].kind = o.kind /\ els2[p].texts[q] = o.text
      /\ \A e \in DOMAIN els : els2[e].kind = els[e].kind
      /\ \A e \in DOMAIN els : \A k \in DOMAIN els[e].texts :
           k \in DOMAIN els2[e].texts /\ els2[e].texts[k] = els[e].texts[k]
  BY DEF Adds
<1>5. \A e \in DOMAIN els2 : \A k \in DOMAIN els2[e].texts :
        (e \in DOMAIN els /\ k \in DOMAIN els[e].texts) \/ (e = p /\ k = q)
  BY DEF Adds
<1>6. o.kind # "raw_input" /\ o.text # Blank /\ o = Output(o.kind, o.text)
  BY <1>1 DEF OutputKinds, Streams, Blank, Output, OutputRecords
<1>7. Held(more, els2)
  <2> SUFFICES ASSUME NEW e \in DOMAIN els2, NEW k \in DOMAIN els2[e].texts
               PROVE  /\ els2[e].kind = "raw_input" => els2[e].texts[k] = Box
                      /\ els2[e].kind # "raw_input" =>
                           /\ els2[e].texts[k] # Blank
                           /\ \E i \in DOMAIN more : more[i] = Output(els2[e].kind, els2[e].texts[k])
    BY DEF Held
  <2>1. CASE e \in DOMAIN els /\ k \in DOMAIN els[e].texts
    <3>1. els2[e].kind = els[e].kind /\ els2[e].texts[k] = els[e].texts[k]
      BY <2>1, <1>4
    <3>2. CASE els[e].kind = "raw_input"
      BY <2>1, <3>1, <3>2, <1>1 DEF Held
    <3>3. CASE els[e].kind # "raw_input"
      <4>1. els[e].texts[k] # Blank
        BY <2>1, <3>3, <1>1 DEF Held
      <4>2. PICK i \in DOMAIN outs : outs[i] = Output(els[e].kind, els[e].texts[k])
        BY <2>1, <3>3, <1>1 DEF Held
      <4>3. i \in DOMAIN more /\ more[i] = Output(els2[e].kind, els2[e].texts[k])
        BY <4>2, <3>1, <1>2
      <4> QED BY <4>1, <4>3, <3>1, <3>3
    <3> QED BY <3>2, <3>3
  <2>2. CASE e = p /\ k = q
    <3>1. Len(outs) + 1 \in DOMAIN more
      BY <1>2
    <3> QED BY <2>2, <3>1, <1>2, <1>4, <1>6
  <2> QED BY <2>1, <2>2, <1>5
<1>8. ASSUME NEW e \in DOMAIN els, NEW k \in DOMAIN els[e].texts, Printed(els, e, k)
      PROVE  els[e].texts[k] <= n /\ els[e].texts[k] \in Nat
  <2>1. PICK i \in DOMAIN outs : outs[i] = Output(els[e].kind, els[e].texts[k])
    BY <1>1, <1>8 DEF Held, Printed
  <2>2. outs[i].text = els[e].texts[k]
    BY <2>1 DEF Output
  <2>3. outs[i] \in OutputRecords
    BY <2>1, <1>1
  <2>4. outs[i].text \in Nat
    BY <2>3 DEF OutputRecords
  <2>5. outs[i].text <= n
    BY <2>1, <1>1 DEF InOrder
  <2> QED BY <2>2, <2>4, <2>5
<1>9. Sorted(more, els2)
  <2> SUFFICES ASSUME NEW e \in DOMAIN els2, NEW f \in DOMAIN els2,
                      NEW k \in DOMAIN els2[e].texts, NEW l \in DOMAIN els2[f].texts,
                      Printed(els2, e, k), Printed(els2, f, l), Precedes(<<e, k>>, <<f, l>>),
                      Unbroken(more, els2[e].kind), Unbroken(more, els2[f].kind)
               PROVE  els2[e].texts[k] < els2[f].texts[l]
    BY DEF Sorted
  <2>1. CASE e = p /\ k = q
    <3>1. ~ (f = p /\ l = q)
      <4>1. e \in Int /\ k \in Int
        <5>1. els2[e] \in ElementRecords /\ e \in Int
          BY <2>1, <1>4
        <5>2. els2[e].texts \in Seq(Int)
          BY <5>1 DEF ElementRecords
        <5> QED BY <5>1, <5>2
      <4> QED BY <2>1, <4>1 DEF Precedes
    <3>2. f \in DOMAIN els /\ l \in DOMAIN els[f].texts
      BY <3>1, <1>5
    <3>3. els2[f].kind = els[f].kind
      BY <3>2, <1>4
    <3>4. Printed(els, f, l) /\ Unbroken(outs, els[f].kind) /\ Unbroken(outs, o.kind)
      BY <2>1, <3>2, <3>3, <1>2, <1>4 DEF Printed
    <3>5. ~ Precedes(<<p, q>>, <<f, l>>)
      BY <3>2, <3>4 DEF NothingAfter
    <3> QED BY <2>1, <3>5
  <2>2. CASE ~ (e = p /\ k = q)
    <3>1. e \in DOMAIN els /\ k \in DOMAIN els[e].texts
      BY <2>2, <1>5
    <3>2. els2[e].kind = els[e].kind /\ els2[e].texts[k] = els[e].texts[k]
      BY <3>1, <1>4
    <3>3. Printed(els, e, k) /\ Unbroken(outs, els[e].kind)
      BY <3>1, <3>2, <1>2 DEF Printed
    <3>4. CASE f = p /\ l = q
      BY <3>1, <3>2, <3>3, <3>4, <1>1, <1>4, <1>8
    <3>5. CASE ~ (f = p /\ l = q)
      <4>1. f \in DOMAIN els /\ l \in DOMAIN els[f].texts
        BY <3>5, <1>5
      <4>2. els2[f].kind = els[f].kind /\ els2[f].texts[l] = els[f].texts[l]
        BY <4>1, <1>4
      <4>3. Printed(els, f, l) /\ Unbroken(outs, els[f].kind)
        BY <4>1, <4>2, <1>2 DEF Printed
      <4> QED BY <3>1, <3>2, <3>3, <4>1, <4>2, <4>3, <1>1 DEF Sorted
    <3> QED BY <3>4, <3>5
  <2> QED BY <2>1, <2>2
<1>10. Streamed(more, els2)
  <2> SUFFICES ASSUME NEW i \in DOMAIN more, more[i].kind \in Streams, Unbroken(more, more[i].kind)
               PROVE  \E e \in DOMAIN els2 : els2[e].kind = more[i].kind /\ more[i].text \in Range(els2[e].texts)
    BY DEF Streamed
  <2>1. CASE i = Len(outs) + 1
    BY <2>1, <1>2, <1>4 DEF Range
  <2>2. CASE i # Len(outs) + 1
    <3>1. i \in DOMAIN outs /\ more[i] = outs[i]
      BY <2>2, <1>2
    <3>2. PICK e \in DOMAIN els : els[e].kind = outs[i].kind /\ outs[i].text \in Range(els[e].texts)
      BY <3>1, <1>1, <1>2 DEF Streamed
    <3>3. PICK k \in DOMAIN els[e].texts : els[e].texts[k] = outs[i].text
      BY <3>2 DEF Range
    <3>4. e \in DOMAIN els2 /\ els2[e].kind = outs[i].kind /\ k \in DOMAIN els2[e].texts
          /\ els2[e].texts[k] = outs[i].text
      BY <3>2, <3>3, <1>4
    <3> QED BY <3>1, <3>4 DEF Range
  <2> QED BY <2>1, <2>2
<1>11. n + 1 \in Nat
  BY <1>1
<1>12. Faithful(more, els2, n + 1)
  BY <1>2, <1>3, <1>4, <1>7, <1>9, <1>10, <1>11 DEF Faithful
<1> QED BY <1>12 DEF more

\* An output that is not shown leaves the page faithful unless its stream is shown in full.
LEMMA ShowsNoMore ==
    ASSUME NEW outs, NEW els, NEW n, Faithful(outs, els, n),
           NEW o \in OutputRecords, o.text \in {n + 1, Blank},
           o.kind \in Streams /\ Unbroken(outs, o.kind) => o.text = Blank
    PROVE  Faithful(Append(outs, o), els, n + 1)
<1>1. /\ outs \in Seq(OutputRecords) /\ els \in Seq(ElementRecords) /\ n \in Nat
      /\ InOrder(outs, n) /\ Held(outs, els) /\ Sorted(outs, els) /\ Streamed(outs, els)
  BY DEF Faithful
<1> DEFINE more == Append(outs, o)
<1>2. /\ more \in Seq(OutputRecords) /\ Len(outs) \in Nat /\ DOMAIN outs = 1..Len(outs)
      /\ DOMAIN more = 1..Len(outs) + 1 /\ more[Len(outs) + 1] = o
      /\ \A i \in DOMAIN outs : more[i] = outs[i] /\ i \in DOMAIN more
      /\ \A kind : Unbroken(more, kind) => Unbroken(outs, kind) /\ (kind = o.kind => o.text # Blank)
  BY <1>1, OneMore
<1>3. InOrder(more, n + 1)
  BY <1>1, StillInOrder
<1> HIDE DEF more
<1>4. Held(more, els)
  <2> SUFFICES ASSUME NEW e \in DOMAIN els, NEW k \in DOMAIN els[e].texts
               PROVE  /\ els[e].kind = "raw_input" => els[e].texts[k] = Box
                      /\ els[e].kind # "raw_input" =>
                           /\ els[e].texts[k] # Blank
                           /\ \E i \in DOMAIN more : more[i] = Output(els[e].kind, els[e].texts[k])
    BY DEF Held
  <2>1. CASE els[e].kind = "raw_input"
    BY <2>1, <1>1 DEF Held
  <2>2. CASE els[e].kind # "raw_input"
    <3>1. els[e].texts[k] # Blank
      BY <2>2, <1>1 DEF Held
    <3>2. PICK i \in DOMAIN outs : outs[i] = Output(els[e].kind, els[e].texts[k])
      BY <2>2, <1>1 DEF Held
    <3> QED BY <3>1, <3>2, <2>2, <1>2
  <2> QED BY <2>1, <2>2
<1>5. Sorted(more, els)
  BY <1>1, <1>2 DEF Sorted
<1>6. Streamed(more, els)
  <2> SUFFICES ASSUME NEW i \in DOMAIN more, more[i].kind \in Streams, Unbroken(more, more[i].kind)
               PROVE  \E e \in DOMAIN els : els[e].kind = more[i].kind /\ more[i].text \in Range(els[e].texts)
    BY DEF Streamed
  <2>1. i # Len(outs) + 1
    <3>1. ASSUME i = Len(outs) + 1 PROVE FALSE
      <4>1. o.kind \in Streams /\ Unbroken(outs, o.kind) /\ o.text # Blank
        BY <3>1, <1>2
      <4> QED BY <4>1
    <3> QED BY <3>1
  <2>2. i \in DOMAIN outs /\ more[i] = outs[i]
    BY <2>1, <1>2
  <2> QED BY <2>2, <1>1, <1>2 DEF Streamed
<1>7. n + 1 \in Nat
  BY <1>1
<1>8. Faithful(more, els, n + 1)
  BY <1>1, <1>2, <1>3, <1>4, <1>5, <1>6, <1>7 DEF Faithful
<1> QED BY <1>8 DEF more

\* The last element of a kind.
LEMMA LastOfIs ==
    ASSUME NEW els \in Seq(ElementRecords), NEW kind, \E e \in DOMAIN els : els[e].kind = kind
    PROVE  \E p \in DOMAIN els : LastOf(els, kind) = {p}
<1> DEFINE Those == {e \in DOMAIN els : els[e].kind = kind}
<1> DEFINE T == {Len(els) - e : e \in Those}
<1>1. Len(els) \in Nat /\ DOMAIN els = 1..Len(els)
  OBVIOUS
<1>2. T \subseteq Nat /\ T # {}
  BY <1>1
<1>3. PICK least \in T : \A k \in T : least <= k
  <2> HIDE DEF T
  <2> QED BY <1>2, LeastNumber
<1>4. PICK p \in Those : least = Len(els) - p
  OBVIOUS
<1>5. \A e \in Those : e <= p
  <2> TAKE e \in Those
  <2>1. least <= Len(els) - e
    BY <1>3
  <2> QED BY <2>1, <1>1, <1>4
<1>6. LastOf(els, kind) = {p}
  <2>1. p \in LastOf(els, kind)
    BY <1>5 DEF LastOf
  <2>2. ASSUME NEW e \in LastOf(els, kind) PROVE e = p
    <3>1. e \in DOMAIN els /\ els[e].kind = kind /\ p <= e
      BY <2>2 DEF LastOf
    <3> QED BY <3>1, <1>1, <1>5
  <2> QED BY <2>1, <2>2
<1> QED BY <1>6

\* An element with one more text.
Longer(c, t) == [c EXCEPT !.texts = Append(@, t)]

IsLonger(c, t, x) ==
    /\ x \in ElementRecords /\ x.kind = c.kind
    /\ c.texts \in Seq(Int) /\ Len(c.texts) \in Nat /\ DOMAIN c.texts = 1..Len(c.texts)
    /\ DOMAIN x.texts = 1..Len(c.texts) + 1 /\ x.texts[Len(c.texts) + 1] = t
    /\ \A k \in DOMAIN c.texts : k \in DOMAIN x.texts /\ x.texts[k] = c.texts[k]

LEMMA Lengthened ==
    ASSUME NEW c \in ElementRecords, NEW t \in Int
    PROVE  IsLonger(c, t, Longer(c, t))
<1>0. PICK x : x = Longer(c, t)
  OBVIOUS
<1>1. c.texts \in Seq(Int) /\ c.kind \in OutputKinds \cup {"raw_input"}
  BY DEF ElementRecords
<1>2. \E s \in Seq(Int) : s = Append(c.texts, t)
  <2>1. PICK old \in Seq(Int) : old = c.texts
    BY <1>1
  <2>2. Append(old, t) \in Seq(Int)
    OBVIOUS
  <2> QED BY <2>1, <2>2
<1>s. PICK s \in Seq(Int) : s = Append(c.texts, t)
  BY <1>2
<1>3. x = [c EXCEPT !.texts = s]
  BY <1>0, <1>s DEF Longer
<1>4. x.kind = c.kind /\ x.texts = s /\ x \in ElementRecords
  <2> HIDE DEF OutputKinds
  <2> QED BY <1>3 DEF ElementRecords
<1>5. PICK old \in Seq(Int) : old = c.texts
  BY <1>1
<1>6. /\ Len(old) \in Nat /\ DOMAIN old = 1..Len(old)
      /\ DOMAIN Append(old, t) = 1..Len(old) + 1 /\ Append(old, t)[Len(old) + 1] = t
      /\ \A k \in DOMAIN old : k \in DOMAIN Append(old, t) /\ Append(old, t)[k] = old[k]
  OBVIOUS
<1>7. IsLonger(c, t, x)
  BY <1>s, <1>4, <1>5, <1>6 DEF IsLonger
<1> QED BY <1>0, <1>7

\* A chunk that joins its stream's last element.
LEMMA JoiningAdds ==
    ASSUME NEW els \in Seq(ElementRecords), NEW o \in OutputRecords, NEW p \in DOMAIN els,
           LastOf(els, o.kind) = {p}, o.text # Blank,
           NEW els2, els2 = [i \in DOMAIN els |-> IF i \in LastOf(els, o.kind) /\ o.text # Blank
                                                  THEN Longer(els[i], o.text) ELSE els[i]]
    PROVE  Adds(els, els2, p, Len(els[p].texts) + 1, o) /\ DOMAIN els2 = DOMAIN els
<1>1. Len(els) \in Nat /\ DOMAIN els = 1..Len(els) /\ els[p] \in ElementRecords
  OBVIOUS
<1>2. PICK t \in Int : t = o.text
  BY DEF OutputRecords
<1>3. PICK c \in ElementRecords : c = els[p]
  BY <1>1
<1>4. PICK x : x = Longer(c, t)
  OBVIOUS
<1>5. /\ x \in ElementRecords /\ x.kind = c.kind
      /\ c.texts \in Seq(Int) /\ Len(c.texts) \in Nat /\ DOMAIN c.texts = 1..Len(c.texts)
      /\ DOMAIN x.texts = 1..Len(c.texts) + 1 /\ x.texts[Len(c.texts) + 1] = t
      /\ \A k \in DOMAIN c.texts : k \in DOMAIN x.texts /\ x.texts[k] = c.texts[k]
  <2>1. IsLonger(c, t, x)
    BY <1>4, Lengthened
  <2> QED BY <2>1 DEF IsLonger
<1>6. els2 = [i \in DOMAIN els |-> IF i = p THEN x ELSE els[i]]
  BY <1>2, <1>3, <1>4
<1>7. els2[p] = x /\ (\A e \in DOMAIN els : e # p => els2[e] = els[e]) /\ DOMAIN els2 = DOMAIN els
  BY <1>6
<1>8. els2 \in Seq(ElementRecords)
  <2>0. \A i \in DOMAIN els : els[i] \in ElementRecords
    OBVIOUS
  <2> HIDE DEF ElementRecords
  <2>1. els2 \in [1..Len(els) -> ElementRecords]
    BY <2>0, <1>1, <1>5, <1>6
  <2> QED BY <2>1, <1>1
<1>9. els[p].kind = o.kind
  BY DEF LastOf
<1>10. ASSUME NEW e \in DOMAIN els, NEW k \in DOMAIN els[e].texts
       PROVE  k \in DOMAIN els2[e].texts /\ els2[e].texts[k] = els[e].texts[k]
  <2>1. CASE e = p
    BY <2>1, <1>3, <1>5, <1>7
  <2>2. CASE e # p
    BY <2>2, <1>7
  <2> QED BY <2>1, <2>2
<1>11. ASSUME NEW e \in DOMAIN els2, NEW k \in DOMAIN els2[e].texts
       PROVE  (e \in DOMAIN els /\ k \in DOMAIN els[e].texts) \/ (e = p /\ k = Len(els[p].texts) + 1)
  <2>1. CASE e = p
    BY <2>1, <1>3, <1>5, <1>7
  <2>2. CASE e # p
    BY <2>2, <1>7
  <2> QED BY <2>1, <2>2
<1>12. Len(c.texts) + 1 \in DOMAIN x.texts
  BY <1>5
<1> QED BY <1>2, <1>3, <1>5, <1>7, <1>8, <1>9, <1>10, <1>11, <1>12 DEF Adds

\* An element of its own.
LEMMA AppendingAdds ==
    ASSUME NEW els \in Seq(ElementRecords), NEW o \in OutputRecords,
           NEW els2, els2 = Append(els, Element(o.kind, o.text))
    PROVE  Adds(els, els2, Len(els) + 1, 1, o)
<1>1. Len(els) \in Nat /\ DOMAIN els = 1..Len(els)
  OBVIOUS
<1>2. o.text \in Int /\ o.kind \in OutputKinds
  <2> HIDE DEF OutputKinds
  <2> QED BY DEF OutputRecords
<1>3. PICK x : x = Element(o.kind, o.text)
  OBVIOUS
<1>4. x.kind = o.kind /\ x.texts = <<o.text>>
  BY <1>3 DEF Element
<1>5. <<o.text>> \in Seq(Int) /\ DOMAIN <<o.text>> = 1..1 /\ <<o.text>>[1] = o.text
  BY <1>2
<1>6. x \in ElementRecords
  <2> HIDE DEF OutputKinds
  <2> QED BY <1>2, <1>3, <1>5 DEF Element, ElementRecords
<1>7. /\ els2 \in Seq(ElementRecords) /\ DOMAIN els2 = 1..Len(els) + 1
      /\ els2[Len(els) + 1] = x /\ \A e \in DOMAIN els : els2[e] = els[e]
  BY <1>1, <1>3, <1>6
<1>8. ASSUME NEW e \in DOMAIN els2, NEW k \in DOMAIN els2[e].texts
      PROVE  (e \in DOMAIN els /\ k \in DOMAIN els[e].texts) \/ (e = Len(els) + 1 /\ k = 1)
  <2>1. CASE e = Len(els) + 1
    BY <2>1, <1>4, <1>5, <1>7
  <2>2. CASE e # Len(els) + 1
    <3>1. e \in DOMAIN els
      BY <2>2, <1>1, <1>7
    <3> QED BY <3>1, <1>7
  <2> QED BY <2>1, <2>2
<1>9. Len(els) + 1 \in DOMAIN els2 /\ 1 \in DOMAIN x.texts /\ DOMAIN els \subseteq DOMAIN els2
  BY <1>1, <1>4, <1>5, <1>7
<1> QED BY <1>4, <1>5, <1>7, <1>8, <1>9 DEF Adds

\* What the page showed it still shows, and the output.
LEMMA AddsTexts ==
    ASSUME NEW els \in Seq(ElementRecords), NEW els2, NEW p, NEW q, NEW o, Adds(els, els2, p, q, o)
    PROVE  Texts(els) \subseteq Texts(els2) /\ o.text \in Texts(els2)
<1>1. ASSUME NEW e \in DOMAIN els, NEW k \in DOMAIN els[e].texts
      PROVE  els[e].texts[k] \in Range(els2[e].texts) /\ e \in DOMAIN els2
  BY DEF Adds, Range
<1>2. Texts(els) \subseteq Texts(els2)
  BY <1>1 DEF Texts, Range
<1>3. p \in DOMAIN els2 /\ o.text \in Range(els2[p].texts)
  BY DEF Adds, Range
<1> QED BY <1>2, <1>3 DEF Texts

\* Nothing of a kind without a blank output comes after the last element of the stream
\* that printed last, if that stream is shown in full.
LEMMA NothingAfterLast ==
    ASSUME NEW outs, NEW els, NEW n, Faithful(outs, els, n), NEW kind, JoinsLast(outs, kind),
           Unbroken(outs, kind), NEW p \in DOMAIN els, LastOf(els, kind) = {p}
    PROVE  NothingAfter(outs, els, p, Len(els[p].texts) + 1)
<1>1. /\ outs \in Seq(OutputRecords) /\ els \in Seq(ElementRecords)
      /\ InOrder(outs, n) /\ Held(outs, els) /\ Sorted(outs, els) /\ Streamed(outs, els)
  BY DEF Faithful
<1>2. PICK z : z = Len(outs)
  OBVIOUS
<1>3. z \in DOMAIN outs /\ (\A i \in DOMAIN outs : i \in Nat /\ i <= z) /\ z \in Nat
  BY <1>1, <1>2 DEF JoinsLast
<1>4. outs[z].kind = kind /\ kind \in Streams
  BY <1>2 DEF JoinsLast, Last
<1>5. els[p].kind = kind /\ \A e \in DOMAIN els : els[e].kind = kind => e <= p
  BY DEF LastOf
<1>6. PICK d \in DOMAIN els : els[d].kind = kind /\ outs[z].text \in Range(els[d].texts)
  BY <1>1, <1>3, <1>4 DEF Streamed
<1>7. PICK g \in DOMAIN els[d].texts : els[d].texts[g] = outs[z].text
  BY <1>6 DEF Range
<1>8. ASSUME NEW e \in DOMAIN els, NEW k \in DOMAIN els[e].texts, Printed(els, e, k),
             Unbroken(outs, els[e].kind), Precedes(<<p, Len(els[p].texts) + 1>>, <<e, k>>)
      PROVE  FALSE
  <2>1. e \in Nat /\ p \in Nat /\ d \in Nat /\ d <= p
    BY <1>1, <1>5, <1>6
  <2>2. p < e
    <3>1. ASSUME e = p PROVE FALSE
      <4>1. Len(els[p].texts) + 1 < k
        BY <3>1, <1>8, <2>1 DEF Precedes
      <4>2. els[p] \in ElementRecords
        BY <1>1
      <4>3. els[p].texts \in Seq(Int)
        BY <4>2 DEF ElementRecords
      <4>4. k <= Len(els[p].texts) /\ k \in Nat /\ Len(els[p].texts) \in Nat
        BY <3>1, <4>3
      <4> QED BY <4>1, <4>4
    <3> QED BY <3>1, <1>8 DEF Precedes
  <2>3. els[e].kind # kind
    BY <2>1, <2>2, <1>5
  <2>4. Precedes(<<d, g>>, <<e, k>>)
    <3>1. d < e
      BY <2>1, <2>2
    <3> QED BY <3>1 DEF Precedes
  <2>5. Printed(els, d, g)
    BY <1>4, <1>6, <1>7 DEF Printed, Streams
  <2>6. els[d].texts[g] < els[e].texts[k]
    BY <2>4, <2>5, <1>1, <1>6, <1>7, <1>8 DEF Sorted
  <2>7. PICK i \in DOMAIN outs : outs[i] = Output(els[e].kind, els[e].texts[k])
    BY <1>1, <1>8 DEF Held, Printed
  <2>8. outs[i].kind = els[e].kind /\ outs[i].text = els[e].texts[k]
    BY <2>7 DEF Output
  <2>9. i < z
    BY <2>3, <2>8, <1>3, <1>4
  <2>10. outs[i].text # Blank /\ outs[z].text # Blank
    BY <2>8, <1>3, <1>4, <1>8 DEF Unbroken
  <2>11. outs[i].text < outs[z].text
    BY <2>9, <2>10, <1>1, <1>3 DEF InOrder
  <2>12. outs[i] \in OutputRecords /\ outs[z] \in OutputRecords
    BY <1>1, <1>3
  <2>13. outs[i].text \in Nat /\ outs[z].text \in Nat
    BY <2>12 DEF OutputRecords
  <2> QED BY <2>6, <2>8, <2>11, <2>13, <1>7
<1> QED BY <1>8 DEF NothingAfter

\* append_output: the page stays faithful to the outputs, keeps what it shows, and shows
\* the output unless a blank chunk of its kind came before.
LEMMA AppendedDoes ==
    ASSUME NEW outs, NEW els, NEW n, Faithful(outs, els, n),
           NEW o \in OutputRecords, o.text \in {n + 1, Blank}, NEW els2, els2 = Appended(outs, els, o)
    PROVE  /\ Faithful(Append(outs, o), els2, n + 1)
           /\ Texts(els) \subseteq Texts(els2)
           /\ Unbroken(outs, o.kind) /\ o.text # Blank => o.text \in Texts(els2)
<1>1. outs \in Seq(OutputRecords) /\ els \in Seq(ElementRecords) /\ n \in Nat /\ Streamed(outs, els)
  BY DEF Faithful
<1>2. o.kind \in OutputKinds
  <2> HIDE DEF OutputKinds
  <2> QED BY DEF OutputRecords
<1>3. CASE JoinsLast(outs, o.kind)
  <2>1. els2 = [i \in DOMAIN els |-> IF i \in LastOf(els, o.kind) /\ o.text # Blank
                                     THEN Longer(els[i], o.text) ELSE els[i]]
    BY <1>3 DEF Appended, Longer
  <2>2. CASE o.text # Blank /\ \E e \in DOMAIN els : els[e].kind = o.kind
    <3>1. PICK p \in DOMAIN els : LastOf(els, o.kind) = {p}
      BY <1>1, <2>2, LastOfIs
    <3>2. PICK q : q = Len(els[p].texts) + 1
      OBVIOUS
    <3>3. Adds(els, els2, p, q, o)
      BY <1>1, <2>1, <2>2, <3>1, <3>2, JoiningAdds
    <3>4. Unbroken(outs, o.kind) => NothingAfter(outs, els, p, q)
      BY <1>3, <3>1, <3>2, NothingAfterLast
    <3>5. o.text = n + 1
      BY <2>2
    <3>6. Faithful(Append(outs, o), els2, n + 1)
      BY <1>2, <3>3, <3>4, <3>5, ShowsOneMore
    <3> QED BY <1>1, <3>3, <3>6, AddsTexts
  <2>3. CASE o.text = Blank
    <3>1. els2 = els
      BY <1>1, <2>1, <2>3
    <3> QED BY <2>3, <3>1, ShowsNoMore
  <2>4. CASE ~ \E e \in DOMAIN els : els[e].kind = o.kind
    <3>1. LastOf(els, o.kind) = {}
      BY <2>4 DEF LastOf
    <3>2. els2 = els
      BY <1>1, <2>1, <3>1
    <3>3. Last(outs).kind = o.kind /\ o.kind \in Streams /\ outs # <<>>
      BY <1>3 DEF JoinsLast
    <3>4. \E i \in DOMAIN outs : outs[i].kind = o.kind
      BY <1>1, <3>3 DEF Last
    <3>5. ~ Unbroken(outs, o.kind)
      BY <2>4, <3>3, <3>4, <1>1 DEF Streamed
    <3> QED BY <3>2, <3>5, ShowsNoMore
  <2> QED BY <2>2, <2>3, <2>4
<1>4. CASE ~ JoinsLast(outs, o.kind) /\ o.text = Blank
  <2>1. els2 = els
    BY <1>4 DEF Appended
  <2> QED BY <1>4, <2>1, ShowsNoMore
<1>5. CASE ~ JoinsLast(outs, o.kind) /\ o.text # Blank
  <2>1. els2 = Append(els, Element(o.kind, o.text))
    BY <1>5 DEF Appended
  <2>2. PICK p : p = Len(els) + 1
    OBVIOUS
  <2>3. Adds(els, els2, p, 1, o)
    BY <1>1, <2>1, <2>2, AppendingAdds
  <2>4. NothingAfter(outs, els, p, 1)
    <3>1. ASSUME NEW e \in DOMAIN els, NEW k PROVE ~ Precedes(<<p, 1>>, <<e, k>>)
      <4>1. e \in Nat /\ p \in Nat /\ e < p
        BY <1>1, <2>2
      <4> QED BY <4>1 DEF Precedes
    <3> QED BY <3>1 DEF NothingAfter
  <2>5. o.text = n + 1
    BY <1>5
  <2>6. Faithful(Append(outs, o), els2, n + 1)
    BY <1>2, <2>3, <2>4, <2>5, ShowsOneMore
  <2> QED BY <1>1, <2>3, <2>6, AddsTexts
<1> QED BY <1>3, <1>4, <1>5

-----------------------------------------------------------------------------
(* A clear, and the box of a raw input.                                      *)

\* A filter of the page and one of the outputs by kinds.
LEMMA KeptFaithful ==
    ASSUME NEW outs, NEW els, NEW n, Faithful(outs, els, n),
           NEW K, NEW J, J \ {"raw_input"} \subseteq K, K \cap Streams \subseteq J,
           NEW A, \A i \in DOMAIN outs : outs[i] \in A <=> outs[i].kind \in K,
           NEW E, \A e \in DOMAIN els : els[e] \in E <=> els[e].kind \in J
    PROVE  Faithful(Kept(outs, A), Kept(els, E), n)
<1>1. outs \in Seq(OutputRecords) /\ els \in Seq(ElementRecords)
  BY DEF Faithful
<1>2. Kept(outs, A) \in Seq(OutputRecords) /\ \E m : ThinsBy(outs, Kept(outs, A), K, m)
  BY <1>1, KeptIs
<1>3. Kept(els, E) \in Seq(ElementRecords) /\ \E w : ThinsBy(els, Kept(els, E), J, w)
  BY <1>1, KeptIs
<1>4. PICK outs2 \in Seq(OutputRecords) : outs2 = Kept(outs, A)
  BY <1>2
<1>5. PICK els2 \in Seq(ElementRecords) : els2 = Kept(els, E)
  BY <1>3
<1>6. PICK m : ThinsBy(outs, outs2, K, m)
  BY <1>2, <1>4
<1>7. PICK w : ThinsBy(els, els2, J, w)
  BY <1>3, <1>5
<1> QED BY <1>4, <1>5, <1>6, <1>7, Thinned

\* A clear leaves the page faithful to the outputs.
LEMMA ClearedDoes ==
    ASSUME Faithful(outputs, elements, printed), NEW c \in Flags
    PROVE  Faithful(ClearedOutputs(c), ClearedElements(c), printed)
<1> DEFINE K == {kind \in OutputKinds : ~ (kind \in Streams \cup {"display_data"} /\ Cleared(kind, c))}
<1> DEFINE J == {kind \in OutputKinds \cup {"raw_input"} : ~ Cleared(kind, c)}
<1>1. /\ outputs \in Seq(OutputRecords) /\ elements \in Seq(ElementRecords)
      /\ \A i \in DOMAIN outputs : outputs[i] \in Range(outputs) /\ outputs[i].kind \in OutputKinds
      /\ \A e \in DOMAIN elements : elements[e] \in Range(elements)
                                    /\ elements[e].kind \in OutputKinds \cup {"raw_input"}
  <2>1. outputs \in Seq(OutputRecords) /\ elements \in Seq(ElementRecords)
    BY DEF Faithful
  <2>2. ASSUME NEW i \in DOMAIN outputs PROVE outputs[i] \in Range(outputs) /\ outputs[i].kind \in OutputKinds
    <3>1. outputs[i] \in OutputRecords
      BY <2>1
    <3> HIDE DEF OutputKinds
    <3> QED BY <3>1 DEF OutputRecords, Range
  <2>3. ASSUME NEW e \in DOMAIN elements
        PROVE  elements[e] \in Range(elements) /\ elements[e].kind \in OutputKinds \cup {"raw_input"}
    <3>1. elements[e] \in ElementRecords
      BY <2>1
    <3> HIDE DEF OutputKinds
    <3> QED BY <3>1 DEF ElementRecords, Range
  <2> QED BY <2>1, <2>2, <2>3
<1>2. J \ {"raw_input"} \subseteq K /\ K \cap Streams \subseteq J
  BY DEF OutputKinds
<1>3. PICK E : E = {e \in Range(elements) : ~ Cleared(e.kind, c)}
  OBVIOUS
<1>4. \A e \in DOMAIN elements : elements[e] \in E <=> elements[e].kind \in J
  BY <1>1, <1>3
<1>5. ClearedElements(c) = Kept(elements, E)
  BY <1>3 DEF ClearedElements
<1>6. CASE c = All
  <2>1. ASSUME NEW kind \in OutputKinds \cup {"raw_input"} PROVE kind \notin J
    <3>1. c[1] /\ c[2] /\ c[3]
      BY <1>6 DEF All
    <3>2. Cleared(kind, c)
      BY <3>1 DEF Cleared
    <3> QED BY <3>2
  <2>2. J = {}
    BY <2>1
  <2> HIDE DEF J
  <2>3. \A e \in DOMAIN elements : elements[e] \in E <=> elements[e].kind \in {}
    BY <1>4, <2>2
  <2>4. Kept(elements, E) \in Seq(ElementRecords) /\ \E w : ThinsBy(elements, Kept(elements, E), {}, w)
    BY <1>1, <2>3, KeptIs
  <2>5. PICK els2 \in Seq(ElementRecords) : els2 = Kept(elements, E)
    BY <2>4
  <2>6. PICK w : ThinsBy(elements, els2, {}, w)
    BY <2>4, <2>5
  <2>7. <<>> \in Seq(OutputRecords) /\ ThinsBy(outputs, <<>>, {}, <<>>)
    BY DEF ThinsBy
  <2>8. Faithful(<<>>, els2, printed)
    BY <2>6, <2>7, Thinned
  <2> QED BY <2>5, <2>8, <1>5, <1>6 DEF ClearedOutputs
<1>7. CASE c # All
  <2>1. PICK A : A = {o \in Range(outputs) :
                        ~(o.kind \in Streams \cup {"display_data"} /\ Cleared(o.kind, c))}
    OBVIOUS
  <2>2. \A i \in DOMAIN outputs : outputs[i] \in A <=> outputs[i].kind \in K
    BY <1>1, <2>1
  <2>3. ClearedOutputs(c) = Kept(outputs, A)
    BY <1>7, <2>1 DEF ClearedOutputs, Remaining
  <2> HIDE DEF K, J
  <2> QED BY <1>2, <1>4, <1>5, <2>2, <2>3, KeptFaithful
<1> QED BY <1>6, <1>7

\* flush_clear_timeout.
LEMMA FlushedIs ==
    ASSUME OutputsInv
    PROVE  /\ Faithful(Flushed.outputs, Flushed.elements, printed)
           /\ Flushed.clearing = NoTimer
           /\ clearing # NoTimer => since = {}
           /\ clearing = NoTimer => Flushed.outputs = outputs /\ Flushed.elements = elements
<1>1. CASE clearing = NoTimer
  BY <1>1 DEF OutputsInv, Flushed
<1>2. CASE clearing # NoTimer
  <2>1. clearing \in Flags /\ since = {} /\ Faithful(outputs, elements, printed)
    BY <1>2 DEF OutputsInv
  <2>2. Faithful(ClearedOutputs(clearing), ClearedElements(clearing), printed)
    BY <2>1, ClearedDoes
  <2>3. Flushed.outputs = ClearedOutputs(clearing) /\ Flushed.elements = ClearedElements(clearing)
        /\ Flushed.clearing = NoTimer
    BY <1>2 DEF Flushed
  <2> QED BY <1>2, <2>1, <2>2, <2>3
<1> QED BY <1>1, <1>2

\* The outputs of an earlier number are in order under a later one.
LEMMA LaterNumber ==
    ASSUME NEW outs, NEW els, NEW n, Faithful(outs, els, n)
    PROVE  Faithful(outs, els, n + 1)
<1>1. outs \in Seq(OutputRecords) /\ n \in Nat /\ InOrder(outs, n)
  BY DEF Faithful
<1>2. \A r \in OutputRecords : r.text \in Nat
  BY DEF OutputRecords
<1>3. \A i \in DOMAIN outs : outs[i] \in OutputRecords
  BY <1>1
<1>4. InOrder(outs, n + 1) /\ n + 1 \in Nat
  BY <1>1, <1>2, <1>3 DEF InOrder
<1> QED BY <1>4 DEF Faithful

\* Without the box of an earlier request the page shows what it showed of the outputs.
LEMMA UnboxedDoes ==
    ASSUME NEW outs, NEW els, NEW n, Faithful(outs, els, n)
    PROVE  Faithful(outs, Unboxed(els), n) /\ Texts(els) \ {Box} \subseteq Texts(Unboxed(els))
<1>1. outs \in Seq(OutputRecords) /\ els \in Seq(ElementRecords) /\ Held(outs, els)
  BY DEF Faithful
<1>2. PICK E : E = {e \in Range(els) : e.kind # "raw_input"}
  OBVIOUS
<1>3. Unboxed(els) = Kept(els, E)
  BY <1>2 DEF Unboxed
<1>4. \A e \in DOMAIN els : els[e] \in E <=> els[e].kind \in OutputKinds
  <2> TAKE e \in DOMAIN els
  <2>1. els[e] \in ElementRecords
    BY <1>1
  <2>2. els[e].kind \in OutputKinds \cup {"raw_input"}
    BY <2>1 DEF ElementRecords
  <2>3. "raw_input" \notin OutputKinds
    BY DEF OutputKinds, Streams
  <2> QED BY <2>2, <2>3, <1>2 DEF Range
<1>5. Kept(els, E) \in Seq(ElementRecords) /\ \E w : ThinsBy(els, Kept(els, E), OutputKinds, w)
  BY <1>1, <1>4, KeptIs
<1>6. PICK els2 \in Seq(ElementRecords) : els2 = Kept(els, E)
  BY <1>5
<1>7. PICK w : ThinsBy(els, els2, OutputKinds, w)
  BY <1>5, <1>6
<1>8. ThinsBy(outs, outs, OutputKinds, [i \in DOMAIN outs |-> i])
  <2>1. ASSUME NEW i \in DOMAIN outs PROVE outs[i].kind \in OutputKinds
    <3>1. outs[i] \in OutputRecords
      BY <1>1
    <3> QED BY <3>1 DEF OutputRecords
  <2> QED BY <2>1 DEF ThinsBy
<1>9. Faithful(outs, els2, n)
  <2>1. OutputKinds \ {"raw_input"} \subseteq OutputKinds /\ OutputKinds \cap Streams \subseteq OutputKinds
    OBVIOUS
  <2>2. PICK m : ThinsBy(outs, outs, OutputKinds, m)
    BY <1>8
  <2> QED BY <1>1, <1>7, <2>1, <2>2, Thinned
<1>10. ASSUME NEW t \in Texts(els), t # Box PROVE t \in Texts(els2)
  <2>1. PICK e \in DOMAIN els : t \in Range(els[e].texts)
    BY <1>10 DEF Texts
  <2>2. PICK k \in DOMAIN els[e].texts : els[e].texts[k] = t
    BY <2>1 DEF Range
  <2>3. els[e].kind # "raw_input" /\ els[e] \in ElementRecords
    BY <2>2, <1>1, <1>10 DEF Held
  <2>4. els[e].kind \in OutputKinds
    BY <2>3 DEF ElementRecords
  <2>5. PICK i \in DOMAIN els2 : w[i] = e
    BY <2>4, <1>7 DEF ThinsBy
  <2>6. els2[i] = els[e]
    BY <2>5, <1>7 DEF ThinsBy
  <2> QED BY <2>1, <2>5, <2>6 DEF Texts
<1> QED BY <1>3, <1>6, <1>9, <1>10

\* append_raw_input adds a box and no output.
LEMMA BoxedDoes ==
    ASSUME NEW outs, NEW els, NEW n, Faithful(outs, els, n),
           NEW els2, els2 = Append(els, Element("raw_input", Box))
    PROVE  Faithful(outs, els2, n) /\ Texts(els) \subseteq Texts(els2) /\ Box \in Texts(els2)
<1>1. /\ outs \in Seq(OutputRecords) /\ els \in Seq(ElementRecords)
      /\ Held(outs, els) /\ Sorted(outs, els) /\ Streamed(outs, els)
  BY DEF Faithful
<1>2. PICK x : x = Element("raw_input", Box)
  OBVIOUS
<1>3. x.kind = "raw_input" /\ x.texts = <<Box>> /\ <<Box>> \in Seq(Int) /\ DOMAIN <<Box>> = 1..1 /\ <<Box>>[1] = Box
  BY <1>2 DEF Element, Box
<1>4. x \in ElementRecords
  BY <1>2, <1>3 DEF Element, ElementRecords
<1>5. Len(els) \in Nat /\ DOMAIN els = 1..Len(els)
  BY <1>1
<1>6. /\ els2 \in Seq(ElementRecords) /\ DOMAIN els2 = 1..Len(els) + 1 /\ els2[Len(els) + 1] = x
      /\ \A e \in DOMAIN els : els2[e] = els[e] /\ e \in DOMAIN els2
  BY <1>1, <1>2, <1>4
<1>7. ASSUME NEW e \in DOMAIN els2
      PROVE  (e \in DOMAIN els /\ els2[e] = els[e]) \/ (e = Len(els) + 1 /\ els2[e] = x)
  BY <1>5, <1>6
<1>8. Held(outs, els2)
  BY <1>1, <1>3, <1>7 DEF Held
<1>9. Sorted(outs, els2)
  <2>1. ASSUME NEW e, NEW k, Printed(els2, e, k) PROVE Printed(els, e, k) /\ els2[e] = els[e] /\ e \in DOMAIN els
    BY <2>1, <1>3, <1>7 DEF Printed
  <2> SUFFICES ASSUME NEW e \in DOMAIN els2, NEW f \in DOMAIN els2,
                      NEW k \in DOMAIN els2[e].texts, NEW l \in DOMAIN els2[f].texts,
                      Printed(els2, e, k), Printed(els2, f, l), Precedes(<<e, k>>, <<f, l>>),
                      Unbroken(outs, els2[e].kind), Unbroken(outs, els2[f].kind)
               PROVE  els2[e].texts[k] < els2[f].texts[l]
    BY DEF Sorted
  <2> QED BY <2>1, <1>1 DEF Sorted
<1>10. Streamed(outs, els2)
  BY <1>1, <1>6 DEF Streamed
<1>11. Texts(els) \subseteq Texts(els2)
  BY <1>6 DEF Texts
<1>12. Box \in Texts(els2)
  <2>1. Len(els) + 1 \in DOMAIN els2 /\ Box \in Range(x.texts)
    BY <1>3, <1>5, <1>6 DEF Range
  <2> QED BY <2>1, <1>6 DEF Texts
<1> QED BY <1>6, <1>8, <1>9, <1>10, <1>11, <1>12 DEF Faithful

-----------------------------------------------------------------------------
(* The steps.                                                               *)

\* What an empty cell shows.
LEMMA NothingIsFaithful == Faithful(<<>>, <<>>, 0)
  BY DEF Faithful, InOrder, Held, Sorted, Streamed

LEMMA OutputsInitially == OInit => OutputsInv
<1> SUFFICES ASSUME OInit PROVE OutputsInv
  OBVIOUS
<1>1. outputs = <<>> /\ elements = <<>> /\ printed = 0 /\ clearing = NoTimer /\ since = {}
  BY DEF OInit
<1> QED BY <1>1, NothingIsFaithful DEF OutputsInv, NewOutputsSurvive

\* A clear that is asked for carries out the one that is pending.
LEMMA AskClearKeeps ==
    ASSUME OutputsInv, NEW c \in Flags, AskClear(c), printed' = printed
    PROVE  OutputsInv'
<1>1. outputs' = Flushed.outputs /\ elements' = Flushed.elements /\ clearing' = c /\ since' = {}
  BY DEF AskClear
<1>2. Faithful(outputs, elements, printed)'
  BY <1>1, FlushedIs
<1>3. NewOutputsSurvive'
  BY <1>1 DEF NewOutputsSurvive
<1> QED BY <1>1, <1>2, <1>3 DEF OutputsInv

LEMMA ClearTimerKeeps == OutputsInv /\ ClearTimer => OutputsInv'
<1> SUFFICES ASSUME OutputsInv, ClearTimer PROVE OutputsInv'
  OBVIOUS
<1>1. /\ clearing # NoTimer /\ clearing' = NoTimer /\ since' = since /\ printed' = printed
      /\ outputs' = ClearedOutputs(clearing) /\ elements' = ClearedElements(clearing)
  BY DEF ClearTimer
<1>2. clearing \in Flags /\ since = {} /\ Faithful(outputs, elements, printed)
  BY <1>1 DEF OutputsInv
<1>3. Faithful(outputs, elements, printed)'
  BY <1>1, <1>2, ClearedDoes
<1> QED BY <1>1, <1>2, <1>3 DEF OutputsInv, NewOutputsSurvive

\* The kernel prints: whatever was printed since the clear is there still.
LEMMA HandleOutputKeeps == OutputsInv /\ (\E r \in DOMAIN kernel : HandleOutput(r)) => OutputsInv'
<1> SUFFICES ASSUME OutputsInv, NEW r \in DOMAIN kernel, HandleOutput(r) PROVE OutputsInv'
  OBVIOUS
<1>1. printed' = printed + 1 /\ printed \in Nat
  BY DEF HandleOutput, OutputsInv, Faithful
<1>2. PICK kind \in OutputKinds, text \in {printed', Blank} :
        AppendOutput(Output(kind, text)) /\ since' = since \cup ({text} \ {Blank})
  BY DEF HandleOutput, OutputKinds
<1>3. PICK o : o = Output(kind, text)
  OBVIOUS
<1>4. o \in OutputRecords /\ o.kind = kind /\ o.text = text /\ o.text \in {printed + 1, Blank}
  BY <1>1, <1>2, <1>3 DEF Output, OutputRecords, Blank
<1>5. /\ outputs' = Append(Flushed.outputs, o) /\ elements' = Appended(Flushed.outputs, Flushed.elements, o)
      /\ clearing' = Flushed.clearing
  BY <1>2, <1>3 DEF AppendOutput
<1>6. PICK outs : outs = Flushed.outputs
  OBVIOUS
<1>7. PICK els : els = Flushed.elements
  OBVIOUS
<1>8. Faithful(outs, els, printed) /\ clearing' = NoTimer
      /\ (since = {} \/ (outs = outputs /\ els = elements))
  BY <1>5, <1>6, <1>7, FlushedIs
<1>9. outputs' = Append(outs, o) /\ elements' = Appended(outs, els, o)
  BY <1>5, <1>6, <1>7
<1>10. /\ Faithful(outputs', elements', printed + 1) /\ Texts(els) \subseteq Texts(elements')
       /\ Unbroken(outs, o.kind) /\ o.text # Blank => o.text \in Texts(elements')
  BY <1>4, <1>8, <1>9, AppendedDoes
<1>11. ASSUME NoBlank' PROVE since' \subseteq Texts(elements')
  <2>1. outs \in Seq(OutputRecords)
    BY <1>8 DEF Faithful
  <2>2. /\ \A i \in DOMAIN outs : outputs'[i] = outs[i] /\ i \in DOMAIN outputs'
        /\ Len(outs) + 1 \in DOMAIN outputs' /\ outputs'[Len(outs) + 1] = o
    BY <2>1, <1>4, <1>9
  <2>3. \A i \in DOMAIN outputs' : outputs'[i].text # Blank
    BY <1>11 DEF NoBlank
  <2>4. (\A i \in DOMAIN outs : outs[i].text # Blank) /\ o.text # Blank
    BY <2>2, <2>3
  <2>5. o.text \in Texts(elements')
    BY <2>4, <1>10 DEF Unbroken
  <2>6. since \subseteq Texts(els)
    BY <2>4, <1>8 DEF OutputsInv, NewOutputsSurvive, NoBlank
  <2> QED BY <2>5, <2>6, <1>2, <1>4, <1>10
<1>12. NewOutputsSurvive'
  BY <1>11 DEF NewOutputsSurvive
<1>13. printed' # 0
  BY <1>1
<1> QED BY <1>1, <1>8, <1>10, <1>12, <1>13 DEF OutputsInv

LEMMA RawInputKeeps == OutputsInv /\ (\E r \in DOMAIN kernel : RawInput(r)) => OutputsInv'
<1> SUFFICES ASSUME OutputsInv, NEW r \in DOMAIN kernel, RawInput(r) PROVE OutputsInv'
  OBVIOUS
<1>1. /\ printed' = printed + 1 /\ outputs' = Flushed.outputs /\ clearing' = Flushed.clearing
      /\ elements' = Append(Unboxed(Flushed.elements), Element("raw_input", Box))
      /\ since' = since \cup {Box}
  BY DEF RawInput
<1>2. PICK outs : outs = Flushed.outputs
  OBVIOUS
<1>3. PICK els : els = Flushed.elements
  OBVIOUS
<1>4. Faithful(outs, els, printed) /\ clearing' = NoTimer
      /\ (since = {} \/ (outs = outputs /\ els = elements))
  BY <1>1, <1>2, <1>3, FlushedIs
<1>5. PICK rest : rest = Unboxed(els)
  OBVIOUS
<1>6. Faithful(outs, rest, printed) /\ Texts(els) \ {Box} \subseteq Texts(rest)
  BY <1>4, <1>5, UnboxedDoes
<1>7. elements' = Append(rest, Element("raw_input", Box)) /\ outputs' = outs
  BY <1>1, <1>2, <1>3, <1>5
<1>8. Faithful(outs, elements', printed) /\ Texts(rest) \subseteq Texts(elements') /\ Box \in Texts(elements')
  BY <1>6, <1>7, BoxedDoes
<1>9. Faithful(outs, elements', printed + 1)
  BY <1>8, LaterNumber
<1>10. NewOutputsSurvive'
  <2>1. ASSUME NoBlank' PROVE since \subseteq Texts(els)
    BY <2>1, <1>4, <1>7 DEF OutputsInv, NewOutputsSurvive, NoBlank
  <2> QED BY <2>1, <1>1, <1>6, <1>8 DEF NewOutputsSurvive
<1>11. printed' # 0
  BY <1>1, <1>8 DEF Faithful
<1> QED BY <1>1, <1>4, <1>7, <1>9, <1>10, <1>11 DEF OutputsInv

\* What was typed takes the place of the box.
LEMMA SubmitKeeps == OutputsInv /\ Submit => OutputsInv'
<1> SUFFICES ASSUME OutputsInv, Submit PROVE OutputsInv'
  OBVIOUS
<1>1. /\ printed' = printed + 1 /\ clearing' = Flushed.clearing
      /\ since' = (since \ {Box}) \cup {printed'}
  BY DEF Submit
<1>2. printed \in Nat
  BY DEF OutputsInv, Faithful
<1>3. PICK o : o = Output("stdout", printed + 1)
  OBVIOUS
<1>4. /\ o \in OutputRecords /\ o.kind = "stdout" /\ o.text = printed + 1 /\ o.text # Blank
      /\ o.text \in {printed + 1, Blank}
  BY <1>2, <1>3 DEF Output, OutputRecords, OutputKinds, Streams, Blank
<1>5. /\ outputs' = Append(Flushed.outputs, o)
      /\ elements' = Appended(Flushed.outputs, Unboxed(Flushed.elements), o)
  BY <1>1, <1>3 DEF Submit
<1>6. PICK outs : outs = Flushed.outputs
  OBVIOUS
<1>7. PICK els : els = Flushed.elements
  OBVIOUS
<1>8. Faithful(outs, els, printed) /\ clearing' = NoTimer
      /\ (since = {} \/ (outs = outputs /\ els = elements))
  BY <1>1, <1>6, <1>7, FlushedIs
<1>9. PICK rest : rest = Unboxed(els)
  OBVIOUS
<1>10. Faithful(outs, rest, printed) /\ Texts(els) \ {Box} \subseteq Texts(rest)
  BY <1>8, <1>9, UnboxedDoes
<1>11. outputs' = Append(outs, o) /\ elements' = Appended(outs, rest, o)
  BY <1>5, <1>6, <1>7, <1>9
<1>12. /\ Faithful(outputs', elements', printed + 1) /\ Texts(rest) \subseteq Texts(elements')
       /\ Unbroken(outs, o.kind) /\ o.text # Blank => o.text \in Texts(elements')
  BY <1>4, <1>10, <1>11, AppendedDoes
<1>13. ASSUME NoBlank' PROVE since' \subseteq Texts(elements')
  <2>1. outs \in Seq(OutputRecords)
    BY <1>8 DEF Faithful
  <2>2. \A i \in DOMAIN outs : outputs'[i] = outs[i] /\ i \in DOMAIN outputs'
    BY <2>1, <1>4, <1>11
  <2>3. \A i \in DOMAIN outputs' : outputs'[i].text # Blank
    BY <1>13 DEF NoBlank
  <2>4. \A i \in DOMAIN outs : outs[i].text # Blank
    BY <2>2, <2>3
  <2>5. o.text \in Texts(elements')
    BY <2>4, <1>4, <1>12 DEF Unbroken
  <2>6. since \subseteq Texts(els)
    BY <2>4, <1>8 DEF OutputsInv, NewOutputsSurvive, NoBlank
  <2> QED BY <2>5, <2>6, <1>1, <1>4, <1>10, <1>12
<1>14. NewOutputsSurvive'
  BY <1>13 DEF NewOutputsSurvive
<1>15. printed' # 0
  BY <1>1, <1>2
<1> QED BY <1>1, <1>8, <1>12, <1>14, <1>15 DEF OutputsInv

\* A sequence of one with one more.
LEMMA Second ==
    ASSUME NEW S, NEW s \in Seq(S), Len(s) = 1, NEW b \in S, NEW u \in Seq(S), Len(u) = 2,
           u[1] = s[1], u[2] = b
    PROVE  Append(s, b) = u
<1>1. PICK t : t = Append(s, b)
  OBVIOUS
<1>2. t \in Seq(S) /\ DOMAIN t = 1..2 /\ DOMAIN u = 1..2 /\ t[1] = s[1] /\ t[2] = b
  BY <1>1
<1>3. t = [i \in 1..2 |-> t[i]] /\ u = [i \in 1..2 |-> u[i]]
  BY <1>2
<1>4. \A i \in 1..2 : t[i] = u[i]
  BY <1>2
<1>5. t = u
  BY <1>3, <1>4
<1> QED BY <1>1, <1>5

\* One output, then another.
LEMMA OneTwo ==
    ASSUME NEW a, NEW b
    PROVE  Append(<<>>, a) = <<a>> /\ Append(<<a>>, b) = <<a, b>>
<1>1. Append(<<>>, a) = <<a>>
  OBVIOUS
<1>2. <<a>> \in Seq({a, b}) /\ Len(<<a>>) = 1 /\ <<a>>[1] = a /\ b \in {a, b}
  OBVIOUS
<1>3. <<a, b>> \in Seq({a, b}) /\ Len(<<a, b>>) = 2 /\ <<a, b>>[1] = a /\ <<a, b>>[2] = b
  OBVIOUS
<1>4. <<a, b>>[1] = <<a>>[1]
  BY <1>2, <1>3
<1>5. Append(<<a>>, b) = <<a, b>>
  BY Zenon, <1>2, <1>3, <1>4, Second
<1> QED BY <1>1, <1>5

\* A cell that is read has its saved outputs appended one by one.
LEMMA ReadKeeps == OutputsInv /\ Read => OutputsInv'
<1> SUFFICES ASSUME OutputsInv, Read PROVE OutputsInv'
  OBVIOUS
<1>1. printed = 0 /\ printed' = 2 /\ clearing = NoTimer /\ clearing' = clearing /\ since' = since
  BY DEF Read
<1>2. since' = {}
  BY <1>1 DEF OutputsInv
<1>3. PICK saved \in Saved : /\ outputs' = saved
                             /\ elements' = Appended(<<saved[1]>>, Appended(<<>>, <<>>, saved[1]), saved[2])
  BY DEF Read
<1>4. PICK o \in OutputRecords : o = saved[1] /\ o.text = 1
  BY <1>3 DEF Saved, Output, OutputRecords, OutputKinds, Streams
<1>5. PICK second \in OutputRecords : second = saved[2] /\ second.text = 2
  BY <1>3 DEF Saved, Output, OutputRecords, OutputKinds, Streams
<1>6. saved = <<o, second>>
  BY <1>3, <1>4, <1>5 DEF Saved
<1>7. PICK rest : rest = Appended(<<>>, <<>>, o)
  OBVIOUS
<1>8. Append(<<>>, o) = <<o>> /\ Append(<<o>>, second) = <<o, second>>
  BY OneTwo
<1>9. Faithful(Append(<<>>, o), rest, 0 + 1)
  <2>1. o.text \in {0 + 1, Blank}
    BY <1>4
  <2> QED BY <2>1, <1>7, NothingIsFaithful, AppendedDoes
<1>10. Faithful(<<o>>, rest, 1)
  BY <1>8, <1>9
<1>11. elements' = Appended(<<o>>, rest, second) /\ second.text \in {1 + 1, Blank}
  BY <1>3, <1>4, <1>5, <1>7
<1>12. Faithful(Append(<<o>>, second), elements', 1 + 1)
  BY <1>10, <1>11, AppendedDoes
<1>13. Faithful(outputs', elements', printed')
  <2>1. outputs' = Append(<<o>>, second) /\ printed' = 1 + 1
    BY <1>1, <1>3, <1>6, <1>8
  <2> QED BY <2>1, <1>12
<1> QED BY <1>1, <1>2, <1>13 DEF OutputsInv, NewOutputsSurvive

\* What every step of a cell keeps.
LEMMA OutputsStep == OutputsInv /\ [ONext]_ovars => OutputsInv'
<1> SUFFICES ASSUME OutputsInv, [ONext]_ovars PROVE OutputsInv'
  OBVIOUS
<1>0. All \in Flags /\ BOOLEAN \X BOOLEAN \X BOOLEAN = Flags
  BY DEF All, Flags
<1>1. CASE RunCell
  BY <1>0, <1>1, AskClearKeeps DEF RunCell
<1>2. CASE ClearTimer
  BY <1>2, ClearTimerKeeps
<1>3. CASE MenuClear
  BY <1>0, <1>3, AskClearKeeps DEF MenuClear
<1>4. CASE Submit
  BY <1>4, SubmitKeeps
<1>5. CASE Read
  BY <1>5, ReadKeeps
<1>6. CASE UNCHANGED <<outputs, elements, clearing, since, printed>>
  BY <1>6 DEF OutputsInv, NewOutputsSurvive, NoBlank
<1>7. CASE ToggleCell \/ ToggleArea \/ ToggleScroll
  BY <1>6, <1>7 DEF ToggleCell, ToggleArea, ToggleScroll, Display
<1>8. CASE \E r \in DOMAIN kernel : Reply(r) \/ Idle(r)
  BY <1>6, <1>8 DEF Reply, Idle, area
<1>9. CASE \E r \in DOMAIN kernel : HandleOutput(r)
  BY <1>9, HandleOutputKeeps
<1>10. CASE \E r \in DOMAIN kernel : KernelClear(r)
  <2>1. PICK r \in DOMAIN kernel : KernelClear(r)
    BY <1>10
  <2>2. PICK c \in Flags : AskClear(c)
    BY <2>1, <1>0 DEF KernelClear
  <2> QED BY <2>1, <2>2, AskClearKeeps DEF KernelClear
<1>11. CASE \E r \in DOMAIN kernel : RawInput(r)
  BY <1>11, RawInputKeeps
<1>12. CASE UNCHANGED ovars
  BY <1>6, <1>12 DEF ovars
<1> QED BY <1>1, <1>2, <1>3, <1>4, <1>5, <1>7, <1>8, <1>9, <1>10, <1>11, <1>12 DEF ONext

\* A faithful page shows the outputs in their order.
LEMMA FaithfulShows == OutputsInv => OutputsKept
<1> SUFFICES ASSUME OutputsInv, NoBlank, NEW p \in Shows, ShownText(p) # Box
             PROVE  \E i \in DOMAIN outputs :
                      /\ outputs[i] = Output(elements[p[1]].kind, ShownText(p))
                      /\ \A q \in Shows, j \in DOMAIN outputs :
                           Precedes(p, q) /\ outputs[j].text = ShownText(q) => i < j
  BY DEF OutputsInv, OutputsKept, ShownIsStored
<1>1. /\ outputs \in Seq(OutputRecords) /\ InOrder(outputs, printed)
      /\ Held(outputs, elements) /\ Sorted(outputs, elements)
  BY DEF OutputsInv, Faithful
<1>2. \A i \in DOMAIN outputs : outputs[i].text # Blank
  BY DEF NoBlank
<1>3. \A kind : Unbroken(outputs, kind)
  BY <1>2 DEF Unbroken
<1>4. PICK e \in DOMAIN elements : \E k \in DOMAIN elements[e].texts : p = <<e, k>>
  BY DEF Shows
<1>5. PICK k \in DOMAIN elements[e].texts : p = <<e, k>>
  BY <1>4
<1>6. ShownText(p) = elements[e].texts[k] /\ elements[p[1]].kind = elements[e].kind
  BY <1>5 DEF ShownText
<1>7. elements[e].kind # "raw_input"
  BY <1>1, <1>6 DEF Held
<1>8. PICK i \in DOMAIN outputs : outputs[i] = Output(elements[e].kind, elements[e].texts[k])
  BY <1>1, <1>7 DEF Held
<1>9. outputs[i].text = elements[e].texts[k]
  BY <1>8 DEF Output
<1>10. ASSUME NEW q \in Shows, NEW j \in DOMAIN outputs, Precedes(p, q), outputs[j].text = ShownText(q)
       PROVE  i < j
  <2>1. PICK f \in DOMAIN elements : \E l \in DOMAIN elements[f].texts : q = <<f, l>>
    BY DEF Shows
  <2>2. PICK l \in DOMAIN elements[f].texts : q = <<f, l>>
    BY <2>1
  <2>3. ShownText(q) = elements[f].texts[l]
    BY <2>2 DEF ShownText
  <2>4. outputs[i] \in OutputRecords /\ outputs[j] \in OutputRecords /\ i \in Nat /\ j \in Nat
    BY <1>1
  <2>5. outputs[i].text \in Nat /\ outputs[j].text \in Nat
    BY <2>4 DEF OutputRecords
  <2>6. elements[f].texts[l] # Box
    BY <2>3, <2>5, <1>10 DEF Box
  <2>7. Printed(elements, e, k) /\ Printed(elements, f, l)
    BY <2>6, <1>1, <1>7 DEF Held, Printed
  <2>8. elements[e].texts[k] < elements[f].texts[l]
    BY <2>2, <2>7, <1>1, <1>3, <1>5, <1>10 DEF Sorted
  <2>9. outputs[i].text < outputs[j].text
    BY <2>3, <2>8, <1>9, <1>10
  <2>10. ~ (j < i)
    <3>1. ASSUME j < i PROVE FALSE
      <4>1. outputs[j].text < outputs[i].text
        BY <3>1, <1>1, <1>2 DEF InOrder
      <4> QED BY <4>1, <2>5, <2>9
    <3> QED BY <3>1
  <2>11. i # j
    BY <2>5, <2>9
  <2> QED BY <2>4, <2>10, <2>11
<1> QED BY <1>6, <1>8, <1>10

\* The invariant of a cell and its page.
THEOREM OutputsInvariant == OutputsSpec => []OutputsInv
  BY OutputsInitially, OutputsStep, PTL DEF OutputsSpec

\* A clear never takes what was printed after it was asked for, whatever the timer and
\* the kernel's messages do in between (flush_clear_timeout of outputarea.js), and the
\* page shows stored outputs only, each under its own kind and in the stored order
\* (append_stream).
THEOREM OutputsAreKept == OutputsSpec => []OutputsKept
  BY OutputsInvariant, FaithfulShows, PTL
-----------------------------------------------------------------------------
(*************************** The benchmark viewer **************************)
(* Filters, table and lines, as sets of what they hold.                      *)

\* A sequence and one more, and two sequences, hold what their parts hold.
LEMMA AppendHolds ==
    ASSUME NEW S, NEW r \in Seq(S), NEW x \in S
    PROVE  Append(r, x) \in Seq(S) /\ Range(Append(r, x)) = Range(r) \cup {x}
<1>1. /\ Append(r, x) \in Seq(S) /\ DOMAIN Append(r, x) = 1..Len(r) + 1 /\ DOMAIN r = 1..Len(r)
      /\ Len(r) \in Nat /\ Append(r, x)[Len(r) + 1] = x
      /\ \A i \in 1..Len(r) : Append(r, x)[i] = r[i]
  OBVIOUS
<1> DEFINE t == Append(r, x)
<1>2. t = Append(r, x)
  OBVIOUS
<1> HIDE DEF t
<1>3. ASSUME NEW y PROVE y \in Range(t) <=> y \in Range(r) \cup {x}
  BY <1>1, <1>2 DEF Range
<1> QED BY <1>1, <1>2, <1>3

LEMMA JoinHolds ==
    ASSUME NEW S, NEW r \in Seq(S), NEW u \in Seq(S)
    PROVE  r \o u \in Seq(S) /\ Range(r \o u) = Range(r) \cup Range(u)
<1> DEFINE t == r \o u
<1>1. /\ t \in Seq(S) /\ DOMAIN t = 1..Len(r) + Len(u) /\ DOMAIN r = 1..Len(r) /\ DOMAIN u = 1..Len(u)
      /\ Len(r) \in Nat /\ Len(u) \in Nat
  OBVIOUS
<1>2. ASSUME NEW i \in 1..Len(r) + Len(u)
      PROVE  t[i] = IF i <= Len(r) THEN r[i] ELSE u[i - Len(r)]
  OBVIOUS
<1>3. t = r \o u
  OBVIOUS
<1> HIDE DEF t
<1>4. ASSUME NEW y \in Range(t) PROVE y \in Range(r) \cup Range(u)
  <2>1. PICK i \in 1..Len(r) + Len(u) : t[i] = y
    BY <1>1 DEF Range
  <2>2. CASE i <= Len(r)
    <3>1. i \in 1..Len(r) /\ r[i] = y
      BY <1>1, <1>2, <2>1, <2>2
    <3> QED BY <1>1, <3>1 DEF Range
  <2>3. CASE ~(i <= Len(r))
    <3>1. i - Len(r) \in 1..Len(u) /\ u[i - Len(r)] = y
      BY <1>1, <1>2, <2>1, <2>3
    <3> QED BY <1>1, <3>1 DEF Range
  <2> QED BY <2>2, <2>3
<1>5. ASSUME NEW y \in Range(r) PROVE y \in Range(t)
  <2>1. PICK i \in 1..Len(r) : r[i] = y
    BY <1>1 DEF Range
  <2>2. i \in 1..Len(r) + Len(u) /\ t[i] = y
    BY <1>1, <1>2, <2>1
  <2> QED BY <1>1, <2>2 DEF Range
<1>6. ASSUME NEW y \in Range(u) PROVE y \in Range(t)
  <2>1. PICK i \in 1..Len(u) : u[i] = y
    BY <1>1 DEF Range
  <2>2. Len(r) + i \in 1..Len(r) + Len(u) /\ ~(Len(r) + i <= Len(r)) /\ Len(r) + i - Len(r) = i
    BY <1>1, <2>1
  <2>3. t[Len(r) + i] = y
    BY <1>2, <2>1, <2>2
  <2> QED BY <1>1, <2>2, <2>3 DEF Range
<1> QED BY <1>1, <1>3, <1>4, <1>5, <1>6

\* The filter keeps those of the sequence that are in the set.
LEMMA KeptHolds ==
    ASSUME NEW S, NEW s \in Seq(S), NEW T
    PROVE  Kept(s, T) \in Seq(S) /\ Range(Kept(s, T)) = Range(s) \cap T
<1> DEFINE N == Len(s)
<1> DEFINE First(k) == {s[j] : j \in 1..k} \cap T
<1> DEFINE A == [k \in 0..N |-> {r \in Seq(S) : Range(r) = First(k)}]
<1> DEFINE Taken(k, r) == IF s[k] \in T THEN Append(r, s[k]) ELSE r
<1> DEFINE step == [k \in 1..N |-> [r \in A[k - 1] |-> Taken(k, r)]]
<1> DEFINE IsLoop(at) == at = [k \in 0..Len(s) |-> IF k = 0 THEN <<>>
                                                   ELSE IF s[k] \in T THEN Append(at[k - 1], s[k])
                                                   ELSE at[k - 1]]
<1>0. N \in Nat /\ DOMAIN s = 1..N
  OBVIOUS
<1>1. <<>> \in A[0]
  <2>1. First(0) = {} /\ <<>> \in Seq(S) /\ Range(<<>>) = {}
    BY DEF Range
  <2>2. 0 \in 0..N
    BY <1>0
  <2> HIDE DEF First, N
  <2> QED BY <2>1, <2>2
<1>2. ASSUME NEW k \in 1..N, NEW r \in A[k - 1] PROVE Taken(k, r) \in A[k]
  <2>0. k - 1 \in 0..N /\ k \in 0..N /\ s[k] \in S
    BY <1>0
  <2>1. r \in Seq(S) /\ Range(r) = First(k - 1)
    <3> HIDE DEF First, N
    <3> QED BY <2>0, <1>2
  <2>2. First(k) = First(k - 1) \cup ({s[k]} \cap T)
    <3>1. 1..k = (1..k - 1) \cup {k}
      BY <1>0
    <3> HIDE DEF N
    <3> QED BY <3>1
  <2>3. Taken(k, r) \in Seq(S) /\ Range(Taken(k, r)) = First(k)
    <3>1. CASE s[k] \in T
      <4>1. Taken(k, r) = Append(r, s[k])
        BY <3>1
      <4>2. Range(Taken(k, r)) = Range(r) \cup {s[k]} /\ Taken(k, r) \in Seq(S)
        <5> HIDE DEF Taken
        <5> QED BY <4>1, <2>0, <2>1, AppendHolds
      <4> HIDE DEF First, Taken
      <4> QED BY <4>2, <2>1, <2>2, <3>1
    <3>2. CASE s[k] \notin T
      <4>1. Taken(k, r) = r
        BY <3>2
      <4> HIDE DEF First, Taken
      <4> QED BY <4>1, <2>1, <2>2, <3>2
    <3> QED BY <3>1, <3>2
  <2> HIDE DEF First, Taken, N
  <2> QED BY <2>0, <2>3
<1>3. \A k \in 1..N : \A r \in A[k - 1] : step[k][r] \in A[k]
  <2> HIDE DEF A, Taken
  <2> QED BY <1>2
<1>4. PICK g : Runs(g, N, A, step, <<>>)
  <2> HIDE DEF A, step, N
  <2> QED BY <1>0, <1>1, <1>3, LoopExists
<1>5. IsLoop(g)
  <2>1. \A k \in 1..N : g[k] = Taken(k, g[k - 1])
    <3> HIDE DEF A, N, Taken
    <3> QED BY <1>4 DEF Runs
  <2>2. ASSUME NEW k \in 0..N
        PROVE  g[k] = IF k = 0 THEN <<>> ELSE IF s[k] \in T THEN Append(g[k - 1], s[k]) ELSE g[k - 1]
    <3>1. CASE k = 0
      BY <3>1, <1>4 DEF Runs
    <3>2. CASE k # 0
      <4>1. k \in 1..N
        BY <3>2, <1>0
      <4> QED BY <4>1, <3>2, <2>1
    <3> QED BY <3>1, <3>2
  <2>3. g = [k \in 0..N |-> g[k]]
    BY <1>4 DEF Runs
  <2> QED BY <2>2, <2>3
<1>6. PICK at : at = Keeping(s, T)
  OBVIOUS
<1>7. IsLoop(at)
  <2>1. Keeping(s, T) = CHOOSE at_1 : IsLoop(at_1)
    BY Zenon DEF Keeping
  <2> HIDE DEF IsLoop
  <2> QED BY <1>5, <1>6, <2>1
<1>8. at[0] = <<>> /\ \A k \in 1..N : at[k] = Taken(k, at[k - 1])
  <2>1. \A k \in 0..N : at[k] = IF k = 0 THEN <<>> ELSE Taken(k, at[k - 1])
    BY <1>7
  <2> HIDE DEF N, Taken
  <2>2. 0 \in 0..N /\ \A k \in 1..N : k \in 0..N /\ k # 0
    BY <1>0
  <2> QED BY <2>1, <2>2
<1>9. \A k \in 0..N : at[k] \in A[k]
  <2> HIDE DEF A, N, Taken
  <2>1. \A k \in 1..N : at[k - 1] \in A[k - 1] => at[k] \in A[k]
    BY <1>2, <1>8
  <2>2. at[0] \in A[0]
    BY <1>1, <1>8
  <2> QED BY <2>1, <2>2, <1>0, EachRound
<1>10. at[N] \in Seq(S) /\ Range(at[N]) = First(N)
  <2>1. N \in 0..N
    BY <1>0
  <2> HIDE DEF N, First
  <2> QED BY <2>1, <1>9
<1>11. Kept(s, T) = at[N]
  BY <1>6 DEF Kept
<1>12. First(N) = Range(s) \cap T
  BY <1>0 DEF Range
<1> QED
  <2> HIDE DEF N, First
  <2> QED BY <1>10, <1>11, <1>12

\* The rows of results are the rows of each.
LEMMA RowsHold ==
    ASSUME NEW S, NEW rs, Len(rs) \in Nat, DOMAIN rs = 1..Len(rs),
           \A j \in DOMAIN rs : RowsOf(rs[j]) \in Seq(S)
    PROVE  /\ DeviceRows(rs) \in Seq(S)
           /\ Range(DeviceRows(rs)) = UNION {Range(RowsOf(r)) : r \in Range(rs)}
<1> DEFINE N == Len(rs)
<1> DEFINE First(k) == UNION {Range(RowsOf(rs[j])) : j \in 1..k}
<1> DEFINE A == [k \in 0..N |-> {r \in Seq(S) : Range(r) = First(k)}]
<1> DEFINE step == [k \in 1..N |-> [r \in A[k - 1] |-> r \o RowsOf(rs[k])]]
<1> DEFINE IsLoop(at) == at = [k \in 0..Len(rs) |-> IF k = 0 THEN <<>> ELSE at[k - 1] \o RowsOf(rs[k])]
<1>0. N \in Nat /\ DOMAIN rs = 1..N
  OBVIOUS
<1>1. <<>> \in A[0]
  <2>1. First(0) = {} /\ <<>> \in Seq(S) /\ Range(<<>>) = {}
    BY DEF Range
  <2>2. 0 \in 0..N
    BY <1>0
  <2> HIDE DEF First, N
  <2> QED BY <2>1, <2>2
<1>2. ASSUME NEW k \in 1..N, NEW r \in A[k - 1] PROVE r \o RowsOf(rs[k]) \in A[k]
  <2>0. k - 1 \in 0..N /\ k \in 0..N /\ RowsOf(rs[k]) \in Seq(S)
    BY <1>0
  <2>1. r \in Seq(S) /\ Range(r) = First(k - 1)
    <3> HIDE DEF First, N
    <3> QED BY <2>0, <1>2
  <2>2. First(k) = First(k - 1) \cup Range(RowsOf(rs[k]))
    <3>1. 1..k = (1..k - 1) \cup {k}
      BY <1>0
    <3> HIDE DEF N
    <3> QED BY <3>1
  <2>3. r \o RowsOf(rs[k]) \in Seq(S) /\ Range(r \o RowsOf(rs[k])) = Range(r) \cup Range(RowsOf(rs[k]))
    BY <2>0, <2>1, JoinHolds
  <2> HIDE DEF First, N
  <2> QED BY <2>0, <2>1, <2>2, <2>3
<1>3. \A k \in 1..N : \A r \in A[k - 1] : step[k][r] \in A[k]
  <2> HIDE DEF A
  <2> QED BY <1>2
<1>4. PICK g : Runs(g, N, A, step, <<>>)
  <2> HIDE DEF A, step, N
  <2> QED BY <1>0, <1>1, <1>3, LoopExists
<1>5. IsLoop(g)
  <2>1. \A k \in 1..N : g[k] = g[k - 1] \o RowsOf(rs[k])
    <3> HIDE DEF A, N
    <3> QED BY <1>4 DEF Runs
  <2>2. ASSUME NEW k \in 0..N
        PROVE  g[k] = IF k = 0 THEN <<>> ELSE g[k - 1] \o RowsOf(rs[k])
    <3>1. CASE k = 0
      BY <3>1, <1>4 DEF Runs
    <3>2. CASE k # 0
      <4>1. k \in 1..N
        BY <3>2, <1>0
      <4> QED BY <4>1, <3>2, <2>1
    <3> QED BY <3>1, <3>2
  <2>3. g = [k \in 0..N |-> g[k]]
    BY <1>4 DEF Runs
  <2> QED BY <2>2, <2>3
<1>6. PICK at : at = Visiting(rs)
  OBVIOUS
<1>7. IsLoop(at)
  <2>1. Visiting(rs) = CHOOSE at_1 : IsLoop(at_1)
    BY Zenon DEF Visiting
  <2> HIDE DEF IsLoop
  <2> QED BY <1>5, <1>6, <2>1
<1>8. at[0] = <<>> /\ \A k \in 1..N : at[k] = at[k - 1] \o RowsOf(rs[k])
  <2>1. \A k \in 0..N : at[k] = IF k = 0 THEN <<>> ELSE at[k - 1] \o RowsOf(rs[k])
    BY <1>7
  <2> HIDE DEF N
  <2>2. 0 \in 0..N /\ \A k \in 1..N : k \in 0..N /\ k # 0
    BY <1>0
  <2> QED BY <2>1, <2>2
<1>9. \A k \in 0..N : at[k] \in A[k]
  <2> HIDE DEF A, N
  <2>1. \A k \in 1..N : at[k - 1] \in A[k - 1] => at[k] \in A[k]
    BY <1>2, <1>8
  <2>2. at[0] \in A[0]
    BY <1>1, <1>8
  <2> QED BY <2>1, <2>2, <1>0, EachRound
<1>10. at[N] \in Seq(S) /\ Range(at[N]) = First(N)
  <2>1. N \in 0..N
    BY <1>0
  <2> HIDE DEF N, First
  <2> QED BY <2>1, <1>9
<1>11. DeviceRows(rs) = at[N]
  BY <1>6 DEF DeviceRows
<1>12. First(N) = UNION {Range(RowsOf(r)) : r \in Range(rs)}
  <2>1. ASSUME NEW x PROVE x \in First(N) <=> \E j \in 1..N : x \in Range(RowsOf(rs[j]))
    OBVIOUS
  <2>2. ASSUME NEW r PROVE r \in Range(rs) <=> \E j \in 1..N : r = rs[j]
    BY <1>0 DEF Range
  <2> HIDE DEF First, N
  <2> QED BY <2>1, <2>2
<1> QED
  <2> HIDE DEF N, First
  <2> QED BY <1>10, <1>11, <1>12

\* Sorting by size rearranges the rows.
LEMMA SortHolds ==
    ASSUME NEW S, \A x \in S : x.size \in Nat, NEW table \in Seq(S)
    PROVE  BySize(table) \in Seq(S) /\ Range(BySize(table)) = Range(table)
<1> DEFINE D == 1..Len(table)
<1> DEFINE rank == [i \in D |-> Cardinality(UpTo(table, i))]
<1> DEFINE at(n) == CHOOSE i \in D : Cardinality(UpTo(table, i)) = n
<1>0. Len(table) \in Nat /\ DOMAIN table = D /\ IsFiniteSet(D) /\ Cardinality(D) = Len(table)
  <2>1. Len(table) \in Nat /\ DOMAIN table = D
    OBVIOUS
  <2>2. IsFiniteSet(1..Len(table)) /\ Cardinality(1..Len(table)) = Len(table)
    BY <2>1, FS_Interval
  <2> QED BY <2>1, <2>2
<1>1. ASSUME NEW i \in D PROVE table[i] \in S /\ table[i].size \in Nat /\ i \in Nat
  BY <1>0
<1>2. ASSUME NEW i \in D PROVE i \in UpTo(table, i) /\ UpTo(table, i) \in SUBSET D
  BY <1>0, <1>1 DEF UpTo
<1>3. ASSUME NEW i \in D PROVE /\ IsFiniteSet(UpTo(table, i)) /\ Cardinality(UpTo(table, i)) \in D
  <2>1. IsFiniteSet(UpTo(table, i)) /\ Cardinality(UpTo(table, i)) <= Len(table)
    BY <1>0, <1>2, FS_Subset
  <2>2. Cardinality(UpTo(table, i)) \in Nat
    BY <2>1, FS_CardinalityType
  <2>3. Cardinality(UpTo(table, i)) # 0
    <3>1. UpTo(table, i) # {}
      BY <1>2
    <3> QED BY <3>1, <2>1, FS_EmptySet
  <2> QED BY <1>0, <2>1, <2>2, <2>3
<1>4. ASSUME NEW i \in D, NEW j \in D, i # j,
             table[i].size < table[j].size \/ (table[i].size = table[j].size /\ i < j)
      PROVE  Cardinality(UpTo(table, i)) # Cardinality(UpTo(table, j))
  <2>1. table[i].size \in Nat /\ table[j].size \in Nat /\ i \in Nat /\ j \in Nat
    BY <1>1
  <2>2. UpTo(table, i) \in SUBSET UpTo(table, j)
    <3>1. ASSUME NEW k \in UpTo(table, i) PROVE k \in UpTo(table, j)
      <4>1. k \in D /\ table[k].size \in Nat /\ k \in Nat
        BY <1>1, <1>2, <3>1
      <4> QED BY <1>0, <4>1, <2>1, <1>4, <3>1 DEF UpTo
    <3> QED BY <3>1
  <2>3. j \in UpTo(table, j) /\ j \notin UpTo(table, i)
    BY <2>1, <1>2, <1>4 DEF UpTo
  <2> QED BY <2>2, <2>3, <1>3, FS_Subset
<1>5. ASSUME NEW i \in D, NEW j \in D, Cardinality(UpTo(table, i)) = Cardinality(UpTo(table, j))
      PROVE  i = j
  <2> SUFFICES ASSUME i # j PROVE FALSE
    OBVIOUS
  <2>1. \/ table[i].size < table[j].size \/ (table[i].size = table[j].size /\ i < j)
        \/ table[j].size < table[i].size \/ (table[j].size = table[i].size /\ j < i)
    <3>1. table[i].size \in Nat /\ table[j].size \in Nat /\ i \in Nat /\ j \in Nat
      BY <1>1
    <3> QED BY <3>1
  <2> QED BY <2>1, <1>4, <1>5
<1>6. rank \in Surjection(D, D)
  <2>1. rank \in [D -> D]
    BY <1>3
  <2>2. \A i, j \in D : rank[i] = rank[j] => i = j
    BY <1>5
  <2>3. rank \in Injection(D, D)
    <3> HIDE DEF rank, D
    <3> QED BY <2>1, <2>2 DEF Injection, IsInjective
  <2> HIDE DEF rank, D
  <2> QED BY <2>3, <1>0, FS_Injection
<1>7. ASSUME NEW n \in D PROVE at(n) \in D /\ Cardinality(UpTo(table, at(n))) = n
  <2>1. PICK i \in D : rank[i] = n
    <3> HIDE DEF rank, D
    <3> QED BY <1>6, <1>7 DEF Surjection
  <2>2. Cardinality(UpTo(table, i)) = n
    BY <2>1
  <2> HIDE DEF D
  <2> QED BY <2>2
<1>8. BySize(table) = [n \in D |-> table[at(n)]]
  BY <1>0 DEF BySize
<1>9. ASSUME NEW i \in D PROVE at(Cardinality(UpTo(table, i))) = i
  <2> HIDE DEF D, at
  <2> QED BY <1>3, <1>5, <1>7
<1> HIDE DEF at, D
<1>10. BySize(table) \in Seq(S)
  <2>1. BySize(table) \in [D -> S]
    BY <1>1, <1>7, <1>8
  <2> QED BY <2>1, <1>0 DEF D
<1>11. ASSUME NEW x PROVE x \in Range(BySize(table)) <=> x \in Range(table)
  <2>1. ASSUME x \in Range(BySize(table)) PROVE x \in Range(table)
    <3>1. PICK n \in D : table[at(n)] = x
      BY <2>1, <1>8 DEF Range
    <3> QED BY <3>1, <1>0, <1>7 DEF Range
  <2>2. ASSUME x \in Range(table) PROVE x \in Range(BySize(table))
    <3>1. PICK i \in D : table[i] = x
      BY <2>2, <1>0 DEF Range
    <3>2. PICK n \in D : n = Cardinality(UpTo(table, i))
      BY <1>3
    <3>3. BySize(table)[n] = x
      BY <3>1, <3>2, <1>8, <1>9
    <3> QED BY <3>3, <1>8 DEF Range
  <2> QED BY <2>1, <2>2
<1> QED BY <1>10, <1>11

\* The lines of a chart hold a point for every row, under its label, and nothing else.
LEMMA LinesHold ==
    ASSUME NEW S, \A x \in S : x.size \in Nat, NEW table \in Seq(S), NEW fields, NEW value
    PROVE  PointsDrawn(Series(table, fields, value)) =
             {<<Label(r, fields), r.size, r[value]>> : r \in Range(table)}
<1> DEFINE Mine(k) == {r \in Range(table) : Label(r, fields) = k}
<1> DEFINE own == [k \in Labels(table, fields) |-> Kept(table, Mine(k))]
<1> DEFINE lines == Series(table, fields, value)
<1>1. Labels(table, fields) = {Label(r, fields) : r \in Range(table)}
  BY DEF Labels, Range
<1>2. own = GroupBy(table, fields)
  BY DEF GroupBy
<1>3. lines = [k \in Labels(table, fields) |-> Points(BySize(own[k]), value)]
  <2>1. lines = [k \in DOMAIN own |-> Points(BySize(own[k]), value)]
    <3> HIDE DEF own
    <3> QED BY <1>2 DEF Series
  <2>2. DOMAIN own = Labels(table, fields)
    OBVIOUS
  <2> HIDE DEF own, lines
  <2> QED BY <2>1, <2>2
<1>4. ASSUME NEW k \in Labels(table, fields)
      PROVE  /\ BySize(own[k]) \in Seq(S)
             /\ Range(BySize(own[k])) = Mine(k)
  <2>1. own[k] = Kept(table, Mine(k))
    OBVIOUS
  <2>2. own[k] \in Seq(S) /\ Range(own[k]) = Range(table) \cap Mine(k)
    <3> HIDE DEF own, Mine
    <3> QED BY <2>1, KeptHolds
  <2>3. Range(table) \cap Mine(k) = Mine(k)
    OBVIOUS
  <2> HIDE DEF own, Mine
  <2> QED BY <2>2, <2>3, SortHolds
<1>5. ASSUME NEW s \in Seq(S)
      PROVE  Range(Points(s, value)) = {[x |-> r.size, y |-> r[value]] : r \in Range(s)}
  BY DEF Points, Range
<1>6. ASSUME NEW k \in Labels(table, fields)
      PROVE  {<<k, p.x, p.y>> : p \in Range(lines[k])} = {<<k, r.size, r[value]>> : r \in Mine(k)}
  <2>1. Range(lines[k]) = {[x |-> r.size, y |-> r[value]] : r \in Mine(k)}
    <3>1. lines[k] = Points(BySize(own[k]), value)
      <4> HIDE DEF lines, own
      <4> QED BY <1>3
    <3> HIDE DEF lines, own, Mine
    <3> QED BY <3>1, <1>4, <1>5
  <2> HIDE DEF lines, Mine
  <2>2. ASSUME NEW r \in Mine(k)
        PROVE  <<k, r.size, r[value]>> \in {<<k, p.x, p.y>> : p \in Range(lines[k])}
    <3>1. PICK p \in Range(lines[k]) : p = [x |-> r.size, y |-> r[value]]
      BY <2>1
    <3> QED BY <3>1
  <2>3. ASSUME NEW p \in Range(lines[k])
        PROVE  <<k, p.x, p.y>> \in {<<k, r.size, r[value]>> : r \in Mine(k)}
    <3>1. PICK r \in Mine(k) : p = [x |-> r.size, y |-> r[value]]
      BY <2>1
    <3> QED BY <3>1
  <2> QED BY <2>2, <2>3
<1>7. PointsDrawn(lines) = UNION {{<<k, r.size, r[value]>> : r \in Mine(k)} : k \in Labels(table, fields)}
  <2>1. DOMAIN lines = Labels(table, fields)
    <3> HIDE DEF lines
    <3> QED BY <1>3
  <2> HIDE DEF lines, Mine
  <2> QED BY <2>1, <1>6 DEF PointsDrawn
<1>8. ASSUME NEW t
      PROVE  t \in UNION {{<<k, r.size, r[value]>> : r \in Mine(k)} : k \in Labels(table, fields)}
             <=> t \in {<<Label(r, fields), r.size, r[value]>> : r \in Range(table)}
  BY <1>1
<1> QED BY <1>7, <1>8
-----------------------------------------------------------------------------
(* The rows that the controls select.                                        *)

RowRecords == [variant : STRING, host : STRING, size : Nat, device : STRING, framework : STRING,
               ms : Nat, perf : Nat]

\* The rows of a result are of its variant and its host.
LEMMA RowsOfResult ==
    ASSUME NEW r \in BenchmarkResults
    PROVE  /\ RowsOf(r) \in Seq(RowRecords)
           /\ \A q \in Range(RowsOf(r)) : q.variant = r.variant /\ q.host = r.host
<1>1. /\ r.variant \in STRING /\ r.host \in STRING /\ r.size \in Nat /\ r.devs \in Seq(DeviceResults)
  BY DEF BenchmarkResults
<1>2. PICK d : d = r.devs
  OBVIOUS
<1>3. /\ Len(d) \in Nat /\ DOMAIN d = 1..Len(d) /\ \A i \in 1..Len(d) : d[i] \in DeviceResults
  BY <1>1, <1>2
<1> DEFINE RowAt(i) == [variant |-> r.variant, host |-> r.host, size |-> r.size, device |-> d[i].device,
                      framework |-> d[i].framework, ms |-> d[i].ms, perf |-> d[i].perf]
<1>4. RowsOf(r) = [i \in 1..Len(d) |-> RowAt(i)]
  BY <1>2, <1>3 DEF RowsOf
<1>5. ASSUME NEW i \in 1..Len(d) PROVE RowAt(i) \in RowRecords
  <2>1. d[i].device \in STRING /\ d[i].framework \in STRING /\ d[i].ms \in Nat /\ d[i].perf \in Nat
    BY <1>3 DEF DeviceResults
  <2> QED BY <1>1, <2>1 DEF RowRecords
<1>6. ASSUME NEW i \in 1..Len(d) PROVE RowAt(i).variant = r.variant /\ RowAt(i).host = r.host
  OBVIOUS
<1> HIDE DEF RowAt
<1>7. RowsOf(r) \in Seq(RowRecords)
  BY <1>3, <1>4, <1>5
<1>8. ASSUME NEW q \in Range(RowsOf(r)) PROVE q.variant = r.variant /\ q.host = r.host
  BY <1>4, <1>6, <1>8 DEF Range
<1> QED BY <1>7, <1>8

\* The rows of results, and of a part of them.
LEMMA RowsOfResults ==
    ASSUME NEW rs \in Seq(BenchmarkResults)
    PROVE  /\ DeviceRows(rs) \in Seq(RowRecords)
           /\ Range(DeviceRows(rs)) = UNION {Range(RowsOf(r)) : r \in Range(rs)}
<1>1. Len(rs) \in Nat /\ DOMAIN rs = 1..Len(rs) /\ \A j \in DOMAIN rs : rs[j] \in BenchmarkResults
  OBVIOUS
<1> QED BY <1>1, RowsOfResult, RowsHold

\* What prepareChartData plots: the rows of the benchmark's variants, on the systems
\* and the backends that are chosen.
LEMMA PlottedAre ==
    ASSUME NEW rs \in Seq(BenchmarkResults), NEW b \in Benchmarks, NEW sys,
           NEW ticked \in SUBSET GpuBackends, NEW showCpu
    PROVE  /\ PlottedRows(rs, b, sys, ticked, showCpu) \in Seq(RowRecords)
           /\ Range(PlottedRows(rs, b, sys, ticked, showCpu)) =
                {q \in Range(DeviceRows(rs)) : /\ q.variant \in Range(VariantsOf[b])
                                               /\ shouldIncludeResult(q, sys)
                                               /\ q.framework \in ticked}
<1> DEFINE V == Range(VariantsOf[b])
<1> DEFINE In == {r \in Range(rs) : shouldIncludeResult(r, sys)}
<1>1. PICK some : some = Included(rs, sys)
  OBVIOUS
<1>2. some \in Seq(BenchmarkResults) /\ Range(some) = In
  <2>1. some \in Seq(BenchmarkResults) /\ Range(some) = Range(rs) \cap In
    <3>1. some = Kept(rs, In)
      BY <1>1 DEF Included
    <3> HIDE DEF In
    <3> QED BY <3>1, KeptHolds
  <2> QED BY <2>1
<1>3. PICK mine : mine = OfAny(some, VariantsOf[b])
  OBVIOUS
<1> DEFINE Varied == {r \in Range(some) : r.variant \in V}
<1>4. mine \in Seq(BenchmarkResults) /\ Range(mine) = {r \in Range(rs) : shouldIncludeResult(r, sys) /\ r.variant \in V}
  <2>1. mine \in Seq(BenchmarkResults) /\ Range(mine) = Range(some) \cap Varied
    <3>1. mine = Kept(some, Varied)
      BY <1>3 DEF OfAny
    <3> HIDE DEF Varied
    <3> QED BY <3>1, <1>2, KeptHolds
  <2> HIDE DEF V
  <2> QED BY <2>1, <1>2
<1>5. PICK table : table = DeviceRows(mine)
  OBVIOUS
<1>6. table \in Seq(RowRecords) /\ Range(table) = UNION {Range(RowsOf(r)) : r \in Range(mine)}
  BY <1>4, <1>5, RowsOfResults
<1> DEFINE Ticked == {q \in Range(table) : /\ q.framework \in ticked
                                         /\ (showCpu \/ q.framework \notin CpuBackends)}
<1>7. PICK plotted : plotted = PlottedRows(rs, b, sys, ticked, showCpu)
  OBVIOUS
<1>8. plotted \in Seq(RowRecords) /\ Range(plotted) = Range(table) \cap Ticked
  <2>1. plotted = Kept(table, Ticked)
    BY <1>1, <1>3, <1>5, <1>7 DEF PlottedRows
  <2> HIDE DEF Ticked
  <2> QED BY <2>1, <1>6, KeptHolds
<1>9. ASSUME NEW q PROVE q \in Range(plotted) <=> q \in Range(table) /\ q.framework \in ticked
  BY <1>8, ViewerAssumption
<1>10. ASSUME NEW q
       PROVE  q \in Range(table) <=> q \in Range(DeviceRows(rs)) /\ q.variant \in V /\ shouldIncludeResult(q, sys)
  <2>1. ASSUME NEW r \in Range(rs), q \in Range(RowsOf(r))
        PROVE  /\ q.variant = r.variant /\ q.host = r.host
               /\ shouldIncludeResult(q, sys) <=> shouldIncludeResult(r, sys)
    <3>1. r \in BenchmarkResults
      BY DEF Range
    <3>2. q.variant = r.variant /\ q.host = r.host
      BY <2>1, <3>1, RowsOfResult
    <3> QED BY <3>2 DEF shouldIncludeResult
  <2>2. q \in Range(table) <=> \E r \in Range(rs) : q \in Range(RowsOf(r)) /\ shouldIncludeResult(r, sys) /\ r.variant \in V
    <3> HIDE DEF V
    <3> QED BY <1>4, <1>6
  <2>3. q \in Range(DeviceRows(rs)) <=> \E r \in Range(rs) : q \in Range(RowsOf(r))
    BY RowsOfResults
  <2> HIDE DEF V
  <2> QED BY <2>1, <2>2, <2>3
<1> HIDE DEF V
<1>11. Range(plotted) = {q \in Range(DeviceRows(rs)) : /\ q.variant \in V
                                                       /\ shouldIncludeResult(q, sys)
                                                       /\ q.framework \in ticked}
  BY <1>9, <1>10
<1> QED BY <1>7, <1>8, <1>11 DEF V
-----------------------------------------------------------------------------
(* The handlers of the viewer.                                              *)

ViewerSpec == VInit /\ [][VNext]_vvars

\* What is on the page is what updateView last drew, and no handler has written its
\* variable since: the single chart is the one of the controls as they are now.
ChartIsDrawn ==
    loaded = "done" =>
        chart = IF mode = "single"
                THEN {prepareChartData(Results, bench, system, metric, backends, cpu)} ELSE {}
VInv == VTypeOK /\ ChartIsDrawn

\* The file that has come.
LEMMA ResultsAre ==
    ASSUME NEW rs, benchmarkData = {rs} PROVE Results = rs
BY DEF Results

\* What updateView draws, and what it does to the system filter.
Draws(rs, b, m, md, ts, c) ==
    /\ chart' = IF md = "single" THEN {prepareChartData(rs, b, system', m, ts, c)} ELSE {}
    /\ system' \in Hosts \cup {AllSystems} /\ systemMenu' = system' /\ filters' \in BOOLEAN
    /\ DOMAIN charts' = DOMAIN Empty

LEMMA ViewIsDrawn ==
    ASSUME NEW rs, NEW b, NEW m, NEW sys \in Hosts \cup {AllSystems},
           NEW md \in {"single", "comparison", "ranking", "matrix"}, NEW ts, NEW c,
           updateView(rs, b, m, sys, md, ts, c)
    PROVE  Draws(rs, b, m, md, ts, c)
<1>1. CASE md = "single"
  <2>1. ShowSingle(rs, b, m, sys, ts, c)
    BY <1>1 DEF updateView
  <2> QED BY <1>1, <2>1 DEF ShowSingle, updateChart, Draws
<1>2. CASE md # "single"
  <2>1. ShowOverview(rs, b, md)
    BY <1>2 DEF updateView
  <2>2. DOMAIN Overview(Included(rs, AllSystems), VariantsOf[b], md) = DOMAIN Empty
    <3>1. CASE md = "comparison"
      BY <3>1 DEF Overview, Empty
    <3>2. CASE md = "ranking"
      BY <3>2 DEF Overview, Empty
    <3>3. CASE md = "matrix"
      BY <3>3 DEF Overview, Empty
    <3> QED BY <1>2, <3>1, <3>2, <3>3
  <2> QED BY <1>2, <2>1, <2>2 DEF ShowOverview, Draws
<1> QED BY <1>1, <1>2

LEMMA ViewerInit == VInit => VInv
<1> SUFFICES ASSUME VInit PROVE VInv
  OBVIOUS
<1>1. (CHOOSE b \in Benchmarks : TRUE) \in Benchmarks
  BY ViewerAssumption
<1>2. <<>> \in Seq(Benchmarks) /\ Len(<<>>) <= MaxFetches
  BY ViewerAssumption
<1>3. desc.kind = "blank"
  BY DEF VInit
<1>4. VTypeOK
  BY <1>1, <1>2, <1>3 DEF VInit, VTypeOK
<1> QED BY <1>4 DEF VInit, VInv, ChartIsDrawn

\* Fetching a description.
LEMMA Described ==
    ASSUME VTypeOK, NEW b \in Benchmarks, Describe(b)
    PROVE  /\ fetching' \in Seq(Benchmarks) /\ Len(fetching') <= MaxFetches
           /\ desc'.kind \in {"blank", "loading", "text", "unavailable"}
<1>1. fetching \in Seq(Benchmarks) /\ Len(fetching) < MaxFetches /\ fetching' = Append(fetching, b)
      /\ desc' = [kind |-> "loading", of |-> b]
  BY DEF VTypeOK, Describe
<1>2. Len(fetching') = Len(fetching) + 1 /\ fetching' \in Seq(Benchmarks)
  BY <1>1
<1>3. Len(fetching) \in Nat /\ MaxFetches \in Nat
  BY <1>1, ViewerAssumption
<1> QED BY <1>1, <1>2, <1>3

\* Every handler leaves the page as updateView drew it.
LEMMA ViewerStep == VInv /\ [VNext]_vvars => VInv'
<1> SUFFICES ASSUME VInv, [VNext]_vvars PROVE VInv'
  OBVIOUS
<1>t. VTypeOK /\ ChartIsDrawn
  BY DEF VInv
<1>u. /\ loaded \in {"loading", "done", "error"} /\ bench \in Benchmarks
      /\ metric \in {"time", "throughput"} /\ system \in Hosts \cup {AllSystems}
      /\ mode \in {"single", "comparison", "ranking", "matrix"}
      /\ backends \subseteq GpuBackends /\ cpu \in BOOLEAN
  BY <1>t DEF VTypeOK
\* A handler of a control that draws the view of the file that is there.
<1>d. ASSUME Live, UNCHANGED <<benchmarkData, loaded>>,
             NEW b, b = bench', b \in Benchmarks, NEW m, m = metric', m \in {"time", "throughput"},
             NEW sys \in Hosts \cup {AllSystems},
             NEW md, md = mode', md \in {"single", "comparison", "ranking", "matrix"},
             NEW ts, ts = backends', ts \subseteq GpuBackends, NEW c, c = cpu', cpu' \in BOOLEAN,
             updateView(Results, b, m, sys, md, ts, c),
             fetching' \in Seq(Benchmarks), Len(fetching') <= MaxFetches,
             desc'.kind \in {"blank", "loading", "text", "unavailable"}
      PROVE  VInv'
  <2>1. Draws(Results, b, m, md, ts, c)
    BY <1>d, ViewIsDrawn
  <2>2. VTypeOK'
    BY <2>1, <1>t, <1>d DEF VTypeOK, Draws
  <2>3. Results' = Results
    BY <1>d DEF Results
  <2>4. ChartIsDrawn'
    BY <2>1, <2>3, <1>d DEF ChartIsDrawn, Draws
  <2> QED BY <2>2, <2>4 DEF VInv
<1>k. ASSUME UNCHANGED <<desc, fetching>>
      PROVE  /\ fetching' \in Seq(Benchmarks) /\ Len(fetching') <= MaxFetches
             /\ desc'.kind \in {"blank", "loading", "text", "unavailable"}
  BY <1>t, <1>k DEF VTypeOK
<1>1. CASE loadBenchmarkData
  <2>1. PICK rs \in Datasets : /\ benchmarkData' = {rs}
                               /\ updateView(rs, bench, metric, system, mode, backends, cpu)
    BY <1>1 DEF loadBenchmarkData
  <2>2. UNCHANGED <<bench, metric, mode, backends, cpu>> /\ loaded' = "done" /\ Describe(bench)
    BY <1>1 DEF loadBenchmarkData
  <2>3. Draws(rs, bench, metric, mode, backends, cpu)
    BY <1>u, <2>1, ViewIsDrawn
  <2>4. /\ fetching' \in Seq(Benchmarks) /\ Len(fetching') <= MaxFetches
        /\ desc'.kind \in {"blank", "loading", "text", "unavailable"}
    BY <1>t, <1>u, <2>2, Described
  <2>5. VTypeOK'
    BY <1>t, <2>1, <2>2, <2>3, <2>4 DEF VTypeOK, Draws
  <2>6. Results' = rs
    BY <2>1 DEF Results
  <2>7. ChartIsDrawn'
    BY <2>2, <2>3, <2>6 DEF ChartIsDrawn, Draws
  <2> QED BY <2>5, <2>7 DEF VInv
<1>2. CASE LoadingFails
  <2>1. VTypeOK'
    BY <1>2, <1>t DEF LoadingFails, VTypeOK
  <2> QED BY <1>2, <2>1 DEF LoadingFails, VInv, ChartIsDrawn
<1>3. CASE ToggleCpu
  <2>1. updateView(Results, bench, metric, system, mode, backends, ~cpu)
    BY <1>3, Zenon DEF ToggleCpu
  <2>2. /\ Live /\ cpu' = ~cpu
        /\ UNCHANGED <<benchmarkData, loaded, bench, metric, mode, backends, desc, fetching>>
    BY <1>3 DEF ToggleCpu
  <2>3. cpu' \in BOOLEAN
    BY <1>u, <2>2
  <2> QED BY <1>d, <1>k, <1>u, <2>1, <2>2, <2>3
<1>4. ASSUME NEW b \in Benchmarks, SelectBenchmark(b) PROVE VInv'
  <2>1. /\ Live /\ bench' = b /\ updateView(Results, b, metric, system, mode, backends, cpu)
        /\ UNCHANGED <<benchmarkData, loaded, metric, mode, backends, cpu>> /\ Describe(b)
    BY <1>4 DEF SelectBenchmark
  <2>2. /\ fetching' \in Seq(Benchmarks) /\ Len(fetching') <= MaxFetches
        /\ desc'.kind \in {"blank", "loading", "text", "unavailable"}
    BY <1>t, <2>1, Described
  <2> QED BY <1>d, <1>u, <2>1, <2>2
<1>5. ASSUME NEW md \in {"single", "comparison", "ranking", "matrix"}, SelectMode(md) PROVE VInv'
  <2>1. /\ Live /\ mode' = md /\ updateView(Results, bench, metric, system, md, backends, cpu)
        /\ UNCHANGED <<benchmarkData, loaded, bench, metric, backends, cpu, desc, fetching>>
    BY <1>5 DEF SelectMode
  <2> QED BY <1>d, <1>k, <1>u, <2>1
<1>6. ASSUME NEW s \in Hosts \cup {AllSystems}, SelectSystem(s) PROVE VInv'
  <2>1. /\ Live /\ updateView(Results, bench, metric, s, mode, backends, cpu)
        /\ UNCHANGED <<benchmarkData, loaded, bench, metric, mode, backends, cpu, desc, fetching>>
    BY <1>6 DEF SelectSystem
  <2> QED BY <1>d, <1>k, <1>u, <2>1
<1>7. ASSUME NEW m \in {"time", "throughput"}, SelectMetric(m) PROVE VInv'
  <2>1. /\ Live /\ metric' = m /\ updateView(Results, bench, m, system, mode, backends, cpu)
        /\ UNCHANGED <<benchmarkData, loaded, bench, mode, backends, cpu, desc, fetching>>
    BY <1>7 DEF SelectMetric
  <2> QED BY <1>d, <1>k, <1>u, <2>1
<1>8. ASSUME NEW f \in GpuBackends, ToggleBackend(f) PROVE VInv'
  <2>1. PICK ticked : /\ ticked = IF f \in backends THEN backends \ {f} ELSE backends \cup {f}
                      /\ Live /\ backends' = ticked
                      /\ updateView(Results, bench, metric, system, mode, ticked, cpu)
                      /\ UNCHANGED <<benchmarkData, loaded, bench, metric, mode, cpu, desc, fetching>>
    BY <1>8 DEF ToggleBackend
  <2>2. ticked \subseteq GpuBackends
    BY <2>1, <1>u
  <2> QED BY <1>d, <1>k, <1>u, <2>1, <2>2
<1>9. ASSUME NEW i \in DOMAIN fetching, DescriptionEnds(i) PROVE VInv'
  <2>1. /\ desc'.kind \in {"text", "unavailable"} /\ fetching' = RemoveAt(fetching, i)
        /\ UNCHANGED <<benchmarkData, loaded, bench, metric, system, mode, backends, cpu, systemMenu,
                       filters, chart, charts>>
    BY <1>9 DEF DescriptionEnds
  <2>2. fetching \in Seq(Benchmarks) /\ Len(fetching) <= MaxFetches /\ i \in 1..Len(fetching)
        /\ Len(fetching) \in Nat /\ MaxFetches \in Nat
    BY <1>t, ViewerAssumption DEF VTypeOK
  <2>3. fetching' = SubSeq(fetching, 1, i - 1) \o SubSeq(fetching, i + 1, Len(fetching))
    BY <2>1 DEF RemoveAt
  <2>4. /\ SubSeq(fetching, 1, i - 1) \in Seq(Benchmarks) /\ Len(SubSeq(fetching, 1, i - 1)) = i - 1
        /\ SubSeq(fetching, i + 1, Len(fetching)) \in Seq(Benchmarks)
        /\ Len(SubSeq(fetching, i + 1, Len(fetching))) = Len(fetching) - i
    BY <2>2
  <2>5. fetching' \in Seq(Benchmarks) /\ Len(fetching') = Len(fetching) - 1
    <3>1. PICK p \in Seq(Benchmarks) : p = SubSeq(fetching, 1, i - 1)
      BY <2>4
    <3>2. PICK q \in Seq(Benchmarks) : q = SubSeq(fetching, i + 1, Len(fetching))
      BY <2>4
    <3>3. p \o q \in Seq(Benchmarks) /\ Len(p \o q) = Len(p) + Len(q)
      OBVIOUS
    <3>4. Len(p) = i - 1 /\ Len(q) = Len(fetching) - i /\ fetching' = p \o q
      BY <2>3, <2>4, <3>1, <3>2
    <3> QED BY <2>2, <3>3, <3>4
  <2>6. VTypeOK'
    BY <1>t, <2>1, <2>2, <2>5 DEF VTypeOK
  <2>7. Results' = Results
    BY <2>1 DEF Results
  <2>8. ChartIsDrawn'
    BY <1>t, <2>1, <2>7 DEF ChartIsDrawn
  <2> QED BY <2>6, <2>8 DEF VInv
<1>10. CASE UNCHANGED vvars
  BY <1>t, <1>10 DEF vvars, VInv, VTypeOK, ChartIsDrawn, Results
<1> QED BY <1>1, <1>2, <1>3, <1>4, <1>5, <1>6, <1>7, <1>8, <1>9, <1>10 DEF VNext

\* What is drawn is what is selected.
LEMMA DrawnIsSelected == VInv => SingleShowsSelection
<1> SUFFICES ASSUME VInv, loaded = "done" PROVE SingleShowsSelection
  BY DEF SingleShowsSelection
<1>1. /\ VTypeOK /\ bench \in Benchmarks /\ backends \in SUBSET GpuBackends
      /\ chart = IF mode = "single"
                 THEN {prepareChartData(Results, bench, system, metric, backends, cpu)} ELSE {}
  BY DEF VInv, VTypeOK, ChartIsDrawn
<1>2. Results \in Seq(BenchmarkResults)
  <2>1. PICK rs \in Datasets : benchmarkData = {rs}
    BY <1>1 DEF VTypeOK
  <2> QED BY <2>1, ViewerAssumption DEF Results
<1>3. PICK table : table = PlottedRows(Results, bench, system, backends, cpu)
  OBVIOUS
<1>4. table \in Seq(RowRecords) /\ Range(table) = {q \in Selected : q.framework \in backends}
  <2>1. /\ table \in Seq(RowRecords)
        /\ Range(table) = {q \in Range(DeviceRows(Results)) : /\ q.variant \in Range(VariantsOf[bench])
                                                             /\ shouldIncludeResult(q, system)
                                                             /\ q.framework \in backends}
    <3>1. PICK rs \in Seq(BenchmarkResults) : rs = Results
      BY <1>2
    <3>2. /\ PlottedRows(rs, bench, system, backends, cpu) \in Seq(RowRecords)
          /\ Range(PlottedRows(rs, bench, system, backends, cpu)) =
               {q \in Range(DeviceRows(rs)) : /\ q.variant \in Range(VariantsOf[bench])
                                              /\ shouldIncludeResult(q, system)
                                              /\ q.framework \in backends}
      <4>1. bench \in Benchmarks /\ backends \in SUBSET GpuBackends
        BY <1>1
      <4> QED BY <4>1, PlottedAre
    <3> QED BY <1>3, <3>1, <3>2
  <2>2. ASSUME NEW q
        PROVE  q \in Selected <=> /\ q \in Range(DeviceRows(Results)) /\ q.variant \in Range(VariantsOf[bench])
                                  /\ shouldIncludeResult(q, system)
    BY DEF Selected, shouldIncludeResult
  <2> QED BY <2>1, <2>2
<1>5. PointsDrawn(prepareChartData(Results, bench, system, metric, backends, cpu)) =
        {<<Label(r, LineLabel(system)), r.size, r[Plotted(metric)]>> : r \in {q \in Selected : q.framework \in backends}}
  <2>1. prepareChartData(Results, bench, system, metric, backends, cpu) =
          Series(table, LineLabel(system), Plotted(metric))
    BY <1>3 DEF prepareChartData
  <2>2. \A r \in RowRecords : r.size \in Nat
    BY DEF RowRecords
  <2>3. PointsDrawn(Series(table, LineLabel(system), Plotted(metric))) =
          {<<Label(r, LineLabel(system)), r.size, r[Plotted(metric)]>> : r \in Range(table)}
    BY <1>4, <2>2, LinesHold
  <2> QED BY <2>1, <2>3, <1>4
<1> QED BY <1>1, <1>5 DEF SingleShowsSelection

\* The invariant of the viewer.
THEOREM ViewerInvariant == ViewerSpec => []VInv
  BY ViewerInit, ViewerStep, PTL DEF ViewerSpec

\* The benchmark viewer's single chart is there exactly in the single view and shows
\* what its controls select, every measurement of it and nothing else, for any data
\* file: no handler of benchmark-viewer.js leaves an older drawing behind, test hosts
\* stay out of "All Systems", and the sorting and grouping of prepareChartData lose no
\* measurement.
THEOREM SelectionIsShown == ViewerSpec => []SingleShowsSelection
  BY ViewerInvariant, DrawnIsSelected, PTL
=============================================================================
