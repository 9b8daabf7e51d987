----------------------------- MODULE LessonPage -----------------------------
(* sarek_lesson.js and sarek_webgpu_runner.js: a course page on which the    *)
(* visitor edits a kernel and runs it on the GPU.  Everything between two    *)
(* awaits is one action.  A run is one click; the button is disabled while   *)
(* it is in flight.  The transpiler, the lesson's hooks and the GPU are      *)
(* outside this code: what they answer is chosen freely.                     *)
EXTENDS Integers, Sequences, FiniteSets

CONSTANTS Buffers,       \* storage buffers of the kernel's ABI, in binding order
          Uniform,       \* the uniform parameter buffer, for kernels that have one
          MaxRuns        \* bound: clicks that start a run

ASSUME LessonAssumption == /\ Buffers \in Seq(STRING) \ {<<>>} /\ MaxRuns \in Nat
                           /\ Uniform \notin {Buffers[i] : i \in DOMAIN Buffers}

VARIABLES page,          \* "loading" | "live" | "dead" (no runner, no adapter)
          disabled,      \* runBtn.disabled
          runs,          \* one record per click: [pc, verdict, held, mapped, dispatched]
          status,        \* the status bar: [text, of], of the run that wrote it
          output,        \* the result panel, likewise
          wgsl           \* the run whose generated code is displayed
lvars == <<page, disabled, runs, status, output, wgsl>>

Nobody == 0
Text(t, r) == [text |-> t, of |-> r]
StorageOf(n) == {Buffers[i] : i \in 1..n}
\* Each storage buffer has a readback buffer beside it.
Pairs(n) == StorageOf(n) \X {"storage", "readback"}
Everything == Pairs(Len(Buffers)) \cup {<<Uniform, "uniform">>}

LInit == /\ page = "loading" /\ disabled = FALSE /\ runs = <<>>
         /\ status = Text("empty", Nobody) /\ output = Text("empty", Nobody) /\ wgsl = Nobody

\* init: the runner script missing or no adapter disables the button for good;
\* otherwise the handlers are installed.
InitPage == /\ page = "loading"
            /\ \/ /\ page' = "live" /\ UNCHANGED <<disabled, status, output>>
               \/ /\ page' = "dead" /\ disabled' = TRUE
                  /\ status' = Text("no-webgpu", Nobody)
                  /\ output' = Text("notice", Nobody)
            /\ UNCHANGED <<runs, wgsl>>

-----------------------------------------------------------------------------
Record(pc) == [pc |-> pc, held |-> {}, mapped |-> 0, dispatched |-> FALSE]
Over == "over"
Started(pc) == runs' = Append(runs, Record(pc))
This == Len(runs) + 1

\* The end of a run, in the click handler's finally.
Ends(r, held) == /\ runs' = [runs EXCEPT ![r].pc = Over, ![r].held = held]
                 /\ disabled' = FALSE

\* runLesson up to its first await.
\* A script that has loaded stays loaded.
TranspilerMissing == /\ status.text = "empty"
                     /\ output' = Text("error", This)
                     /\ UNCHANGED <<status, wgsl>>
TranspileThrows   == /\ status' = Text("transpiling", This)
                     /\ UNCHANGED <<output, wgsl>>
TranspileError    == /\ status' = Text("transpile-error", This)
                     /\ output' = Text("error", This)
                     /\ UNCHANGED wgsl
InputsThrow       == /\ status' = Text("transpiling", This) /\ wgsl' = This
                     /\ UNCHANGED output
Transpiled        == /\ status' = Text("running", This) /\ wgsl' = This
                     /\ UNCHANGED output

\* Mutant: the button stays enabled during a run.
AnyClick  == page = "live" /\ Len(runs) < MaxRuns
Clickable == page = "live" /\ ~disabled /\ Len(runs) < MaxRuns

\* A run that fails before its first await: the button is disabled and enabled
\* again within the handler.
ClickFails == /\ Clickable
              /\ TranspilerMissing \/ TranspileThrows \/ TranspileError \/ InputsThrow
              /\ Started(Over)
              /\ UNCHANGED <<page, disabled>>
Click == /\ Clickable
         /\ Transpiled
         /\ Started("adapter") /\ disabled' = TRUE
         /\ UNCHANGED page

-----------------------------------------------------------------------------
\* An exception of the runner is caught by runLesson.
GpuError(r, held) == /\ status' = Text("gpu-error", r) /\ output' = Text("error", r)
                     /\ Ends(r, held)
                     /\ UNCHANGED <<page, wgsl>>
Moves(r, pc) == /\ runs' = [runs EXCEPT ![r].pc = pc]
                /\ UNCHANGED <<page, disabled, status, output, wgsl>>

GetAdapter(r) == runs[r].pc = "adapter" /\ (Moves(r, "device") \/ GpuError(r, {}))
GetDevice(r)  == runs[r].pc = "device" /\ (Moves(r, "compile") \/ GpuError(r, {}))

\* After the compilation info: build the layout, allocate and upload every
\* buffer, check the ABI, submit.  An exception in it (missing input, unknown
\* element type, workgroup not 1D, missing length) comes before the try whose
\* finally destroys the buffers: what was allocated stays.
CompileFails(r) == runs[r].pc = "compile" /\ GpuError(r, {})
SetupThrows(r)  == /\ runs[r].pc = "compile"
                   /\ \E n \in 0..Len(Buffers) : GpuError(r, Pairs(n))
Dispatch(r) == /\ runs[r].pc = "compile"
               /\ \E uniform \in {{}, {<<Uniform, "uniform">>}} :
                    runs' = [runs EXCEPT ![r].pc = "map", ![r].dispatched = TRUE,
                                         ![r].held = Pairs(Len(Buffers)) \cup uniform]
               /\ UNCHANGED <<page, disabled, status, output, wgsl>>

\* The read back, one mapAsync per buffer; the finally destroys them all.
\* Mutant: the uniform buffer is forgotten.
DestroyedButUniform(held) == held \ Pairs(Len(Buffers))
Destroyed(held) == held \ Everything

MapRejects(r) == /\ runs[r].pc = "map"
                 /\ GpuError(r, Destroyed(runs[r].held))
MapResolves(r) == /\ runs[r].pc = "map" /\ runs[r].mapped < Len(Buffers) - 1
                  /\ runs' = [runs EXCEPT ![r].mapped = @ + 1]
                  /\ UNCHANGED <<page, disabled, status, output, wgsl>>

\* The last buffer: the run returns and runLesson renders and grades.  Grading
\* can throw (a reference that throws, an output shorter than n).
Graded(r) == \E g \in {<<"grading-error", "error">>, <<"render-error", "error">>, <<"done", "rendered">>,
                       <<"PASS", "PASS">>, <<"FAIL", "FAIL">>} :
                status' = Text(g[1], r) /\ output' = Text(g[2], r)
GradingThrows == UNCHANGED <<status, output>>
Returns(r) == /\ runs[r].pc = "map" /\ runs[r].mapped = Len(Buffers) - 1
              /\ Graded(r) \/ GradingThrows
              /\ Ends(r, Destroyed(runs[r].held))
              /\ UNCHANGED <<page, wgsl>>

LNext == \/ InitPage \/ Click \/ ClickFails
         \/ \E r \in DOMAIN runs :
              \/ GetAdapter(r) \/ GetDevice(r) \/ CompileFails(r) \/ SetupThrows(r)
              \/ Dispatch(r) \/ MapRejects(r) \/ MapResolves(r) \/ Returns(r)
LSpec == LInit /\ [][LNext]_lvars

-----------------------------------------------------------------------------
Pcs == {"adapter", "device", "compile", "map", Over}
StatusTexts == {"empty", "no-webgpu", "transpiling", "transpile-error", "running",
                "gpu-error", "grading-error", "render-error", "done", "PASS", "FAIL"}
OutputTexts == {"empty", "notice", "error", "rendered", "PASS", "FAIL"}
RunRecords == [pc : Pcs, held : SUBSET Everything, mapped : Nat, dispatched : BOOLEAN]
LTypeOK == /\ page \in {"loading", "live", "dead"} /\ disabled \in BOOLEAN
           /\ runs \in Seq(RunRecords)
           /\ status \in [text : StatusTexts, of : Nat] /\ output \in [text : OutputTexts, of : Nat]
           /\ wgsl \in Nat

Verdicts == {"PASS", "FAIL"}
(* A verdict in the status bar is the verdict of the newest click, and the   *)
(* panel below shows the same one: no slower, older run overwrites it (the   *)
(* comment on the handler).  The status bar is what makes this true: a run   *)
(* that throws leaves the panel of the run before in place.                  *)
VerdictIsOfLastClick ==
    status.text \in Verdicts => status.of = Len(runs) /\ output = status

(* A run that reached the GPU holds no buffer once it is over, whatever      *)
(* mapAsync answered; and at most one run has buffers in use at a time.      *)
DispatchedRunsRelease ==
    /\ \A r \in DOMAIN runs : runs[r].pc = Over /\ runs[r].dispatched => runs[r].held = {}
    /\ \A r, q \in DOMAIN runs : runs[r].pc = "map" /\ runs[q].pc = "map" => r = q
=============================================================================
