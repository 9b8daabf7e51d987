----------------------------- MODULE OutputArea -----------------------------
(* static/notebook/js/outputarea.js and codecell.js: a code cell of the      *)
(* notebook and what its executions print.  The area keeps its outputs       *)
(* twice, as data (what is saved) and as elements of the page; a clear is    *)
(* carried out half a second after it is asked for, or by the next output.   *)
(* The kernel runs the cell's requests one after the other; a reply comes    *)
(* over another socket than the outputs, in any order with them.             *)
EXTENDS Integers, SequencesExt, Filter

CONSTANTS MaxRequests,    \* bound: executions of the cell
          MaxOutputs,     \* bound: messages that print
          MaxClears       \* bound: clears and display commands

VARIABLES outputs,        \* this.outputs: [kind, text]
          elements,       \* the output areas of the page: [kind, texts]
          clearing,       \* the pending timer's <<stdout, stderr, other>>, or NoTimer
          collapsed,      \* of the output area
          cellCollapsed,  \* of the cell, which is what is saved
          scrolled,
          prompt,         \* input_prompt_number
          kernel,         \* requests: [replied, idle]
          waiting,        \* the kernel waits for a raw input
          since,          \* history: texts printed since a clear was last asked for
          printed, cleared
ovars == <<outputs, elements, clearing, collapsed, cellCollapsed, scrolled, prompt, kernel,
           waiting, since, printed, cleared>>

NoTimer == <<>>
All == <<TRUE, TRUE, TRUE>>
Blank == 0                \* a chunk that is empty once carriage returns are dropped
Box == -1                 \* the raw input box
Streams == {"stdout", "stderr"}
Output(kind, text) == [kind |-> kind, text |-> text]
Element(kind, text) == [kind |-> kind, texts |-> <<text>>]
area == <<outputs, elements, clearing, collapsed, scrolled>>

-----------------------------------------------------------------------------
\* clear_output_callback: a partial clear takes pyout and pyerr off the page
\* and leaves them in the data.
Cleared(kind, c) == CASE kind = "stdout" -> c[1] [] kind = "stderr" -> c[2] [] OTHER -> c[3]
Remaining(c) == Kept(outputs, {o \in Range(outputs) :
                                 ~(o.kind \in Streams \cup {"display_data"} /\ Cleared(o.kind, c))})
ClearedOutputs(c) == IF c = All THEN <<>> ELSE Remaining(c)
ClearedElements(c) == Kept(elements, {e \in Range(elements) : ~Cleared(e.kind, c)})

\* flush_clear_timeout, before every output.
\* Mutant: the timer is left running.
Unflushed == [outputs |-> outputs, elements |-> elements, clearing |-> clearing, scrolled |-> scrolled]
Flushed == IF clearing = NoTimer
           THEN [outputs |-> outputs, elements |-> elements, clearing |-> NoTimer, scrolled |-> scrolled]
           ELSE [outputs |-> ClearedOutputs(clearing), elements |-> ClearedElements(clearing),
                 clearing |-> NoTimer, scrolled |-> FALSE]

\* append_stream: a chunk of the stream that printed last goes into that
\* stream's last element; a blank first chunk makes none.
LastOf(els, kind) == {i \in DOMAIN els : els[i].kind = kind /\ \A j \in DOMAIN els : els[j].kind = kind => j <= i}
\* Mutant: whatever printed in between.
JoinsEarlier(outs, kind) == kind \in Streams /\ \E i \in DOMAIN outs : outs[i].kind = kind
JoinsLast(outs, kind) == outs # <<>> /\ kind \in Streams /\ Last(outs).kind = kind
Appended(outs, els, o) ==
    CASE JoinsLast(outs, o.kind) ->
           [i \in DOMAIN els |-> IF i \in LastOf(els, o.kind) /\ o.text # Blank
                                 THEN [els[i] EXCEPT !.texts = Append(@, o.text)] ELSE els[i]]
      [] ~JoinsLast(outs, o.kind) /\ o.text = Blank -> els
      [] OTHER -> Append(els, Element(o.kind, o.text))

AppendOutput(o) ==
    /\ outputs' = Append(Flushed.outputs, o)
    /\ elements' = Appended(Flushed.outputs, Flushed.elements, o)
    /\ clearing' = Flushed.clearing /\ scrolled' = Flushed.scrolled
    /\ collapsed' = FALSE

\* clear_output: a clear that is pending is carried out, a new timer starts.
AskClear(c) == /\ outputs' = Flushed.outputs /\ elements' = Flushed.elements
               /\ scrolled' = Flushed.scrolled /\ clearing' = c
               /\ since' = {}
ClearTimer == /\ clearing # NoTimer
              /\ outputs' = ClearedOutputs(clearing) /\ elements' = ClearedElements(clearing)
              /\ clearing' = NoTimer /\ scrolled' = FALSE
              /\ UNCHANGED <<collapsed, cellCollapsed, prompt, kernel, waiting, since, printed, cleared>>

-----------------------------------------------------------------------------
\* The constructor hides the area, whatever the cell says.
OInit == /\ outputs = <<>> /\ elements = <<>> /\ clearing = NoTimer
         /\ collapsed = TRUE /\ cellCollapsed = FALSE /\ scrolled = FALSE /\ prompt = "none"
         /\ kernel = <<>> /\ waiting = FALSE /\ since = {} /\ printed = 0 /\ cleared = 0

\* execute; the cell may still be running.
RunCell == /\ Len(kernel) < MaxRequests
           /\ AskClear(All)
           /\ prompt' = "star"
           /\ kernel' = Append(kernel, [replied |-> FALSE, idle |-> FALSE])
           /\ UNCHANGED <<collapsed, cellCollapsed, waiting, printed, cleared>>

Running(r) == /\ r \in DOMAIN kernel /\ ~kernel[r].idle
           /\ \A q \in 1..r - 1 : kernel[q].idle
Reply(r) == /\ r \in DOMAIN kernel /\ ~kernel[r].replied /\ \A q \in 1..r - 1 : kernel[q].idle
            /\ ~(waiting /\ Running(r))
            /\ kernel' = [kernel EXCEPT ![r].replied = TRUE] /\ prompt' = "number"
            /\ UNCHANGED <<area, cellCollapsed, waiting, since, printed, cleared>>
Idle(r) == /\ Running(r) /\ ~waiting
           /\ kernel' = [kernel EXCEPT ![r].idle = TRUE]
           /\ UNCHANGED <<area, cellCollapsed, prompt, waiting, since, printed, cleared>>

\* handle_output: an error without a traceback shows nothing.
HandleOutput(r) == /\ Running(r) /\ ~waiting /\ printed < MaxOutputs
                   /\ printed' = printed + 1
                   /\ \E kind \in Streams \cup {"display_data", "pyout", "pyerr"},
                         text \in {printed', Blank} :
                        /\ text = Blank => kind \in Streams \cup {"pyerr"}
                        /\ AppendOutput(Output(kind, text))
                        /\ since' = since \cup ({text} \ {Blank})
                   /\ UNCHANGED <<cellCollapsed, prompt, kernel, waiting, cleared>>

\* handle_clear_output of the kernel; Clear All Output of the menu, which blanks
\* the prompt.
KernelClear(r) == /\ Running(r) /\ ~waiting /\ cleared < MaxClears /\ cleared' = cleared + 1
                  /\ \E c \in BOOLEAN \X BOOLEAN \X BOOLEAN : AskClear(c)
                  /\ UNCHANGED <<collapsed, cellCollapsed, prompt, kernel, waiting, printed>>
MenuClear == /\ cleared < MaxClears /\ cleared' = cleared + 1
             /\ AskClear(All) /\ prompt' = "none"
             /\ UNCHANGED <<collapsed, cellCollapsed, kernel, waiting, printed>>

\* append_raw_input: the box of an earlier request goes.
Unboxed(els) == Kept(els, {e \in Range(els) : e.kind # "raw_input"})
RawInput(r) == /\ Running(r) /\ ~waiting /\ printed < MaxOutputs
               /\ printed' = printed + 1
               /\ outputs' = Flushed.outputs
               /\ elements' = Append(Unboxed(Flushed.elements), Element("raw_input", Box))
               /\ clearing' = Flushed.clearing /\ scrolled' = Flushed.scrolled
               /\ collapsed' = FALSE /\ waiting' = TRUE /\ since' = since \cup {Box}
               /\ UNCHANGED <<cellCollapsed, prompt, kernel, cleared>>
\* _submit_raw_input: what was typed becomes an output of stdout.
Submit == /\ \E i \in DOMAIN elements : elements[i].kind = "raw_input"
          /\ waiting' = FALSE /\ printed' = printed + 1 /\ since' = (since \ {Box}) \cup {printed'}
          /\ LET o == Output("stdout", printed')
             IN /\ outputs' = Append(Flushed.outputs, o)
                /\ elements' = Appended(Flushed.outputs, Unboxed(Flushed.elements), o)
          /\ clearing' = Flushed.clearing /\ scrolled' = Flushed.scrolled /\ collapsed' = FALSE
          /\ UNCHANGED <<cellCollapsed, prompt, kernel, cleared>>

\* Toggle, collapse and expand of the cell; of the area alone by its button and
\* overlay.
Display(hidden, cell, scroll) ==
    /\ cleared < MaxClears /\ cleared' = cleared + 1
    /\ collapsed' = hidden /\ cellCollapsed' = cell /\ scrolled' = scroll
    /\ UNCHANGED <<outputs, elements, clearing, prompt, kernel, waiting, since, printed>>
ToggleCell == Display(~collapsed, ~cellCollapsed, scrolled)
ToggleArea == Display(~collapsed, cellCollapsed, scrolled)
\* scroll_if_long, unscroll_area; the resize that follows an output.
ToggleScroll == Display(collapsed, cellCollapsed, ~scrolled)

\* A cell read from a file: the saved outputs are appended one by one.
Saved == {<<Output("stdout", 1), Output("stdout", 2)>>, <<Output("pyout", 1), Output("stderr", 2)>>}
Read == /\ printed = 0 /\ kernel = <<>> /\ clearing = NoTimer /\ outputs = <<>>
        /\ \E saved \in Saved, c \in BOOLEAN :
             /\ outputs' = saved
             /\ elements' = Appended(<<saved[1]>>, Appended(<<>>, <<>>, saved[1]), saved[2])
             /\ cellCollapsed' = c /\ collapsed' = c
        /\ prompt' = "number" /\ printed' = 2
        /\ UNCHANGED <<clearing, scrolled, kernel, waiting, since, cleared>>

ONext == \/ RunCell \/ ClearTimer \/ MenuClear \/ Submit \/ ToggleCell \/ ToggleArea \/ ToggleScroll \/ Read
         \/ \E r \in DOMAIN kernel : Reply(r) \/ Idle(r) \/ HandleOutput(r) \/ KernelClear(r) \/ RawInput(r)
OutputsSpec == OInit /\ [][ONext]_ovars

-----------------------------------------------------------------------------
Texts(els) == UNION {Range(els[i].texts) : i \in DOMAIN els}
NoBlank == \A i \in DOMAIN outputs : outputs[i].text # Blank

(* Whatever was printed since a clear was last asked for is on the page, and *)
(* so is the box the kernel waits on: the timer of the clear never takes     *)
(* what came after it was started.  (A stream that begins with a blank       *)
(* chunk does lose what follows.)                                            *)
NewOutputsSurvive == NoBlank => since \subseteq Texts(elements)

(* What the page shows of the outputs is what is saved, under its own kind   *)
(* and in the saved order.                                                   *)
Shows == UNION {{e} \X DOMAIN elements[e].texts : e \in DOMAIN elements}
ShownText(p) == elements[p[1]].texts[p[2]]
Precedes(p, q) == p[1] < q[1] \/ (p[1] = q[1] /\ p[2] < q[2])
ShownIsStored ==
    NoBlank => \A p \in Shows : ShownText(p) # Box =>
        \E i \in DOMAIN outputs :
          /\ outputs[i] = Output(elements[p[1]].kind, ShownText(p))
          /\ \A q \in Shows, j \in DOMAIN outputs :
               Precedes(p, q) /\ outputs[j].text = ShownText(q) => i < j

\* A clear never takes what was printed after it was asked for, and the page
\* shows the stored outputs, in their order.
OutputsKept == NewOutputsSurvive /\ ShownIsStored
=============================================================================
