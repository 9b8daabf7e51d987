------------------------------- MODULE Popups -------------------------------
(* static/notebook/js/tooltip.js, completer.js and pager.js, and the keys of *)
(* codecell.js that drive them: the tooltip every cell shares, the list of   *)
(* completions, the pager.  Both ask the kernel, which answers in order but  *)
(* while the visitor goes on typing; both also wait on timers.               *)
(* A line is the sequence of what was typed on it: "c" part of a word, "p"   *)
(* an opening parenthesis, "m" what a completion added.                      *)
EXTENDS Integers, FiniteSets, SequencesExt

CONSTANTS Cells,      \* the code cells
          TooltipOnTab, \* IPython.config.tooltip_on_tab
          MaxInputs   \* bound: what the visitor does

NoCell == "nocell"

VARIABLES
    line,     \* per cell, what precedes the cursor
    focus,    \* the cell with the keyboard (the list has it while one is open)
    tip,      \* the tooltip: hidden, mirror, cell, text, counter, sticky, quiet, called
    timers,   \* the cells whose tooltip timers run, and whether each is the recorded one
    infos,    \* object_info requests the kernel has to answer
    busy,     \* skip_kernel_completion
    comp,     \* per cell, its completer: done, autopick, result
    asks,     \* complete requests the kernel has to answer: cell, length of the word
    lists,    \* the lists of completions on the page
    later,    \* the 50 ms timers: cell, carry (on with the completion) or focus
    pager,    \* expanded
    inputs,   \* what the visitor did so far
    asked     \* history: a tooltip was asked for since the last was dismissed
pvars == <<line, focus, tip, timers, infos, busy, comp, asks, lists, later, pager, inputs, asked>>

NoResult == [n |-> 0, from |-> 0, upto |-> 0]
PInit ==
    /\ line = [c \in Cells |-> <<>>] /\ focus \in Cells
    /\ tip = [hidden |-> TRUE, mirror |-> NoCell, cell |-> NoCell, text |-> <<>>, counter |-> 0,
              sticky |-> FALSE, quiet |-> FALSE, called |-> 0]
    /\ timers = {} /\ infos = 0 /\ busy = FALSE
    /\ comp = [c \in Cells |-> [done |-> FALSE, autopick |-> FALSE, result |-> NoResult]]
    /\ asks = <<>> /\ lists = <<>> /\ later = {} /\ pager = FALSE /\ inputs = 0 /\ asked = FALSE

------------------------------------------------------------------------------
(* The tooltip.  _hide forgets the editor, so that an answer that comes     *)
(* later fails before it shows anything.                                    *)
\* Mutant: the editor is kept.
HideOnly(t) == [t EXCEPT !.hidden = TRUE]
Hide(t) == [t EXCEPT !.hidden = TRUE, !.mirror = NoCell]
CancelPending(ts) == {t \in ts : ~t.recorded}
ResetTabs(t, cell, text) == [t EXCEPT !.cell = cell, !.text = text, !.counter = 0]
Dismissed(t, force) ==
    ResetTabs(IF ~t.sticky \/ force THEN [Hide(t) EXCEPT !.sticky = FALSE] ELSE t, NoCell, <<>>)
Dismiss(force) ==
    /\ tip' = Dismissed(tip, force) /\ timers' = CancelPending(timers)
    /\ asked' = (asked /\ tip.sticky /\ ~force)

\* The timer of an earlier parenthesis is not cleared.
Pending(ts, cell) == {[t EXCEPT !.recorded = FALSE] : t \in ts} \cup {[cell |-> cell, recorded |-> TRUE]}

\* The same text again: ask, expand, stick, open in the pager.
ShowInPager(t) == Dismissed([t EXCEPT !.sticky = FALSE], FALSE)
Counted(cell, quiet) ==
    LET text == line[cell]
        again == tip.cell = cell /\ tip.text = text /\ text # <<>> /\ ~tip.hidden
        t == [tip EXCEPT !.quiet = quiet, !.mirror = cell]
    IN IF again THEN [t EXCEPT !.counter = @ + 1]
       ELSE ResetTabs([t EXCEPT !.sticky = FALSE], cell, text)
Silent(cell) == line[cell] \in {<<>>, <<"p">>}
TabsFunction(t) ==
    LET c == [t EXCEPT !.called = t.counter]
    IN CASE t.counter = 2 -> [c EXCEPT !.sticky = TRUE]
         [] t.counter = 3 -> ShowInPager(c)
         [] OTHER -> c
Request(cell, quiet, ts) ==
    LET t == Counted(cell, quiet)
    IN /\ timers' = CancelPending(ts)
       /\ tip' = IF Silent(cell) THEN t ELSE TabsFunction(t)
       /\ infos' = IF ~Silent(cell) /\ t.counter = 0 THEN infos + 1 ELSE infos
       /\ asked' = (Silent(cell) \/ t.counter # 3)

TooltipTimer ==
    \E t \in timers :
       /\ Request(t.cell, TRUE, timers \ {t})
       /\ UNCHANGED <<line, focus, busy, comp, asks, lists, later, pager, inputs>>

\* _show: with no docstring a quiet request leaves what is there.
ObjectInfoReply ==
    /\ infos > 0 /\ infos' = infos - 1
    /\ \E docstring \in BOOLEAN :
          tip' = IF tip.mirror # NoCell /\ (docstring \/ ~tip.quiet)
                 THEN [tip EXCEPT !.hidden = FALSE] ELSE tip
    /\ UNCHANGED <<line, focus, timers, busy, comp, asks, lists, later, pager, inputs, asked>>

StickTimer ==
    /\ tip.sticky /\ tip' = [tip EXCEPT !.sticky = FALSE]
    /\ UNCHANGED <<line, focus, timers, infos, busy, comp, asks, lists, later, pager, inputs, asked>>

------------------------------------------------------------------------------
(* The completer.                                                           *)
WordAt(text) ==
    LET starts == {i \in 1..Len(text) : \A j \in i..Len(text) : text[j] # "p"}
    IN Cardinality(starts)
OnWord(cell) == line[cell] # <<>> /\ Last(line[cell]) # "p"

\* A blur of the list, and close, take every list off the page.
Closed(cell) == IF comp[cell].done THEN lists ELSE <<>>
Shut(cell) == [comp EXCEPT ![cell].done = TRUE]

\* The range was computed when the list was built.
Inserted(cell, r) ==
    LET text == line[cell]
    IN SubSeq(text, 1, r.from) \o SubSeq(text, r.from + 1, r.upto) \o <<"m">>
          \o SubSeq(text, r.upto + 1, Len(text))

\* Opening a list moves the focus to it, and the blur closes all there are.
Opened(cell) == IF lists = <<>> THEN <<cell>> ELSE <<>>

\* The results replace the last ones even if there is nothing to show.
FinishCompleting(cell, matched, completer) ==
    \E n \in 0..2 :
       LET upto == Len(line[cell])
           r == [n |-> n, from |-> IF matched > upto THEN 0 ELSE upto - matched, upto |-> upto]
           told == [completer EXCEPT ![cell].result = r]
       IN \/ n = 0 /\ comp' = told /\ UNCHANGED <<line, lists>>
          \/ /\ n = 1 /\ completer[cell].autopick
             /\ comp' = told /\ line' = [line EXCEPT ![cell] = Inserted(cell, r)] /\ UNCHANGED lists
          \/ /\ n = 1 /\ ~completer[cell].autopick     \* it is what is typed already
             /\ comp' = [told EXCEPT ![cell].done = TRUE]
             /\ lists' = (IF completer[cell].done THEN lists ELSE <<>>) /\ UNCHANGED line
          \/ /\ n > 0 /\ (n = 1 => ~completer[cell].autopick)
             /\ comp' = told /\ lists' = Opened(cell) /\ UNCHANGED line

\* completer is the table with what startCompletion set.
CarryOn(cell, completer, first) ==
    IF ~OnWord(cell)
    THEN /\ comp' = [completer EXCEPT ![cell].done = TRUE]
         /\ lists' = IF completer[cell].done THEN lists ELSE <<>>
         /\ UNCHANGED <<line, asks>>
    ELSE LET told == [completer EXCEPT ![cell].autopick = first]
         IN IF busy
            THEN FinishCompleting(cell, 0, told) /\ UNCHANGED asks
            ELSE /\ asks' = Append(asks, [cell |-> cell, word |-> WordAt(line[cell])])
                 /\ comp' = told /\ UNCHANGED <<line, lists>>
StartCompletion(cell) == CarryOn(cell, [comp EXCEPT ![cell].done = FALSE], TRUE)

CompleteReply ==
    /\ asks # <<>> /\ asks' = Tail(asks)
    /\ FinishCompleting(Head(asks).cell, Head(asks).word, comp)
    /\ UNCHANGED <<focus, tip, timers, infos, busy, later, pager, inputs, asked>>

Later ==
    \E w \in later :
       /\ later' = later \ {w}
       /\ \/ w.what = "carry" /\ CarryOn(w.cell, comp, FALSE) /\ UNCHANGED focus
          \/ w.what = "focus" /\ focus' = w.cell /\ lists' = <<>> /\ UNCHANGED <<line, comp, asks>>
       /\ UNCHANGED <<tip, timers, infos, busy, pager, inputs, asked>>

------------------------------------------------------------------------------
(* What the visitor does.                                                   *)
Acts == inputs < MaxInputs /\ inputs' = inputs + 1
Typing == Acts /\ lists = <<>> /\ UNCHANGED <<focus, busy>>
TypedOn(cell, token) == line' = [line EXCEPT ![cell] = Append(@, token)]
Choosing == Acts /\ lists # <<>> /\ UNCHANGED <<busy, infos, tip, asked, asks, pager>>

\* A key in the editor: handle_codemirror_keyevent, keydown then keypress.
TypeWord ==
    /\ Typing /\ Dismiss(FALSE) /\ TypedOn(focus, "c")
    /\ UNCHANGED <<infos, comp, asks, lists, later, pager>>
TypeParenthesis ==
    /\ Typing /\ tip' = Dismissed(tip, FALSE) /\ asked' = (asked /\ tip.sticky)
    /\ timers' = Pending(CancelPending(timers), focus) /\ TypedOn(focus, "p")
    /\ UNCHANGED <<infos, comp, asks, lists, later, pager>>
\* Enter and the arrows leave the line; backspace takes one off it.
Leave ==
    /\ Typing /\ Dismiss(FALSE) /\ line[focus] # <<>>
    /\ \E rest \in {<<>>, Front(line[focus])} : line' = [line EXCEPT ![focus] = rest]
    /\ UNCHANGED <<infos, comp, asks, lists, later, pager>>
\* The page hears Escape too, and closes the pager.
Escape ==
    /\ Typing /\ Dismiss(TRUE) /\ pager' = FALSE
    /\ UNCHANGED <<line, infos, comp, asks, lists, later>>
ShiftTab ==
    /\ Typing /\ Request(focus, FALSE, timers)
    /\ UNCHANGED <<line, comp, asks, lists, later, pager>>
Tab ==
    /\ Typing /\ line[focus] # <<>>
    /\ IF Last(line[focus]) = "p" /\ TooltipOnTab
       THEN Request(focus, FALSE, timers) /\ UNCHANGED <<line, comp, asks, lists>>
       ELSE StartCompletion(focus) /\ UNCHANGED <<tip, timers, infos, asked>>
    /\ UNCHANGED <<later, pager>>
\* A click into a cell: the list loses the focus.
ClickCell ==
    /\ Acts /\ \E c \in Cells \ {focus} : focus' = c
    /\ lists' = <<>>
    /\ UNCHANGED <<line, tip, timers, infos, busy, comp, asks, later, pager, asked>>

\* A key in the list.  A pick finds what the completer holds by then.
Pick ==
    /\ Choosing
    /\ LET c == Head(lists)
       IN IF comp[c].result.n = 0
          THEN UNCHANGED <<line, comp, lists, later>>
          ELSE /\ line' = [line EXCEPT ![c] = Inserted(c, comp[c].result)]
               /\ lists' = Closed(c) /\ comp' = Shut(c)
               /\ later' = later \cup {[cell |-> c, what |-> "focus"]}
    /\ UNCHANGED <<focus, timers>>
\* Moving the focus to the editor blurs the list, whatever close did.
CloseList ==
    /\ Choosing
    /\ LET c == Head(lists)
       IN /\ lists' = <<>> /\ comp' = Shut(c) /\ focus' = c
          \* Escape; backspace; a character; a parenthesis, typed without a keydown
          /\ \/ UNCHANGED <<line, later, timers>>
             \/ /\ line[c] # <<>> /\ line' = [line EXCEPT ![c] = Front(@)]
                /\ UNCHANGED <<later, timers>>
             \/ TypedOn(c, "c") /\ later' = later \cup {[cell |-> c, what |-> "carry"]} /\ UNCHANGED timers
             \/ /\ TypedOn(c, "p") /\ timers' = Pending(timers, c)
                /\ later' = later \cup {[cell |-> c, what |-> "carry"]}
\* Tab: what the results have in common, then on.
FastForward ==
    /\ Choosing
    /\ LET c == Head(lists)
       IN /\ \/ line' = [line EXCEPT ![c] = Inserted(c, comp[c].result)]
             \/ UNCHANGED line
          /\ lists' = <<>> /\ comp' = Shut(c) /\ focus' = c
          /\ later' = later \cup {[cell |-> c, what |-> "carry"]}
    /\ UNCHANGED timers

\* The buttons of the tooltip; its cell is forgotten once a key was pressed.
CloseButton ==
    /\ Acts /\ ~tip.hidden /\ Dismiss(TRUE) /\ lists' = <<>>
    /\ UNCHANGED <<line, focus, infos, busy, comp, asks, later, pager>>
PagerButton ==
    /\ Acts /\ ~tip.hidden /\ tip.cell # NoCell /\ Dismiss(FALSE) /\ lists' = <<>>
    /\ UNCHANGED <<line, focus, infos, busy, comp, asks, later, pager>>
ClockButton ==
    /\ Acts /\ tip.sticky /\ tip' = [tip EXCEPT !.sticky = FALSE] /\ lists' = <<>>
    /\ UNCHANGED <<line, focus, timers, infos, busy, comp, asks, later, pager, asked>>

\* The splitter and the buttons of the pager; the kernel opens it with a text.
PagerToggle ==
    /\ Acts /\ pager' = ~pager /\ lists' = <<>>
    /\ UNCHANGED <<line, focus, tip, timers, infos, busy, comp, asks, later, asked>>
OpenWithText ==
    /\ Acts /\ pager' = TRUE
    /\ UNCHANGED <<line, focus, tip, timers, infos, busy, comp, asks, lists, later, asked>>
KernelStatus ==
    /\ Acts /\ busy' = ~busy
    /\ UNCHANGED <<line, focus, tip, timers, infos, comp, asks, lists, later, pager, asked>>

PNext ==
    \/ TooltipTimer \/ ObjectInfoReply \/ StickTimer \/ CompleteReply \/ Later
    \/ TypeWord \/ TypeParenthesis \/ Leave \/ Escape \/ ShiftTab \/ Tab \/ ClickCell
    \/ Pick \/ CloseList \/ FastForward
    \/ CloseButton \/ PagerButton \/ ClockButton \/ PagerToggle \/ OpenWithText \/ KernelStatus
PopupsSpec == PInit /\ [][PNext]_pvars

------------------------------------------------------------------------------
(* Whatever comes late, a tooltip that was dismissed is not back until one  *)
(* is asked for again, and the count of repeated requests stays inside the  *)
(* table of what they do.                                                   *)
NothingPopsUpUnasked ==
    /\ ~tip.hidden => asked
    /\ tip.called \in 0..3
=============================================================================
