------------------------------ MODULE Notebook ------------------------------
(* static/notebook/js/notebook.js with the text cells, the menus, the        *)
(* toolbar and the slideshow of iocamlsaver.js: a list of cells that the     *)
(* visitor edits, and the requests that replace it.  A function of the       *)
(* source is an operator from notebook to notebook, so that a command that   *)
(* calls others is one step.  Indices start at 1; Null (0) is its null.      *)
(* Outputs are OutputArea's.                                                 *)
EXTENDS Integers, SequencesExt

CONSTANTS Files,          \* the .ipynb files there are: sequences of cell data
          Typed,          \* a line the visitor may type
          MaxCells,       \* bound: cells of the notebook
          MaxSteps        \* bound: what the visitor does

VARIABLES nb,             \* the Notebook object and its cells
          requests,       \* "load" and "restore" calls without an answer
          show,           \* slideshow: "off" | "on" | "failed"
          slide,          \* currentCell
          file,           \* history: what the notebook was last loaded with
          gone,           \* history: the selected cell deleted last, and its neighbours
          steady,         \* history: no cell came, went or moved since the slideshow began
          steps
nvars == <<nb, requests, show, slide, file, gone, steady, steps>>

Null == 0
NoIndex == -1
NoData == <<>>
Types == {"code", "markdown", "raw", "heading"}
Data(type, text, level) == [type |-> type, text |-> text, level |-> level]

\* A file holds cells of these types, some under an old name.
FileCells == [type : Types \cup {"plaintext"}, text : Seq(STRING), level : Nat]
ASSUME NotebookAssumption ==
    /\ MaxCells \in Nat \ {0} /\ Typed \in STRING
    /\ \A f \in Files : f \in Seq(FileCells) /\ Len(f) <= MaxCells

Inside(n, i) == i \in DOMAIN n.cells
HasCell(n) == n.cells # <<>>
Clamp(i, lo, hi) == IF i > hi THEN hi ELSE IF i < lo THEN lo ELSE i

SelectedIndex(n) == LET S == {i \in DOMAIN n.cells : n.cells[i].selected}
                    IN IF S = {} THEN Null ELSE CHOOSE i \in S : \A j \in S : j <= i
IndexOrSelected(n, i) == IF i # Null THEN i ELSE IF SelectedIndex(n) = Null THEN 1 ELSE SelectedIndex(n)
Current(n) == n.cells[SelectedIndex(n)]
IndexOf(n, id) == CHOOSE i \in DOMAIN n.cells : n.cells[i].id = id

\* toJSON of a cell and of the notebook, without outputs and metadata.
ToJSON(cell) == Data(cell.type, cell.text, cell.level)
Contents(n) == [i \in DOMAIN n.cells |-> ToJSON(n.cells[i])]

\* Rendering: code and raw cells are always open for typing.
Renders(type) == type \in {"markdown", "heading"}
Dirty(n) == [n EXCEPT !.dirty = TRUE]
FreshId(n) == CHOOSE k \in 1..MaxCells + 1 : k \notin {n.cells[i].id : i \in DOMAIN n.cells}

-----------------------------------------------------------------------------
\* select: a cell that is left is rendered; the toolbar follows.
Select(n, i) ==
    IF ~Inside(n, i) THEN n
    ELSE LET left == SelectedIndex(n)
         IN [n EXCEPT !.cells = [j \in DOMAIN n.cells |->
                 [n.cells[j] EXCEPT
                    !.selected = (j = i \/ (@ /\ j # left)),
                    !.rendered = (@ \/ (j = left /\ j # i /\ Renders(n.cells[j].type)))]],
               !.bar = <<n.cells[i].type, n.cells[i].level>>]
SelectNext(n) == Select(n, SelectedIndex(n) + 1)
SelectPrev(n) == Select(n, SelectedIndex(n) - 1)

\* move_cell_up, move_cell_down
Swap(s, i, j) == [s EXCEPT ![i] = s[j], ![j] = s[i]]
\* Mutant: moving up does not mark the notebook dirty.
MoveUpQuietly(n) ==
    LET i == IndexOrSelected(n, Null)
    IN IF Inside(n, i) /\ i > 1 THEN Select([n EXCEPT !.cells = Swap(@, i, i - 1)], i - 1) ELSE n
MoveUp(n) ==
    LET i == IndexOrSelected(n, Null)
    IN IF Inside(n, i) /\ i > 1
       THEN Dirty(Select([n EXCEPT !.cells = Swap(@, i, i - 1)], i - 1)) ELSE n
MoveDown(n) ==
    LET i == IndexOrSelected(n, Null)
    IN Dirty(IF Inside(n, i) /\ Inside(n, i + 1)
             THEN Select([n EXCEPT !.cells = Swap(@, i, i + 1)], i + 1) ELSE n)

-----------------------------------------------------------------------------
\* insert_cell_at_index: the new cell is selected; the place that undelete
\* remembers moves with the cells below.
NewCell(n, type) == [id |-> FreshId(n), type |-> type, text |-> <<>>, level |-> 1,
                     selected |-> FALSE, rendered |-> Renders(type), shown |-> TRUE]
\* Mutant: the remembered place stays where it was.
ForgetfulInsertElement(n, cell, i) == [n EXCEPT !.cells = InsertAt(@, i, cell)]
InsertElement(n, cell, i) ==
    [n EXCEPT !.cells = InsertAt(@, i, cell),
              !.uindex = IF @ # NoIndex /\ i <= @ THEN @ + 1 ELSE @]
InsertCell(n, type, index) ==
    LET i == Clamp(index, 1, Len(n.cells) + 1)
    IN Dirty(Select(InsertElement(n, NewCell(n, type), i), i))
InsertAbove(n, type, index) == InsertCell(n, type, IndexOrSelected(n, index))
InsertBelow(n, type, index) == InsertCell(n, type, IndexOrSelected(n, index) + 1)

\* set_text and fromJSON on the cell just inserted, which is the selected one.
\* Changing the text of a cell marks the notebook dirty.
SetText(n, i, text) == Dirty([n EXCEPT !.cells[i].text = text])
Filled(n, data) == [SetText(n, SelectedIndex(n), data.text)
                      EXCEPT !.cells[SelectedIndex(n)].level = data.level]

\* delete_cell: the copy kept for undelete is the selected cell's, whichever
\* cell is deleted.
Delete(n, index) ==
    LET i    == IndexOrSelected(n, index)
        last == i = Len(n.cells)
        left == [n EXCEPT !.backup = <<ToJSON(Current(n))>>, !.cells = RemoveAt(@, i),
                          !.uindex = IF last THEN i - 1 ELSE i, !.below = last]
    IN Dirty(Select(left, left.uindex))

Undelete(n) ==
    IF n.backup = <<>> \/ n.uindex = NoIndex THEN n
    ELSE LET sel     == SelectedIndex(n)
             back    == IF n.uindex < sel THEN sel + 1 ELSE sel
             at      == Select(n, IF n.uindex > Len(n.cells) THEN Len(n.cells) ELSE n.uindex)
             data    == n.backup[1]
             with    == IF n.below THEN InsertBelow(at, data.type, Null) ELSE InsertAbove(at, data.type, Null)
         IN [Select(Filled(with, data), back) EXCEPT !.backup = <<>>, !.uindex = NoIndex]

\* to_code, to_markdown, to_raw, to_heading: a new cell takes the text, the old
\* one is removed.
Convert(n, type, level) ==
    LET i == IndexOrSelected(n, Null)
    IN IF ~Inside(n, i) THEN n
       ELSE LET old == n.cells[i] IN
            IF old.type = type
            THEN IF type # "heading" THEN n
                 ELSE [n EXCEPT !.cells[i].level = level, !.bar = <<type, level>>]
            ELSE LET new == Filled(InsertBelow(n, type, i), Data(type, old.text, level))
                 IN [new EXCEPT !.cells = RemoveAt([@ EXCEPT ![i + 1].rendered = FALSE], i),
                                !.bar = <<type, level>>]

-----------------------------------------------------------------------------
\* The clipboard.
Copy(n) == [n EXCEPT !.clip = <<ToJSON(Current(n))>>]
Cut(n)  == Delete(Copy(n), Null)
PasteAbove(n) == Filled(InsertAbove(n, n.clip[1].type, Null), n.clip[1])
PasteBelow(n) == Filled(InsertBelow(n, n.clip[1].type, Null), n.clip[1])
\* paste_cell_replace: pastes above and deletes the cell below, if there is one;
\* with nothing below it is the pasted cell that goes.
PasteReplace(n) ==
    LET p   == PasteAbove(n)
        at  == SelectedIndex(p)
    IN IF Inside(p, at + 1) THEN Select(Delete(p, at + 1), at) ELSE Delete(p, Null)

\* split_cell at the cursor; only code and markdown cells split.
\* Mutant: the cell keeps what goes to the new one.
SplitCopies(n, k) ==
    LET c == Current(n)
    IN IF c.type \notin {"code", "markdown"} THEN n
       ELSE Filled(InsertBelow(n, c.type, Null), Data(c.type, SubSeq(c.text, k + 1, Len(c.text)), 1))
Split(n, k) ==
    LET c     == Current(n)
        upper == SetText(n, SelectedIndex(n), SubSeq(c.text, 1, k))
    IN IF c.type \notin {"code", "markdown"} THEN n
       ELSE Filled(InsertBelow(upper, c.type, Null), Data(c.type, SubSeq(c.text, k + 1, Len(c.text)), 1))

\* merge_cell_above, merge_cell_below: a raw or heading cell takes no text.
Takes(n, i, text) == IF n.cells[i].type \in {"code", "markdown"}
                     THEN LET t == SetText(n, i, text)
                          IN [t EXCEPT !.cells[i].rendered = t.cells[i].type = "markdown"]
                     ELSE n
MergeAbove(n) ==
    LET i == SelectedIndex(n)
    IN IF i <= 1 THEN n
       ELSE Select(Delete(Takes(n, i, n.cells[i - 1].text \o n.cells[i].text), i - 1), i - 1)
MergeBelow(n) ==
    LET i == SelectedIndex(n)
    IN IF i = Null \/ i = Len(n.cells) THEN n
       ELSE Select(Delete(Takes(n, i, n.cells[i].text \o n.cells[i + 1].text), i + 1), i)

\* execute_selected_cell and the ranges of the Cell menu.  select_all exists
\* in code cells only: run in place throws on the others.
RunsInPlace(n) == HasCell(n) /\ Current(n).type = "code"
\* A code cell without a kernel throws.
Executable(n, i) == n.cells[i].type = "code" => n.kernel
Execute(n, addNew) ==
    LET i == SelectedIndex(n)
    IN Dirty(IF HasCell(n) /\ i = Len(n.cells) /\ addNew THEN InsertBelow(n, "code", Null)
             ELSE Select(n, i + 1))
ExecuteRange(n, lo, hi) ==
    IF lo > hi THEN n ELSE Dirty(Select(Select(Select(n, lo), hi), Clamp(hi + 1, 1, Len(n.cells))))

-----------------------------------------------------------------------------
\* fromJSON: every cell is deleted, then each cell of the first worksheet is
\* inserted below the selected one.  "plaintext" is an old name of "raw".
\* The notebook after each round of a loop is a function on the rounds.
Deleting(n) == LET at[k \in 0..Len(n.cells)] == IF k = 0 THEN n ELSE Delete(at[k - 1], 1) IN at
DeleteAll(n) == Deleting(n)[Len(n.cells)]
FileType(type) == IF type = "plaintext" THEN "raw" ELSE type
InsertData(n, data) == Filled(InsertBelow(n, FileType(data.type), Null), data)
Inserting(n, cells) ==
    LET at[k \in 0..Len(cells)] == IF k = 0 THEN n ELSE InsertData(at[k - 1], cells[k]) IN at
InsertAll(n, cells) == Inserting(n, cells)[Len(cells)]
FromJSON(n, cells) == InsertAll(DeleteAll(n), cells)

\* load_notebook_success: an empty file gets a code cell; the kernel is created
\* after the cells.
LoadedWith(n, cells) ==
    LET from == FromJSON(n, cells)
        full == IF HasCell(from) THEN from ELSE InsertBelow(from, "code", Null)
    IN [Select([full EXCEPT !.dirty = FALSE], 1) EXCEPT !.kernel = TRUE]

\* What a freshly loaded notebook should hold.
FileContents(cells) ==
    IF cells = <<>> THEN <<Data("code", <<>>, 1)>>
    ELSE [i \in DOMAIN cells |-> [cells[i] EXCEPT !.type = FileType(@)]]

-----------------------------------------------------------------------------
NInit == /\ nb = [cells |-> <<>>, dirty |-> FALSE, clip |-> <<>>, backup |-> <<>>, uindex |-> NoIndex,
                  below |-> FALSE, chord |-> FALSE, kernel |-> FALSE, bar |-> <<"code", 1>>]
         /\ requests = {"load"} /\ show = "off" /\ slide = 1
         /\ file = <<>> /\ gone = NoData /\ steady = FALSE /\ steps = 0

Ids(n) == [i \in DOMAIN n.cells |-> n.cells[i].id]
Fits(n) == Len(n.cells) <= MaxCells
\* A command of a menu or a button.
Step == steps < MaxSteps /\ steps' = steps + 1
Does(n) == /\ Step /\ Fits(n)
           /\ nb' = n /\ steady' = (steady /\ Ids(n) = Ids(nb))
           /\ UNCHANGED <<requests, show, slide, file>>
\* A command that is also on a key after Ctrl-M, which ends the chord.
Bound(n) == Does(n) \/ (nb.chord /\ Does([n EXCEPT !.chord = FALSE]))
Keeps == gone' = gone
Forgets == gone' = NoData

Chord == ~nb.chord /\ Does([nb EXCEPT !.chord = TRUE]) /\ Keeps
\* Any other key ends the chord, and may change the text of the cell it is in.
Type == /\ HasCell(nb) /\ ~Current(nb).rendered
        /\ Does([SetText(nb, SelectedIndex(nb), <<Typed>>) EXCEPT !.chord = FALSE]) /\ Keeps
\* Enter on a rendered cell, or a double click, opens it.
OpenCell == /\ HasCell(nb) /\ Current(nb).rendered
        /\ Does([nb EXCEPT !.cells[SelectedIndex(nb)].rendered = FALSE]) /\ Keeps
SelectByClick == \E i \in DOMAIN nb.cells : ~nb.cells[i].selected /\ Does(Select(nb, i)) /\ Keeps
SelectNextCell == HasCell(nb) /\ Bound(SelectNext(nb)) /\ Keeps
SelectPrevCell == HasCell(nb) /\ Bound(SelectPrev(nb)) /\ Keeps
MoveCellUp   == Bound(MoveUp(nb)) /\ Forgets
MoveCellDown == Bound(MoveDown(nb)) /\ Forgets
InsertCellAbove == Bound(InsertAbove(nb, "code", Null)) /\ Keeps
InsertCellBelow == Bound(InsertBelow(nb, "code", Null)) /\ Keeps
InsertCellAtEnd == Does(InsertBelow(nb, "code", Len(nb.cells))) /\ Keeps
\* set_next_input of the kernel, for a cell that may have been deleted.
SetNextInput == \E i \in 0..Len(nb.cells) :
    Does(Filled(InsertBelow(nb, "code", i), Data("code", <<Typed>>, 1))) /\ Keeps

Neighbour(i) == IF Inside(nb, i) THEN nb.cells[i].id ELSE Null
Remembers == LET i == SelectedIndex(nb)
             IN gone' = <<[data |-> ToJSON(nb.cells[i]),
                           above |-> Neighbour(i - 1), below |-> Neighbour(i + 1)]>>
DeleteCell == HasCell(nb) /\ Bound(Delete(nb, Null)) /\ Remembers
CutCell  == HasCell(nb) /\ Bound(Cut(nb)) /\ Remembers
CopyCell == HasCell(nb) /\ Bound(Copy(nb)) /\ Keeps
UndeleteCell == Bound(Undelete(nb)) /\ Forgets
PasteCellAbove   == nb.clip # <<>> /\ Does(PasteAbove(nb)) /\ Keeps
PasteCellBelow   == nb.clip # <<>> /\ Bound(PasteBelow(nb)) /\ Keeps
PasteCellReplace == nb.clip # <<>> /\ Does(PasteReplace(nb)) /\ Forgets
SplitCell == HasCell(nb) /\ (\E k \in 0..Len(Current(nb).text) : Bound(Split(nb, k))) /\ Keeps
MergeCellAbove == Does(MergeAbove(nb)) /\ Forgets
MergeCellBelow == Does(MergeBelow(nb)) /\ Forgets
ConvertCell == (\E t \in Types, l \in 1..2 : (t # "heading" => l = 1) /\ Bound(Convert(nb, t, l))) /\ Forgets
\* Commands on outputs mark the notebook dirty; those on the selected cell's
\* exist in code cells only.
OutputCommand == Bound(Dirty(nb)) /\ Keeps

ExecuteCell == /\ HasCell(nb) => Executable(nb, SelectedIndex(nb))
               /\ Does(Execute(nb, TRUE)) /\ Keeps
ExecuteInPlace == RunsInPlace(nb) /\ nb.kernel /\ Does(Dirty(nb)) /\ Keeps
\* Alt-Enter: a new cell above the one it ends up in, unless that one is blank.
ExecuteAndInsert ==
    /\ HasCell(nb) /\ Executable(nb, SelectedIndex(nb))
    /\ LET n == Execute(nb, TRUE)
       IN Does(IF Current(n).text = <<>> THEN n ELSE InsertAbove(n, "code", Null))
    /\ Keeps
ExecuteCells ==
    /\ HasCell(nb) /\ \A i \in DOMAIN nb.cells : Executable(nb, i)
    /\ LET i == SelectedIndex(nb) n == Len(nb.cells)
       IN \E r \in {<<1, n>>, <<1, i - 1>>, <<i, n>>} : Does(ExecuteRange(nb, r[1], r[2]))
    /\ Keeps

-----------------------------------------------------------------------------
\* A request is answered once; a load replaces whatever is there.
AnswerTo(r) == r \in requests /\ requests' = requests \ {r}
Replaced(n) == nb' = n /\ gone' = NoData /\ steady' = FALSE /\ UNCHANGED <<show, slide>>
LoadSucceeds == /\ AnswerTo("load")
                /\ \E f \in Files : Replaced(LoadedWith(nb, f)) /\ file' = FileContents(f)
                /\ UNCHANGED steps
LoadFails == AnswerTo("load") /\ UNCHANGED <<nb, show, slide, file, gone, steady, steps>>
\* restore_checkpoint, and its answer: the restored notebook is loaded.
Restore == /\ Step /\ nb.kernel /\ requests' = requests \cup {"restore"}
           /\ UNCHANGED <<nb, show, slide, file, gone, steady>>
RestoreAnswered == /\ "restore" \in requests
                   /\ \E answer \in {{"load"}, {}} : requests' = (requests \ {"restore"}) \cup answer
                   /\ UNCHANGED <<nb, show, slide, file, gone, steady, steps>>
\* loadIPYNB of iocamlsaver.js: fromJSON alone.
LoadIPYNB == Step /\ (\E f \in Files : Replaced(FromJSON(nb, f))) /\ UNCHANGED <<requests, file>>

-----------------------------------------------------------------------------
\* iocamlsaver.js, the slideshow: lol hides every cell but the current one, F1
\* and F2 move, Esc shows all.  currentCell outlives the cells: when it is past
\* the end, or there is no full screen, lol leaves everything hidden.
Shown(n, S) == [n EXCEPT !.cells = [i \in DOMAIN n.cells |-> [n.cells[i] EXCEPT !.shown = i \in S]]]
StartShow == /\ Step /\ HasCell(nb)
             /\ \/ /\ slide \in DOMAIN nb.cells
                   /\ nb' = Shown(nb, {slide}) /\ show' = "on" /\ steady' = TRUE
                \/ /\ nb' = Shown(nb, {}) /\ show' = IF show = "on" THEN "on" ELSE "failed"
                   /\ steady' = FALSE
             /\ UNCHANGED <<requests, slide, file, gone>>
ShownAt(n, i) == [n EXCEPT !.cells[i].shown = TRUE]
HiddenAt(n, i) == [n EXCEPT !.cells[i].shown = FALSE]
Turn(n, to) == /\ Step /\ show = "on" /\ slide \in DOMAIN nb.cells
               /\ nb' = ShownAt(IF to = slide THEN nb ELSE n, to) /\ slide' = to
               /\ UNCHANGED <<requests, show, file, gone, steady>>
\* Mutant: the slide that is left stays visible.
NextSlideOver == Turn(SelectNext(nb), Clamp(slide + 1, 1, Len(nb.cells)))
NextSlide == Turn(SelectNext(HiddenAt(nb, slide)), Clamp(slide + 1, 1, Len(nb.cells)))
PrevSlide == Turn(SelectPrev(HiddenAt(nb, slide)), Clamp(slide - 1, 1, Len(nb.cells)))
StopShow == /\ Step /\ show = "on" /\ show' = "off" /\ steady' = FALSE
            /\ nb' = Shown(nb, DOMAIN nb.cells)
            /\ UNCHANGED <<requests, slide, file, gone>>

NNext == \/ Chord \/ Type \/ OpenCell \/ SelectByClick \/ SelectNextCell \/ SelectPrevCell
         \/ MoveCellUp \/ MoveCellDown \/ InsertCellAbove \/ InsertCellBelow \/ InsertCellAtEnd
         \/ SetNextInput \/ DeleteCell \/ CutCell \/ CopyCell \/ UndeleteCell \/ PasteCellAbove
         \/ PasteCellBelow \/ PasteCellReplace \/ SplitCell \/ MergeCellAbove \/ MergeCellBelow
         \/ ConvertCell \/ OutputCommand \/ ExecuteCell \/ ExecuteInPlace \/ ExecuteAndInsert
         \/ ExecuteCells \/ LoadSucceeds \/ LoadFails \/ Restore \/ RestoreAnswered \/ LoadIPYNB
         \/ StartShow \/ NextSlide \/ PrevSlide \/ StopShow
NotebookSpec == NInit /\ [][NNext]_nvars

-----------------------------------------------------------------------------
(* A notebook that is not marked dirty holds exactly the file it was loaded  *)
(* with, cell for cell in the file's order, whatever stood there before the  *)
(* load: leaving the page without a warning loses nothing.  The level of a   *)
(* heading is left out: changing it marks nothing.                           *)
Leveled(cells) == [i \in DOMAIN cells |-> [cells[i] EXCEPT !.level = 1]]
CleanIsTheFile == ~nb.dirty => Leveled(Contents(nb)) = Leveled(file)

(* "Restore the most recently deleted cell": whatever was inserted, pasted,  *)
(* typed or run since, the cell that Delete or Cut took from the selection   *)
(* comes back as it was, next to the neighbour it had.                       *)
UndeleteInPlace ==
    [][UndeleteCell /\ gone # NoData =>
        LET was == gone[1]
        IN \E j \in DOMAIN nb'.cells :
             /\ nb'.cells[j].id \notin {nb.cells[i].id : i \in DOMAIN nb.cells}
             /\ ToJSON(nb'.cells[j]) = was.data
             /\ \/ was.above = Null /\ was.below = Null
                \/ was.above # Null /\ j > 1 /\ nb'.cells[j - 1].id = was.above
                \/ was.below # Null /\ j < Len(nb'.cells) /\ nb'.cells[j + 1].id = was.below]_nvars

(* Moving, splitting, converting, running and merging cells of code or       *)
(* markdown neither loses nor repeats a line of text.  (Merging a raw or     *)
(* heading cell does lose its neighbour's.)                                  *)
Places(n) == UNION {{i} \X DOMAIN n.cells[i].text : i \in DOMAIN n.cells}
Count(n, line) == Cardinality({p \in Places(n) : n.cells[p[1]].text[p[2]] = line})
Lines(n) == UNION {Range(n.cells[i].text) : i \in DOMAIN n.cells}
Merges == MergeCellAbove \/ MergeCellBelow
Rearranges == \/ MoveCellUp \/ MoveCellDown \/ SplitCell \/ ConvertCell \/ ExecuteCell
              \/ ExecuteAndInsert \/ (Merges /\ Current(nb).type \in {"code", "markdown"})
KeepsText == [][Rearranges => \A l \in Lines(nb) \cup Lines(nb') : Count(nb, l) = Count(nb', l)]_nvars

(* A slideshow shows one cell, the current slide, as long as no cell came,   *)
(* went or moved since it began.                                             *)
OneSlide == show = "on" /\ steady => {i \in DOMAIN nb.cells : nb.cells[i].shown} = {slide}
=============================================================================
