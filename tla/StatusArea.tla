----------------------------- MODULE StatusArea -----------------------------
(* static/notebook/js/notificationwidget.js, notificationarea.js and         *)
(* savewidget.js: what a notebook page says of its kernel and of itself.     *)
(* A message has a time after which it fades, or stays; one that comes while *)
(* another fades is blanked when the fade ends.  Saving does nothing in this *)
(* copy of the client, so no event of a save or of a new checkpoint comes,   *)
(* and nothing calls for a checkpoint to be deleted.                         *)
EXTENDS Naturals, SequencesExt

CONSTANTS Names,       \* the names a notebook can be given
          Histories,   \* what the server can list: sequences of checkpoints
          MaxMessages  \* bound: messages said

\* The page says one by itself.
ASSUME MessagesAssumption == MaxMessages \in Nat \ {0}

VARIABLES
    box,       \* per widget, what set_message, its timers and its handlers keep
    messages,  \* how many were said; each is its number
    title,     \* the window's: the busy marks and the name
    shownName, \* the name on the page
    name,      \* notebook_name
    dirty, saveStatus,  \* the notebook's flag, and the save widget's words for it
    checkpoints,    \* notebook.checkpoints, which the restore menu lists
    shownCheckpoint,\* the save widget's
    afterSave, \* _checkpoint_after_save
    firstLoad, \* main.js's first_load still hears notebook_loaded
    channels,  \* the kernel's: "none", "open", "closed"
    dialog,    \* what the page asks; what would open another dialog waits
    posts,     \* the requests the server has to answer
    retries    \* reconnect timers
svars == <<box, messages, title, shownName, name, dirty, saveStatus, checkpoints, shownCheckpoint,
           afterSave, firstLoad, channels, dialog, posts, retries>>
notes == <<box, messages>>
titles == <<title, shownName, name>>
saves == <<dirty, saveStatus, checkpoints, shownCheckpoint, afterSave, firstLoad>>
connection == <<channels, dialog, posts, retries>>

Widgets == {"kernel", "notebook"}
None == 0
Lost == MaxMessages + 1      \* timeout = undefined

------------------------------------------------------------------------------
(* set_message, on what a widget keeps: the last message, whether it stays,  *)
(* what is on the page, the timer on record, whether a click is heard, the   *)
(* timers that run; and, for the property, that the message came during a    *)
(* fade, and that a timer which a click forgot was running since.            *)
Unsaid == [said |-> None, stays |-> FALSE, phase |-> "gone", recorded |-> None,
           handlers |-> FALSE, running |-> {}, blanked |-> FALSE, forgotten |-> FALSE]
Fading(b) == b.phase \in {"fading", "refading"}
\* Mutant: the timer of the message before is left running.
LeavesTimer(b) == b.running
ClearsTimer(b) == b.running \ {b.recorded}
set_message(b, id, timed) ==
    [said |-> id, stays |-> ~timed, phase |-> IF Fading(b) THEN "refading" ELSE "shown",
     recorded |-> IF timed THEN id ELSE None, handlers |-> b.handlers \/ ~timed,
     running |-> ClearsTimer(b) \cup (IF timed THEN {id} ELSE {}), blanked |-> Fading(b),
     forgotten |-> b.forgotten /\ ClearsTimer(b) # {}]
Says(w, timed) ==
    /\ messages < MaxMessages /\ messages' = messages + 1
    /\ box' = [box EXCEPT ![w] = set_message(@, messages + 1, timed)]
\* Two handlers of one event, and the second message clears the first one's timer.
SaysTwo(w) ==
    /\ messages + 1 < MaxMessages /\ messages' = messages + 2
    /\ box' = [box EXCEPT ![w] = set_message(set_message(@, messages + 1, TRUE), messages + 2, TRUE)]

HideTimer(w) ==
    /\ \E id \in box[w].running :
          box' = [box EXCEPT ![w].running = @ \ {id}, ![w].recorded = None, ![w].phase = "fading"]
    /\ UNCHANGED <<messages, titles, saves, connection>>
\* fadeOut is done and blanks the text; a fadeIn queued behind it shows that.
FadeEnds(w) ==
    /\ Fading(box[w])
    /\ box' = [box EXCEPT ![w].phase = IF @ = "refading" THEN "shown" ELSE "gone"]
    /\ UNCHANGED <<messages, titles, saves, connection>>
\* The handlers outlive their messages.  The default callback keeps the
\* message; the timer is forgotten without being cleared.
ClickMessage(w) ==
    /\ box[w].phase # "gone" /\ box[w].handlers
    /\ box' = [box EXCEPT ![w].recorded = Lost, ![w].forgotten = @ \/ box[w].running # {}]
    /\ UNCHANGED <<messages, titles, saves, connection>>

\* main.js has run: load_notebook has been called.
SInit ==
    /\ name \in Names /\ title = [busy |-> 0, name |-> name] /\ shownName = name
    /\ box = [w \in Widgets |-> IF w = "notebook" THEN set_message(Unsaid, 1, TRUE) ELSE Unsaid]
    /\ messages = 1 /\ posts = <<"load">>
    /\ dirty = FALSE /\ saveStatus = "" /\ checkpoints = <<>> /\ shownCheckpoint = None
    /\ afterSave = FALSE /\ firstLoad = TRUE
    /\ channels = "none" /\ dialog = "none" /\ retries = 0

------------------------------------------------------------------------------
(* The events of the kernel.                                                *)
StartKernel == channels' = "open"
Retitled == title' = [busy |-> 0, name |-> name]
Status(says) ==
    /\ channels # "none"
    /\ Says("kernel", says \in {"idle", "restarting"})
    /\ CASE says \in {"idle", "restarting"} -> Retitled
         [] says = "busy" -> title' = [title EXCEPT !.busy = @ + 1]
         [] OTHER -> UNCHANGED title
    /\ UNCHANGED <<shownName, name, saves, connection>>

Dead ==
    /\ channels # "none" /\ dialog = "none" /\ dialog' = "dead"
    /\ UNCHANGED <<notes, titles, saves, channels, posts, retries>>
\* websocket_closed; at once, or for good with a dialog if it closed early.
WebsocketClosed ==
    /\ channels = "open" /\ channels' = "closed"
    /\ \/ Says("kernel", TRUE) /\ retries' = retries + 1 /\ UNCHANGED dialog
       \/ dialog = "none" /\ dialog' = "reconnect" /\ UNCHANGED <<notes, retries>>
    /\ UNCHANGED <<titles, saves, posts>>
Reconnect ==
    /\ retries > 0 /\ retries' = retries - 1 /\ channels' = "open"
    /\ UNCHANGED <<notes, titles, saves, dialog, posts>>

restore_checkpoint == Says("notebook", TRUE) /\ posts' = Append(posts, "restore")
Answer ==
    /\ dialog # "none" /\ dialog' = "none"
    /\ \/ dialog = "dead" /\ Says("kernel", TRUE) /\ Retitled /\ StartKernel
          /\ UNCHANGED <<shownName, name, posts, retries>>
       \/ dialog = "reconnect" /\ Says("kernel", TRUE) /\ retries' = retries + 1
          /\ UNCHANGED <<titles, channels, posts>>
       \/ /\ dialog = "rename" /\ \E n \in Names : name' = n     \* and saves it
          /\ UNCHANGED <<notes, title, shownName, channels, posts, retries>>
       \/ dialog = "restore" /\ restore_checkpoint
          /\ UNCHANGED <<titles, channels, retries>>
       \* cancelled, or a restart of the kernel, which says so by itself
       \/ UNCHANGED <<notes, titles, channels, posts, retries>>
    /\ UNCHANGED saves

------------------------------------------------------------------------------
(* The visitor.                                                             *)
Restorable == checkpoints
SetDirty(value) ==
    /\ dirty' = value
    /\ saveStatus' = IF dirty = value THEN saveStatus ELSE IF value THEN "unsaved" ELSE "autosaved"
Edit ==
    /\ SetDirty(TRUE)
    /\ UNCHANGED <<notes, titles, checkpoints, shownCheckpoint, afterSave, firstLoad, connection>>
\* The body of save_notebook is commented out.
SaveNotebook == UNCHANGED <<dirty, saveStatus, checkpoints, shownCheckpoint>>
SaveCheckpoint ==
    /\ afterSave' = TRUE /\ SaveNotebook
    /\ UNCHANGED <<notes, titles, firstLoad, connection>>
AskOf(what) ==
    /\ dialog = "none" /\ dialog' = what
    /\ UNCHANGED <<notes, titles, saves, channels, posts, retries>>
Rename == AskOf("rename")
RestartKernel == AskOf("restart")
restore_checkpoint_dialog == Restorable # <<>> /\ AskOf("restore")

------------------------------------------------------------------------------
(* What the server answers.                                                 *)
load_notebook(rest) == Says("notebook", TRUE) /\ posts' = Append(rest, "load")
PostAnswered(what) == \E i \in DOMAIN posts : posts[i] = what /\ posts' = RemoveAt(posts, i)
\* On the first load the page goes on to set the interval of its saves.
Loaded ==
    /\ \E i \in DOMAIN posts : posts[i] = "load" /\ posts' = Append(RemoveAt(posts, i), "list")
    /\ \E n \in Names : name' = n /\ shownName' = n /\ title' = [busy |-> 0, name |-> n]
    /\ SetDirty(FALSE) /\ StartKernel
    /\ IF firstLoad THEN SaysTwo("notebook") ELSE Says("notebook", TRUE)
    /\ firstLoad' = FALSE
    /\ UNCHANGED <<checkpoints, shownCheckpoint, afterSave, dialog, retries>>
LoadFailed ==
    /\ PostAnswered("load") /\ dialog = "none" /\ dialog' = "failed"
    /\ UNCHANGED <<notes, titles, saves, channels, retries>>
\* The save widget takes the first of the list, the restore dialog the last.
CheckpointsListed ==
    /\ PostAnswered("list")
    /\ \E h \in Histories : checkpoints' = h /\ shownCheckpoint' = IF h = <<>> THEN None ELSE Head(h)
    /\ UNCHANGED <<notes, titles, dirty, saveStatus, afterSave, firstLoad, channels, dialog, retries>>
ListFailed ==
    /\ PostAnswered("list")
    /\ UNCHANGED <<notes, titles, saves, channels, dialog, retries>>
RestoreSucceeds ==
    /\ \E i \in DOMAIN posts : posts[i] = "restore" /\ load_notebook(RemoveAt(posts, i))
    /\ UNCHANGED <<titles, saves, channels, dialog, retries>>
\* The one message of the notebook's that stays.
RestoreFails ==
    /\ PostAnswered("restore") /\ Says("notebook", FALSE)
    /\ UNCHANGED <<titles, saves, channels, dialog, retries>>

SNext ==
    \/ \E w \in Widgets : HideTimer(w) \/ FadeEnds(w) \/ ClickMessage(w)
    \/ \E s \in {"idle", "busy", "restarting", "interrupting"} : Status(s)
    \/ Dead \/ WebsocketClosed \/ Reconnect \/ Answer
    \/ Edit \/ SaveCheckpoint \/ Rename \/ RestartKernel \/ restore_checkpoint_dialog
    \/ Loaded \/ LoadFailed \/ CheckpointsListed \/ ListFailed \/ RestoreSucceeds \/ RestoreFails
StatusSpec == SInit /\ [][SNext]_svars

------------------------------------------------------------------------------
(* A hide timer that runs is that of the message that was said last: no      *)
(* message is taken away by the timer of an earlier one, and one that stays, *)
(* as that of a failed restore, is on the page, until a click while a timer  *)
(* runs forgets that timer.  A message that came during a fade is blank.     *)
(* The words of the save widget are those of the dirty flag.                 *)
MessagesLastTheirTime ==
    /\ \A w \in Widgets : ~box[w].forgotten =>
          /\ box[w].running \subseteq {box[w].said}
          /\ box[w].running # {} => ~box[w].stays
          /\ box[w].stays => box[w].phase \in {"shown", "refading"}
          /\ ~box[w].blanked => box[w].phase # "refading"
    /\ saveStatus = "unsaved" <=> dirty
=============================================================================
