------------------------- MODULE AlcotestRegistration -------------------------
(***************************************************************************)
(* scripts/check-alcotest-registration.js: a test case that no suite       *)
(* registers is reported.  A source file is the sequence of its bindings;  *)
(* the text of a binding is what it names:                                 *)
(*   kind    "let" (also and), or a "module" or "end" that delimits        *)
(*   name    the name bound, "" for let () and let _                       *)
(*   params  it has a parameter                                            *)
(*   names   the identifiers in its text, but for nested bindings          *)
(*   cases   the test_* identifiers of its test_case and `Quick entries    *)
(*   run     the identifiers of its Alcotest.run arguments, {} if none     *)
(*   indent  its column                                                    *)
(*   quoted  "code", "comment" (or a string: no code), or "open" for the   *)
(*           text from a comment or string that never ends                 *)
(***************************************************************************)
EXTENDS Naturals, Sequences, FiniteSets, SequencesExt

CONSTANTS
    Identifiers, \* what a text can name
    TestNames,   \* those that start with test_
    Trees        \* what can be scanned: sequences of targets, each missing, unreadable,
                 \* or the .ml files the walk finds there

Chunk == [kind : {"let", "module", "end"}, name : Identifiers \cup {""}, params : BOOLEAN,
          names : SUBSET Identifiers, cases : SUBSET Identifiers, run : SUBSET Identifiers,
          indent : Nat, quoted : {"code", "comment", "open"}]
SourceFile == [test : BOOLEAN, alcotest : BOOLEAN, text : Seq(Chunk)]
Target == [at : {"found", "missing", "unreadable"}, files : Seq(SourceFile)]

ASSUME NamesAssumption ==
    IsFiniteSet(Identifiers) /\ TestNames \subseteq Identifiers /\ "" \notin Identifiers
ASSUME TreesAssumption == Trees \subseteq Seq(Target)

VARIABLES
    targets, \* those still to be walked
    files,   \* the .ml files the walk collected
    unreadable, \* the walk could not read a path
    read,    \* the number of files analyzed
    live,    \* registration roots, then their closure
    perFile, \* the cases that files of a test tree define
    bodies,  \* per binding name, the identifiers of its bodies
    queue,
    exit     \* the exit code, or "running"

avars == <<targets, files, unreadable, read, live, perFile, bodies, queue, exit>>

AInit ==
    /\ targets \in Trees
    /\ files = <<>> /\ unreadable = FALSE /\ read = 0 /\ live = {} /\ perFile = {}
    /\ bodies = [n \in {} |-> {}] /\ queue = <<>> /\ exit = "running"

------------------------------------------------------------------------------
(* A file is seen through its lexer: comments and strings are blanked, and  *)
(* from one that never ends on, the raw text is kept.                       *)
Stripped(chunks) ==
    LET opened == {i \in DOMAIN chunks : chunks[i].quoted = "open"}
        Kept(i) == chunks[i].quoted # "comment" \/ \E o \in opened : o <= i
    IN [i \in DOMAIN chunks |->
          IF Kept(i) THEN chunks[i]
          ELSE [chunks[i] EXCEPT !.kind = "blank", !.name = "", !.names = {},
                                   !.cases = {}, !.run = {}]]

\* A binding reaches to the next one at its column or left of it.
BodyOf(code, i) ==
    LET Ends(j) == j > i /\ code[j].kind # "blank" /\ code[j].indent <= code[i].indent
        inside == {j \in i..Len(code) : \A k \in i..j : ~Ends(k)}
    IN UNION {code[j].names \cup code[j].cases \cup code[j].run
                 \cup ({code[j].name} \ {""}) : j \in inside}

CollectRegistered(code) == UNION {code[i].cases : i \in DOMAIN code}

\* The arguments of run end where a phrase starts at the first column.
ArgumentRegion(code, i) ==
    LET inside == {j \in i..Len(code) : \A k \in (i + 1)..j : code[k].indent > 0}
    IN code[i].run \cup UNION {code[j].names \cup code[j].cases : j \in inside \ {i}}
CollectRunRoots(code) ==
    UNION {ArgumentRegion(code, i) : i \in {j \in DOMAIN code : code[j].run # {}}}

CollectDefs(code) ==
    {code[i].name : i \in {j \in DOMAIN code : code[j].kind = "let" /\ code[j].params}}
       \cap TestNames

InScope(file) == file.test /\ file.alcotest

Bound(code) == {code[i].name : i \in {j \in DOMAIN code : code[j].kind = "let"}} \ {""}
BodiesOf(code, n) ==
    UNION {BodyOf(code, i) : i \in {j \in DOMAIN code : code[j].kind = "let" /\ code[j].name = n}}
\* Mutant: the last file that binds a name replaces its body.
LastBodyWins(code, table) ==
    [n \in DOMAIN table \cup Bound(code) |->
        IF n \in Bound(code) THEN BodiesOf(code, n) ELSE table[n]]
\* Two bindings of one name, in one file or in two, share their bodies.
CollectBindings(code, table) ==
    [n \in DOMAIN table \cup Bound(code) |->
        (IF n \in DOMAIN table THEN table[n] ELSE {}) \cup BodiesOf(code, n)]

------------------------------------------------------------------------------
(* A target that does not exist ends the run; a path that cannot be read   *)
(* ends it when the walk is over, before any verdict.                       *)
Walk ==
    /\ exit = "running" /\ targets # <<>>
    /\ targets' = Tail(targets)
    /\ CASE Head(targets).at = "missing" -> exit' = "error" /\ UNCHANGED <<files, unreadable>>
         [] Head(targets).at = "unreadable" -> unreadable' = TRUE /\ UNCHANGED <<files, exit>>
         [] OTHER -> files' = files \o Head(targets).files /\ UNCHANGED <<unreadable, exit>>
    /\ UNCHANGED <<read, live, perFile, bodies, queue>>

GiveUp ==
    /\ exit = "running" /\ targets = <<>> /\ read = 0 /\ unreadable
    /\ exit' = "error"
    /\ UNCHANGED <<targets, files, unreadable, read, live, perFile, bodies, queue>>

\* The file may be gone, or not readable, by now: the whole scan fails.
Analyze ==
    /\ exit = "running" /\ targets = <<>> /\ ~unreadable /\ read < Len(files)
    /\ read' = read + 1
    /\ \/ exit' = "error" /\ UNCHANGED <<live, perFile, bodies, queue>>
       \/ LET file == files[read + 1]
              code == Stripped(file.text)
              roots == live \cup CollectRegistered(code) \cup CollectRunRoots(code)
          IN /\ live' = roots
             /\ perFile' = IF InScope(file) THEN perFile \cup CollectDefs(code) ELSE perFile
             /\ bodies' = CollectBindings(code, bodies)
             /\ queue' = IF read' = Len(files) THEN SetToSeq(roots) ELSE <<>>
             /\ UNCHANGED exit
    /\ UNCHANGED <<targets, files, unreadable>>

\* The body of a name is expanded once.
Expand ==
    /\ exit = "running" /\ read = Len(files) /\ queue # <<>>
    /\ LET name == Last(queue)
           found == IF name \in DOMAIN bodies THEN bodies[name] \ live ELSE {}
       IN /\ live' = live \cup found
          /\ queue' = Front(queue) \o SetToSeq(found)
          /\ bodies' = [n \in DOMAIN bodies \ {name} |-> bodies[n]]
    /\ UNCHANGED <<targets, files, unreadable, read, perFile, exit>>

ReportOrphans ==
    /\ exit = "running" /\ targets = <<>> /\ ~unreadable
    /\ read = Len(files) /\ queue = <<>>
    /\ exit' = IF perFile \subseteq live THEN "ok" ELSE "orphans"
    /\ UNCHANGED <<targets, files, unreadable, read, live, perFile, bodies, queue>>

ANext == Walk \/ GiveUp \/ Analyze \/ Expand \/ ReportOrphans
RegistrationSpec == AInit /\ [][ANext]_avars

------------------------------------------------------------------------------
(* The reference: what a chain of names leads to from a registration, in    *)
(* whatever order the files are read and the names are expanded.            *)
Text(f) == Stripped(files[f].text)
Names(n) == UNION {BodiesOf(Text(f), n) : f \in DOMAIN files}
Roots == UNION {CollectRegistered(Text(f)) \cup CollectRunRoots(Text(f)) : f \in DOMAIN files}
Closed == {S \in SUBSET Identifiers : Roots \subseteq S /\ \A m \in S : Names(m) \subseteq S}
Reached == {n \in Identifiers : \A S \in Closed : n \in S}
Cases == UNION {CollectDefs(Text(f)) : f \in {g \in DOMAIN files : InScope(files[g])}}

(* The scan says ok exactly when every case of the test trees is reached    *)
(* from a registration, and never of a tree it could not read in full.      *)
VerdictIsReachability ==
    /\ exit = "ok" => Cases \subseteq Reached /\ ~unreadable
    /\ exit = "orphans" => ~ Cases \subseteq Reached
=============================================================================
