------------------------------ MODULE QaProofs ------------------------------
(* The two halves of the QA step. What the exit codes, the reports, the     *)
(* baseline and the commits of QaRun say, for any set of command lines, any *)
(* number of them on one checkout and any number of edits between and       *)
(* during them; and what QaWarmup hands the tools, whatever fails and       *)
(* wherever a warm-up is killed.                                            *)
EXTENDS QaRun, QaWarmup, TLAPS

Points == {"idle", "services", "checked", "binaries", "tools", "collect", "include", "phpunit",
           "tested", "commit", "done"}
Contents == {"absent", "none", "blank", "garbage", "issues"}
Outcomes == {"unrun", "broken", "skipped", "died", "clean", "findings", "errors", "fixed", "warned"}
Reports == [report : [Tools -> Contents], code : [Tools -> {0, 1}], status : {0, 1, None}]
Journals == [whole : Contents, suite : Contents, status : {0, 1, None}]
Cmds == [at : Points, o : Commands, mode : {"check", "fix"}, chosen : SUBSET Tools, todo : SUBSET Tools,
         status : {0, 1}, box : Reports, exit : {0, 1}, outcome : [Tools \cup {"phpunit"} -> Outcomes],
         whole : BOOLEAN]

TypeOK ==
  /\ work \in [Tools \cup {"phpunit"} -> {0, 1}]
  /\ index \in [Narrowed -> {0, 1, None}]
  /\ neon \in {"plain", "prose", "included"} /\ accepted \in {0, 1, None}
  /\ raw \in Reports /\ logs \in Journals /\ merged \subseteq Tools \cup {"phpunit"}
  /\ cmd \in Cmds
  /\ started \in 0..MaxCommands /\ edits \in 0..MaxEdits

-----------------------------------------------------------------------------
(* The invariant, in terms of the running command c.                        *)

Running(c) == c.at \notin {"idle", "done"}
\* After the tools of a hook, and in `test`.
Later == {"checked", "services", "phpunit", "tested", "commit"}
\* The command stands by what its tools did.
Stands(c) == c.at \in Later \/ (c.at = "done" /\ c.exit = 0)

\* Which command lines get where.
Located(c) ==
  /\ Running(c) => c.mode = Mode(c.o) /\ (c.o.kind # "test" => ~Refused(c.o))
  /\ c.o.kind = "test" => c.chosen = {} /\ c.at \in {"idle", "services", "phpunit", "tested", "done"}
  /\ c.at = "collect" => Reporting(c.o)
  /\ c.at \in Later \cup {"collect"} => c.todo = {}
  /\ c.at = "tested" => Reporting(c.o)
  /\ c.o.baseline => c.at \in {"idle", "binaries", "tools", "include", "done"}
  /\ c.o.baseline /\ c.at \in {"binaries", "tools"} => c.todo = {"phpstan"}
  /\ c.at = "include" => c.o.baseline
  /\ c.o.kind = "qa" => c.at \notin Later
  /\ c.at = "binaries" => c.todo = c.chosen /\ c.status = 0
  /\ c.at \in {"binaries", "tools"} => \A n \in c.todo : c.outcome[n] = "unrun"

Passing == {"clean", "skipped", "fixed"}

\* What a report says of a tool that wrote it.
Tells(reports, n, outcome) ==
  /\ outcome = "died" =>
       reports.report[n] = "garbage" \/ (reports.report[n] = "blank" /\ reports.code[n] = 1)
  /\ outcome \in {"findings", "errors"} => reports.report[n] = "issues"

\* A script that gathered the status 0 ran tools that passed; one that reports runs them
\* all, and what each left is in the directory the verdict reads.
Gathered(c) ==
  c.at \in {"tools", "collect"} /\ ~c.o.baseline => \A n \in c.chosen \ c.todo :
    /\ c.status = 0 => c.outcome[n] \in Passing
    /\ c.outcome[n] = "findings" => c.mode = "check" \/ n \notin Fixers
    /\ Reporting(c.o) =>
         /\ c.outcome[n] \notin {"unrun", "warned"}
         /\ Tells(IF c.at = "collect" \/ c.o.engine = "compose" THEN raw ELSE c.box, n, c.outcome[n])

CountedAsFixed(c, n) == c.outcome[n] = "errors" /\ c.mode = "fix" /\ n \in Fixers

Judged(c) ==
  /\ c.at = "collect" => raw.status = c.status
  /\ Stands(c) /\ ~c.o.baseline => \A n \in c.chosen :
       /\ ~c.o.agent => c.outcome[n] \in Passing
       /\ c.o.agent => c.outcome[n] \in Passing \cup {"broken"} \/ CountedAsFixed(c, n)

Suite(c) ==
  /\ c.at \notin {"tested", "commit", "done"} => c.outcome["phpunit"] = "unrun"
  /\ c.at = "tested" =>
       /\ c.status = 0 => c.outcome["phpunit"] = "clean"
       /\ c.o.engine = "dagger" => logs.status = c.status
  /\ Stands(c) /\ c.at \in {"commit", "done"} /\ c.o.agent => c.outcome["phpunit"] \in {"unrun", "clean"}

Included(c) ==
  /\ c.at = "include" /\ ~c.o.agent => c.outcome["phpstan"] = "clean"
  /\ c.at = "done" /\ c.exit = 0 /\ c.o.baseline =>
       \/ c.outcome["phpstan"] = "warned"
       \/ /\ accepted # None /\ neon = "included"
          /\ ~c.o.agent => c.outcome["phpstan"] = "clean"

\* As long as nobody edits, a hook looks at what is staged.
Looked(c) ==
  c.o.kind = "hook" /\ c.whole /\ Running(c) =>
    /\ \A n \in Narrowed : index[n] \in {None, work[n]}
    /\ \A n \in c.o.want \cap Narrowed : index[n] # None => n \in c.chosen
    /\ \A n \in Narrowed : n \in c.chosen \ c.todo /\ index[n] = 1 =>
         c.outcome[n] \in {"unrun", "broken", "skipped", "died", "findings"}

CommandInv ==
  /\ Located(cmd) /\ Gathered(cmd) /\ Judged(cmd) /\ Suite(cmd) /\ Included(cmd) /\ Looked(cmd)

-----------------------------------------------------------------------------
(* Moving from c to e.                                                      *)

Same(e, c) ==
  /\ e.o = c.o /\ e.mode = c.mode /\ e.chosen = c.chosen /\ e.todo = c.todo /\ e.status = c.status
  /\ e.box = c.box /\ e.outcome = c.outcome /\ e.whole = c.whole

LEMMA Moved ==
  ASSUME NEW c \in Cmds, NEW point \in Points
  PROVE  \E e \in Cmds : e = [c EXCEPT !.at = point] /\ Same(e, c) /\ e.at = point /\ e.exit = c.exit
<1> DEFINE e == [c EXCEPT !.at = point]
<1>1. e \in Cmds /\ Same(e, c) /\ e.at = point /\ e.exit = c.exit
  BY DEF Cmds, Same
<1> HIDE DEF e
<1>2. QED
  BY <1>1 DEF e

LEMMA EndedFacts ==
  ASSUME NEW c \in Cmds, NEW code \in {0, 1}
  PROVE  \E e \in Cmds : e = Ended(c, code) /\ Same(e, c) /\ e.at = "done" /\ e.exit = code
<1> DEFINE e == [c EXCEPT !.at = "done", !.exit = code]
<1>1. e \in Cmds /\ Same(e, c) /\ e.at = "done" /\ e.exit = code
  BY DEF Cmds, Same, Points
<1> HIDE DEF e
<1>2. QED
  BY <1>1 DEF e, Ended

\* Each part of the invariant reads a few variables.
LEMMA Frame ==
  ASSUME NEW e
  PROVE  /\ raw' = raw => (Gathered(e)' <=> Gathered(e)) /\ (Judged(e)' <=> Judged(e))
         /\ logs' = logs => (Suite(e)' <=> Suite(e))
         /\ accepted' = accepted /\ neon' = neon => (Included(e)' <=> Included(e))
         /\ index' = index /\ work' = work => (Looked(e)' <=> Looked(e))
         /\ Located(e)' <=> Located(e)
<1>1. raw' = raw => (Gathered(e)' <=> Gathered(e)) /\ (Judged(e)' <=> Judged(e))
  BY DEF Gathered, Judged
<1>2. logs' = logs => (Suite(e)' <=> Suite(e))
  BY DEF Suite
<1>3. accepted' = accepted /\ neon' = neon => (Included(e)' <=> Included(e))
  BY DEF Included
<1>4. index' = index /\ work' = work => (Looked(e)' <=> Looked(e))
  BY DEF Looked
<1>5. Located(e)' <=> Located(e)
  BY DEF Located, Mode, Refused
<1>6. QED
  BY <1>1, <1>2, <1>3, <1>4, <1>5

LEMMA Becomes ==
  ASSUME NEW e, cmd' = e, Located(e), Gathered(e)', Judged(e)', Suite(e)', Included(e)', Looked(e)'
  PROVE  CommandInv'
BY Frame DEF CommandInv

\* A command that failed promises nothing.
LEMMA Failed ==
  ASSUME NEW e \in Cmds, cmd' = e, e.at = "done", e.exit = 1, e.o.kind = "test" => e.chosen = {}
  PROVE  CommandInv'
<1>1. Located(e)
  BY DEF Located, Running, Later
<1>2. Gathered(e)' /\ Judged(e)' /\ Suite(e)' /\ Included(e)' /\ Looked(e)'
  BY DEF Gathered, Judged, Suite, Included, Looked, Running, Stands, Later
<1>3. QED
  BY <1>1, <1>2, Becomes

\* The command as it is.
LEMMA Present ==
  ASSUME TypeOK, CommandInv
  PROVE  \E c \in Cmds : /\ c = cmd /\ Located(c) /\ Gathered(c) /\ Judged(c) /\ Suite(c)
                         /\ Included(c) /\ Looked(c)
BY DEF TypeOK, CommandInv

LEMMA DiesKeeps ==
  ASSUME TypeOK, CommandInv, Dies
  PROVE  TypeOK' /\ CommandInv'
<1>1. PICK c \in Cmds : c = cmd /\ Located(c)
  BY Present
<1>2. PICK e \in Cmds : e = Ended(c, 1) /\ Same(e, c) /\ e.at = "done" /\ e.exit = 1
  BY EndedFacts
<1>3. cmd' = e
  BY <1>1, <1>2 DEF Dies, Goes
<1>4. e.o.kind = "test" => e.chosen = {}
  BY <1>1, <1>2 DEF Located, Same
<1>5. CommandInv'
  BY <1>2, <1>3, <1>4, Failed
<1>6. TypeOK'
  BY <1>2, <1>3 DEF Dies, TypeOK
<1>7. QED
  BY <1>5, <1>6

LEMMA BeginKeeps ==
  ASSUME TypeOK, CommandInv, BeginOnCompose \/ BeginOnDagger
  PROVE  TypeOK' /\ CommandInv'
<1>1. PICK c \in Cmds : /\ c = cmd /\ Located(c) /\ Gathered(c) /\ Judged(c) /\ Suite(c)
                        /\ Included(c) /\ Looked(c)
  BY Present
<1>2. c.at = "binaries" /\ Begin
  BY <1>1 DEF BeginOnCompose, BeginOnDagger, At
<1>3. UNCHANGED <<work, index, neon, accepted, raw, logs, merged, started, edits>>
  BY <1>2 DEF Begin
<1>4. CASE cmd' = Ended(c, 1)
  <2>1. PICK e \in Cmds : e = Ended(c, 1) /\ Same(e, c) /\ e.at = "done" /\ e.exit = 1
    BY EndedFacts
  <2>2. e.o.kind = "test" => e.chosen = {}
    BY <1>1, <2>1 DEF Located, Same
  <2>3. QED
    BY <1>3, <1>4, <2>1, <2>2, Failed DEF TypeOK
<1>5. CASE cmd' = [c EXCEPT !.at = "tools"]
  <2>1. PICK e \in Cmds : e = [c EXCEPT !.at = "tools"] /\ Same(e, c) /\ e.at = "tools"
    BY Moved DEF Points
  <2>2. Located(e)
    BY <1>1, <1>2, <2>1 DEF Located, Same, Running, Later
  <2>3. Gathered(e)
    BY <1>1, <1>2, <2>1 DEF Located, Gathered, Same
  <2>4. Judged(e)
    BY <2>1 DEF Judged, Stands, Later
  <2>5. Suite(e)
    BY <1>1, <1>2, <2>1 DEF Suite, Same, Stands, Later
  <2>6. Included(e)
    BY <2>1 DEF Included
  <2>7. Looked(e)
    BY <1>1, <1>2, <2>1 DEF Looked, Same, Running
  <2>8. QED
    BY <1>3, <1>5, <2>1, <2>2, <2>3, <2>4, <2>5, <2>6, <2>7, Becomes, Frame DEF TypeOK
<1>6. QED
  BY <1>1, <1>2, <1>4, <1>5 DEF Begin, Goes

LEMMA ProbeKeeps ==
  ASSUME TypeOK, CommandInv, ProbeTests
  PROVE  TypeOK' /\ CommandInv'
<1>1. PICK c \in Cmds : /\ c = cmd /\ Located(c) /\ Gathered(c) /\ Judged(c) /\ Suite(c)
                        /\ Included(c) /\ Looked(c)
  BY Present
<1>2. c.at = "services"
  BY <1>1 DEF ProbeTests, At
<1>3. UNCHANGED <<work, index, neon, accepted, raw, logs, merged, started, edits>>
  BY DEF ProbeTests
<1>4. CASE cmd' = Ended(c, 1)
  <2>1. PICK e \in Cmds : e = Ended(c, 1) /\ Same(e, c) /\ e.at = "done" /\ e.exit = 1
    BY EndedFacts
  <2>2. e.o.kind = "test" => e.chosen = {}
    BY <1>1, <2>1 DEF Located, Same
  <2>3. QED
    BY <1>3, <1>4, <2>1, <2>2, Failed DEF TypeOK
<1>5. CASE cmd' = [c EXCEPT !.at = "phpunit"]
  <2>1. PICK e \in Cmds : e = [c EXCEPT !.at = "phpunit"] /\ Same(e, c) /\ e.at = "phpunit"
    BY Moved DEF Points
  <2>2. Located(e)
    BY <1>1, <1>2, <2>1 DEF Located, Same, Running, Later
  <2>3. Gathered(e) /\ Included(e)
    BY <2>1 DEF Gathered, Included
  <2>4. Judged(e)
    BY <1>1, <1>2, <2>1 DEF Judged, Same, Stands, Later, CountedAsFixed
  <2>5. Suite(e)
    BY <1>1, <1>2, <2>1 DEF Suite, Same, Stands, Later
  <2>6. Looked(e)
    BY <1>1, <1>2, <2>1 DEF Looked, Same, Running
  <2>7. QED
    BY <1>3, <1>5, <2>1, <2>2, <2>3, <2>4, <2>5, <2>6, Becomes, Frame DEF TypeOK
<1>6. QED
  BY <1>1, <1>4, <1>5 DEF ProbeTests, Goes

LEMMA HookTestsKeeps ==
  ASSUME TypeOK, CommandInv, HookTests
  PROVE  TypeOK' /\ CommandInv'
<1>1. PICK c \in Cmds : /\ c = cmd /\ Located(c) /\ Gathered(c) /\ Judged(c) /\ Suite(c)
                        /\ Included(c) /\ Looked(c)
  BY Present
<1>2. c.at = "checked"
  BY <1>1 DEF HookTests, At
<1>3. UNCHANGED <<work, index, neon, accepted, raw, logs, merged, started, edits>>
  BY DEF HookTests
<1>4. PICK point \in {"services", "commit"} : cmd' = [c EXCEPT !.at = point]
  BY <1>1 DEF HookTests, Goes
<1>5. PICK e \in Cmds : e = [c EXCEPT !.at = point] /\ Same(e, c) /\ e.at = point
  <2>1. point \in Points
    BY DEF Points
  <2>2. QED
    BY <2>1, Moved, Zenon
<1>6. Located(e)
  BY <1>1, <1>2, <1>5 DEF Located, Same, Running, Later
<1>7. Gathered(e) /\ Included(e)
  BY <1>5 DEF Gathered, Included
<1>8. Judged(e)
  BY <1>1, <1>2, <1>5 DEF Judged, Same, Stands, Later, CountedAsFixed
<1>9. Suite(e)
  BY <1>1, <1>2, <1>5 DEF Suite, Same, Stands, Later
<1>10. Looked(e)
  BY <1>1, <1>2, <1>5 DEF Looked, Same, Running
<1>11. QED
  BY <1>3, <1>4, <1>5, <1>6, <1>7, <1>8, <1>9, <1>10, Becomes, Frame DEF TypeOK

LEMMA CommitKeeps ==
  ASSUME TypeOK, CommandInv, Commit
  PROVE  TypeOK' /\ CommandInv'
<1>1. PICK c \in Cmds : /\ c = cmd /\ Located(c) /\ Gathered(c) /\ Judged(c) /\ Suite(c)
                        /\ Included(c) /\ Looked(c)
  BY Present
<1>2. c.at = "commit" /\ c.o \in Commands
  BY <1>1 DEF Commit, At, Cmds
<1>3. UNCHANGED <<work, neon, accepted, raw, logs, merged, started, edits>>
      /\ index' = [n \in Narrowed |-> None]
  BY DEF Commit
<1>4. PICK e \in Cmds : e = Ended(c, 0) /\ Same(e, c) /\ e.at = "done" /\ e.exit = 0
  BY EndedFacts
<1>5. cmd' = e
  BY <1>1, <1>4 DEF Commit, Goes
<1>6. Located(e)
  BY <1>1, <1>2, <1>4 DEF Located, Same, Running, Later
<1>7. Gathered(e)
  BY <1>4 DEF Gathered
<1>8. Judged(e)
  BY <1>1, <1>2, <1>4 DEF Judged, Same, Stands, Later, CountedAsFixed
<1>9. Suite(e)
  BY <1>1, <1>2, <1>4 DEF Suite, Same, Stands, Later
<1>10. Included(e)
  BY <1>1, <1>2, <1>4 DEF Located, Included, Same
<1>11. Looked(e)'
  BY <1>4 DEF Looked, Running
<1>12. index' \in [Narrowed -> {0, 1, None}]
  BY <1>3
<1>13. QED
  BY <1>3, <1>5, <1>6, <1>7, <1>8, <1>9, <1>10, <1>11, <1>12, Becomes, Frame DEF TypeOK

LEMMA FinishBaselineKeeps ==
  ASSUME TypeOK, CommandInv, finishBaseline
  PROVE  TypeOK' /\ CommandInv'
<1>1. PICK c \in Cmds : /\ c = cmd /\ Located(c) /\ Gathered(c) /\ Judged(c) /\ Suite(c)
                        /\ Included(c) /\ Looked(c)
  BY Present
<1>2. c.at = "include" /\ c.o.baseline /\ c.o.kind # "test"
  BY <1>1 DEF finishBaseline, At, Located
<1>3. UNCHANGED <<work, index, accepted, raw, logs, merged, started, edits>>
  BY DEF finishBaseline
<1>4. neon' \in {"plain", "prose", "included"}
  BY DEF finishBaseline, EnsureBaselineInclude, TypeOK
<1>5. CASE cmd' = Ended(c, 1)
  <2>1. PICK e \in Cmds : e = Ended(c, 1) /\ Same(e, c) /\ e.at = "done" /\ e.exit = 1
    BY EndedFacts
  <2>2. e.o.kind = "test" => e.chosen = {}
    BY <1>1, <2>1 DEF Located, Same
  <2>3. QED
    BY <1>3, <1>4, <1>5, <2>1, <2>2, Failed DEF TypeOK
<1>6. CASE accepted # None /\ neon' = EnsureBaselineInclude /\ cmd' = Ended(c, 0)
  <2>1. PICK e \in Cmds : e = Ended(c, 0) /\ Same(e, c) /\ e.at = "done" /\ e.exit = 0
    BY EndedFacts
  <2>2. Located(e)
    BY <1>1, <1>2, <2>1 DEF Located, Same, Running, Later
  <2>3. Gathered(e) /\ Looked(e)
    BY <2>1 DEF Gathered, Looked, Running
  <2>4. Judged(e)
    BY <1>2, <2>1 DEF Judged, Same
  <2>5. Suite(e)
    BY <1>1, <1>2, <2>1 DEF Suite, Same, Stands, Later
  <2>6. neon' = "included" /\ accepted' # None
    BY <1>3, <1>6 DEF EnsureBaselineInclude, hasBaselineInclude
  <2>7. ~e.o.agent => e.outcome["phpstan"] = "clean"
    BY <1>1, <1>2, <2>1 DEF Included, Same
  <2>8. Included(e)'
    BY <2>1, <2>6, <2>7 DEF Included
  <2>9. QED
    BY <1>3, <1>4, <1>6, <2>1, <2>2, <2>3, <2>4, <2>5, <2>8, Becomes, Frame DEF TypeOK
<1>7. CASE cmd' = Ended([c EXCEPT !.outcome["phpstan"] = "warned"], 0)
  <2> DEFINE w == [c EXCEPT !.outcome["phpstan"] = "warned"]
  <2>1. /\ w \in Cmds /\ w.o = c.o /\ w.mode = c.mode /\ w.chosen = c.chosen /\ w.todo = c.todo
        /\ w.status = c.status /\ w.box = c.box /\ w.whole = c.whole
        /\ w.outcome["phpstan"] = "warned" /\ w.outcome["phpunit"] = c.outcome["phpunit"]
    BY DEF Cmds, Outcomes, Tools
  <2> HIDE DEF w
  <2>2. PICK e \in Cmds : e = Ended(w, 0) /\ Same(e, w) /\ e.at = "done" /\ e.exit = 0
    BY <2>1, EndedFacts
  <2>3. cmd' = e
    BY <1>7, <2>2 DEF w
  <2>4. Located(e)
    BY <1>1, <1>2, <2>1, <2>2 DEF Located, Same, Running, Later
  <2>5. Gathered(e)' /\ Looked(e)'
    BY <2>2 DEF Gathered, Looked, Running
  <2>6. Judged(e)'
    BY <1>2, <2>1, <2>2 DEF Judged, Same
  <2>7. Suite(e)'
    BY <1>1, <1>2, <2>1, <2>2 DEF Suite, Same, Stands, Later
  <2>8. Included(e)'
    BY <2>1, <2>2 DEF Included, Same
  <2>9. QED
    BY <1>3, <1>4, <2>2, <2>3, <2>4, <2>5, <2>6, <2>7, <2>8, Becomes DEF TypeOK
<1>8. QED
  BY <1>1, <1>5, <1>6, <1>7 DEF finishBaseline, Goes

LEMMA EndScriptKeeps ==
  ASSUME TypeOK, CommandInv, EndScript
  PROVE  TypeOK' /\ CommandInv'
<1>1. PICK c \in Cmds : /\ c = cmd /\ Located(c) /\ Gathered(c) /\ Judged(c) /\ Suite(c)
                        /\ Included(c) /\ Looked(c)
  BY Present
<1>2. /\ c.at = "tools" /\ c.todo = {} /\ ~c.o.baseline /\ c.o.kind # "test" /\ c.status \in {0, 1}
      /\ c.o \in Options
  BY <1>1, CommandsAssumption DEF CommandsAssumption, EndScript, At, Located, Cmds
<1>3. UNCHANGED <<work, index, neon, accepted, logs, merged, started, edits>>
  BY DEF EndScript
<1>4. CASE ~Reporting(c.o)
  <2>1. UNCHANGED raw /\ cmd' = IF c.o.kind = "hook" /\ c.status = 0 THEN [c EXCEPT !.at = "checked"]
                                                                    ELSE Ended(c, c.status)
    BY <1>1, <1>4 DEF EndScript, Goes
  <2>2. ~c.o.agent /\ (c.status = 0 => \A n \in c.chosen : c.outcome[n] \in Passing)
    BY <1>1, <1>2, <1>4 DEF Reporting, Gathered
  <2>3. CASE c.o.kind = "hook" /\ c.status = 0
    <3>1. PICK e \in Cmds : e = [c EXCEPT !.at = "checked"] /\ Same(e, c) /\ e.at = "checked"
      BY Moved DEF Points
    <3>2. Located(e)
      BY <1>1, <1>2, <2>3, <3>1 DEF Located, Same, Running, Later
    <3>3. Gathered(e) /\ Included(e)
      BY <3>1 DEF Gathered, Included
    <3>4. Judged(e)
      BY <2>2, <2>3, <3>1 DEF Judged, Same
    <3>5. Suite(e)
      BY <1>1, <1>2, <3>1 DEF Suite, Same, Stands, Later
    <3>6. Looked(e)
      BY <1>1, <1>2, <3>1 DEF Looked, Same, Running
    <3>7. QED
      BY <1>3, <2>1, <2>3, <3>1, <3>2, <3>3, <3>4, <3>5, <3>6, Becomes, Frame DEF TypeOK
  <2>4. CASE ~(c.o.kind = "hook" /\ c.status = 0)
    <3>1. PICK e \in Cmds : e = Ended(c, c.status) /\ Same(e, c) /\ e.at = "done" /\ e.exit = c.status
      BY <1>2, EndedFacts
    <3>2. Located(e)
      BY <1>1, <1>2, <3>1 DEF Located, Same, Running, Later
    <3>3. Gathered(e) /\ Looked(e)
      BY <3>1 DEF Gathered, Looked, Running
    <3>4. Judged(e)
      BY <2>2, <3>1 DEF Judged, Same, Stands, Later
    <3>5. Suite(e)
      BY <1>1, <1>2, <3>1 DEF Suite, Same, Stands, Later
    <3>6. Included(e)
      BY <1>2, <3>1 DEF Included, Same
    <3>7. QED
      BY <1>3, <2>1, <2>4, <3>1, <3>2, <3>3, <3>4, <3>5, <3>6, Becomes, Frame DEF TypeOK
  <2>5. QED
    BY <2>3, <2>4
<1>5. CASE Reporting(c.o)
  <2>1. /\ cmd' = [c EXCEPT !.at = "collect"]
        /\ raw' = IF c.o.engine = "dagger" THEN OverReports(raw, c.box, c.status)
                  ELSE [raw EXCEPT !.status = c.status]
    BY <1>1, <1>5 DEF EndScript, Goes
  <2>2. PICK e \in Cmds : e = [c EXCEPT !.at = "collect"] /\ Same(e, c) /\ e.at = "collect"
    BY Moved DEF Points
  <2>3. raw \in Reports /\ c.box \in Reports
    BY DEF TypeOK, Cmds
  <2>4. raw' \in Reports /\ raw'.status = c.status
    <3>1. CASE c.o.engine = "dagger"
      BY <1>2, <2>1, <2>3, <3>1 DEF OverReports, Reports
    <3>2. CASE c.o.engine # "dagger"
      BY <1>2, <2>1, <2>3, <3>2 DEF Reports
    <3>3. QED
      BY <3>1, <3>2
  <2>5. ASSUME NEW n \in c.chosen PROVE Tells(raw', n, c.outcome[n])
    <3>1. Tells(IF c.o.engine = "compose" THEN raw ELSE c.box, n, c.outcome[n]) /\ n \in Tools
      BY <1>1, <1>2, <1>5 DEF Gathered, Cmds
    <3>2. CASE c.o.engine = "dagger"
      <4>1. Tells(c.box, n, c.outcome[n])
        BY <3>1, <3>2
      <4>2. raw'.report[n] = (IF c.box.report[n] = "absent" THEN raw.report[n] ELSE c.box.report[n])
            /\ raw'.code[n] = (IF c.box.report[n] = "absent" THEN raw.code[n] ELSE c.box.code[n])
        BY <2>1, <3>1, <3>2 DEF OverReports
      <4>3. QED
        BY <4>1, <4>2 DEF Tells
    <3>3. CASE c.o.engine # "dagger"
      <4>1. c.o.engine = "compose"
        BY <1>2, <3>3 DEF Options
      <4>2. raw'.report = raw.report /\ raw'.code = raw.code
        BY <2>1, <2>3, <3>3 DEF Reports
      <4>3. QED
        BY <3>1, <4>1, <4>2 DEF Tells
    <3>4. QED
      BY <3>2, <3>3
  <2>6. Located(e)
    BY <1>1, <1>2, <1>5, <2>2 DEF Located, Same, Running, Later
  <2>7. Gathered(e)'
    <3>1. \A n \in c.chosen : (c.status = 0 => c.outcome[n] \in Passing)
                              /\ c.outcome[n] \notin {"unrun", "warned"}
                              /\ (c.outcome[n] = "findings" => c.mode = "check" \/ n \notin Fixers)
      BY <1>1, <1>2, <1>5 DEF Gathered
    <3>2. QED
      BY <1>2, <2>2, <2>5, <3>1 DEF Gathered, Same
  <2>8. Judged(e)'
    BY <2>2, <2>4 DEF Judged, Same, Stands, Later
  <2>9. Suite(e)
    BY <1>1, <1>2, <2>2 DEF Suite, Same, Stands, Later
  <2>10. Included(e)
    BY <2>2 DEF Included
  <2>11. Looked(e)
    BY <1>1, <1>2, <2>2 DEF Looked, Same, Running
  <2>12. QED
    BY <1>3, <2>1, <2>2, <2>4, <2>6, <2>7, <2>8, <2>9, <2>10, <2>11, Becomes, Frame DEF TypeOK
<1>6. QED
  BY <1>4, <1>5

LEMMA FinishQaReportKeeps ==
  ASSUME TypeOK, CommandInv, finishQaReport
  PROVE  TypeOK' /\ CommandInv'
<1>1. PICK c \in Cmds : /\ c = cmd /\ Located(c) /\ Gathered(c) /\ Judged(c) /\ Suite(c)
                        /\ Included(c) /\ Looked(c)
  BY Present
<1>2. /\ c.at = "collect" /\ ~c.o.agent /\ ~c.o.baseline /\ c.todo = {} /\ c.o.kind # "test"
      /\ raw.status = c.status /\ c.status \in {0, 1}
  BY <1>1 DEF finishQaReport, At, Located, Judged, Cmds
<1>3. UNCHANGED <<work, index, neon, accepted, raw, logs, started, edits>>
      /\ merged' \subseteq Tools \cup {"phpunit"}
  BY DEF finishQaReport, MergeCodeQuality, toolIssues, Having, TypeOK
<1>4. PICK code \in {0, 1} : cmd' = Ended(c, code) /\ (code = 0 => c.status = 0)
  BY <1>1, <1>2 DEF finishQaReport, Goes, reportStatusFailed, None
<1>5. PICK e \in Cmds : e = Ended(c, code) /\ Same(e, c) /\ e.at = "done" /\ e.exit = code
  BY EndedFacts
<1>6. Located(e)
  BY <1>1, <1>2, <1>5 DEF Located, Same, Running, Later
<1>7. Gathered(e) /\ Looked(e)
  BY <1>5 DEF Gathered, Looked, Running
<1>8. Judged(e)
  BY <1>1, <1>2, <1>4, <1>5 DEF Gathered, Judged, Same, Stands, Later
<1>9. Suite(e)
  BY <1>2, <1>5 DEF Suite, Same
<1>10. Included(e)
  BY <1>2, <1>5 DEF Included, Same
<1>11. QED
  BY <1>3, <1>4, <1>5, <1>6, <1>7, <1>8, <1>9, <1>10, Becomes, Frame DEF TypeOK

\* What the verdict of agent mode lets pass.
LEMMA AgentLetsPass ==
  ASSUME TypeOK, NEW c \in Cmds, c = cmd, Gathered(c), c.at = "collect", ~c.o.baseline, c.todo = {},
         Reporting(c.o), ~(Unreadable \/ CouldNotRun # {} \/ Listed # {}), NEW n \in c.chosen
  PROVE  c.outcome[n] \in Passing \cup {"broken"} \/ CountedAsFixed(c, n)
<1>1. n \in Tools /\ c.outcome[n] \in Outcomes /\ c.mode \in {"check", "fix"}
  BY DEF Cmds
<1>2. c.outcome[n] \notin {"unrun", "warned"} /\ Tells(raw, n, c.outcome[n])
  BY DEF Gathered
<1>3. c.outcome[n] # "died"
  <2>1. raw.report[n] # "garbage"
    BY <1>1 DEF Unreadable, Having
  <2>2. ~(raw.report[n] = "blank" /\ raw.code[n] = 1)
    BY <1>1 DEF CouldNotRun, Having, ToolStatus
  <2>3. QED
    BY <1>2, <2>1, <2>2 DEF Tells
<1>4. c.outcome[n] = "findings" => c.mode = "check" \/ n \notin Fixers
  BY DEF Gathered
<1>5. c.outcome[n] \in {"findings", "errors"} => c.mode = "fix" /\ n \in Fixers
  <2>1. SUFFICES ASSUME c.outcome[n] \in {"findings", "errors"} PROVE c.mode = "fix" /\ n \in Fixers
    OBVIOUS
  <2>2. n \in toolIssues
    BY <1>1, <1>2, <2>1 DEF Tells, toolIssues, Having
  <2>3. QED
    BY <1>1, <2>2 DEF Listed, Findings
<1>6. QED
  BY <1>1, <1>2, <1>3, <1>4, <1>5 DEF Outcomes, Passing, CountedAsFixed

LEMMA FinishQaAgentKeeps ==
  ASSUME TypeOK, CommandInv, finishQaAgent
  PROVE  TypeOK' /\ CommandInv'
<1>1. PICK c \in Cmds : /\ c = cmd /\ Located(c) /\ Gathered(c) /\ Judged(c) /\ Suite(c)
                        /\ Included(c) /\ Looked(c)
  BY Present
<1>2. /\ c.at = "collect" /\ c.o.agent /\ ~c.o.baseline /\ c.todo = {} /\ c.o.kind # "test"
      /\ Reporting(c.o)
  BY <1>1 DEF finishQaAgent, At, Located
<1>3. UNCHANGED <<work, index, neon, accepted, logs, merged, started, edits>>
  BY DEF finishQaAgent
<1>4. raw' \in Reports
  <2>1. NoReports \in Reports
    BY DEF NoReports, Reports, Contents
  <2>2. QED
    BY <2>1 DEF finishQaAgent, TypeOK
<1>5. CASE cmd' = Ended(c, 1)
  <2>1. PICK e \in Cmds : e = Ended(c, 1) /\ Same(e, c) /\ e.at = "done" /\ e.exit = 1
    BY EndedFacts
  <2>2. e.o.kind = "test" => e.chosen = {}
    BY <1>2, <2>1 DEF Same
  <2>3. QED
    BY <1>3, <1>4, <1>5, <2>1, <2>2, Failed DEF TypeOK
<1>6. CASE ~(Unreadable \/ CouldNotRun # {} \/ Listed # {})
  <2>1. \A n \in c.chosen : c.outcome[n] \in Passing \cup {"broken"} \/ CountedAsFixed(c, n)
    BY <1>1, <1>2, <1>6, AgentLetsPass
  <2>2. cmd' = IF c.o.kind = "hook" THEN [c EXCEPT !.at = "checked"] ELSE Ended(c, 0)
    BY <1>1, <1>6 DEF finishQaAgent, Goes
  <2>3. CASE c.o.kind = "hook"
    <3>1. PICK e \in Cmds : e = [c EXCEPT !.at = "checked"] /\ Same(e, c) /\ e.at = "checked"
      BY Moved DEF Points
    <3>2. Located(e)
      BY <1>1, <1>2, <2>3, <3>1 DEF Located, Same, Running, Later
    <3>3. Gathered(e)' /\ Included(e)'
      BY <3>1 DEF Gathered, Included
    <3>4. Judged(e)'
      BY <1>2, <2>1, <3>1 DEF Judged, Same, CountedAsFixed
    <3>5. Suite(e)
      BY <1>1, <1>2, <3>1 DEF Suite, Same, Stands, Later
    <3>6. Looked(e)
      BY <1>1, <1>2, <3>1 DEF Looked, Same, Running
    <3>7. QED
      BY <1>3, <1>4, <2>2, <2>3, <3>1, <3>2, <3>3, <3>4, <3>5, <3>6, Becomes, Frame DEF TypeOK
  <2>4. CASE c.o.kind # "hook"
    <3>1. PICK e \in Cmds : e = Ended(c, 0) /\ Same(e, c) /\ e.at = "done" /\ e.exit = 0
      BY EndedFacts
    <3>2. Located(e)
      BY <1>1, <1>2, <3>1 DEF Located, Same, Running, Later
    <3>3. Gathered(e)' /\ Looked(e)'
      BY <3>1 DEF Gathered, Looked, Running
    <3>4. Judged(e)'
      BY <1>2, <2>1, <3>1 DEF Judged, Same, CountedAsFixed
    <3>5. Suite(e)
      BY <1>1, <1>2, <3>1 DEF Suite, Same, Stands, Later
    <3>6. Included(e)
      BY <1>2, <3>1 DEF Included, Same
    <3>7. QED
      BY <1>3, <1>4, <2>2, <2>4, <3>1, <3>2, <3>3, <3>4, <3>5, <3>6, Becomes, Frame DEF TypeOK
  <2>5. QED
    BY <2>3, <2>4
<1>7. QED
  BY <1>1, <1>5, <1>6 DEF finishQaAgent, Goes

\* What PHPUnit leaves.
LEMMA TestResultKinds ==
  ASSUME NEW dirty \in BOOLEAN, NEW r \in TestResults(dirty)
  PROVE  /\ r.code \in {0, 1} /\ r.report \in {"kept", "none", "blank", "issues"}
         /\ r.outcome \in {"broken", "findings", "clean"} /\ (r.code = 0 => r.outcome = "clean")
BY DEF TestResults, R

LEMMA PhpUnitKeeps ==
  ASSUME TypeOK, CommandInv, runTestOnCompose \/ runTestOnDagger
  PROVE  TypeOK' /\ CommandInv'
<1>1. PICK c \in Cmds : /\ c = cmd /\ Located(c) /\ Gathered(c) /\ Judged(c) /\ Suite(c)
                        /\ Included(c) /\ Looked(c)
  BY Present
<1>2. /\ c.at = "phpunit" /\ ~c.o.baseline /\ c.o.kind # "qa"
  BY <1>1 DEF runTestOnCompose, runTestOnDagger, At, Located, Later
<1>3. UNCHANGED <<work, index, neon, accepted, raw, merged, started, edits>>
  BY DEF runTestOnCompose, runTestOnDagger, PhpUnit
<1>4. PICK dirty \in BOOLEAN : \E r \in TestResults(dirty) :
        LET d == [c EXCEPT !.status = r.code, !.outcome["phpunit"] = r.outcome]
            passed == IF c.o.kind = "hook" THEN [d EXCEPT !.at = "commit"] ELSE Ended(d, 0)
        IN IF Reporting(c.o)
           THEN /\ logs' = [Logged(logs, c.o, r) EXCEPT !.status = IF c.o.engine = "dagger" THEN r.code ELSE @]
                /\ cmd' = [d EXCEPT !.at = "tested"]
           ELSE UNCHANGED logs /\ cmd' = IF r.code = 0 THEN passed ELSE Ended(d, 1)
  BY <1>1 DEF runTestOnCompose, runTestOnDagger, PhpUnit, Goes
<1>5. PICK r \in TestResults(dirty) :
        LET d == [c EXCEPT !.status = r.code, !.outcome["phpunit"] = r.outcome]
            passed == IF c.o.kind = "hook" THEN [d EXCEPT !.at = "commit"] ELSE Ended(d, 0)
        IN IF Reporting(c.o)
           THEN /\ logs' = [Logged(logs, c.o, r) EXCEPT !.status = IF c.o.engine = "dagger" THEN r.code ELSE @]
                /\ cmd' = [d EXCEPT !.at = "tested"]
           ELSE UNCHANGED logs /\ cmd' = IF r.code = 0 THEN passed ELSE Ended(d, 1)
  BY <1>4
<1>6. /\ r.code \in {0, 1} /\ r.report \in {"kept", "none", "blank", "issues"}
      /\ r.outcome \in {"broken", "findings", "clean"} /\ (r.code = 0 => r.outcome = "clean")
  BY TestResultKinds
<1>7. PICK d : d = [c EXCEPT !.status = r.code, !.outcome["phpunit"] = r.outcome]
  OBVIOUS
<1>8. /\ d \in Cmds /\ d.o = c.o /\ d.mode = c.mode /\ d.chosen = c.chosen /\ d.todo = c.todo
      /\ d.at = c.at /\ d.status = r.code /\ d.whole = c.whole /\ d.outcome["phpunit"] = r.outcome
      /\ \A n \in Tools : d.outcome[n] = c.outcome[n]
  BY <1>6, <1>7 DEF Cmds, Outcomes, Tools
<1>9. c.chosen \subseteq Tools
  BY DEF Cmds
<1>10. \A n \in c.chosen : /\ ~c.o.agent => c.outcome[n] \in Passing
                           /\ c.o.agent => c.outcome[n] \in Passing \cup {"broken"} \/ CountedAsFixed(c, n)
  BY <1>1, <1>2 DEF Judged, Stands, Later
<1>11. \A e : /\ e.at \in {"tested", "commit", "done"} /\ e.o = c.o /\ e.mode = c.mode /\ e.chosen = c.chosen
              /\ e.outcome = d.outcome
              => Judged(e)'
  BY <1>2, <1>8, <1>9, <1>10 DEF Judged, CountedAsFixed
<1>12. CASE Reporting(c.o)
  <2>1. PICK e \in Cmds : e = [d EXCEPT !.at = "tested"] /\ Same(e, d) /\ e.at = "tested"
    BY <1>8, Moved DEF Points
  <2>2. /\ logs' = [Logged(logs, c.o, r) EXCEPT !.status = IF c.o.engine = "dagger" THEN r.code ELSE @]
        /\ cmd' = e
    BY <1>5, <1>7, <1>12, <2>1
  <2>3. Logged(logs, c.o, r) \in Journals
    BY <1>6 DEF Logged, Journals, Contents, TypeOK
  <2>4. logs' \in Journals /\ (c.o.engine = "dagger" => logs'.status = r.code)
    BY <1>6, <2>2, <2>3 DEF Journals
  <2>5. Located(e)
    BY <1>1, <1>2, <1>8, <1>12, <2>1 DEF Located, Same, Running, Later
  <2>6. Gathered(e) /\ Included(e)
    BY <2>1 DEF Gathered, Included
  <2>7. Judged(e)'
    BY <1>8, <1>11, <2>1 DEF Same
  <2>8. Suite(e)'
    BY <1>6, <1>8, <2>1, <2>4 DEF Suite, Same, Stands, Later
  <2>9. Looked(e)
    BY <1>1, <1>2, <1>8, <1>9, <2>1 DEF Looked, Same, Running, Narrowed, Tools
  <2>10. QED
    BY <1>3, <2>1, <2>2, <2>4, <2>5, <2>6, <2>7, <2>8, <2>9, Becomes, Frame DEF TypeOK
<1>13. CASE ~Reporting(c.o) /\ r.code = 0 /\ c.o.kind = "hook"
  <2>1. PICK e \in Cmds : e = [d EXCEPT !.at = "commit"] /\ Same(e, d) /\ e.at = "commit"
    BY <1>8, Moved DEF Points
  <2>2. UNCHANGED logs /\ cmd' = e
    BY <1>5, <1>7, <1>13, <2>1
  <2>3. Located(e)
    BY <1>1, <1>2, <1>8, <1>13, <2>1 DEF Located, Same, Running, Later
  <2>4. Gathered(e) /\ Included(e)
    BY <2>1 DEF Gathered, Included
  <2>5. Judged(e)'
    BY <1>8, <1>11, <2>1 DEF Same
  <2>6. Suite(e)
    BY <1>8, <1>13, <2>1 DEF Suite, Same, Reporting
  <2>7. Looked(e)
    BY <1>1, <1>2, <1>8, <1>9, <2>1 DEF Looked, Same, Running, Narrowed, Tools
  <2>8. QED
    BY <1>3, <2>1, <2>2, <2>3, <2>4, <2>5, <2>6, <2>7, Becomes, Frame DEF TypeOK
<1>14. CASE ~Reporting(c.o) /\ r.code = 0 /\ c.o.kind # "hook"
  <2>1. PICK e \in Cmds : e = Ended(d, 0) /\ Same(e, d) /\ e.at = "done" /\ e.exit = 0
    BY <1>8, EndedFacts
  <2>2. UNCHANGED logs /\ cmd' = e
    BY <1>5, <1>7, <1>14, <2>1
  <2>3. Located(e)
    BY <1>1, <1>2, <1>8, <1>14, <2>1 DEF Located, Same, Running, Later
  <2>4. Gathered(e) /\ Looked(e)
    BY <2>1 DEF Gathered, Looked, Running
  <2>5. Judged(e)'
    BY <1>8, <1>11, <2>1 DEF Same
  <2>6. Suite(e)
    BY <1>8, <1>14, <2>1 DEF Suite, Same, Reporting
  <2>7. Included(e)
    BY <1>2, <1>8, <2>1 DEF Included, Same
  <2>8. QED
    BY <1>3, <2>1, <2>2, <2>3, <2>4, <2>5, <2>6, <2>7, Becomes, Frame DEF TypeOK
<1>15. CASE ~Reporting(c.o) /\ r.code # 0
  <2>1. PICK e \in Cmds : e = Ended(d, 1) /\ Same(e, d) /\ e.at = "done" /\ e.exit = 1
    BY <1>8, EndedFacts
  <2>2. UNCHANGED logs /\ cmd' = e
    BY <1>5, <1>7, <1>15, <2>1
  <2>3. e.o.kind = "test" => e.chosen = {}
    BY <1>1, <1>8, <2>1 DEF Located, Same
  <2>4. QED
    BY <1>3, <2>1, <2>2, <2>3, Failed DEF TypeOK
<1>16. QED
  BY <1>12, <1>13, <1>14, <1>15

LEMMA FinishTestReportKeeps ==
  ASSUME TypeOK, CommandInv, finishTestReport
  PROVE  TypeOK' /\ CommandInv'
<1>1. PICK c \in Cmds : /\ c = cmd /\ Located(c) /\ Gathered(c) /\ Judged(c) /\ Suite(c)
                        /\ Included(c) /\ Looked(c)
  BY Present
<1>2. c.at = "tested" /\ ~c.o.agent /\ ~c.o.baseline /\ c.o.kind # "qa"
  BY <1>1 DEF finishTestReport, At, Located, Later
<1>3. UNCHANGED <<work, index, neon, accepted, raw, logs, started, edits>>
      /\ merged' \subseteq Tools \cup {"phpunit"}
  BY DEF finishTestReport, MergeJUnit, TypeOK
<1>4. PICK code \in {0, 1} : cmd' = Ended(c, code)
  BY <1>1 DEF finishTestReport, Goes
<1>5. PICK e \in Cmds : e = Ended(c, code) /\ Same(e, c) /\ e.at = "done" /\ e.exit = code
  BY EndedFacts
<1>6. Located(e)
  BY <1>1, <1>2, <1>5 DEF Located, Same, Running, Later
<1>7. Gathered(e) /\ Looked(e)
  BY <1>5 DEF Gathered, Looked, Running
<1>8. Judged(e)
  BY <1>1, <1>2, <1>5 DEF Judged, Same, Stands, Later
<1>9. Suite(e)
  BY <1>2, <1>5 DEF Suite, Same
<1>10. Included(e)
  BY <1>2, <1>5 DEF Included, Same
<1>11. QED
  BY <1>3, <1>4, <1>5, <1>6, <1>7, <1>8, <1>9, <1>10, Becomes, Frame DEF TypeOK

LEMMA FinishTestAgentKeeps ==
  ASSUME TypeOK, CommandInv, finishTestAgent
  PROVE  TypeOK' /\ CommandInv'
<1>1. PICK c \in Cmds : /\ c = cmd /\ Located(c) /\ Gathered(c) /\ Judged(c) /\ Suite(c)
                        /\ Included(c) /\ Looked(c)
  BY Present
<1>2. /\ c.at = "tested" /\ c.o.agent /\ ~c.o.baseline /\ c.o.kind # "qa" /\ c.status \in {0, 1}
  BY <1>1 DEF finishTestAgent, At, Located, Later, Cmds
<1>3. UNCHANGED <<work, index, neon, accepted, raw, merged, started, edits>>
  BY DEF finishTestAgent
<1>4. logs' \in Journals
  <2>1. NoLogs \in Journals
    BY DEF NoLogs, Journals, Contents
  <2>2. QED
    BY <2>1 DEF finishTestAgent, TypeOK
<1>5. CASE cmd' = Ended(c, 1)
  <2>1. PICK e \in Cmds : e = Ended(c, 1) /\ Same(e, c) /\ e.at = "done" /\ e.exit = 1
    BY EndedFacts
  <2>2. e.o.kind = "test" => e.chosen = {}
    BY <1>1, <2>1 DEF Located, Same
  <2>3. QED
    BY <1>3, <1>4, <1>5, <2>1, <2>2, Failed DEF TypeOK
<1>6. CASE ~SuiteFailed /\ cmd' = IF c.o.kind = "hook" THEN [c EXCEPT !.at = "commit"] ELSE Ended(c, 0)
  <2>1. c.status = 0
    BY <1>1, <1>2, <1>6 DEF SuiteFailed, reportStatusFailed, Suite, None
  <2>2. c.outcome["phpunit"] = "clean"
    BY <1>1, <1>2, <2>1 DEF Suite
  <2>3. CASE c.o.kind = "hook"
    <3>1. PICK e \in Cmds : e = [c EXCEPT !.at = "commit"] /\ Same(e, c) /\ e.at = "commit"
      BY Moved DEF Points
    <3>2. Located(e)
      BY <1>1, <1>2, <2>3, <3>1 DEF Located, Same, Running, Later
    <3>3. Gathered(e) /\ Included(e)
      BY <3>1 DEF Gathered, Included
    <3>4. Judged(e)
      BY <1>1, <1>2, <3>1 DEF Judged, Same, Stands, Later, CountedAsFixed
    <3>5. Suite(e)'
      BY <2>2, <3>1 DEF Suite, Same
    <3>6. Looked(e)
      BY <1>1, <1>2, <3>1 DEF Looked, Same, Running
    <3>7. QED
      BY <1>3, <1>4, <1>6, <2>3, <3>1, <3>2, <3>3, <3>4, <3>5, <3>6, Becomes, Frame DEF TypeOK
  <2>4. CASE c.o.kind # "hook"
    <3>1. PICK e \in Cmds : e = Ended(c, 0) /\ Same(e, c) /\ e.at = "done" /\ e.exit = 0
      BY EndedFacts
    <3>2. Located(e)
      BY <1>1, <1>2, <3>1 DEF Located, Same, Running, Later
    <3>3. Gathered(e) /\ Looked(e)
      BY <3>1 DEF Gathered, Looked, Running
    <3>4. Judged(e)
      BY <1>1, <1>2, <3>1 DEF Judged, Same, Stands, Later, CountedAsFixed
    <3>5. Suite(e)'
      BY <2>2, <3>1 DEF Suite, Same
    <3>6. Included(e)
      BY <1>2, <3>1 DEF Included, Same
    <3>7. QED
      BY <1>3, <1>4, <1>6, <2>4, <3>1, <3>2, <3>3, <3>4, <3>5, <3>6, Becomes, Frame DEF TypeOK
  <2>5. QED
    BY <2>3, <2>4
<1>7. QED
  BY <1>1, <1>5, <1>6 DEF finishTestAgent, Goes

-----------------------------------------------------------------------------
(* The tools.                                                               *)

LEMMA RecordedFacts ==
  ASSUME NEW reports \in Reports, NEW n \in Tools, NEW r,
         r.code \in {0, 1}, r.report \in Contents \cup {"kept"}
  PROVE  /\ Recorded(reports, n, r) \in Reports
         /\ Recorded(reports, n, r).code[n] = r.code
         /\ r.report # "kept" => Recorded(reports, n, r).report[n] = r.report
         /\ \A m \in Tools \ {n} : /\ Recorded(reports, n, r).report[m] = reports.report[m]
                                   /\ Recorded(reports, n, r).code[m] = reports.code[m]
BY DEF Recorded, Reports

\* What one tool does, in the words of the invariant.
LEMMA ResultKinds ==
  ASSUME NEW n \in Tools, NEW mode \in {"check", "fix"}, NEW dirty \in BOOLEAN,
         NEW r \in Results(n, mode, dirty)
  PROVE  /\ r.code \in {0, 1} /\ r.report \in Contents \cup {"kept"}
         /\ r.outcome \in Outcomes \ {"unrun", "warned"}
         /\ r.code = 0 => r.outcome \in Passing
         /\ r.outcome = "died" => r.code = 1 /\ r.report \in {"blank", "garbage"}
         /\ r.outcome \in {"findings", "errors"} => r.report = "issues"
         /\ r.outcome = "findings" => mode = "check" \/ n \notin Fixers
         /\ mode = "check" => r.fixed = FALSE
         /\ mode = "check" /\ dirty => r.outcome \in {"broken", "skipped", "died", "findings"}
<1> USE DEF R, Contents, Outcomes, Passing
<1>1. CASE r = Broken \/ r = R(0, "none", FALSE, "skipped") \/ r = R(1, "blank", FALSE, "died")
           \/ r = R(1, "garbage", FALSE, "died")
  BY <1>1 DEF Broken
<1>2. CASE ~dirty /\ (r = R(0, "none", FALSE, "clean") \/ r = R(0, "blank", FALSE, "clean"))
  BY <1>2
<1>3. CASE mode = "fix" /\ (r = R(0, "issues", TRUE, "fixed") \/ r = R(0, "none", TRUE, "fixed"))
  BY <1>3
<1>4. CASE r = R(1, "issues", FALSE, IF mode = "fix" /\ n \in Fixers THEN "errors" ELSE "findings")
  <2>1. CASE mode = "fix" /\ n \in Fixers
    BY <1>4, <2>1
  <2>2. CASE ~(mode = "fix" /\ n \in Fixers)
    BY <1>4, <2>2
  <2>3. QED
    BY <2>1, <2>2
<1>5. QED
  BY <1>1, <1>2, <1>3, <1>4 DEF Results

LEMMA RunBaselineKeeps ==
  ASSUME TypeOK, CommandInv, runBaseline
  PROVE  TypeOK' /\ CommandInv'
<1>1. PICK c \in Cmds : /\ c = cmd /\ Located(c) /\ Gathered(c) /\ Judged(c) /\ Suite(c)
                        /\ Included(c) /\ Looked(c)
  BY Present
<1>2. /\ c.at = "tools" /\ c.o.baseline /\ c.o.kind \notin {"test", "hook"}
  BY <1>1, CommandsAssumption DEF CommandsAssumption, runBaseline, At, Located, Refused, Running, Cmds
<1>3. UNCHANGED <<work, index, neon, logs, merged, started, edits>>
  BY DEF runBaseline
<1>4. PICK r \in {R(0, "garbage", FALSE, "clean"), Broken, R(1, "blank", FALSE, "died")} :
        /\ accepted' = IF r.code = 0 THEN work["phpstan"] ELSE accepted
        /\ raw' = IF c.o.agent THEN [Recorded(raw, "phpstan", r) EXCEPT !.status = r.code] ELSE raw
        /\ cmd' = [IF r.code = 0 \/ c.o.agent THEN [c EXCEPT !.at = "include"] ELSE Ended(c, 1)
                     EXCEPT !.todo = {}, !.outcome["phpstan"] = r.outcome]
  BY <1>1 DEF runBaseline, Goes
<1>5. /\ r.code \in {0, 1} /\ r.report \in Contents \cup {"kept"} /\ r.outcome \in Outcomes
      /\ r.code = 0 => r.outcome = "clean"
  BY DEF R, Broken, Contents, Outcomes
<1>6. accepted' \in {0, 1, None}
  BY <1>4 DEF TypeOK, Tools
<1>7. raw' \in Reports
  <2>1. Recorded(raw, "phpstan", r) \in Reports
    BY <1>5, RecordedFacts DEF TypeOK, Tools
  <2>2. QED
    BY <1>4, <1>5, <2>1 DEF Reports, TypeOK
<1>8. PICK f \in Cmds : /\ f = IF r.code = 0 \/ c.o.agent THEN [c EXCEPT !.at = "include"] ELSE Ended(c, 1)
                        /\ Same(f, c)
                        /\ \/ f.at = "include" /\ (r.code = 0 \/ c.o.agent)
                           \/ f.at = "done" /\ f.exit = 1
  <2>1. CASE r.code = 0 \/ c.o.agent
    BY <2>1, Moved DEF Points
  <2>2. CASE ~(r.code = 0 \/ c.o.agent)
    BY <2>2, EndedFacts
  <2>3. QED
    BY <2>1, <2>2
<1>9. PICK e : e = [f EXCEPT !.todo = {}, !.outcome["phpstan"] = r.outcome]
  OBVIOUS
<1>10. /\ e \in Cmds /\ e.o = c.o /\ e.mode = c.mode /\ e.chosen = c.chosen /\ e.at = f.at /\ e.exit = f.exit
       /\ e.outcome["phpstan"] = r.outcome /\ e.outcome["phpunit"] = c.outcome["phpunit"]
  BY <1>5, <1>8, <1>9 DEF Cmds, Same, Tools
<1>11. cmd' = e
  BY <1>4, <1>8, <1>9
<1>12. Located(e)
  BY <1>1, <1>2, <1>8, <1>10 DEF Located, Running, Later
<1>13. Gathered(e)' /\ Looked(e)'
  BY <1>2, <1>8, <1>10 DEF Gathered, Looked
<1>14. Judged(e)'
  BY <1>2, <1>8, <1>10 DEF Judged
<1>15. Suite(e)
  BY <1>1, <1>2, <1>8, <1>10 DEF Suite, Stands, Later
<1>16. Included(e)'
  BY <1>5, <1>8, <1>10 DEF Included
<1>17. QED
  BY <1>3, <1>6, <1>7, <1>10, <1>11, <1>12, <1>13, <1>14, <1>15, <1>16, Becomes, Frame DEF TypeOK

\* A tool that runs settles its own outcome, and the chain may drop the ones after it.
Settles(e, c, n, todo, status, outcome, box) ==
  /\ e = [c EXCEPT !.todo = todo, !.status = status, !.outcome[n] = outcome, !.box = box]
  /\ e.at = c.at /\ e.o = c.o /\ e.mode = c.mode /\ e.chosen = c.chosen /\ e.whole = c.whole
  /\ e.exit = c.exit /\ e.todo = todo /\ e.status = status /\ e.box = box
  /\ e.outcome[n] = outcome
  /\ \A m \in (Tools \cup {"phpunit"}) \ {n} : e.outcome[m] = c.outcome[m]

LEMMA Settled ==
  ASSUME NEW c \in Cmds, NEW n \in Tools, NEW todo \in SUBSET Tools, NEW status \in {0, 1},
         NEW outcome \in Outcomes, NEW box \in Reports
  PROVE  \E e \in Cmds : Settles(e, c, n, todo, status, outcome, box)
<1> DEFINE e == [c EXCEPT !.todo = todo, !.status = status, !.outcome[n] = outcome, !.box = box]
<1>1. e \in Cmds
  BY DEF Cmds
<1>2. /\ e.at = c.at /\ e.o = c.o /\ e.mode = c.mode /\ e.chosen = c.chosen /\ e.whole = c.whole
      /\ e.exit = c.exit /\ e.todo = todo /\ e.status = status /\ e.box = box
      /\ e.outcome = [c.outcome EXCEPT ![n] = outcome]
  BY DEF Cmds
<1>3. /\ e.outcome[n] = outcome
      /\ \A m \in (Tools \cup {"phpunit"}) \ {n} : e.outcome[m] = c.outcome[m]
  BY <1>2 DEF Cmds
<1>4. Settles(e, c, n, todo, status, outcome, box)
  BY <1>2, <1>3, Zenon DEF Settles
<1> HIDE DEF e
<1>5. QED
  BY <1>1, <1>4

LEMMA RunToolKeeps ==
  ASSUME TypeOK, CommandInv, RunTool
  PROVE  TypeOK' /\ CommandInv'
<1>1. PICK c \in Cmds : /\ c = cmd /\ Located(c) /\ Gathered(c) /\ Judged(c) /\ Suite(c)
                        /\ Included(c) /\ Looked(c)
  BY Present
<1>2. /\ c.at = "tools" /\ ~c.o.baseline /\ c.o.kind # "test" /\ c.mode = Mode(c.o)
      /\ c.mode \in {"check", "fix"} /\ c.status \in {0, 1} /\ c.todo \in SUBSET Tools
      /\ c.chosen \in SUBSET Tools /\ c.box \in Reports
      /\ c.outcome \in [Tools \cup {"phpunit"} -> Outcomes]
  BY <1>1 DEF RunTool, At, Located, Running, Cmds
<1>3. UNCHANGED <<index, neon, accepted, logs, merged, started, edits>>
  BY DEF RunTool
<1>4. PICK n \in cmd.todo : \E dirty \in Dirty(n) : \E r \in Results(n, cmd.mode, dirty) :
        /\ work' = [work EXCEPT ![n] = IF r.fixed THEN 0 ELSE @]
        /\ raw' = IF Reporting(cmd.o) /\ cmd.o.engine = "compose" THEN Recorded(raw, n, r) ELSE raw
        /\ cmd' = [cmd EXCEPT !.todo = Left(n, r), !.status = StatusAfter(r), !.outcome[n] = r.outcome,
                     !.box = IF Reporting(cmd.o) /\ cmd.o.engine = "dagger" THEN Recorded(@, n, r) ELSE @]
  BY DEF RunTool, Goes
<1>5. PICK dirty \in Dirty(n) : \E r \in Results(n, cmd.mode, dirty) :
        /\ work' = [work EXCEPT ![n] = IF r.fixed THEN 0 ELSE @]
        /\ raw' = IF Reporting(cmd.o) /\ cmd.o.engine = "compose" THEN Recorded(raw, n, r) ELSE raw
        /\ cmd' = [cmd EXCEPT !.todo = Left(n, r), !.status = StatusAfter(r), !.outcome[n] = r.outcome,
                     !.box = IF Reporting(cmd.o) /\ cmd.o.engine = "dagger" THEN Recorded(@, n, r) ELSE @]
  BY <1>4
<1>6. PICK r \in Results(n, cmd.mode, dirty) :
        /\ work' = [work EXCEPT ![n] = IF r.fixed THEN 0 ELSE @]
        /\ raw' = IF Reporting(cmd.o) /\ cmd.o.engine = "compose" THEN Recorded(raw, n, r) ELSE raw
        /\ cmd' = [cmd EXCEPT !.todo = Left(n, r), !.status = StatusAfter(r), !.outcome[n] = r.outcome,
                     !.box = IF Reporting(cmd.o) /\ cmd.o.engine = "dagger" THEN Recorded(@, n, r) ELSE @]
  BY <1>5
<1>7. n \in Tools /\ n \in c.todo /\ dirty \in BOOLEAN /\ r \in Results(n, c.mode, dirty)
  BY <1>1, <1>2 DEF Dirty
<1>8. /\ r.code \in {0, 1} /\ r.report \in Contents \cup {"kept"}
      /\ r.outcome \in Outcomes \ {"unrun", "warned"}
      /\ r.code = 0 => r.outcome \in Passing
      /\ r.outcome = "died" => r.code = 1 /\ r.report \in {"blank", "garbage"}
      /\ r.outcome \in {"findings", "errors"} => r.report = "issues"
      /\ r.outcome = "findings" => c.mode = "check" \/ n \notin Fixers
      /\ c.mode = "check" => r.fixed = FALSE
      /\ c.mode = "check" /\ dirty => r.outcome \in {"broken", "skipped", "died", "findings"}
  BY <1>2, <1>7, ResultKinds
<1>9. PICK todo \in SUBSET Tools :
        /\ todo = Left(n, r) /\ todo \subseteq c.todo \ {n}
        /\ Reporting(c.o) \/ r.code = 0 => todo = c.todo \ {n}
  <2>1. Left(n, r) = {} \/ Left(n, r) = c.todo \ {n}
    BY <1>1 DEF Left
  <2>2. Reporting(c.o) \/ r.code = 0 => Left(n, r) = c.todo \ {n}
    BY <1>1 DEF Left
  <2>3. Left(n, r) \in SUBSET Tools /\ Left(n, r) \subseteq c.todo \ {n}
    BY <1>2, <2>1
  <2>4. QED
    BY <2>2, <2>3
<1>10. PICK status \in {0, 1} : status = StatusAfter(r) /\ (status = 0 => c.status = 0 /\ r.code = 0)
  <2>1. StatusAfter(r) \in {0, 1} /\ (StatusAfter(r) = 0 => c.status = 0 /\ r.code = 0)
    BY <1>1, <1>2, <1>8 DEF StatusAfter
  <2>2. QED
    BY <2>1
<1>11. PICK box \in Reports :
         box = IF Reporting(c.o) /\ c.o.engine = "dagger" THEN Recorded(c.box, n, r) ELSE c.box
  BY <1>2, <1>7, <1>8, RecordedFacts
<1>12. PICK e \in Cmds : Settles(e, c, n, todo, status, r.outcome, box)
  <2>1. r.outcome \in Outcomes
    BY <1>8
  <2>2. QED
    BY <1>7, <2>1, Settled, Zenon
<1>13. /\ e = [c EXCEPT !.todo = todo, !.status = status, !.outcome[n] = r.outcome, !.box = box]
       /\ e.at = c.at /\ e.o = c.o /\ e.mode = c.mode /\ e.chosen = c.chosen /\ e.whole = c.whole
       /\ e.exit = c.exit /\ e.todo = todo /\ e.status = status /\ e.box = box
       /\ e.outcome[n] = r.outcome
       /\ \A m \in (Tools \cup {"phpunit"}) \ {n} : e.outcome[m] = c.outcome[m]
  BY <1>12, Zenon DEF Settles
<1>14. cmd' = e
  BY <1>1, <1>6, <1>9, <1>10, <1>11, <1>13
<1>15. work' \in [Tools \cup {"phpunit"} -> {0, 1}]
  BY <1>6 DEF TypeOK
<1>16. raw' \in Reports
  BY <1>1, <1>6, <1>7, <1>8, RecordedFacts DEF TypeOK
<1>17. Located(e)
  <2>1. \A m \in todo : e.outcome[m] = "unrun"
    BY <1>1, <1>2, <1>9, <1>13 DEF Located
  <2>2. QED
    BY <1>1, <1>2, <1>13, <2>1 DEF Located, Running, Later
<1>18. Gathered(e)'
  <2>1. ASSUME NEW m \in c.chosen \ todo, Reporting(c.o)
        PROVE  m = n \/ (m # n /\ m \in c.chosen \ c.todo)
    BY <1>9, <2>1
  <2>2. ASSUME NEW m \in c.chosen \ todo, status = 0
        PROVE  e.outcome[m] \in Passing
    <3>1. m = n \/ (m # n /\ m \in c.chosen \ c.todo)
      BY <1>9, <1>10, <2>2
    <3>2. QED
      BY <1>1, <1>2, <1>8, <1>10, <1>13, <2>2, <3>1 DEF Gathered
  <2>3. ASSUME NEW m \in c.chosen \ todo, Reporting(c.o)
        PROVE  e.outcome[m] \notin {"unrun", "warned"}
    BY <1>1, <1>2, <1>8, <1>13, <2>1, <2>3 DEF Gathered
  <2>4. ASSUME NEW m \in c.chosen \ todo, Reporting(c.o)
        PROVE  Tells(IF c.o.engine = "compose" THEN raw' ELSE box, m, e.outcome[m])
    <3>1. c.o.engine \in {"compose", "dagger"} /\ m \in Tools
      BY <1>2, CommandsAssumption DEF CommandsAssumption, Options, Cmds
    <3>2. PICK old \in Reports : old = IF c.o.engine = "compose" THEN raw ELSE c.box
      BY <1>2 DEF TypeOK
    <3>3. PICK new : new = IF c.o.engine = "compose" THEN raw' ELSE box
      OBVIOUS
    <3>4. new = Recorded(old, n, r)
      BY <1>1, <1>6, <1>11, <2>4, <3>1, <3>2, <3>3
    <3>5. CASE m = n
      BY <1>7, <1>8, <1>13, <3>2, <3>3, <3>4, <3>5, RecordedFacts DEF Tells
    <3>6. CASE m # n
      <4>1. Tells(old, m, c.outcome[m])
        BY <1>1, <1>2, <2>1, <2>4, <3>2, <3>6 DEF Gathered
      <4>2. new.report[m] = old.report[m] /\ new.code[m] = old.code[m] /\ e.outcome[m] = c.outcome[m]
        BY <1>7, <1>8, <1>13, <3>1, <3>2, <3>4, <3>6, RecordedFacts
      <4>3. QED
        BY <3>3, <4>1, <4>2 DEF Tells
    <3>7. QED
      BY <3>5, <3>6
  <2>5. ASSUME NEW m \in c.chosen \ todo, e.outcome[m] = "findings"
        PROVE  c.mode = "check" \/ m \notin Fixers
    <3>1. m = n \/ m \in c.todo \/ m \in c.chosen \ c.todo
      OBVIOUS
    <3>2. CASE m = n
      BY <1>8, <1>13, <2>5, <3>2
    <3>3. CASE m # n /\ m \in c.todo
      BY <1>1, <1>2, <1>13, <2>5, <3>3 DEF Located
    <3>4. CASE m # n /\ m \in c.chosen \ c.todo
      BY <1>1, <1>2, <1>13, <2>5, <3>4 DEF Gathered, Cmds
    <3>5. QED
      BY <3>1, <3>2, <3>3, <3>4
  <2>6. QED
    BY <1>2, <1>13, <2>2, <2>3, <2>4, <2>5 DEF Gathered, Tells
<1>19. Judged(e)' /\ Included(e)'
  BY <1>2, <1>13 DEF Judged, Included, Stands, Later
<1>20. Suite(e)
  <2>1. e.outcome["phpunit"] = c.outcome["phpunit"]
    BY <1>7, <1>13 DEF Tools
  <2>2. QED
    BY <1>1, <1>2, <1>13, <2>1 DEF Suite, Stands, Later
<1>21. Looked(e)'
  <2>1. SUFFICES ASSUME c.o.kind = "hook", c.whole
                 PROVE  /\ \A m \in Narrowed : index[m] \in {None, work'[m]}
                        /\ \A m \in c.o.want \cap Narrowed : index[m] # None => m \in c.chosen
                        /\ \A m \in Narrowed : m \in c.chosen \ todo /\ index[m] = 1 =>
                             e.outcome[m] \in {"unrun", "broken", "skipped", "died", "findings"}
    BY <1>3, <1>13 DEF Looked
  <2>2. c.mode = "check" /\ c.o.engine = "compose"
    BY <1>1, <1>2, <2>1, CommandsAssumption
    DEF CommandsAssumption, Options, Located, Running, Refused, Mode, Cmds
  <2>3. work' = work
    BY <1>6, <1>8, <2>2 DEF TypeOK
  <2>4. \A m \in Narrowed : index[m] \in {None, work[m]}
    BY <1>1, <1>2, <2>1 DEF Looked, Running
  <2>5. ASSUME NEW m \in Narrowed, m \in c.chosen \ todo, index[m] = 1
        PROVE  e.outcome[m] \in {"unrun", "broken", "skipped", "died", "findings"}
    <3>1. CASE m = n
      <4>1. work[n] = 1 /\ n # "phpstan"
        BY <2>4, <2>5, <3>1 DEF None, Narrowed
      <4>2. dirty
        BY <1>1, <2>2, <4>1 DEF Dirty
      <4>3. QED
        BY <1>8, <1>13, <2>2, <3>1, <4>2
    <3>2. CASE m # n /\ m \in c.todo
      BY <1>1, <1>2, <1>13, <3>2 DEF Located
    <3>3. CASE m # n /\ m \notin c.todo
      BY <1>1, <1>2, <1>13, <2>1, <2>5, <3>3 DEF Looked, Running, Narrowed, Tools
    <3>4. QED
      BY <3>1, <3>2, <3>3
  <2>6. QED
    BY <1>1, <1>2, <2>1, <2>3, <2>4, <2>5 DEF Looked, Running
<1>22. QED
  BY <1>3, <1>12, <1>13, <1>14, <1>15, <1>16, <1>17, <1>18, <1>19, <1>20, <1>21, Becomes, Frame DEF TypeOK

-----------------------------------------------------------------------------
(* The start of a command, and the developer.                               *)

\* A command line that has just been read.
Fresh(c, o) ==
  /\ c.at = "idle" /\ c.o = o /\ c.mode = Mode(o) /\ c.chosen = Enabled(o) /\ c.todo = {}
  /\ c.status = 0 /\ c.exit = 0 /\ \A n \in Tools \cup {"phpunit"} : c.outcome[n] = "unrun"
  /\ c.whole => \A n \in Narrowed : index[n] \in {None, work[n]}

LEMMA NoReportsIsReports == NoReports \in Reports /\ NoLogs \in Journals
BY DEF NoReports, Reports, NoLogs, Journals, Contents

LEMMA IdleFacts ==
  /\ Idle \in Cmds /\ Idle.at = "idle" /\ Idle.todo = {} /\ Idle.chosen = {} /\ Idle.status = 0
  /\ Idle.exit = 0 /\ Idle.whole = FALSE
  /\ \A n \in Tools \cup {"phpunit"} : Idle.outcome[n] = "unrun"
<1>1. (CHOOSE o \in Commands : TRUE) \in Commands
  BY CommandsAssumption DEF CommandsAssumption
<1> HIDE DEF NoReports
<1>2. QED
  BY <1>1, NoReportsIsReports DEF Idle, Cmds, Points, Outcomes

LEMMA FreshFacts ==
  ASSUME NEW o \in Commands
  PROVE  \E c \in Cmds :
           /\ c = [Idle EXCEPT !.o = o, !.mode = Mode(o), !.chosen = Enabled(o),
                               !.whole = \A n \in Narrowed : index[n] \in {None, work[n]}]
           /\ Fresh(c, o)
<1>1. PICK whole \in BOOLEAN : whole = \A n \in Narrowed : index[n] \in {None, work[n]}
  OBVIOUS
<1>2. Enabled(o) \in SUBSET Tools /\ Mode(o) \in {"check", "fix"}
  BY CommandsAssumption DEF CommandsAssumption, Options, Enabled, Restrict, Mode, Tools
<1> DEFINE c == [Idle EXCEPT !.o = o, !.mode = Mode(o), !.chosen = Enabled(o), !.whole = whole]
<1>3. /\ c \in Cmds /\ c.at = Idle.at /\ c.o = o /\ c.mode = Mode(o) /\ c.chosen = Enabled(o)
      /\ c.todo = Idle.todo /\ c.status = Idle.status /\ c.exit = Idle.exit
      /\ c.outcome = Idle.outcome /\ c.whole = whole
  BY <1>2, IdleFacts DEF Cmds
<1> HIDE DEF c
<1>4. Fresh(c, o)
  BY <1>1, <1>3, IdleFacts DEF Fresh
<1>5. QED
  BY <1>1, <1>3, <1>4 DEF c

\* Which tools a command line runs.
LEMMA EnabledFacts ==
  ASSUME NEW o \in Commands
  PROVE  /\ Enabled(o) \subseteq Tools
         /\ o.kind = "test" => Enabled(o) = {} /\ ~o.baseline
         /\ o.kind = "hook" /\ ~Refused(o) => ~o.baseline
         /\ o.baseline /\ ~Refused(o) => Enabled(o) = {"phpstan"}
         /\ ~o.baseline => \A n \in o.want \cap Narrowed : index[n] # None => n \in Enabled(o)
BY CommandsAssumption
DEF CommandsAssumption, Options, Enabled, Restrict, Refused, Tools

\* Where a command can be right after it started.
LEMMA StartsAt ==
  ASSUME NEW o \in Commands, NEW c \in Cmds, Fresh(c, o), NEW e \in Cmds,
         e.o = c.o /\ e.mode = c.mode /\ e.chosen = c.chosen /\ e.status = c.status
           /\ e.outcome = c.outcome /\ e.whole = c.whole,
         \/ e.at = "services" /\ e.todo = {} /\ o.kind = "test"
         \/ e.at = "checked" /\ e.todo = {} /\ o.kind = "hook" /\ ~Refused(o) /\ Enabled(o) = {}
         \/ e.at = "done" /\ e.todo = {} /\ o.kind = "qa" /\ ~Refused(o) /\ Enabled(o) = {}
         \/ e.at = "binaries" /\ e.todo = Enabled(o) /\ o.kind # "test" /\ ~Refused(o)
  PROVE  Located(e) /\ Gathered(e) /\ Judged(e) /\ Suite(e) /\ Included(e) /\ Looked(e)
<1>1. Located(e)
  BY EnabledFacts DEF Located, Fresh, Running, Later
<1>2. Gathered(e)
  BY DEF Gathered
<1>3. Judged(e)
  BY EnabledFacts DEF Judged, Fresh, Stands, Later
<1>4. Suite(e)
  BY DEF Suite, Fresh
<1>5. Included(e)
  BY EnabledFacts DEF Included, Fresh
<1>6. Looked(e)
  <2>1. SUFFICES ASSUME o.kind = "hook", c.whole, ~Refused(o)
                 PROVE  Looked(e)
    BY DEF Looked, Fresh, Running
  <2>2. \A n \in Narrowed : index[n] \in {None, work[n]}
    BY <2>1 DEF Fresh
  <2>3. \A n \in e.o.want \cap Narrowed : index[n] # None => n \in e.chosen
    BY <2>1, EnabledFacts DEF Fresh
  <2>4. \A n \in Narrowed : e.outcome[n] = "unrun"
    BY DEF Fresh, Narrowed, Tools
  <2>5. QED
    BY <2>2, <2>3, <2>4 DEF Looked
<1>7. QED
  BY <1>1, <1>2, <1>3, <1>4, <1>5, <1>6

LEMMA StartKeeps ==
  ASSUME TypeOK, CommandInv, Start
  PROVE  TypeOK' /\ CommandInv'
<1>1. PICK o \in Commands : cmd' = Accepted(o)
  BY DEF Start, Goes
<1>2. UNCHANGED <<work, index, neon, accepted, raw, logs, merged, edits>>
      /\ started' \in 0..MaxCommands
  BY CommandsAssumption DEF CommandsAssumption, Start, TypeOK
<1>3. PICK c \in Cmds :
        /\ c = [Idle EXCEPT !.o = o, !.mode = Mode(o), !.chosen = Enabled(o),
                            !.whole = \A n \in Narrowed : index[n] \in {None, work[n]}]
        /\ Fresh(c, o)
  BY FreshFacts
<1>4. o \in Options
  BY CommandsAssumption DEF CommandsAssumption
<1>5. ASSUME NEW e \in Cmds, cmd' = e,
             Located(e) /\ Gathered(e) /\ Judged(e) /\ Suite(e) /\ Included(e) /\ Looked(e)
      PROVE  TypeOK' /\ CommandInv'
  BY <1>2, <1>5, Becomes, Frame DEF TypeOK
<1>6. CASE o.kind = "test"
  <2>1. PICK e \in Cmds : e = [c EXCEPT !.at = "services"] /\ Same(e, c) /\ e.at = "services"
    BY Moved DEF Points
  <2>2. cmd' = e
    BY <1>1, <1>3, <1>6, <2>1 DEF Accepted
  <2>3. QED
    BY <1>3, <1>5, <1>6, <2>1, <2>2, StartsAt DEF Same, Fresh
<1>7. CASE o.kind # "test" /\ Refused(o)
  <2>1. PICK e \in Cmds : e = Ended(c, 1) /\ Same(e, c) /\ e.at = "done" /\ e.exit = 1
    BY EndedFacts
  <2>2. cmd' = e /\ e.o.kind # "test"
    BY <1>1, <1>3, <1>7, <2>1 DEF Accepted, Same, Fresh
  <2>3. QED
    BY <1>2, <2>1, <2>2, Failed DEF TypeOK
<1>8. CASE o.kind = "hook" /\ ~Refused(o) /\ Enabled(o) = {}
  <2>1. PICK e \in Cmds : e = [c EXCEPT !.at = "checked"] /\ Same(e, c) /\ e.at = "checked"
    BY Moved DEF Points
  <2>2. cmd' = e
    BY <1>1, <1>3, <1>8, <2>1 DEF Accepted
  <2>3. QED
    BY <1>3, <1>5, <1>8, <2>1, <2>2, StartsAt DEF Same, Fresh
<1>9. CASE o.kind = "qa" /\ ~Refused(o) /\ Enabled(o) = {}
  <2>1. PICK e \in Cmds : e = Ended(c, 0) /\ Same(e, c) /\ e.at = "done" /\ e.exit = 0
    BY EndedFacts
  <2>2. cmd' = e
    BY <1>1, <1>3, <1>9, <2>1 DEF Accepted
  <2>3. /\ e.o = c.o /\ e.mode = c.mode /\ e.chosen = c.chosen /\ e.status = c.status
        /\ e.outcome = c.outcome /\ e.whole = c.whole /\ e.todo = {}
    BY <1>3, <2>1 DEF Same, Fresh
  <2>4. Located(e) /\ Gathered(e) /\ Judged(e) /\ Suite(e) /\ Included(e) /\ Looked(e)
    BY <1>3, <1>9, <2>1, <2>3, StartsAt
  <2>5. QED
    BY <1>5, <2>2, <2>4
<1>10. CASE o.kind # "test" /\ ~Refused(o) /\ Enabled(o) # {}
  <2> DEFINE e == [c EXCEPT !.at = "binaries", !.todo = Enabled(o)]
  <2>1. /\ e \in Cmds /\ e.at = "binaries" /\ e.todo = Enabled(o)
        /\ e.o = c.o /\ e.mode = c.mode /\ e.chosen = c.chosen /\ e.status = c.status
        /\ e.outcome = c.outcome /\ e.whole = c.whole
    BY EnabledFacts DEF Cmds, Points
  <2>2. cmd' = e
    BY <1>1, <1>3, <1>10 DEF Accepted
  <2> HIDE DEF e
  <2>3. QED
    BY <1>3, <1>5, <1>10, <2>1, <2>2, StartsAt
<1>11. QED
  BY <1>4, <1>6, <1>7, <1>8, <1>9, <1>10 DEF Options

LEMMA EditKeeps ==
  ASSUME TypeOK, CommandInv, NEW n \in Tools \cup {"phpunit"}, Edit(n)
  PROVE  TypeOK' /\ CommandInv'
<1>1. PICK c \in Cmds : /\ c = cmd /\ Located(c) /\ Gathered(c) /\ Judged(c) /\ Suite(c)
                        /\ Included(c) /\ Looked(c)
  BY Present
<1>2. UNCHANGED <<index, neon, accepted, raw, logs, merged, started>>
  BY DEF Edit
<1>3. work' \in [Tools \cup {"phpunit"} -> {0, 1}]
  BY DEF Edit, TypeOK
<1>4. edits' \in 0..MaxEdits
  BY CommandsAssumption DEF CommandsAssumption, Edit, TypeOK
<1> DEFINE e == [c EXCEPT !.whole = FALSE]
<1>5. /\ e \in Cmds /\ e.at = c.at /\ e.o = c.o /\ e.mode = c.mode /\ e.chosen = c.chosen
      /\ e.todo = c.todo /\ e.status = c.status /\ e.box = c.box /\ e.exit = c.exit
      /\ e.outcome = c.outcome /\ e.whole = FALSE
  BY DEF Cmds
<1>6. cmd' = e
  BY <1>1 DEF Edit, Goes
<1> HIDE DEF e
<1>7. Located(e)
  BY <1>1, <1>5 DEF Located, Running
<1>8. Gathered(e)
  BY <1>1, <1>5 DEF Gathered
<1>9. Judged(e)
  BY <1>1, <1>5 DEF Judged, Stands, CountedAsFixed
<1>10. Suite(e)
  BY <1>1, <1>5 DEF Suite, Stands
<1>11. Included(e)
  BY <1>1, <1>5 DEF Included
<1>12. Looked(e)'
  BY <1>5 DEF Looked
<1>13. QED
  BY <1>2, <1>3, <1>4, <1>5, <1>6, <1>7, <1>8, <1>9, <1>10, <1>11, <1>12, Becomes, Frame DEF TypeOK

LEMMA StageKeeps ==
  ASSUME TypeOK, CommandInv, NEW n \in Narrowed, Stage(n)
  PROVE  TypeOK' /\ CommandInv'
<1>1. PICK c \in Cmds : /\ c = cmd /\ Located(c) /\ Gathered(c) /\ Judged(c) /\ Suite(c)
                        /\ Included(c) /\ Looked(c)
  BY Present
<1>2. UNCHANGED <<work, neon, accepted, raw, logs, merged, cmd, started>>
  BY DEF Stage
<1>3. index' \in [Narrowed -> {0, 1, None}] /\ edits' \in 0..MaxEdits
  BY CommandsAssumption DEF CommandsAssumption, Stage, TypeOK
<1>4. Looked(c)'
  BY <1>1 DEF Stage, Busy, Looked, Running
<1>5. QED
  BY <1>1, <1>2, <1>3, <1>4, Becomes, Frame DEF TypeOK

-----------------------------------------------------------------------------
(* The invariant of the specification.                                      *)

LEMMA InitEstablishes ==
  ASSUME Init
  PROVE  TypeOK /\ CommandInv
<1>1. TypeOK
  BY IdleFacts, NoReportsIsReports, CommandsAssumption DEF CommandsAssumption, Init, TypeOK
<1>2. PICK c \in Cmds : c = cmd /\ c = Idle
  BY IdleFacts DEF Init
<1>3. Located(c) /\ Gathered(c) /\ Judged(c)
  BY <1>2, IdleFacts DEF Located, Gathered, Judged, Running, Stands, Later
<1>4. Suite(c) /\ Included(c) /\ Looked(c)
  BY <1>2, IdleFacts DEF Suite, Included, Looked, Running, Stands, Later
<1>5. QED
  BY <1>1, <1>2, <1>3, <1>4 DEF CommandInv

LEMMA StepKeeps ==
  ASSUME TypeOK, CommandInv, [Next]_vars
  PROVE  TypeOK' /\ CommandInv'
<1>1. CASE UNCHANGED vars
  <2>1. PICK c \in Cmds : /\ c = cmd /\ Located(c) /\ Gathered(c) /\ Judged(c) /\ Suite(c)
                          /\ Included(c) /\ Looked(c)
    BY Present
  <2>2. QED
    BY <1>1, <2>1, Becomes, Frame DEF vars, TypeOK
<1>2. CASE Start \/ BeginOnCompose \/ BeginOnDagger \/ RunTool \/ EndScript \/ Dies
  BY <1>2, StartKeeps, BeginKeeps, RunToolKeeps, EndScriptKeeps, DiesKeeps
<1>3. CASE finishQaReport \/ finishQaAgent \/ runBaseline \/ finishBaseline
  BY <1>3, FinishQaReportKeeps, FinishQaAgentKeeps, RunBaselineKeeps, FinishBaselineKeeps
<1>4. CASE ProbeTests \/ runTestOnCompose \/ runTestOnDagger \/ finishTestReport \/ finishTestAgent
  BY <1>4, ProbeKeeps, PhpUnitKeeps, FinishTestReportKeeps, FinishTestAgentKeeps
<1>5. CASE HookTests \/ Commit
  BY <1>5, HookTestsKeeps, CommitKeeps
<1>6. CASE \E n \in Tools \cup {"phpunit"} : Edit(n)
  BY <1>6, EditKeeps
<1>7. CASE \E n \in Narrowed : Stage(n)
  BY <1>7, StageKeeps
<1>8. QED
  BY <1>1, <1>2, <1>3, <1>4, <1>5, <1>6, <1>7 DEF Next

LEMMA Invariance == Spec => [](TypeOK /\ CommandInv)
<1>1. Init => TypeOK /\ CommandInv
  BY InitEstablishes
<1>2. TypeOK /\ CommandInv /\ [Next]_vars => (TypeOK /\ CommandInv)'
  BY StepKeeps
<1>3. QED
  BY <1>1, <1>2, PTL DEF Spec

\* Every variable keeps its type: the reports and the logs whatever sequence of runs wrote
\* them, and the command's record through every engine, mode and flag.
THEOREM TypeCorrect == Spec => []TypeOK
BY Invariance, PTL

\* `qa` without --agent that exits 0 (qa.go, runQa and finishQaReport): every tool it chose
\* ran to its end and left nothing to act on, whatever earlier runs left in the reports.
THEOREM ExitZeroHolds == Spec => []ExitZeroMeansPassed
<1>1. TypeOK /\ CommandInv => ExitZeroMeansPassed
  BY DEF TypeOK, CommandInv, Cmds, ExitZeroMeansPassed, Succeeded, At, Judged, Stands, Passing
<1>2. QED
  BY <1>1, Invariance, PTL

\* An --agent run that exits 0 (finishQaAgent, finishTestAgent) judged by report files that
\* do hold what its own tools found: stale reports of earlier runs never stand in for them.
\* Of what a tool reports, only the errors of a fixer in fix mode go by uncounted.
THEOREM AgentHolds == Spec => []AgentHidesNoFinding
<1>1. TypeOK /\ CommandInv => AgentHidesNoFinding
  <2>1. SUFFICES ASSUME TypeOK, CommandInv, Succeeded, cmd.o.agent, ~cmd.o.baseline
                 PROVE  /\ cmd.outcome["phpunit"] \in {"unrun", "clean"}
                        /\ \A n \in cmd.chosen : cmd.outcome[n] \notin {"unrun", "died", "findings"}
                        /\ \A n \in cmd.chosen :
                             cmd.outcome[n] = "errors" => cmd.mode = "fix" /\ n \in Fixers
    BY DEF AgentHidesNoFinding
  <2>2. cmd.at = "done" /\ cmd.exit = 0 /\ Judged(cmd) /\ Suite(cmd)
    BY <2>1 DEF Succeeded, At, CommandInv
  <2>3. \A n \in cmd.chosen : cmd.outcome[n] \in Passing \cup {"broken"} \/ CountedAsFixed(cmd, n)
    BY <2>1, <2>2 DEF Judged, Stands
  <2>4. cmd.outcome["phpunit"] \in {"unrun", "clean"}
    BY <2>1, <2>2 DEF Suite, Stands
  <2>5. QED
    BY <2>3, <2>4 DEF Passing, CountedAsFixed
<1>2. QED
  BY <1>1, Invariance, PTL

\* A baseline run that succeeds without a warning (runBaseline, EnsureBaselineInclude) leaves
\* a baseline that phpstan.neon includes, whatever earlier commands had left there.
THEOREM BaselineHolds == Spec => []BaselineTakesEffect
<1>1. TypeOK /\ CommandInv => BaselineTakesEffect
  BY DEF CommandInv, BaselineTakesEffect, Succeeded, At, Included
<1>2. QED
  BY <1>1, Invariance, PTL

LEMMA ReportStep ==
  ASSUME TypeOK, CommandInv, finishQaReport, ~Unreadable, NEW n \in cmd.chosen
  PROVE  cmd.outcome[n] # "unrun" /\ (cmd.outcome[n] = "findings" => n \in merged')
<1>1. PICK c \in Cmds : c = cmd /\ Located(c) /\ Gathered(c)
  BY Present
<1>2. c.at = "collect" /\ Reporting(c.o) /\ ~c.o.baseline /\ c.todo = {} /\ n \in c.chosen /\ n \in Tools
  BY <1>1 DEF finishQaReport, At, Located, Cmds
<1>3. c.outcome[n] # "unrun" /\ Tells(raw, n, c.outcome[n])
  BY <1>1, <1>2 DEF Gathered
<1>4. merged' = MergeCodeQuality
  BY DEF finishQaReport
<1>5. QED
  BY <1>1, <1>2, <1>3, <1>4 DEF MergeCodeQuality, toolIssues, Having, Tells

\* The report a --report run merges (finishQaReport, MergeCodeQuality) covers every chosen
\* tool: the chosen tools have run, and what they found in this run is in it.
THEOREM ReportHolds == Spec => ReportHoldsTheFindings
<1>1. TypeOK /\ CommandInv => [finishQaReport /\ ~Unreadable =>
        \A n \in cmd.chosen : cmd.outcome[n] # "unrun" /\ (cmd.outcome[n] = "findings" => n \in merged')]_vars
  BY ReportStep
<1>2. QED
  BY <1>1, Invariance, PTL DEF ReportHoldsTheFindings

LEMMA CommitStep ==
  ASSUME TypeOK, CommandInv, Commit, cmd.whole
  PROVE  ~CommitHasFindings
<1>1. PICK c \in Cmds : c = cmd /\ Located(c) /\ Judged(c) /\ Looked(c)
  BY Present
<1>2. /\ c.at = "commit" /\ c.o.kind = "hook" /\ ~c.o.baseline /\ c.todo = {} /\ c.mode = "check"
      /\ c.o \in Commands
  BY <1>1, CommandsAssumption
  DEF CommandsAssumption, Options, Commit, At, Located, Running, Later, Mode, Cmds
<1>3. SUFFICES ASSUME NEW n \in c.o.want \cap Narrowed, index[n] = 1
               PROVE  c.outcome[n] \in {"skipped", "broken"}
  BY <1>1 DEF CommitHasFindings
<1>4. n \in c.chosen /\ c.outcome[n] \in {"unrun", "broken", "skipped", "died", "findings"}
  BY <1>1, <1>2, <1>3 DEF Looked, Running, None
<1>5. c.outcome[n] \in Passing \cup {"broken"} \/ CountedAsFixed(c, n)
  BY <1>1, <1>2, <1>4 DEF Judged, Stands, Later
<1>6. QED
  BY <1>2, <1>4, <1>5 DEF Passing, CountedAsFixed

\* The pre-commit hook (templates/qa/pre-commit.tmpl, Restrict) lets no commit through with
\* a finding of its tools in what is staged, while the working tree is what is staged.
THEOREM CommitHolds == Spec => CommitIsChecked
<1>1. TypeOK /\ CommandInv => [Commit /\ cmd.whole => ~CommitHasFindings]_vars
  BY CommitStep
<1>2. QED
  BY <1>1, Invariance, PTL DEF CommitIsChecked

-----------------------------------------------------------------------------
(* QaWarmup: the QA tools never start over a half-done database, as long as *)
(* the engine keeps the two volumes together and no update was killed since *)
(* the last install. The strengthening is what a stamp left on the volume   *)
(* still guarantees.                                                        *)

\* An install that is at worst torn: no command that failed left it.
Standing == db.state \in {"whole", "torn"}

\* What the volumes of an unfinished warm-up are good for.
StampIsBacked == stamp # NoPrint => Standing /\ Needs[stamp] \subseteq db.schema

\* A script at work has sources, and their fingerprint or none.
Inputs == ~Reached("idle") => run.source \in Sources /\ run.print \in {NoPrint, run.source}

\* What the script has established at each of its points.
Established ==
  /\ run.pc \in {"seed", "reconcile", "install", "warm"} =>
       stamp = NoPrint /\ container = NoContainer
  /\ run.pc \in {"update", "warmStale"} => container = NoContainer /\ stamp # NoPrint
  /\ Reached("reconcile") => db.state = "whole"
  /\ run.pc \in {"warmStale", "warm", "stamp", "ready"} =>
       Standing /\ Needs[run.source] \subseteq db.schema

\* What holds until the engine drops a volume.
Backed == StampIsBacked /\ Established

WarmupIInv == WarmupTypeOK /\ Inputs /\ ("drift" \notin mishaps => Backed)

\* A run that moves or ends is a run.
LEMMA WarmupRunTypes ==
  ASSUME WarmupTypeOK, NEW point \in WarmupPoints
  PROVE  /\ Goto(point) => /\ run' \in Runs /\ run'.pc = point
                           /\ run'.source = run.source /\ run'.print = run.print
         /\ Abort => run' \in Runs /\ run'.pc = "idle"
<1>1. Goto(point) => /\ run' \in Runs /\ run'.pc = point
                     /\ run'.source = run.source /\ run'.print = run.print
  BY DEF WarmupTypeOK, Goto, Runs
<1>2. Abort => run' \in Runs /\ run'.pc = "idle"
  BY DEF Abort, NoRun, Runs, WarmupPoints
<1>3. QED
  BY <1>1, <1>2

\* Every command of the script keeps the invariant.
LEMMA WorkKeeps ==
  ASSUME WarmupIInv, Work, UNCHANGED mishaps
  PROVE  WarmupIInv'
<1> USE QaAssumption
    DEF QaAssumption, WarmupIInv, Inputs, Backed, StampIsBacked, Standing, Established, Reached,
        volumes
<1>1. CASE BeginWarmup
  <2>1. PICK s \in Sources, noCache \in BOOLEAN, psql \in BOOLEAN, print \in Sources \cup {NoPrint} :
          /\ print \in {s, NoPrint}
          /\ run' = [pc |-> "decide", source |-> s, noCache |-> noCache, psql |-> psql,
                     print |-> print]
    BY <1>1 DEF BeginWarmup
  <2>2. QED
    BY <1>1, <2>1 DEF BeginWarmup, WarmupTypeOK, Runs, WarmupPoints
<1>2. CASE Reuse
  BY <1>2, WarmupRunTypes DEF WarmupPoints, Reuse, Reusable, UsesCache, WarmupTypeOK
<1>3. CASE TakeStale
  BY <1>3, WarmupRunTypes DEF WarmupPoints, TakeStale, WarmupTypeOK
<1>4. CASE ClearAll
  BY <1>4, WarmupRunTypes DEF WarmupPoints, ClearAll, WarmupTypeOK
<1>5. CASE Update
  <2>1. CASE db' \in Migrated /\ Goto("warmStale") /\ UNCHANGED stamp
    <3>1. db' \in [schema : SUBSET Migrations, state : {db.state, "whole"}]
          /\ db'.schema = db.schema \cup Needs[run.source]
      BY <1>5, <2>1 DEF Update, Migrated, WarmupTypeOK
    <3>2. QED
      BY <1>5, <2>1, <3>1, WarmupRunTypes DEF WarmupPoints, Update, WarmupTypeOK
  <2>2. CASE db' = BrokenDb /\ stamp' = NoPrint /\ Goto("seed")
    BY <1>5, <2>2, WarmupRunTypes DEF WarmupPoints, Update, BrokenDb, WarmupTypeOK
  <2>3. QED
    BY <1>5, <2>1, <2>2 DEF Update
<1>6. CASE WarmStale
  BY <1>6, WarmupRunTypes DEF WarmupPoints, WarmStale, WarmupTypeOK
<1>7. CASE TakeSeed
  BY <1>7, WarmupRunTypes DEF WarmupPoints, TakeSeed, BrokenDb, WarmupTypeOK
<1>8. CASE NoSeed
  BY <1>8, WarmupRunTypes DEF WarmupPoints, NoSeed, WarmupTypeOK
<1>9. CASE Reconcile
  <2>1. CASE db' \in Migrated /\ Goto("warm")
    <3>1. db' \in [schema : SUBSET Migrations, state : {db.state, "whole"}]
          /\ db'.schema = db.schema \cup Needs[run.source]
      BY <1>9, <2>1 DEF Reconcile, Migrated, WarmupTypeOK
    <3>2. QED
      BY <1>9, <2>1, <3>1, WarmupRunTypes DEF WarmupPoints, Reconcile, WarmupTypeOK
  <2>2. CASE db' = BrokenDb /\ Goto("install")
    BY <1>9, <2>2, WarmupRunTypes DEF WarmupPoints, Reconcile, BrokenDb, WarmupTypeOK
  <2>3. QED
    BY <1>9, <2>1, <2>2 DEF Reconcile
<1>10. CASE Install
  BY <1>10, WarmupRunTypes DEF WarmupPoints, Install, EmptyDb, BrokenDb, WarmupTypeOK
<1>11. CASE Warm
  BY <1>11, WarmupRunTypes DEF WarmupPoints, Warm, WarmupTypeOK
<1>12. CASE SaveStamp
  BY <1>12, WarmupRunTypes DEF WarmupPoints, SaveStamp, WarmupTypeOK
<1>13. CASE Analyse
  BY <1>13, WarmupRunTypes DEF WarmupPoints, Analyse, WarmupTypeOK
<1>14. QED
  BY <1>1, <1>2, <1>3, <1>4, <1>5, <1>6, <1>7, <1>8, <1>9, <1>10, <1>11, <1>12, <1>13
     DEF Work

\* So does every other step: a kill leaves nothing that a later warm-up would trust but a
\* torn database, and the loss of a volume leaves no promise to keep.
LEMMA WarmupStepKeeps ==
  ASSUME WarmupIInv, [WarmupNext]_warmupVars
  PROVE  WarmupIInv'
<1> USE QaAssumption
    DEF QaAssumption, WarmupIInv, Inputs, Backed, StampIsBacked, Standing, Established, Reached,
        volumes
<1>1. CASE Work /\ UNCHANGED mishaps
  BY <1>1, WorkKeeps
<1>2. CASE Kill
  <2>1. run'.pc = "idle" /\ WarmupTypeOK'
    BY <1>2, WarmupRunTypes DEF WarmupPoints, Kill, BrokenDb, TornDb, WarmupTypeOK
  <2>2. db'.schema = db.schema /\ stamp' \in {stamp, NoPrint}
    BY <1>2 DEF Kill, BrokenDb, TornDb, WarmupTypeOK
  <2>3. "drift" \notin mishaps' => "drift" \notin mishaps
    BY <1>2 DEF Kill
  <2>4. "drift" \notin mishaps => StampIsBacked'
    <3>1. CASE run.pc \in {"seed", "reconcile", "install"}
      BY <1>2, <2>2, <3>1 DEF Kill
    <3>2. CASE run.pc \notin {"seed", "reconcile", "install"}
      <4>1. db' \in {db, TornDb}
        BY <1>2, <3>2 DEF Kill
      <4>2. QED
        BY <2>2, <4>1 DEF TornDb, WarmupTypeOK
    <3>3. QED
      BY <3>1, <3>2
  <2>5. QED
    BY <2>1, <2>2, <2>3, <2>4
<1>3. CASE Drift
  <2>1. "drift" \in mishaps' /\ run'.pc = "idle"
    BY <1>3 DEF Drift
  <2>2. WarmupTypeOK'
    BY <1>3 DEF Drift, WarmupTypeOK, EmptyDb
  <2>3. QED
    BY <2>1, <2>2
<1>4. CASE UNCHANGED warmupVars
  BY <1>4 DEF warmupVars, WarmupTypeOK
<1>5. QED
  BY <1>1, <1>2, <1>3, <1>4 DEF WarmupNext

\* Whatever fails and whatever is killed but an update, the QA tools start over an installed
\* database that has every migration of the code, until the engine drops one of the two
\* volumes; a killed update is made good by the next install, and by nothing else.
THEOREM AnalysisHasDatabase == WarmupSpec => []ReadyHasDatabase
<1>1. WarmupInit => WarmupIInv
  BY QaAssumption
     DEF QaAssumption, WarmupInit, WarmupIInv, Inputs, Backed, WarmupTypeOK, Runs, WarmupPoints,
         StampIsBacked, Standing, Established, EmptyDb, NoRun, Reached
<1>2. WarmupIInv /\ [WarmupNext]_warmupVars => WarmupIInv'
  BY WarmupStepKeeps
<1>3. WarmupIInv => ReadyHasDatabase
  BY DEF WarmupIInv, Backed, Established, Standing, ReadyHasDatabase, Reached
<1>4. QED
  BY <1>1, <1>2, <1>3, PTL DEF WarmupSpec

-----------------------------------------------------------------------------
(* The container *)

\* What ties container, stamp and sources together until a run is killed: between runs a
\* stamp beside a container names it, and a script only writes the stamp of what it warmed.
Matched ==
  /\ run.pc \in {"idle", "decide"} /\ stamp # NoPrint /\ container # NoContainer =>
       container = stamp
  /\ run.pc \in {"update", "warmStale"} =>
       container = NoContainer /\ run.print = run.source
  /\ run.pc \in {"seed", "reconcile", "install", "warm"} =>
       stamp = NoPrint /\ container = NoContainer
  /\ Reached("stamp") => /\ container = run.source
                         /\ stamp = NoPrint \/ run.print = run.source
  /\ Reached("ready") => container = run.source /\ stamp \in {NoPrint, run.source}

MInv == WarmupTypeOK /\ Inputs /\ ("kill" \notin mishaps => Matched)

\* Every command of the script, and the loss of a volume, keeps container and stamp in
\* step; after a kill there is nothing to keep.
LEMMA StepMatches ==
  ASSUME WarmupIInv, MInv, [WarmupNext]_warmupVars
  PROVE  MInv'
<1> USE QaAssumption DEF QaAssumption, MInv, Inputs, Matched, Reached, volumes
<1>0. WarmupTypeOK' /\ Inputs'
  BY WarmupStepKeeps DEF WarmupIInv
<1>1. CASE "kill" \in mishaps
  <2>1. "kill" \in mishaps'
    BY <1>1 DEF WarmupNext, Kill, Drift, warmupVars
  <2>2. QED
    BY <1>0, <2>1
<1>2. CASE "kill" \notin mishaps /\ Work /\ UNCHANGED mishaps
  <2>1. CASE BeginWarmup
    <3>1. run'.pc = "decide" /\ UNCHANGED volumes
      BY <2>1 DEF BeginWarmup
    <3>2. QED
      BY <1>0, <1>2, <2>1, <3>1 DEF BeginWarmup
  <2>2. CASE Reuse
    BY <1>0, <1>2, <2>2, WarmupRunTypes DEF Reuse, Reusable, UsesCache, WarmupPoints
  <2>3. CASE TakeStale
    BY <1>0, <1>2, <2>3, WarmupRunTypes DEF TakeStale, UsesCache, WarmupPoints
  <2>4. CASE ClearAll \/ Update \/ WarmStale
    BY <1>0, <1>2, <2>4, WarmupRunTypes DEF ClearAll, Update, WarmStale, WarmupPoints
  <2>5. CASE TakeSeed \/ NoSeed \/ Reconcile
    BY <1>0, <1>2, <2>5, WarmupRunTypes DEF TakeSeed, NoSeed, Reconcile, WarmupPoints
  <2>6. CASE Install \/ Warm
    BY <1>0, <1>2, <2>6, WarmupRunTypes DEF Install, Warm, WarmupPoints
  <2>7. CASE SaveStamp \/ Analyse
    BY <1>0, <1>2, <2>7, WarmupRunTypes DEF SaveStamp, Analyse, WarmupPoints, WarmupTypeOK
  <2>8. QED
    BY <1>2, <2>1, <2>2, <2>3, <2>4, <2>5, <2>6, <2>7 DEF Work
<1>3. CASE Kill
  BY <1>0, <1>3 DEF Kill
<1>4. CASE "kill" \notin mishaps /\ Drift
  BY <1>0, <1>4 DEF Drift
<1>5. CASE UNCHANGED warmupVars
  BY <1>0, <1>5 DEF warmupVars
<1>6. QED
  BY <1>1, <1>2, <1>3, <1>4, <1>5 DEF WarmupNext

\* The state of the script and of the volumes is well typed, whatever happens.
THEOREM QaTypes == WarmupSpec => []WarmupTypeOK
<1>1. WarmupInit => WarmupIInv
  BY QaAssumption
     DEF QaAssumption, WarmupInit, WarmupIInv, Inputs, Backed, WarmupTypeOK, Runs, WarmupPoints, StampIsBacked,
         Standing, Established, EmptyDb, NoRun, Reached
<1>2. WarmupIInv /\ [WarmupNext]_warmupVars => WarmupIInv'
  BY WarmupStepKeeps
<1>3. WarmupIInv => WarmupTypeOK
  BY DEF WarmupIInv
<1>4. QED
  BY <1>1, <1>2, <1>3, PTL DEF WarmupSpec

\* PHPStan reads the container of the code it analyses, unless a warm-up was killed.
THEOREM AnalysisReadsItsContainer == WarmupSpec => []ContainerMatchesSources
<1>1. WarmupInit => WarmupIInv /\ MInv
  BY QaAssumption
     DEF QaAssumption, WarmupInit, WarmupIInv, MInv, Matched, Inputs, Backed, WarmupTypeOK, Runs, WarmupPoints,
         StampIsBacked, Standing, Established, EmptyDb, NoRun, Reached
<1>2. WarmupIInv /\ MInv /\ [WarmupNext]_warmupVars => (WarmupIInv /\ MInv)'
  BY WarmupStepKeeps, StepMatches
<1>3. MInv => ContainerMatchesSources
  BY DEF MInv, Matched, ContainerMatchesSources, Reached
<1>4. QED
  BY <1>1, <1>2, <1>3, PTL DEF WarmupSpec
=============================================================================
