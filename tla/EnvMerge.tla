------------------------------- MODULE EnvMerge -------------------------------
(* internal/docker/envmerge.go: the project's .env layered over the         *)
(* generated one. A file is a sequence of assignments, a value a sequence   *)
(* of parts, each a reference, written as the key it names, or a literal.   *)
(* Comments, blank lines and quotes are abstracted away; a single-quoted    *)
(* value is one with literals only.                                         *)
EXTENDS Naturals, Sequences, SequencesExt

CONSTANTS
  EnvKeys,   \* the keys of the environment
  Template   \* the rendered template: a sequence of assignments

parseEnvEntries(lines) == [i \in DOMAIN lines |-> [key |-> lines[i].key, value |-> lines[i].value]]
KeysOf(lines) == {lines[i].key : i \in DOMAIN lines}
References(value) == ToSet(value) \cap EnvKeys
referencesAny(value, keys) == References(value) \cap keys # {}

(* A value that names its own key means the value before this line, which   *)
(* is written out in its place.                                             *)
inlineSelfReference(key, value, prev) ==
  FlattenSeq([i \in DOMAIN value |-> IF value[i] = key THEN prev ELSE <<value[i]>>])

(* The value every key has in the template alone, the last assignment's.    *)
LastValues(lines) ==
  FoldLeft(LAMBDA values, e : [values EXCEPT ![e.key] = e.value], [k \in EnvKeys |-> <<>>], lines)

Assignments(template, project) ==
  FoldLeft(LAMBDA acc, e :
             LET v == inlineSelfReference(e.key, e.value, acc.previous[e.key])
             IN [previous |-> [acc.previous EXCEPT ![e.key] = v],
                 out |-> Append(acc.out, [key |-> e.key, value |-> v])],
           [previous |-> LastValues(template), out |-> <<>>], project).out

(* Read again: the template's keys that use a changed one and that the      *)
(* project does not set, then, in turn, the project's that use one of those *)
(* or of the ones just taken, each key in one round.                        *)
Generated(template, assignments, state) ==
  SelectSeq(template, LAMBDA e : /\ e.key \notin KeysOf(assignments) \cup state.appended
                                 /\ referencesAny(e.value, state.changed))

AgainM(template, assignments, state) == Generated(template, assignments, state)   \* mutant: not the project's
Again(template, assignments, state) ==
  FoldLeft(LAMBDA again, e : IF e.key \notin state.appended /\ referencesAny(e.value, KeysOf(again))
                             THEN Append(again, e) ELSE again,
           Generated(template, assignments, state), assignments)

Rounds == <<1, 2, 3, 4, 5, 6, 7, 8>>   \* the eight of the loop

MergeEnv(template, project) ==
  LET assignments == Assignments(template, project)
      read == FoldLeft(LAMBDA state, round :
                         LET again == Again(template, assignments, state)
                         IN [out |-> state.out \o again,
                             changed |-> state.changed \cup KeysOf(again),
                             appended |-> state.appended \cup KeysOf(again)],
                       [out |-> template \o assignments, changed |-> KeysOf(assignments), appended |-> {}],
                       Rounds)
  IN IF project = <<>> THEN template ELSE read.out

-----------------------------------------------------------------------------
(* The two readers. Dotenv reads in order, a reference being the value so   *)
(* far; compose resolves the values of an env_file against the environment  *)
(* the whole of the same file gives.                                        *)
Expand(value, env) ==
  FlattenSeq([i \in DOMAIN value |-> IF value[i] \in EnvKeys THEN env[value[i]] ELSE <<value[i]>>])
ReadInOrder(lines) ==
  FoldLeft(LAMBDA env, e : [env EXCEPT ![e.key] = Expand(e.value, env)], [k \in EnvKeys |-> <<>>], lines)
ReadWhole(lines) ==
  [k \in EnvKeys |-> Expand(LastValues(lines)[k], ReadInOrder(lines))]

(* What the project means: each key has one definition, the project's last  *)
(* or the template's, and the references are resolved among those.          *)
Definitions(template, project) == LastValues(template \o Assignments(template, project))
Resolve(env, definitions) == [k \in EnvKeys |-> Expand(definitions[k], env)]
Meant(template, project) ==
  LET definitions == Definitions(template, project)
  IN FoldLeft(LAMBDA env, k : Resolve(env, definitions), [k \in EnvKeys |-> <<>>], SetToSeq(EnvKeys))

(* Project files whose meaning does not depend on the reader to begin with: *)
(* each key is set once and not through itself, a reference to a key the    *)
(* file sets stands after the assignment, and no generated key uses a       *)
(* project key that follows a generated one.                                *)
Uses(definitions) ==
  FoldLeft(LAMBDA uses, n : [k \in EnvKeys |-> uses[k] \cup UNION {uses[j] : j \in uses[k]}],
           [k \in EnvKeys |-> References(definitions[k])], SetToSeq(EnvKeys))
Orderly(template, project) ==
  LET uses == Uses(Definitions(template, project))
      set == KeysOf(project)
      lines == Assignments(template, project)
  IN /\ \A k \in EnvKeys : k \notin uses[k]
     /\ \A i \in DOMAIN lines : \A j \in i + 1 .. Len(lines) : lines[j].key \notin References(lines[i].value) \cup {lines[i].key}
     /\ \A e \in ToSet(template) : e.key \notin set =>
          \A k \in References(e.value) \cap set : uses[k] \subseteq set \cup {j \in EnvKeys : uses[j] \cap set = {}}
=============================================================================
