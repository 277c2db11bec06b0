---------------------------- MODULE MCProjectFiles ----------------------------
(* Two terminals extend a project: one recipe with a config section and a   *)
(* key of the environment, as blackfire has, one with a file, as varnish    *)
(* has. The projects to start from: a fresh one, one that has everything,    *)
(* one with empty keys, odd documents, symlinks, and .env files whose       *)
(* references cross the generated one.                                      *)
EXTENDS ProjectFiles, TLC

MCRecipes == {"blackfire", "varnish"}
Line(k, v) == [key |-> k, value |-> v, by |-> "mine"]
Add(names, force) == [names |-> names, force |-> force]
MCArguments == { Add(<<"blackfire">>, FALSE), Add(<<"blackfire">>, TRUE), Add(<<"varnish", "varnish">>, TRUE),
                 Add(<<"varnish", "blackfire">>, FALSE), Add(<<"varnish", "varnsih">>, FALSE) }

MCKeys == {"DOMAIN", "URL", "LINK", "HOST", "TOKEN"}
MCTemplate == << [key |-> "DOMAIN", value |-> <<"localhost">>], [key |-> "URL", value |-> <<"http", "DOMAIN">>],
                 [key |-> "LINK", value |-> <<"URL", "path">>] >>
Symmetry == Permutations(Terminals)

Fresh ==
  [compose |-> [there |-> FALSE, several |-> FALSE, services |-> "absent", service |-> [r \in MCRecipes |-> "none"]],
   config |-> [loads |-> "yes", image |-> "absent", dockerfile |-> "none", list |-> "absent",
               extension |-> "none", ini |-> "absent", directive |-> "none"],
   env |-> [there |-> FALSE, lines |-> <<>>], files |-> [r \in MCRecipes |-> "none"],
   dockerfile |-> [path \in {"default", "own"} |-> "none"], local |-> "none", gitignore |-> "none", outside |-> {}]

Written == [Fresh.compose EXCEPT !.there = TRUE, !.services = "map", !.service["varnish"] = "mine"]
Extended == [Fresh.config EXCEPT !.image = "map", !.list = "list", !.extension = "mine"]
EnvFile(l) == [there |-> TRUE, lines |-> l]

LivedIn == [Fresh EXCEPT !.compose = Written, !.config = [Extended EXCEPT !.ini = "map", !.directive = "mine"],
              !.env = EnvFile(<<Line("HOST", <<"here">>), Line("TOKEN", <<"secret">>)>>),
              !.files["varnish"] = "mine", !.dockerfile["default"] = "layer", !.gitignore = "plain"]
Blank == [Fresh EXCEPT !.compose.there = TRUE, !.compose.services = "null", !.config.image = "null", !.config.ini = "null",
            !.env = EnvFile(<<>>), !.dockerfile["default"] = "other", !.gitignore = "plain"]
Odd == { [Fresh EXCEPT !.compose.there = TRUE, !.compose.several = TRUE, !.gitignore = "unreadable"],
         [Fresh EXCEPT !.compose.there = TRUE, !.compose.services = "alias", !.config.image = "alias"],
         [Fresh EXCEPT !.compose.there = TRUE, !.compose.services = "scalar", !.config.loads = "no"],
         [Fresh EXCEPT !.config = [Extended EXCEPT !.list = "alias"], !.gitignore = "lists"],
         [Fresh EXCEPT !.config = [Extended EXCEPT !.list = "null", !.extension = "none", !.loads = "as YAML"]],
         [Fresh EXCEPT !.config = [Extended EXCEPT !.dockerfile = "own", !.ini = "file", !.list = "absent", !.extension = "none"]] }
Linked == {[Fresh EXCEPT !.outside = {f}] : f \in {"compose", "config", "env", "files", "gitignore"}}
(* Projects in which little but the environment can be written.             *)
Closed == [Fresh EXCEPT !.compose.there = TRUE, !.compose.several = TRUE, !.config.loads = "no"]
Values == {<<"other">>, <<"HOST">>, <<"DOMAIN", "more">>, <<"LINK">>}
Mixed == {[Closed EXCEPT !.env = EnvFile(<<Line(p[1], v), Line(p[2], w), Line("TOKEN", <<"HOST">>)>>)] :
            p \in {<<"DOMAIN", "HOST">>, <<"HOST", "DOMAIN">>, <<"URL", "HOST">>, <<"HOST", "LINK">>},
            v \in Values, w \in Values}

MCDisks == {Fresh, LivedIn, Blank} \cup Odd \cup Linked \cup Mixed
MCEdits ==
  { <<"compose", Written>>, <<"files", LivedIn.files>>, <<"config", Extended>>,
    <<"env", EnvFile(<<Line("HOST", <<"here">>)>>)>>, <<"dockerfile", Blank.dockerfile>> }
=============================================================================
