------------------------------- MODULE MCStore -------------------------------
(***************************************************************************)
(* The values of Store's constants that a cfg cannot write.                *)
(***************************************************************************)
EXTENDS Store, TLC

CONSTANTS p, q

MCSymmetry == Permutations(Requests)

\* Merge: one feature whose two tasks are done, reviewed, merged and redrained.
MCFeatureOf == [t \in MergeTasks |-> "fa"]

\* Roadmap: two features, one with two tasks.
MCTaskSlugs == [f \in Slugs |-> IF f = "f" THEN {"t", "u"} ELSE {"v"}]

\* Tiers: a feature whose declared steps repeat the front's and whose contract
\* proves a gesture; one that a root unit covers twice and whose gesture
\* proves nothing; one whose declaration is malformed and whose service leaks.
Tree(files, gates, manifest, steps, green) ==
  [files |-> files, gates |-> gates, manifest |-> manifest, steps |-> steps, green |-> green,
   legible |-> TRUE, markers |-> {"m"}, after |-> {}, rest |-> {"m"}, clicked |-> {"m"}, clicks |-> TRUE,
   leaks |-> FALSE]
File(web, suffix, rendered) == [web |-> web, suffix |-> suffix, rendered |-> rendered, markup |-> rendered]
Page == File(TRUE, "tsx", TRUE)
Go   == File(FALSE, "go", FALSE)
Gate(d) == <<"npm-run-gate", d>>
GoTest  == <<"go-test", "root">>
MCTrees ==
  {[Tree({Page, Go}, {"web"}, "sound", <<Gate("web"), GoTest>>, {Gate("web"), <<"npm-ci", "web">>, GoTest})
      EXCEPT !.after = {"a"}, !.clicked = {"m", "a"}],
   [Tree({Page, File(FALSE, "ts", FALSE)}, {"root"}, "absent", <<>>, {Gate("root")})
      EXCEPT !.after = {"a"}, !.rest = {"m", "a"}],
   [Tree({File(FALSE, "py", FALSE), File(FALSE, "md", FALSE), Go}, {"pyproject"}, "malformed", <<GoTest>>,
         {<<s, "root">> : s \in {"ruff", "mypy", "pytest"}} \cup {GoTest})
      EXCEPT !.leaks = TRUE]}
=============================================================================
