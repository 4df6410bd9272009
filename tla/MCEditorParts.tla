---------------------------- MODULE MCEditorParts -----------------------------
(* The editor's parts on small instances.                                  *)
EXTENDS EditorParts

(* Texts over two distinct lines: short ones, some longer than             *)
(* PullThreshold, and one longer than MaxFile, which is cut.               *)
MCTexts ==
  UNION {[1 .. n -> {"a", "b"}] : n \in 0 .. 3}
    \cup {<<"b", "b", "b", "b", "b">>, <<"a", "b", "b", "b", "a">>,
          <<"b", "b", "a", "b", "b">>, <<"b", "a", "b", "b", "b", "a">>,
          <<"b", "a", "b", "b", "b", "a", "a">>}

(* Two folders that share a path, a secret, and a link.                    *)
MCFiles   == {<<1, "a">>, <<1, "b">>, <<1, "s">>, <<2, "a">>}
MCOutside == <<0, "x">>
MCLink    == <<1, "l">>

(* Folders whose deepest file is below the first directory, one with a     *)
(* hidden directory that holds things, one with something else than files. *)
MCTree(parents, dirs, others, hidden) ==
  [parent |-> parents, hidden |-> hidden,
   kind |-> [n \in DOMAIN parents |-> IF n \in dirs THEN "directory"
                                     ELSE IF n \in others THEN "other" ELSE "file"]]

MCTrees ==
  {MCTree(<<0, 0, 1, 1, 3, 2>>, {1, 2, 3}, {}, {}),
   MCTree(<<0, 0, 1, 1, 3, 2>>, {1, 2, 3}, {6}, {3}),
   MCTree(<<0, 0, 1, 2, 4, 4>>, {1, 2, 4}, {}, {1})}
=============================================================================
