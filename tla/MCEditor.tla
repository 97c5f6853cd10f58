------------------------------ MODULE MCEditor ------------------------------
(* A workspace /s, also the name of a project, whose HOWTO_BUILD.txt is    *)
(* /s/f; a user types the path of that file from the root, /, downwards.   *)
EXTENDS Editor, TLC

MCRoot == <<ROOT>>
MCTyped == {<<"s", "f">>}
MCTypedDirs == {<<ROOT, "s">>, <<"s", "f">>}
MCForeign == {<<ROOT, "s", "f">>}
MCDisk0 == <<ROOT>> :> Dir @@ <<ROOT, "s">> :> Dir @@ <<ROOT, "s", "f">> :> Empty
=============================================================================
