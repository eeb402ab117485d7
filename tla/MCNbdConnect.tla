--------------------------- MODULE MCNbdConnect ---------------------------
(* Two connections, each from any of three hosts: the first is listed in   *)
(* nbd_server.allow and has a file, the second is not listed, the third is *)
(* listed but has no file.                                                 *)
EXTENDS NbdConnect

ThreeHosts == {<<"10.0.0.", "1">>, <<"10.0.0.", "2">>, <<"10.0.0.", "3">>}
Allow      == {<<"10.0.0.", "1", "eol">>, <<"10.0.0.", "3", "eol">>}
AnyFile    == {PerClient}
NoFiles    == {<<"10.0.0.", "3">>}
NoneOrAll  == {{}, {1, 2}}
===========================================================================
