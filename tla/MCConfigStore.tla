--------------------------- MODULE MCConfigStore ---------------------------
(* Two files, one of them with a default; the web's SAVE and a console. *)
EXTENDS ConfigStore, FiniteSets

CONSTANTS web, console, hosts, netcfg, old, new

MCSessions == {web, console}
MCWeb == {web}
MCFiles == {hosts, netcfg}
MCValues == {old, new}
MCDefaults == [f \in MCFiles |-> IF f = netcfg THEN old ELSE None]

Present(c) == Cardinality({f \in MCFiles : c[f] # None})
(* Each file fills a block. *)
BlockPerFile(c) == IF Present(c) = 0 THEN 1 ELSE Present(c)
=============================================================================
