------------------------------- MODULE MCViews -------------------------------
(* Two servers of the monitored port, one after the other or overlapping, with     *)
(* chains of two and three chunks (the CPU tier of the second holds two chains),   *)
(* and a wrapper whose command line names module and port but is not python.       *)
(* --url, if given, names a port nobody answers on.                                *)
EXTENDS Views, TLC

Server(port, maxLen, cpu, fs) == [module |-> TRUE, python |-> TRUE, port |-> port,
                                  maxLen |-> maxLen, cpu |-> cpu, fs |-> fs]

MCArgv == 1 :> Server(8000, 5, 4, 8) @@ 2 :> Server(8000, 8, 12, None)
       @@ 3 :> [Server(8000, 5, 4, None) EXCEPT !.python = FALSE]
MCRankOf == "f0" :> 0 @@ "f1" :> 1
MCSize == "f0" :> 1 @@ "f1" :> 1
=============================================================================
