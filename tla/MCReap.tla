-------------------------------- MODULE MCReap --------------------------------
(* Two desktops to start from: two sessions of one app, each with a server,  *)
(* reap below a shell of the first, and an orphaned command; and a terminal  *)
(* whose shell runs reap, beside two orphans and a session with its server.  *)
EXTENDS Reap, TLC
Process(parent, kind) == [parent |-> parent, born |-> 0, kind |-> kind]
Desktop == <<Process(0, "explorer"), Process(1, "app"), Process(2, "session"),
             Process(2, "session"), Process(3, "shell"), Process(5, "reap"),
             Process(3, "server"), Process(4, "server"), Process(0, "command"), Gone>>
Plain == <<Process(0, "explorer"), Process(1, "terminal"), Process(2, "shell"), Gone,
           Process(3, "shell"), Process(5, "reap"), Process(0, "worker"),
           Process(9, "server"), Process(1, "session"), Process(4, "command")>>
Desktops == {Desktop, Plain}
PidsOfBoth == 1..10
=============================================================================
