------------------------------ MODULE MCDaemon ------------------------------
(***************************************************************************)
(* Daemon for TLC: one client, windows of two and of one second of two     *)
(* ticks, limits of two reads and one write, or of one of each.            *)
(***************************************************************************)
EXTENDS Daemon

MCStrict == [enabled |-> TRUE, get |-> 1, mutate |-> 1, window |-> 1]
MCDefault == [enabled |-> TRUE, get |-> 2, mutate |-> 1, window |-> 2]
MCOff == [enabled |-> FALSE, get |-> 2, mutate |-> 1, window |-> 2]
MCConfigs == {MCStrict, MCDefault, MCOff}

MCDefaults == [limit |-> MCDefault, other |-> 0]
MCQuiet == [limit |-> MCOff, other |-> 0]
MCSettings == {MCDefaults, [limit |-> MCStrict, other |-> 0], MCQuiet, [MCQuiet EXCEPT !.other = 1]}

\* Requests against limits, with and without --config, with limits in the environment;
\* and stops, of a daemon that prunes or not, after a request or two.
MCStart == [file |-> MCDefaults, home |-> MCDefaults, env |-> None, prune |-> FALSE,
            missing |-> FALSE, ticks |-> MaxClock, stops |-> 0]
MCStarts ==
    {MCStart, [MCStart EXCEPT !.file = MCQuiet], [MCStart EXCEPT !.env = MCStrict]}
    \cup {[MCStart EXCEPT !.file = MCQuiet, !.home = MCQuiet, !.prune = p, !.missing = m,
                          !.ticks = 0, !.stops = 1] : p, m \in BOOLEAN}
=============================================================================
