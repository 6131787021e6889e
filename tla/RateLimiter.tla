---------------------------- MODULE RateLimiter ----------------------------
(***************************************************************************)
(* The sliding-window rate limiter of the HTTP API: per client and kind of *)
(* request a deque of the times at which requests were admitted            *)
(* (src/vpo/server/rate_limit.py).  Everything here runs in the thread of  *)
(* the event loop, without an await: each operation is one step.           *)
(*                                                                         *)
(* A configuration is [enabled, get, mutate, window], the window being in  *)
(* seconds; the clock is finer.                                            *)
(***************************************************************************)
EXTENDS Integers, Sequences

CONSTANTS
    Clients,        \* the addresses requests come from
    Configs,        \* the configurations that can be in force
    Default,        \* the one a file without settings means
    Second,         \* clock ticks of a second
    CleanupEvery,   \* _CLEANUP_INTERVAL, in ticks
    None,           \* an absent value
    MaxClock        \* bound: how far the clock runs

ASSUME LimiterAssumption ==
    /\ Second \in Nat \ {0} /\ CleanupEvery \in Nat /\ MaxClock \in Nat
    /\ Default \in Configs
    /\ \A c \in Configs :
         /\ c.enabled \in BOOLEAN
         /\ c.get \in Nat \ {0} /\ c.mutate \in Nat \ {0} /\ c.window \in Nat \ {0}
    /\ None \notin Nat

VARIABLES
    clock,        \* time.monotonic()
    config,       \* the configuration in force
    counters,     \* counters[kind][client]: the deque, << >> also when there is none
    lastCleanup,  \* when stale counters were last removed
    admitted,     \* history: the times admitted since config is in force
    changed,      \* history: when config was changed last, None when it never was
    told          \* history: told[kind][client], when a refused client was told to return

limiterVars == <<clock, config, counters, lastCleanup, admitted, changed, told>>
deques == <<counters, lastCleanup, admitted, told>>

Kinds == {"get", "mutate"}
PerClient(S) == [Kinds -> [Clients -> S]]
Everywhere(x) == [k \in Kinds |-> [c \in Clients |-> x]]

LimiterInit ==
    /\ clock = 0
    /\ config \in Configs
    /\ counters = Everywhere(<< >>)
    /\ lastCleanup = 0
    /\ admitted = Everywhere(<< >>)
    /\ changed = None
    /\ told = Everywhere(None)

Limit(kind) == IF kind = "mutate" THEN config.mutate ELSE config.get
Window == config.window * Second

\* How many entries record_and_check() pops from the left of a deque.
Popped(times) ==
    {n \in 0 .. Len(times) :
        /\ \A i \in 1 .. n : times[i] < clock - Window
        /\ n < Len(times) => times[n + 1] >= clock - Window}

Without(times, n) == SubSeq(times, n + 1, Len(times))

\* Mutant: the age of the oldest entry decides.
StaleByOldest(times) == times # << >> => clock - times[1] >= Window

\* A counter without a recent request.
Stale(times) == times # << >> => clock - times[Len(times)] >= Window

CleanupDue == clock - lastCleanup >= CleanupEvery

\* The counters as _maybe_cleanup() leaves them.
Cleaned ==
    IF CleanupDue
      THEN [k \in Kinds |-> [c \in Clients |->
              IF Stale(counters[k][c]) THEN << >> ELSE counters[k][c]]]
      ELSE counters

\* Mutant: the time of the next clean-up is kept.
CleanupAhead == lastCleanup' = IF CleanupDue THEN clock + CleanupEvery ELSE lastCleanup

Cleanup == lastCleanup' = IF CleanupDue THEN clock ELSE lastCleanup

\* Mutant: the wait is rounded down.
RetryAfterFloor(times) ==
    LET wait == Window - (clock - times[1])
    IN  IF wait \div Second < 1 THEN Second ELSE (wait \div Second) * Second

\* The Retry-After header, in whole seconds: at least one, rounded up.
RetryAfter(times) ==
    LET wait == Window - (clock - times[1])
        secs == (wait + Second - 1) \div Second
    IN  IF secs < 1 THEN Second ELSE secs * Second

\* The configuration in force is older than all that the deques hold.
Steady == changed = None \/ changed < clock - Window

\* check() of a request: admitted and recorded, ...
Admit(kind, c) ==
    /\ config.enabled
    /\ \E n \in Popped(Cleaned[kind][c]) :
         LET times == Without(Cleaned[kind][c], n)
         IN  /\ Len(times) < Limit(kind)
             /\ counters' = [Cleaned EXCEPT ![kind][c] = Append(times, clock)]
    /\ Cleanup
    /\ admitted' = [admitted EXCEPT ![kind][c] = Append(@, clock)]
    /\ told' = [told EXCEPT ![kind][c] = None]
    /\ UNCHANGED <<clock, config, changed>>

\* ... or refused, with the time after which to try again.
Refuse(kind, c) ==
    /\ config.enabled
    /\ \E n \in Popped(Cleaned[kind][c]) :
         LET times == Without(Cleaned[kind][c], n)
         IN  /\ Len(times) >= Limit(kind)
             /\ counters' = [Cleaned EXCEPT ![kind][c] = times]
             /\ told' = IF told[kind][c] = None /\ Steady
                          THEN [told EXCEPT ![kind][c] = clock + RetryAfter(times)]
                          ELSE told
    /\ Cleanup
    /\ UNCHANGED <<clock, config, admitted, changed>>

\* Limiting is switched off: nothing is recorded.
Pass == ~config.enabled /\ UNCHANGED limiterVars

\* reconfigure(): the deques stay as they are.
Reconfigure(new) ==
    /\ config' = new
    /\ admitted' = Everywhere(<< >>)
    /\ changed' = clock
    /\ told' = Everywhere(None)
    /\ UNCHANGED <<clock, counters, lastCleanup>>

Tick == clock < MaxClock /\ clock' = clock + 1 /\ UNCHANGED <<config, changed, deques>>

----------------------------------------------------------------------------
LimiterTypeOK ==
    /\ clock \in Nat /\ lastCleanup \in Nat /\ lastCleanup <= clock
    /\ config \in Configs
    /\ counters \in PerClient(Seq(Nat)) /\ admitted \in PerClient(Seq(Nat))
    /\ changed \in Nat \cup {None}
    /\ told \in PerClient(Nat \cup {None})

\* Between any request and the one admitted a full limit earlier lies a whole window:
\* no window ever holds more than the limit in force, whatever a clean-up forgets and
\* however requests, clean-ups and reloads of the configuration interleave.
WindowHolds ==
    \A kind \in Kinds : \A c \in Clients :
      LET times == admitted[kind][c]
      IN  \A i \in DOMAIN times :
            i > Limit(kind) => times[i] - times[i - Limit(kind)] >= Window

\* A client that was refused and stays away for longer than the Retry-After it was given
\* is admitted, if the configuration had been in force for a window when it was refused
\* (a limit that was just lowered is exceeded by what was admitted before, and the
\* header then promises too much) and is not changed while the client waits.
RetryTells ==
    \A kind \in Kinds : \A c \in Clients :
      (told[kind][c] # None /\ clock > told[kind][c]) =>
        \A n \in Popped(counters[kind][c]) : Len(counters[kind][c]) - n < Limit(kind)
=============================================================================
