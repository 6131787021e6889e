--------------------------- MODULE BatchRunProofs ---------------------------
(***************************************************************************)
(* Theorems about BatchRun, for every batch, number of threads, list of    *)
(* policies and fault: what a thread lets run of a policy, what the jobs   *)
(* and the results say of it, and what begins after a stop.                *)
(*                                                                         *)
(* What is true of a file is stated of the values the variables have for   *)
(* it: w of work, js of jobs, m of media, l of library, future of future.  *)
(***************************************************************************)
EXTENDS BatchRun, FiniteSetTheorems, TLAPS

Outcomes == {"pending", "completed", "failed", "skipped"}
Statuses == {"none", "running", "completed", "failed"}
Verdicts == {"none", "ok", "failed", "notInLibrary"}
Futures  == {"pending", "running", "finished", "cancelled"}

PhasesOf(w) == Policies[w.policy].phases

\* Where a thread is in its list of policies, and in the phases of one of them.
WorkType(w) ==
    /\ w \in [step : Steps, policy : DOMAIN Policies, phase : Nat \ {0}, succeeded : BOOLEAN,
              outcome : [Names -> Outcomes], modified : SUBSET Names, failed : SUBSET Names,
              known : {w.known}]
    /\ w.phase <= Len(PhasesOf(w)) + 1
    /\ w.step = "phase" => w.phase <= Len(PhasesOf(w))

\* No phase has run yet.
Untouched(w) ==
    /\ w.phase = 1 /\ w.failed = {} /\ w.modified = {}
    /\ w.outcome = [n \in Names |-> "pending"]

\* The phases are taken in their order,
InOrder(w) ==
    /\ w.step \in {"between", "job", "refused", "unknown"} => Untouched(w)
    /\ \A k \in DOMAIN PhasesOf(w) :
         k >= w.phase => w.outcome[PhasesOf(w)[k].name] = "pending"

\* with an outcome each,
FailuresKnown(w) == \A n \in Names : n \in w.failed <=> w.outcome[n] = "failed"

\* on those they depend on,
DependenciesMet(w) ==
    \A k \in DOMAIN PhasesOf(w) :
      w.outcome[PhasesOf(w)[k].name] \in {"completed", "failed"} =>
        \A d \in PhasesOf(w)[k].dependsOn : w.outcome[d] = "completed"

LetsGoOn(w, j) == EffectiveOnError(Policies[w.policy], PhasesOf(w)[j]) = "continue"

\* and while they last, each that failed lets the others go on.
ModesKept(w) ==
    /\ \A j, k \in DOMAIN PhasesOf(w) :
         j < k /\ PhasesOf(w)[j].name \in w.failed /\ ~LetsGoOn(w, j)
         => w.outcome[PhasesOf(w)[k].name] = "pending"
    /\ w.step = "phase" =>
         \A j \in DOMAIN PhasesOf(w) :
           j < w.phase /\ PhasesOf(w)[j].name \in w.failed => LetsGoOn(w, j)

PhasesInv(w) == InOrder(w) /\ FailuresKnown(w) /\ DependenciesMet(w) /\ ModesKept(w)

\* The policies are taken in their order, each with a job of its own that is
\* running while the policy is.
JobsInv(future_f, w, js) ==
    /\ future_f # "running" => w = Idle
    /\ future_f \in {"pending", "cancelled"} => \A p \in DOMAIN Policies : js[p] = "none"
    /\ future_f = "running" =>
         /\ \A p \in DOMAIN Policies : p > w.policy => js[p] = "none"
         /\ js[w.policy] = IF w.step \in {"between", "job"} THEN "none" ELSE "running"
         /\ w.succeeded => \A p \in DOMAIN Policies : p < w.policy => js[p] = "completed"

\* As long as nothing has failed, the library has the file as it is or not at all.
LibraryInv(future_f, w, js, m, l) ==
    /\ future_f \in {"pending", "running"}
    /\ w.step \in {"between", "job", "phase", "record"} /\ w.failed = {}
    /\ \A p \in 1..(w.policy - 1) : js[p] = "completed"
    => /\ l \in {None, m}
       /\ w.step = "phase" => w.known = m /\ l = m

\* A verdict stays what it was; it may overstate the file only to a main thread
\* that no longer asks.
VerdictInv(future_f, verdict_f, result_f, js, stopped) ==
    /\ verdict_f # "none" => future_f = "finished"
    /\ verdict_f = "ok" => stopped \/ \A p \in DOMAIN Policies : js[p] = "completed"
    /\ result_f = "ok" => /\ future_f = "finished"
                          /\ \A p \in DOMAIN Policies : js[p] = "completed"

FileInv(f) ==
    /\ WorkType(work[f]) /\ PhasesInv(work[f])
    /\ JobsInv(future[f], work[f], jobs[f])
    /\ LibraryInv(future[f], work[f], jobs[f], media[f], library[f])
    /\ VerdictInv(future[f], verdict[f], results[f], jobs[f], stop)

\* What the variables range over, work aside.
BaseType ==
    /\ main \in {"collecting", "cancelling", "waiting", "done"} /\ stop \in BOOLEAN
    /\ future \in [Files -> Futures]
    /\ verdict \in [Files -> Verdicts] /\ results \in [Files -> Verdicts]
    /\ work = [f \in Files |-> work[f]]
    /\ media = [f \in Files |-> media[f]] /\ library = [f \in Files |-> library[f]]
    /\ renamed \subseteq Files
    /\ jobs \in [Files -> [DOMAIN Policies -> Statuses]]
    /\ faults \in 0..MaxFaults /\ late \in Nat
    /\ stop => main # "collecting"

Active   == {f \in Files : Running(f)}
Deciding == {f \in Files : In(f, "job")}

\* Each job created since the stop is of a thread that had decided on it before.
CountInv ==
    /\ Cardinality(Active) <= Workers
    /\ IF stop THEN late + Cardinality(Deciding) <= Workers ELSE late = 0

IInv ==
    /\ BaseType
    /\ \A f \in Files : FileInv(f)
    /\ CountInv
    /\ Cardinality(Orphans) <= faults

----------------------------------------------------------------------------
(* Policies, and the state of a thread between two phases.                 *)

LEMMA PolicyFacts ==
  ASSUME NEW p \in DOMAIN Policies
  PROVE  /\ p \in Nat \ {0} /\ p <= Len(Policies) /\ Len(Policies) \in Nat \ {0}
         /\ Len(Policies[p].phases) \in Nat \ {0}
         /\ DOMAIN Policies[p].phases = 1..Len(Policies[p].phases)
         /\ \A k \in DOMAIN Policies[p].phases :
              /\ Policies[p].phases[k].name \in Names
              /\ Policies[p].phases[k].dependsOn \subseteq Names
         /\ \A j, k \in DOMAIN Policies[p].phases :
              Policies[p].phases[j].name = Policies[p].phases[k].name => j = k
<1> DEFINE phases == Policies[p].phases
<1>1. /\ p \in Nat \ {0} /\ p <= Len(Policies) /\ Len(Policies) \in Nat \ {0}
      /\ Len(phases) \in Nat \ {0} /\ DOMAIN phases = 1..Len(phases)
      /\ \A k \in DOMAIN phases : phases[k].dependsOn \subseteq {phases[j].name : j \in 1..(k - 1)}
      /\ \A j, k \in DOMAIN phases : phases[j].name = phases[k].name => j = k
  BY BatchAssumption
<1>2. \A k \in DOMAIN phases : phases[k].name \in Names
  BY DEF Names, Range
<1>3. ASSUME NEW k \in DOMAIN phases, NEW j \in 1..(k - 1)
      PROVE  j \in DOMAIN phases
  BY <1>1
<1>4. QED
  BY <1>1, <1>2, <1>3

LEMMA FirstPolicy == 1 \in DOMAIN Policies
BY BatchAssumption

\* A policy that is about to begin.
LEMMA FreshWork ==
  ASSUME NEW p \in DOMAIN Policies, NEW b \in BOOLEAN,
         NEW w, w = Fresh(p, b)
  PROVE  /\ WorkType(w) /\ PhasesInv(w)
         /\ w.step = "between" /\ w.policy = p /\ w.succeeded = b /\ w.failed = {}
<1>1. /\ w.step = "between" /\ w.policy = p /\ w.phase = 1 /\ w.succeeded = b
      /\ w.outcome = [n \in Names |-> "pending"] /\ w.modified = {} /\ w.failed = {}
  BY DEF Fresh
<1>2. Len(PhasesOf(w)) \in Nat \ {0}
  BY <1>1, PolicyFacts DEF PhasesOf
<1>3. WorkType(w)
  <2>1. [n \in Names |-> "pending"] \in [Names -> Outcomes]
    BY DEF Outcomes
  <2>2. w \in [step : Steps, policy : DOMAIN Policies, phase : Nat \ {0}, succeeded : BOOLEAN,
               outcome : [Names -> Outcomes], modified : SUBSET Names, failed : SUBSET Names,
               known : {w.known}]
    BY <2>1 DEF Fresh, Steps
  <2>3. QED
    BY <1>1, <1>2, <2>2 DEF WorkType
<1>4. \A k \in DOMAIN PhasesOf(w) : PhasesOf(w)[k].name \in Names
  BY <1>1, PolicyFacts DEF PhasesOf
<1>5. PhasesInv(w)
  BY <1>1, <1>4 DEF PhasesInv, InOrder, FailuresKnown, DependenciesMet, ModesKept, Untouched
<1>6. QED
  BY <1>1, <1>3, <1>5

LEMMA IdleWork ==
  /\ WorkType(Idle) /\ PhasesInv(Idle)
  /\ Idle.step = "between" /\ Idle.policy = 1 /\ Idle.succeeded = TRUE /\ Idle.failed = {}
BY FreshWork, FirstPolicy DEF Idle

\* A step that is not the end of a phase,
Moved(w, s) == [w EXCEPT !.step = s]
Informed(w, s, known) == [w EXCEPT !.step = s, !.known = known]

\* and one that is.
NameOf(w) == PhasesOf(w)[w.phase].name
FailedWith(w, became) == IF became = "failed" THEN w.failed \cup {NameOf(w)} ELSE w.failed
Ended(w, became, mods, known, s) ==
    [w EXCEPT !.outcome = [w.outcome EXCEPT ![NameOf(w)] = became], !.modified = mods,
              !.failed = FailedWith(w, became), !.known = known,
              !.phase = w.phase + 1, !.step = s]

LEMMA MovedWork ==
  ASSUME NEW w, WorkType(w), PhasesInv(w), NEW s \in Steps, NEW known,
         s \in {"between", "job", "refused", "unknown", "phase"} => Untouched(w),
         NEW w2, (w2 = Moved(w, s) /\ known = w.known) \/ w2 = Informed(w, s, known)
  PROVE  /\ WorkType(w2) /\ PhasesInv(w2)
         /\ w2.step = s /\ w2.known = known /\ w2.failed = w.failed
         /\ w2.policy = w.policy /\ w2.succeeded = w.succeeded
<1>1. /\ w2.step = s /\ w2.known = known /\ w2.phase = w.phase /\ w2.outcome = w.outcome
      /\ w2.modified = w.modified /\ w2.failed = w.failed
      /\ w2.policy = w.policy /\ w2.succeeded = w.succeeded
  BY DEF WorkType, Moved, Informed
<1>2. /\ PhasesOf(w2) = PhasesOf(w) /\ Len(PhasesOf(w)) \in Nat \ {0}
      /\ DOMAIN PhasesOf(w) = 1..Len(PhasesOf(w))
  BY <1>1, PolicyFacts DEF WorkType, PhasesOf
<1>3. WorkType(w2)
  <2>1. w2 \in [step : Steps, policy : DOMAIN Policies, phase : Nat \ {0}, succeeded : BOOLEAN,
                outcome : [Names -> Outcomes], modified : SUBSET Names, failed : SUBSET Names,
                known : {w2.known}]
    BY <1>1 DEF WorkType, Moved, Informed
  <2>2. s = "phase" => w.phase = 1
    BY DEF Untouched
  <2>3. QED
    BY <1>1, <1>2, <2>1, <2>2 DEF WorkType
<1>4. PhasesInv(w2)
  <2>1. s \in {"between", "job", "refused", "unknown"} => Untouched(w2)
    BY <1>1 DEF Untouched
  <2>2. s = "phase" => w.failed = {}
    BY DEF Untouched
  <2>3. QED
    BY <1>1, <1>2, <2>1, <2>2
       DEF PhasesInv, InOrder, FailuresKnown, DependenciesMet, ModesKept, LetsGoOn
<1>5. QED
  BY <1>1, <1>3, <1>4

\* The end of a phase: of a later one if dependencies, error modes and outcomes let it
\* run.
LEMMA PhaseEnded ==
  ASSUME NEW w, WorkType(w), PhasesInv(w), w.step = "phase",
         NEW became \in {"completed", "failed", "skipped"},
         became # "skipped" => ~DependencyUnmet(PhasesOf(w)[w.phase], w.outcome),
         NEW s, s = "record" \/ (s = "phase" /\ w.phase # Len(PhasesOf(w))),
         became = "failed" /\ ~LetsGoOn(w, w.phase) => s = "record",
         NEW mods \in SUBSET Names, NEW known
  PROVE  LET w2 == Ended(w, became, mods, known, s)
         IN  /\ WorkType(w2) /\ PhasesInv(w2)
             /\ w2.step = s /\ w2.known = known /\ w2.failed = FailedWith(w, became)
             /\ w2.policy = w.policy /\ w2.succeeded = w.succeeded
<1> DEFINE phs == PhasesOf(w)
<1> PICK name : name = PhasesOf(w)[w.phase].name
  OBVIOUS
<1> PICK outcome : outcome = [w.outcome EXCEPT ![name] = became]
  OBVIOUS
<1> PICK fails : fails = IF became = "failed" THEN w.failed \cup {name} ELSE w.failed
  OBVIOUS
<1> PICK w2 : w2 = [w EXCEPT !.outcome = outcome, !.modified = mods, !.failed = fails,
                             !.known = known, !.phase = w.phase + 1, !.step = s]
  OBVIOUS
<1>0. Ended(w, became, mods, known, s) = w2 /\ FailedWith(w, became) = fails
  BY DEF Ended, FailedWith, NameOf
<1>1. /\ w2.step = s /\ w2.known = known /\ w2.phase = w.phase + 1 /\ w2.outcome = outcome
      /\ w2.modified = mods /\ w2.failed = fails
      /\ w2.policy = w.policy /\ w2.succeeded = w.succeeded
  BY DEF WorkType
<1>2. /\ PhasesOf(w2) = phs /\ Len(phs) \in Nat \ {0} /\ DOMAIN phs = 1..Len(phs)
      /\ w.phase \in Nat \ {0} /\ w.phase <= Len(phs) /\ w.phase \in DOMAIN phs
      /\ \A k \in DOMAIN phs : phs[k].name \in Names /\ phs[k].dependsOn \subseteq Names
      /\ \A j, k \in DOMAIN phs : phs[j].name = phs[k].name => j = k
  <2>1. PhasesOf(w2) = phs
    BY <1>1 DEF PhasesOf
  <2>2. w.policy \in DOMAIN Policies /\ w.phase \in Nat \ {0} /\ w.phase <= Len(phs)
    BY DEF WorkType
  <2>3. /\ Len(phs) \in Nat \ {0} /\ DOMAIN phs = 1..Len(phs)
        /\ \A k \in DOMAIN phs : phs[k].name \in Names /\ phs[k].dependsOn \subseteq Names
        /\ \A j, k \in DOMAIN phs : phs[j].name = phs[k].name => j = k
    BY <2>2, PolicyFacts DEF PhasesOf
  <2>4. w.phase \in DOMAIN phs
    BY <2>2, <2>3
  <2>5. QED
    BY <2>1, <2>2, <2>3, <2>4
<1>3. /\ name \in Names /\ outcome \in [Names -> Outcomes] /\ fails \in SUBSET Names
      /\ w.outcome[name] = "pending"
  BY <1>2 DEF WorkType, Outcomes, PhasesInv, InOrder
<1>4. \A n \in Names : outcome[n] = IF n = name THEN became ELSE w.outcome[n]
  BY <1>3 DEF WorkType
<1>5. WorkType(w2)
  <2>1. w2 \in [step : Steps, policy : DOMAIN Policies, phase : Nat \ {0}, succeeded : BOOLEAN,
                outcome : [Names -> Outcomes], modified : SUBSET Names, failed : SUBSET Names,
                known : {w2.known}]
    <3>1. w.phase + 1 \in Nat \ {0} /\ s \in Steps
      BY <1>2 DEF Steps
    <3>2. QED
      BY <1>1, <1>3, <3>1 DEF WorkType
  <2>2. w.policy \in DOMAIN Policies /\ w.phase + 1 \in Nat \ {0}
    BY <1>2 DEF WorkType
  <2>3. w2.step = "phase" => w2.phase <= Len(phs)
    BY <1>1, <1>2
  <2>4. QED
    BY <1>1, <1>2, <2>1, <2>2, <2>3 DEF WorkType
<1>6. ASSUME NEW k \in DOMAIN phs, k >= w.phase + 1
      PROVE  outcome[phs[k].name] = "pending"
  BY <1>2, <1>4, <1>6 DEF PhasesInv, InOrder
<1>7. \A n \in Names : n \in fails <=> outcome[n] = "failed"
  BY <1>3, <1>4 DEF PhasesInv, FailuresKnown
<1>8. ASSUME NEW k \in DOMAIN phs, outcome[phs[k].name] \in {"completed", "failed"},
             NEW d \in phs[k].dependsOn
      PROVE  outcome[d] = "completed"
  <2>1. d \in Names /\ phs[k].name \in Names
    BY <1>2
  <2>2. w.outcome[d] = "completed"
    <3>1. CASE k = w.phase
      BY <1>2, <1>3, <1>4, <1>8, <3>1 DEF DependencyUnmet
    <3>2. CASE k # w.phase
      <4>1. phs[k].name # name
        BY <1>2, <3>2
      <4>2. w.outcome[phs[k].name] \in {"completed", "failed"}
        BY <1>4, <1>8, <2>1, <4>1
      <4>3. QED
        BY <4>2 DEF PhasesInv, DependenciesMet
    <3>3. QED
      BY <3>1, <3>2
  <2>3. QED
    BY <1>3, <1>4, <2>1, <2>2
<1>9. ASSUME NEW j \in DOMAIN phs, NEW k \in DOMAIN phs, j < k, phs[j].name \in fails,
             ~LetsGoOn(w, j)
      PROVE  outcome[phs[k].name] = "pending"
  <2>1. CASE j = w.phase
    BY <1>2, <1>6, <1>9, <2>1
  <2>2. CASE j # w.phase
    <3>1. phs[j].name # name
      BY <1>2, <2>2
    <3>2. phs[j].name \in w.failed
      BY <1>9, <3>1
    <3>3. w.outcome[phs[k].name] = "pending"
      BY <1>9, <3>2 DEF PhasesInv, ModesKept
    <3>4. ~(j < w.phase)
      BY <1>9, <3>2 DEF PhasesInv, ModesKept
    <3>5. k # w.phase
      BY <1>2, <1>9, <3>4
    <3>6. QED
      BY <1>2, <1>4, <3>3, <3>5
  <2>3. QED
    BY <2>1, <2>2
<1>10. ASSUME s = "phase", NEW j \in DOMAIN phs, j < w.phase + 1, phs[j].name \in fails
       PROVE  LetsGoOn(w, j)
  <2>1. CASE j = w.phase
    <3>1. name \in fails /\ name \notin w.failed
      BY <1>2, <1>3, <1>10, <2>1 DEF PhasesInv, FailuresKnown
    <3>2. became = "failed"
      BY <3>1
    <3>3. QED
      BY <1>10, <2>1, <3>2
  <2>2. CASE j # w.phase
    <3>1. phs[j].name # name /\ j < w.phase
      BY <1>2, <1>10, <2>2
    <3>2. phs[j].name \in w.failed
      BY <1>10, <3>1
    <3>3. QED
      BY <3>1, <3>2 DEF PhasesInv, ModesKept
  <2>3. QED
    BY <2>1, <2>2
<1>11. PhasesInv(w2)
  <2>1. InOrder(w2)
    BY <1>1, <1>2, <1>6 DEF InOrder
  <2>2. FailuresKnown(w2)
    BY <1>1, <1>7 DEF FailuresKnown
  <2>3. DependenciesMet(w2)
    BY <1>1, <1>2, <1>8 DEF DependenciesMet
  <2>4. \A j \in DOMAIN phs : LetsGoOn(w2, j) <=> LetsGoOn(w, j)
    BY <1>1, <1>2 DEF LetsGoOn
  <2>5. ModesKept(w2)
    <3>1. /\ w2.outcome = outcome /\ w2.failed = fails /\ w2.step = s
          /\ w2.phase = w.phase + 1 /\ PhasesOf(w2) = phs
      BY <1>1, <1>2
    <3>2. \A j, k \in DOMAIN phs :
            j < k /\ phs[j].name \in fails /\ ~LetsGoOn(w2, j) => outcome[phs[k].name] = "pending"
      BY <1>9, <2>4
    <3>3. s = "phase" => \A j \in DOMAIN phs :
                           j < w.phase + 1 /\ phs[j].name \in fails => LetsGoOn(w2, j)
      BY <1>10, <2>4
    <3>4. QED
      BY <3>1, <3>2, <3>3 DEF ModesKept
  <2>6. QED
    BY <2>1, <2>2, <2>3, <2>5 DEF PhasesInv
<1>12. QED
  BY <1>0, <1>1, <1>5, <1>11

----------------------------------------------------------------------------
(* What the parts of a thread's step do to the variables.                  *)

\* A step of the thread of f leaves the main thread and other files alone,
Frame(f) ==
    /\ main' = main /\ stop' = stop /\ results' = results
    /\ future' \in [Files -> Futures] /\ verdict' \in [Files -> Verdicts]
    /\ work' = [g \in Files |-> work'[g]]
    /\ \A g \in Files : g # f =>
         future'[g] = future[g] /\ verdict'[g] = verdict[g] /\ work'[g] = work[g]

\* and either ends with a verdict or goes on.
Returned(f, v) == future'[f] = "finished" /\ verdict'[f] = v /\ work'[f] = Idle
Kept(f) == future'[f] = future[f] /\ verdict'[f] = verdict[f]

\* It may change the job of the policy,
JobFrame(f) ==
    /\ jobs' \in [Files -> [DOMAIN Policies -> Statuses]]
    /\ \A g \in Files : g # f => jobs'[g] = jobs[g]
    /\ \A p \in DOMAIN Policies : p # work[f].policy => jobs'[f][p] = jobs[f][p]

\* and the file.
MediaFrame(f) ==
    /\ media' = [g \in Files |-> media'[g]] /\ library' = [g \in Files |-> library'[g]]
    /\ renamed' \subseteq Files
    /\ \A g \in Files : g # f => media'[g] = media[g] /\ library'[g] = library[g]

LEMMA ReturnFrame ==
  ASSUME BaseType, NEW f \in Files, NEW v \in Verdicts, Return(f, v)
  PROVE  Frame(f) /\ Returned(f, v)
BY DEF BaseType, Return, Frame, Returned, Futures

LEMMA WorkFrame ==
  ASSUME BaseType, NEW f \in Files, NEW w, work' = [work EXCEPT ![f] = w], UNCHANGED batch
  PROVE  Frame(f) /\ Kept(f) /\ work'[f] = w
BY DEF BaseType, Frame, Kept, batch

LEMMA EndPolicyFrame ==
  ASSUME BaseType, NEW f \in Files, WorkType(work[f]), NEW ok \in BOOLEAN, EndPolicy(f, ok)
  PROVE  LET succeeded == work[f].succeeded /\ ok
         IN  /\ Frame(f)
             /\ \/ /\ Returned(f, VerdictOf(succeeded))
                   /\ work[f].policy = Len(Policies) \/ ~ok
                \/ /\ Kept(f) /\ work'[f] = Fresh(work[f].policy + 1, succeeded)
                   /\ work[f].policy + 1 \in DOMAIN Policies
<1> PICK succeeded \in BOOLEAN : succeeded <=> work[f].succeeded /\ ok
  OBVIOUS
<1>1. VerdictOf(succeeded) \in Verdicts /\ VerdictOf(work[f].succeeded /\ ok) = VerdictOf(succeeded)
  BY DEF VerdictOf, Verdicts
<1>2. CASE Return(f, VerdictOf(work[f].succeeded /\ ok)) /\ (work[f].policy = Len(Policies) \/ ~ok)
  BY <1>1, <1>2, ReturnFrame
<1>3. CASE /\ work' = [work EXCEPT ![f] = Fresh(work[f].policy + 1, work[f].succeeded /\ ok)]
           /\ UNCHANGED batch /\ work[f].policy # Len(Policies)
  <2>1. work[f].policy + 1 \in DOMAIN Policies
    <3>1. work[f].policy \in DOMAIN Policies
      BY DEF WorkType
    <3>2. QED
      BY <1>3, <3>1, BatchAssumption
  <2>2. QED
    BY <1>3, <2>1, WorkFrame
<1>4. QED
  BY <1>2, <1>3 DEF EndPolicy

LEMMA SetJobFrame ==
  ASSUME BaseType, NEW f \in Files, WorkType(work[f]), NEW status \in Statuses, SetJob(f, status)
  PROVE  JobFrame(f) /\ jobs'[f][work[f].policy] = status
<1>1. work[f].policy \in DOMAIN Policies
  BY DEF WorkType
<1>2. QED
  BY <1>1 DEF BaseType, SetJob, JobFrame

LEMMA JobStays ==
  ASSUME BaseType, NEW f \in Files, jobs' = jobs
  PROVE  JobFrame(f)
BY DEF BaseType, JobFrame

LEMMA MediaStays ==
  ASSUME BaseType, NEW f \in Files, UNCHANGED files
  PROVE  MediaFrame(f) /\ media'[f] = media[f] /\ library'[f] = library[f]
BY DEF BaseType, MediaFrame, files

LEMMA MediaChanges ==
  ASSUME BaseType, NEW f \in Files,
         (ChangeFile(f) /\ Rename(f)) \/ UNCHANGED <<media, renamed>>,
         library' = library \/ library' = [library EXCEPT ![f] = media'[f]]
  PROVE  MediaFrame(f)
<1>1. renamed' \subseteq Files
  BY DEF BaseType, Rename
<1>2. /\ media' = [g \in Files |-> media'[g]]
      /\ \A g \in Files : g # f => media'[g] = media[g]
  BY DEF BaseType, ChangeFile
<1>3. QED
  BY <1>1, <1>2 DEF BaseType, MediaFrame

----------------------------------------------------------------------------
(* The invariant of the file whose thread takes a step, by kind of step.   *)

\* The thread returns a verdict.
LEMMA ReturnStep ==
  ASSUME BaseType, NEW f \in Files, FileInv(f),
         future[f] \in {"pending", "running"}, Frame(f), JobFrame(f), MediaFrame(f),
         NEW v \in Verdicts, Returned(f, v),
         v = "ok" => stop \/ \A p \in DOMAIN Policies : jobs'[f][p] = "completed"
  PROVE  FileInv(f)'
<1>1. WorkType(work'[f]) /\ PhasesInv(work'[f])
  BY IdleWork DEF Returned
<1>2. JobsInv(future'[f], work'[f], jobs'[f])
  BY DEF JobsInv, Returned
<1>3. LibraryInv(future'[f], work'[f], jobs'[f], media'[f], library'[f])
  BY DEF LibraryInv, Returned
<1>4. VerdictInv(future'[f], verdict'[f], results'[f], jobs'[f], stop')
  BY DEF VerdictInv, FileInv, Returned, Frame
<1>5. QED
  BY <1>1, <1>2, <1>3, <1>4 DEF FileInv

\* What a thread that goes on says of the verdict.
LEMMA VerdictKept ==
  ASSUME BaseType, NEW f \in Files, FileInv(f), Running(f), Frame(f), Kept(f)
  PROVE  VerdictInv(future'[f], verdict'[f], results'[f], jobs'[f], stop')
BY DEF VerdictInv, FileInv, Kept, Frame, Running

\* The policy is over.
LEMMA EndPolicyStep ==
  ASSUME BaseType, NEW f \in Files, FileInv(f), Running(f),
         work[f].step \in {"record", "refused", "fail"},
         JobFrame(f), UNCHANGED files,
         NEW ok \in BOOLEAN, EndPolicy(f, ok),
         ok => jobs'[f][work[f].policy] = "completed",
         jobs'[f][work[f].policy] = "completed" =>
           ok /\ work[f].step = "record" /\ work[f].failed = {}
  PROVE  Frame(f) /\ FileInv(f)'
<1> DEFINE w == work[f]
           p == w.policy
<1> PICK succeeded \in BOOLEAN : succeeded <=> w.succeeded /\ ok
  OBVIOUS
<1>1. WorkType(w) /\ p \in DOMAIN Policies /\ p \in Nat
  BY PolicyFacts DEF FileInv, WorkType
<1>2. MediaFrame(f) /\ media'[f] = media[f] /\ library'[f] = library[f]
  BY MediaStays
<1>3. /\ w.succeeded => \A q \in DOMAIN Policies : q < p => jobs'[f][q] = "completed"
      /\ \A q \in DOMAIN Policies : q > p => jobs'[f][q] = "none"
  BY <1>1, PolicyFacts DEF FileInv, JobsInv, JobFrame, Running
<1>4. succeeded => \A q \in DOMAIN Policies : q <= p => jobs'[f][q] = "completed"
  BY <1>1, <1>3, PolicyFacts
<1>5. CASE Frame(f) /\ Returned(f, VerdictOf(succeeded)) /\ (p = Len(Policies) \/ ~ok)
  <2>1. VerdictOf(succeeded) = "ok" => succeeded /\ p = Len(Policies)
    BY <1>5 DEF VerdictOf
  <2>2. VerdictOf(succeeded) = "ok" => \A q \in DOMAIN Policies : jobs'[f][q] = "completed"
    BY <1>4, <2>1, PolicyFacts
  <2>3. VerdictOf(succeeded) \in Verdicts
    BY DEF VerdictOf, Verdicts
  <2>4. QED
    BY <1>2, <1>5, <2>2, <2>3, ReturnStep DEF Running
<1>6. CASE /\ Frame(f) /\ Kept(f) /\ work'[f] = Fresh(p + 1, succeeded)
           /\ p + 1 \in DOMAIN Policies
  <2>1. /\ WorkType(work'[f]) /\ PhasesInv(work'[f])
        /\ work'[f].step = "between" /\ work'[f].policy = p + 1
        /\ work'[f].succeeded = succeeded
    BY <1>6, FreshWork
  <2>2. future'[f] = "running"
    BY <1>6 DEF Kept, Running
  <2>3. JobsInv(future'[f], work'[f], jobs'[f])
    <3>1. \A q \in DOMAIN Policies : q > p + 1 => jobs'[f][q] = "none"
      BY <1>1, <1>3, PolicyFacts
    <3>2. jobs'[f][p + 1] = "none"
      BY <1>1, <1>3, <1>6
    <3>3. succeeded => \A q \in DOMAIN Policies : q < p + 1 => jobs'[f][q] = "completed"
      BY <1>1, <1>4, PolicyFacts
    <3>4. QED
      BY <2>1, <2>2, <3>1, <3>2, <3>3 DEF JobsInv
  <2>4. LibraryInv(future'[f], work'[f], jobs'[f], media'[f], library'[f])
    <3>1. ASSUME \A q \in 1..(work'[f].policy - 1) : jobs'[f][q] = "completed"
          PROVE  library'[f] \in {None, media'[f]}
      <4>1. \A q \in 1..p : jobs'[f][q] = "completed"
        BY <1>1, <2>1, <3>1
      <4>2. w.step = "record" /\ w.failed = {}
        BY <1>1, <4>1, PolicyFacts
      <4>3. \A q \in 1..(p - 1) : q \in DOMAIN Policies /\ q # p
        BY <1>1, BatchAssumption
      <4>4. \A q \in 1..(p - 1) : jobs[f][q] = "completed"
        BY <1>1, <4>1, <4>3 DEF JobFrame
      <4>5. library[f] \in {None, media[f]}
        BY <4>2, <4>4 DEF FileInv, LibraryInv, Running
      <4>6. QED
        BY <1>2, <4>5
    <3>2. QED
      BY <2>1, <3>1 DEF LibraryInv
  <2>5. QED
    BY <1>6, <2>1, <2>3, <2>4, VerdictKept DEF FileInv
<1>7. QED
  <2>1. VerdictOf(w.succeeded /\ ok) = VerdictOf(succeeded) /\ Fresh(p + 1, w.succeeded /\ ok) = Fresh(p + 1, succeeded)
    OBVIOUS
  <2>2. QED
    BY <1>1, <1>5, <1>6, <2>1, EndPolicyFrame

\* The thread goes on within its policy, outside its phases.
LEMMA MoveStep ==
  ASSUME BaseType, NEW f \in Files, FileInv(f), Running(f), Frame(f), Kept(f),
         JobFrame(f), MediaFrame(f),
         NEW s \in Steps, NEW known,
         (work'[f] = Moved(work[f], s) /\ known = work[f].known)
           \/ work'[f] = Informed(work[f], s, known),
         s \in {"job", "refused", "unknown", "phase"} => work[f].step \in {"between", "job"},
         s \notin {"between", "record"},
         jobs'[f][work[f].policy] = IF s = "job" THEN "none" ELSE "running",
         s \in {"job", "phase"} => media'[f] = media[f] /\ library'[f] = library[f],
         s = "phase" => known = library[f] /\ library[f] # None
  PROVE  FileInv(f)'
<1> DEFINE w == work[f]
<1>1. WorkType(w) /\ PhasesInv(w) /\ w.policy \in DOMAIN Policies
  BY DEF FileInv, WorkType
<1>2. s \in {"between", "job", "refused", "unknown", "phase"} => Untouched(w)
  BY <1>1 DEF PhasesInv, InOrder
<1>3. /\ WorkType(work'[f]) /\ PhasesInv(work'[f])
      /\ work'[f].step = s /\ work'[f].known = known /\ work'[f].failed = w.failed
      /\ work'[f].policy = w.policy /\ work'[f].succeeded = w.succeeded
  BY <1>1, <1>2, MovedWork
<1>4. future'[f] = "running"
  BY DEF Kept, Running
<1>5. JobsInv(future'[f], work'[f], jobs'[f])
  <2>1. /\ w.policy \in Nat /\ \A p \in DOMAIN Policies : p \in Nat
    BY <1>1, PolicyFacts
  <2>2. /\ \A p \in DOMAIN Policies : p > w.policy => jobs'[f][p] = "none"
        /\ w.succeeded => \A p \in DOMAIN Policies : p < w.policy => jobs'[f][p] = "completed"
    BY <2>1 DEF FileInv, JobsInv, JobFrame, Running
  <2>3. QED
    BY <1>3, <1>4, <2>2 DEF JobsInv
<1>6. LibraryInv(future'[f], work'[f], jobs'[f], media'[f], library'[f])
  <2>1. ASSUME s \in {"job", "phase"}, w.failed = {},
               \A p \in 1..(w.policy - 1) : jobs'[f][p] = "completed"
        PROVE  library[f] \in {None, media[f]}
    <3>1. \A p \in 1..(w.policy - 1) : p \in DOMAIN Policies /\ p # w.policy
      BY <1>1, BatchAssumption
    <3>2. \A p \in 1..(w.policy - 1) : jobs[f][p] = "completed"
      BY <2>1, <3>1 DEF JobFrame
    <3>3. QED
      BY <2>1, <3>2 DEF FileInv, LibraryInv, Running
  <2>2. QED
    BY <1>3, <2>1 DEF LibraryInv
<1>7. QED
  BY <1>3, <1>5, <1>6, VerdictKept DEF FileInv

\* A phase is over.
LEMMA PhaseStep ==
  ASSUME BaseType, NEW f \in Files, FileInv(f), In(f, "phase"), UNCHANGED <<batch, jobs>>,
         MediaFrame(f),
         NEW became \in {"completed", "failed", "skipped"}, NEW change \in BOOLEAN,
         NEW known, NEW over \in BOOLEAN,
         NEW failed \in BOOLEAN, failed <=> became = "failed",
         EndPhase(f, became, change, failed, known, over),
         became # "skipped" => ~IsSkipped(f),
         became = "failed" => over = Ends(f),
         \/ became = "failed"
         \/ media'[f] = media[f] /\ library'[f] = library[f] /\ known = work[f].known
         \/ library'[f] = media'[f] /\ known = media'[f]
  PROVE  Frame(f) /\ FileInv(f)'
<1> DEFINE w == work[f]
           name == PhasesOf(w)[w.phase].name
<1>1. /\ WorkType(w) /\ PhasesInv(w) /\ w.policy \in DOMAIN Policies /\ w.step = "phase"
      /\ w.phase \in Nat \ {0} /\ w.phase <= Len(PhasesOf(w)) /\ future[f] = "running"
  BY DEF FileInv, WorkType, In, Running
<1>2. PhaseOf(f) = PhasesOf(w)[w.phase] /\ PolicyOf(f) = Policies[w.policy]
  BY DEF PhaseOf, PolicyOf, PhasesOf
<1>3. name \in Names
  BY <1>1, PolicyFacts DEF PhasesOf
<1> PICK s : s = IF w.phase = Len(PhasesOf(w)) \/ over THEN "record" ELSE "phase"
  OBVIOUS
<1> PICK mods : mods = IF change THEN w.modified \cup {name} ELSE w.modified
  OBVIOUS
<1>4. /\ Frame(f) /\ Kept(f) /\ JobFrame(f) /\ jobs' = jobs
      /\ work'[f] = Ended(w, became, mods, known, s)
  <2>1. work' = [work EXCEPT ![f] = Ended(w, became, mods, known, s)]
    BY <1>1, <1>2 DEF EndPhase, BaseType, PhasesOf, PolicyOf, WorkType, Ended, FailedWith, NameOf
  <2>2. UNCHANGED batch /\ jobs' = jobs
    OBVIOUS
  <2>3. QED
    BY <2>1, <2>2, WorkFrame, JobStays
<1>5. became # "skipped" => ~DependencyUnmet(PhasesOf(w)[w.phase], w.outcome)
  BY <1>2 DEF IsSkipped, Skipped
<1>6. became = "failed" /\ ~LetsGoOn(w, w.phase) => s = "record"
  BY <1>2 DEF Ends, LetsGoOn
<1>7. mods \in SUBSET Names
  BY <1>1, <1>3 DEF WorkType
<1>8. /\ WorkType(work'[f]) /\ PhasesInv(work'[f])
      /\ work'[f].step = s /\ work'[f].known = known /\ work'[f].failed = FailedWith(w, became)
      /\ work'[f].policy = w.policy /\ work'[f].succeeded = w.succeeded
  BY <1>1, <1>4, <1>5, <1>6, <1>7, PhaseEnded
<1>9. future'[f] = "running"
  BY <1>1, <1>4 DEF Kept
<1>10. JobsInv(future'[f], work'[f], jobs'[f])
  BY <1>1, <1>4, <1>8, <1>9 DEF FileInv, JobsInv
<1>11. LibraryInv(future'[f], work'[f], jobs'[f], media'[f], library'[f])
  <2>1. ASSUME FailedWith(w, became) = {},
               \A p \in 1..(w.policy - 1) : jobs[f][p] = "completed"
        PROVE  library'[f] = media'[f] /\ known = media'[f]
    <3>1. w.failed = {} /\ became # "failed"
      BY <2>1 DEF FailedWith
    <3>2. w.known = media[f] /\ library[f] = media[f]
      BY <1>1, <2>1, <3>1 DEF FileInv, LibraryInv
    <3>3. QED
      BY <3>1, <3>2
  <2>2. QED
    BY <1>4, <1>8, <2>1 DEF LibraryInv
<1>12. QED
  BY <1>4, <1>8, <1>10, <1>11, VerdictKept, <1>1 DEF FileInv, Running

----------------------------------------------------------------------------
(* The actions of a thread.                                                *)

LocalStep(f) == Frame(f) /\ JobFrame(f) /\ MediaFrame(f) /\ FileInv(f)'

LEMMA StartFileLocal ==
  ASSUME BaseType, NEW f \in Files, FileInv(f), StartFile(f)
  PROVE  LocalStep(f)
<1>1. /\ JobFrame(f) /\ jobs' = jobs
      /\ MediaFrame(f) /\ media'[f] = media[f] /\ library'[f] = library[f]
  BY JobStays, MediaStays DEF StartFile, rows
<1>2. future[f] = "pending" /\ work[f] = Idle /\ \A p \in DOMAIN Policies : jobs[f][p] = "none"
  BY DEF StartFile, FileInv, JobsInv
<1>3. CASE Return(f, "none")
  <2>1. "none" \in Verdicts
    BY DEF Verdicts
  <2>2. Frame(f) /\ Returned(f, "none")
    BY <1>3, <2>1, ReturnFrame
  <2>3. QED
    BY <1>1, <1>2, <2>1, <2>2, ReturnStep DEF LocalStep
<1>4. CASE /\ future' = [future EXCEPT ![f] = "running"]
           /\ UNCHANGED <<main, stop, verdict, results, work>>
  <2>1. Frame(f) /\ future'[f] = "running" /\ work'[f] = Idle
    BY <1>2, <1>4 DEF Frame, BaseType, Futures
  <2>2. JobsInv(future'[f], work'[f], jobs'[f])
    <3>1. \A p \in DOMAIN Policies : ~(p < 1)
      BY PolicyFacts
    <3>2. QED
      BY <1>1, <1>2, <2>1, <3>1, IdleWork, FirstPolicy DEF JobsInv
  <2>3. LibraryInv(future'[f], work'[f], jobs'[f], media'[f], library'[f])
    BY <1>1, <1>2, <2>1 DEF LibraryInv, FileInv
  <2>4. VerdictInv(future'[f], verdict'[f], results'[f], jobs'[f], stop')
    BY <1>1, <1>2, <1>4, <2>1 DEF VerdictInv, FileInv
  <2>5. QED
    BY <1>1, <2>1, <2>2, <2>3, <2>4, IdleWork DEF LocalStep, FileInv
<1>5. QED
  BY <1>3, <1>4 DEF StartFile

LEMMA CheckStopLocal ==
  ASSUME BaseType, NEW f \in Files, FileInv(f), CheckStop(f)
  PROVE  LocalStep(f)
<1>1. /\ JobFrame(f) /\ jobs' = jobs
      /\ MediaFrame(f) /\ media'[f] = media[f] /\ library'[f] = library[f]
  BY JobStays, MediaStays DEF CheckStop, rows
<1>2. Running(f) /\ future[f] = "running" /\ work[f].step = "between"
  BY DEF CheckStop, In, Running
<1>3. CASE stop /\ Return(f, VerdictOf(work[f].policy > 1 /\ work[f].succeeded))
  <2> PICK v : v = VerdictOf(work[f].policy > 1 /\ work[f].succeeded)
    OBVIOUS
  <2>1. v \in Verdicts
    BY DEF VerdictOf, Verdicts
  <2>2. Frame(f) /\ Returned(f, v)
    BY <1>3, <2>1, ReturnFrame
  <2>3. QED
    BY <1>1, <1>2, <1>3, <2>1, <2>2, ReturnStep DEF LocalStep
<1>4. CASE work' = [work EXCEPT ![f].step = "job"] /\ UNCHANGED batch
  <2>1. work' = [work EXCEPT ![f] = Moved(work[f], "job")]
    BY <1>4 DEF Moved, BaseType
  <2>2. Frame(f) /\ Kept(f) /\ work'[f] = Moved(work[f], "job")
    BY <1>4, <2>1, WorkFrame
  <2>3. jobs'[f][work[f].policy] = "none" /\ "job" \in Steps
    BY <1>1, <1>2 DEF FileInv, JobsInv, Steps
  <2>4. QED
    BY <1>1, <1>2, <2>2, <2>3, MoveStep DEF LocalStep
<1>5. QED
  BY <1>3, <1>4 DEF CheckStop

\* Of the actions that create the job, or fail to.
LEMMA JobNotCreatedLocal ==
  ASSUME BaseType, NEW f \in Files, FileInv(f), JobNotCreated(f)
  PROVE  LocalStep(f)
<1>1. /\ JobFrame(f) /\ MediaFrame(f) /\ Running(f) /\ "failed" \in Verdicts
  BY JobStays, MediaStays DEF JobNotCreated, In, Verdicts
<1>2. Frame(f) /\ Returned(f, "failed")
  BY <1>1, ReturnFrame DEF JobNotCreated
<1>3. QED
  BY <1>1, <1>2, ReturnStep DEF LocalStep, Running

LEMMA CreateJobLocal ==
  ASSUME BaseType, NEW f \in Files, FileInv(f),
         InputMissing(f) \/ DiskLow(f) \/ NotInLibrary(f) \/ BeginPhases(f)
  PROVE  LocalStep(f)
<1>1. /\ In(f, "job") /\ Running(f) /\ work[f].step = "job" /\ CreateJob(f)
      /\ UNCHANGED <<batch, files>> /\ WorkType(work[f]) /\ "running" \in Statuses
  BY DEF InputMissing, DiskLow, NotInLibrary, BeginPhases, In, FileInv, Statuses
<1>2. /\ MediaFrame(f) /\ media'[f] = media[f] /\ library'[f] = library[f]
      /\ JobFrame(f) /\ jobs'[f][work[f].policy] = "running"
  BY <1>1, MediaStays, SetJobFrame DEF CreateJob
<1>3. ASSUME NEW s \in {"fail", "refused", "unknown"}, work' = [work EXCEPT ![f].step = s]
      PROVE  LocalStep(f)
  <2>1. work' = [work EXCEPT ![f] = Moved(work[f], s)] /\ s \in Steps
    BY <1>3 DEF Moved, BaseType, Steps
  <2>2. Frame(f) /\ Kept(f) /\ work'[f] = Moved(work[f], s)
    BY <1>1, <2>1, WorkFrame
  <2>3. QED
    BY <1>1, <1>2, <2>1, <2>2, MoveStep DEF LocalStep
<1>4. CASE BeginPhases(f)
  <2>1. /\ work' = [work EXCEPT ![f] = Informed(work[f], "phase", library[f])]
        /\ "phase" \in Steps /\ library[f] # None
    BY <1>1, <1>4 DEF BeginPhases, Informed, BaseType, Steps, WorkType
  <2>2. Frame(f) /\ Kept(f) /\ work'[f] = Informed(work[f], "phase", library[f])
    BY <1>1, <2>1, WorkFrame
  <2>3. QED
    BY <1>1, <1>2, <2>1, <2>2, MoveStep DEF LocalStep
<1>5. QED
  BY <1>3, <1>4 DEF InputMissing, DiskLow, NotInLibrary

LEMMA PhaseLocal ==
  ASSUME BaseType, NEW f \in Files, FileInv(f), Phase(f)
  PROVE  LocalStep(f)
<1>1. CASE SkipPhase(f)
  <2>1. /\ JobFrame(f) /\ MediaFrame(f) /\ media'[f] = media[f] /\ library'[f] = library[f]
        /\ In(f, "phase") /\ UNCHANGED <<batch, jobs>>
    BY <1>1, JobStays, MediaStays DEF SkipPhase, rows
  <2>2. EndPhase(f, "skipped", FALSE, FALSE, work[f].known, FALSE)
    BY <1>1 DEF SkipPhase
  <2>3. QED
    BY <2>1, <2>2, PhaseStep DEF LocalStep
<1>2. CASE IdlePhase(f)
  <2>1. /\ JobFrame(f) /\ MediaFrame(f) /\ media'[f] = media[f] /\ library'[f] = library[f]
        /\ In(f, "phase") /\ UNCHANGED <<batch, jobs>>
    BY <1>2, JobStays, MediaStays DEF IdlePhase, rows
  <2>2. EndPhase(f, "completed", FALSE, FALSE, work[f].known, FALSE) /\ ~IsSkipped(f)
    BY <1>2 DEF IdlePhase
  <2>3. QED
    BY <2>1, <2>2, PhaseStep DEF LocalStep
<1>3. CASE ChangingPhase(f)
  <2>1. /\ JobFrame(f) /\ MediaFrame(f) /\ library'[f] = media'[f]
        /\ In(f, "phase") /\ UNCHANGED <<batch, jobs>>
    BY <1>3, JobStays, MediaChanges DEF ChangingPhase, rows, BaseType
  <2>2. EndPhase(f, "completed", TRUE, FALSE, media'[f], FALSE) /\ ~IsSkipped(f)
    BY <1>3 DEF ChangingPhase
  <2>3. QED
    BY <2>1, <2>2, PhaseStep DEF LocalStep
<1>4. CASE UnreadablePhase(f) \/ FailingPhase(f)
  <2>1. /\ JobFrame(f) /\ MediaFrame(f) /\ In(f, "phase") /\ UNCHANGED <<batch, jobs>>
    BY <1>4, JobStays, MediaChanges DEF UnreadablePhase, FailingPhase, rows
  <2> PICK over \in BOOLEAN : over = Ends(f)
    BY DEF Ends
  <2>2. EndPhase(f, "failed", FALSE, TRUE, work[f].known, over) /\ ~IsSkipped(f)
    BY <1>4 DEF UnreadablePhase, FailingPhase
  <2>3. QED
    BY <2>1, <2>2, PhaseStep DEF LocalStep
<1>5. CASE EscapingPhase(f)
  <2>1. /\ JobFrame(f) /\ jobs' = jobs /\ MediaFrame(f) /\ Running(f) /\ UNCHANGED batch
        /\ work[f].step = "phase" /\ "fail" \in Steps
    BY <1>5, JobStays, MediaChanges DEF EscapingPhase, In, Steps
  <2>2. work' = [work EXCEPT ![f] = Moved(work[f], "fail")]
    BY <1>5 DEF EscapingPhase, Moved, BaseType
  <2>3. Frame(f) /\ Kept(f) /\ work'[f] = Moved(work[f], "fail")
    BY <2>1, <2>2, WorkFrame
  <2>4. jobs'[f][work[f].policy] = "running"
    BY <2>1 DEF FileInv, JobsInv, Running
  <2>5. QED
    BY <2>1, <2>3, <2>4, MoveStep DEF LocalStep
<1>6. QED
  BY <1>1, <1>2, <1>3, <1>4, <1>5 DEF Phase

\* Of the actions that end the job, or fail to.
LEMMA RecordLocal ==
  ASSUME BaseType, NEW f \in Files, FileInv(f),
         CompleteJob(f) \/ CompleteUnknown(f) \/ JobNotCompleted(f) \/ FailJob(f) \/ OrphanJob(f)
  PROVE  LocalStep(f)
<1>1. /\ Running(f) /\ UNCHANGED files /\ WorkType(work[f]) /\ MediaFrame(f)
      /\ {"completed", "failed"} \subseteq Statuses
  BY MediaStays
     DEF CompleteJob, CompleteUnknown, JobNotCompleted, FailJob, OrphanJob, In, FileInv, Statuses
<1>2. CASE CompleteJob(f)
  <2> PICK ok \in BOOLEAN : ok <=> work[f].step = "record" /\ work[f].failed = {}
    OBVIOUS
  <2>1. /\ work[f].step \in {"record", "refused"} /\ EndPolicy(f, ok)
        /\ SetJob(f, IF ok THEN "completed" ELSE "failed")
    BY <1>2 DEF CompleteJob, In, EndPolicy
  <2>2. JobFrame(f) /\ jobs'[f][work[f].policy] = IF ok THEN "completed" ELSE "failed"
    BY <1>1, <2>1, SetJobFrame
  <2>3. QED
    BY <1>1, <2>1, <2>2, EndPolicyStep DEF LocalStep
<1>3. CASE CompleteUnknown(f)
  <2> PICK v : v = IF work[f].policy = 1 THEN "notInLibrary" ELSE "failed"
    OBVIOUS
  <2>1. JobFrame(f) /\ v \in Verdicts
    BY <1>1, <1>3, SetJobFrame DEF CompleteUnknown, Verdicts
  <2>2. Frame(f) /\ Returned(f, v)
    BY <1>3, <2>1, ReturnFrame DEF CompleteUnknown
  <2>3. QED
    BY <1>1, <2>1, <2>2, ReturnStep DEF LocalStep, Running
<1>4. CASE JobNotCompleted(f)
  <2>1. /\ JobFrame(f) /\ jobs' = jobs /\ UNCHANGED batch /\ "fail" \in Steps
        /\ work[f].step \in {"record", "refused", "unknown"}
    BY <1>4, JobStays DEF JobNotCompleted, In, Steps
  <2>2. work' = [work EXCEPT ![f] = Moved(work[f], "fail")]
    BY <1>4 DEF JobNotCompleted, Moved, BaseType
  <2>3. Frame(f) /\ Kept(f) /\ work'[f] = Moved(work[f], "fail")
    BY <2>1, <2>2, WorkFrame
  <2>4. jobs'[f][work[f].policy] = "running"
    BY <1>1, <2>1 DEF FileInv, JobsInv, Running
  <2>5. QED
    BY <1>1, <2>1, <2>3, <2>4, MoveStep DEF LocalStep
<1>5. CASE FailJob(f)
  <2>1. JobFrame(f) /\ jobs'[f][work[f].policy] = "failed" /\ work[f].step = "fail"
    BY <1>1, <1>5, SetJobFrame DEF FailJob, In
  <2>2. EndPolicy(f, FALSE)
    BY <1>5 DEF FailJob
  <2>3. QED
    BY <1>1, <2>1, <2>2, EndPolicyStep DEF LocalStep
<1>6. CASE OrphanJob(f)
  <2>1. JobFrame(f) /\ jobs' = jobs /\ work[f].step = "fail"
    BY <1>6, JobStays DEF OrphanJob, In
  <2>2. jobs'[f][work[f].policy] = "running"
    BY <1>1, <2>1 DEF FileInv, JobsInv, Running
  <2>3. EndPolicy(f, FALSE)
    BY <1>6 DEF OrphanJob
  <2>4. QED
    BY <1>1, <2>1, <2>2, <2>3, EndPolicyStep DEF LocalStep
<1>7. QED
  BY <1>2, <1>3, <1>4, <1>5, <1>6

LEMMA ThreadLocal ==
  ASSUME BaseType, NEW f \in Files, FileInv(f), Thread(f)
  PROVE  LocalStep(f)
BY StartFileLocal, CheckStopLocal, JobNotCreatedLocal, CreateJobLocal, PhaseLocal, RecordLocal
   DEF Thread, Job

----------------------------------------------------------------------------
(* What a thread's step is for the other files and for the counts.         *)

LEMMA ThreadOthers ==
  ASSUME BaseType, NEW f \in Files, WorkType(work[f]), LocalStep(f),
         NEW g \in Files, g # f, FileInv(g)
  PROVE  FileInv(g)'
<1>1. /\ future'[g] = future[g] /\ verdict'[g] = verdict[g] /\ work'[g] = work[g]
      /\ results' = results /\ stop' = stop
      /\ jobs'[g] = jobs[g] /\ media'[g] = media[g] /\ library'[g] = library[g]
  BY DEF LocalStep, Frame, JobFrame, MediaFrame
<1>2. QED
  BY <1>1 DEF FileInv

LEMMA ThreadCounters ==
  ASSUME BaseType, NEW f \in Files, WorkType(work[f]), Thread(f)
  PROVE  /\ faults' = faults \/ (faults' = faults + 1 /\ faults < MaxFaults)
         /\ \/ late' = late
            \/ stop /\ late' = late + 1 /\ In(f, "job") /\ work'[f].step # "job"
<1>1. CASE StartFile(f) \/ CheckStop(f) \/ Phase(f)
  BY <1>1 DEF StartFile, CheckStop, Phase, SkipPhase, IdlePhase, ChangingPhase, UnreadablePhase,
              FailingPhase, EscapingPhase, rows
<1>2. CASE JobNotCreated(f) \/ CompleteJob(f) \/ CompleteUnknown(f) \/ JobNotCompleted(f)
           \/ FailJob(f) \/ OrphanJob(f)
  BY <1>2 DEF JobNotCreated, CompleteJob, CompleteUnknown, JobNotCompleted, FailJob, OrphanJob
<1>3. CASE InputMissing(f) \/ DiskLow(f) \/ NotInLibrary(f) \/ BeginPhases(f)
  <2>1. CreateJob(f) /\ In(f, "job") /\ faults' = faults
    BY <1>3 DEF InputMissing, DiskLow, NotInLibrary, BeginPhases
  <2>2. work'[f].step # "job"
    BY <1>3 DEF InputMissing, DiskLow, NotInLibrary, BeginPhases, BaseType, WorkType
  <2>3. QED
    BY <2>1, <2>2 DEF CreateJob
<1>4. QED
  BY <1>1, <1>2, <1>3 DEF Thread, Job

LEMMA ThreadBase ==
  ASSUME BaseType, NEW f \in Files, WorkType(work[f]), Thread(f), LocalStep(f)
  PROVE  BaseType'
<1>1. faults' \in 0..MaxFaults /\ late' \in Nat
  BY ThreadCounters, BatchAssumption DEF BaseType
<1>2. QED
  BY <1>1 DEF LocalStep, Frame, JobFrame, MediaFrame, BaseType

LEMMA FilesFinite == IsFiniteSet(Files) /\ IsFiniteSet(DOMAIN Policies)
BY FS_Interval, BatchAssumption DEF Files

LEMMA SmallerCount ==
  ASSUME NEW S, IsFiniteSet(S), NEW T, T \subseteq S
  PROVE  /\ IsFiniteSet(T) /\ Cardinality(T) <= Cardinality(S)
         /\ Cardinality(S) \in Nat /\ Cardinality(T) \in Nat
BY FS_Subset, FS_CardinalityType

LEMMA OneMore ==
  ASSUME NEW S, IsFiniteSet(S), NEW x
  PROVE  /\ IsFiniteSet(S \cup {x}) /\ Cardinality(S \cup {x}) \in Nat
         /\ Cardinality(S \cup {x}) <= Cardinality(S) + 1
<1>1. /\ IsFiniteSet(S \cup {x})
      /\ Cardinality(S \cup {x}) = Cardinality(S) \/ Cardinality(S \cup {x}) = Cardinality(S) + 1
  BY FS_AddElement
<1>2. Cardinality(S) \in Nat
  BY FS_CardinalityType
<1>3. QED
  BY <1>1, <1>2

LEMMA ActiveFinite == IsFiniteSet(Active) /\ IsFiniteSet(Deciding) /\ Cardinality(Deciding) <= Cardinality(Active)
<1>1. Active \subseteq Files /\ Deciding \subseteq Active
  BY DEF Active, Deciding, In
<1>2. QED
  BY <1>1, SmallerCount, FilesFinite

LEMMA ThreadCount ==
  ASSUME BaseType, CountInv, NEW f \in Files, FileInv(f), Thread(f), LocalStep(f)
  PROVE  CountInv'
<1>1. /\ main' = main /\ stop' = stop
      /\ \A g \in Files : g # f => future'[g] = future[g] /\ work'[g] = work[g]
  BY DEF LocalStep, Frame
<1>2. /\ IsFiniteSet(Active) /\ Cardinality(Active) \in Nat
      /\ IsFiniteSet(Deciding) /\ Cardinality(Deciding) \in Nat
  BY ActiveFinite, FS_CardinalityType
<1>3. /\ Active' = {g \in Files : future'[g] = "running"}
      /\ Deciding' = {g \in Files : future'[g] = "running" /\ work'[g].step = "job"}
  BY DEF Active, Deciding, In, Running
<1>4. Cardinality(Active') <= Workers
  <2>1. CASE future[f] = "running"
    <3>1. Active' \subseteq Active
      BY <1>1, <1>3, <2>1 DEF Active, Running
    <3>2. QED
      BY <1>2, <3>1, SmallerCount, BatchAssumption DEF CountInv
  <2>2. CASE future[f] # "running"
    <3>1. StartFile(f)
      BY <2>2 DEF Thread, CheckStop, Phase, Job, JobNotCreated, InputMissing, DiskLow, NotInLibrary,
                  BeginPhases, CompleteJob, CompleteUnknown, JobNotCompleted, FailJob, OrphanJob,
                  SkipPhase, IdlePhase, ChangingPhase, UnreadablePhase, FailingPhase, EscapingPhase,
                  In, Running
    <3>2. Cardinality(Active) < Workers
      BY <3>1 DEF StartFile, Active
    <3>3. Active' \subseteq Active \cup {f}
      BY <1>1, <1>3 DEF Active, Running
    <3>4. IsFiniteSet(Active \cup {f}) /\ Cardinality(Active \cup {f}) <= Cardinality(Active) + 1
      BY <1>2, OneMore
    <3>5. Cardinality(Active') <= Cardinality(Active \cup {f}) /\ Cardinality(Active \cup {f}) \in Nat
          /\ Cardinality(Active') \in Nat
      BY <3>3, <3>4, SmallerCount
    <3>6. QED
      BY <1>2, <3>2, <3>4, <3>5, BatchAssumption
  <2>3. QED
    BY <2>1, <2>2
<1>5. CASE ~stop
  <2>1. late' = late
    BY <1>5, ThreadCounters DEF FileInv
  <2>2. QED
    BY <1>1, <1>4, <1>5, <2>1 DEF CountInv
<1>6. CASE stop
  <2>1. work'[f].step = "job" => In(f, "job")
    <3>1. CASE StartFile(f)
      <4>1. Return(f, "none")
        BY <1>6, <3>1 DEF StartFile
      <4>2. work'[f] = Idle
        BY <4>1 DEF Return, BaseType
      <4>3. QED
        BY <4>2, IdleWork
    <3>2. CASE CheckStop(f)
      <4>1. work'[f] = Idle
        BY <1>6, <3>2 DEF CheckStop, Return, BaseType
      <4>2. QED
        BY <4>1, IdleWork
    <3>3. CASE Phase(f)
      <4>1. ASSUME NEW became, NEW change, NEW failed, NEW known, NEW over,
                   EndPhase(f, became, change, failed, known, over)
            PROVE  work'[f].step # "job"
        BY <4>1 DEF EndPhase, BaseType, FileInv, WorkType
      <4>2. CASE EscapingPhase(f)
        BY <4>2 DEF EscapingPhase, BaseType, FileInv, WorkType
      <4>3. QED
        BY <3>3, <4>1, <4>2 DEF Phase, SkipPhase, IdlePhase, ChangingPhase, UnreadablePhase, FailingPhase
    <3>4. CASE JobNotCreated(f) \/ InputMissing(f) \/ DiskLow(f) \/ NotInLibrary(f) \/ BeginPhases(f)
      BY <3>4 DEF JobNotCreated, InputMissing, DiskLow, NotInLibrary, BeginPhases
    <3>5. CASE CompleteUnknown(f) \/ JobNotCompleted(f)
      BY <3>5, IdleWork DEF CompleteUnknown, JobNotCompleted, Return, BaseType, FileInv, WorkType
    <3>6. ASSUME NEW ok \in BOOLEAN, EndPolicy(f, ok)
          PROVE  work'[f].step # "job"
      <4>1. work'[f] = Idle \/ \E b : work'[f] = Fresh(work[f].policy + 1, b)
        BY <3>6 DEF EndPolicy, Return, BaseType
      <4>2. \A p, b : Fresh(p, b).step = "between"
        BY DEF Fresh
      <4>3. QED
        BY <4>1, <4>2, IdleWork
    <3>7. CASE CompleteJob(f) \/ FailJob(f) \/ OrphanJob(f)
      <4>1. \E ok \in BOOLEAN : EndPolicy(f, ok)
        BY <3>7 DEF CompleteJob, FailJob, OrphanJob
      <4>2. QED
        BY <3>6, <4>1
    <3>8. QED
      BY <3>1, <3>2, <3>3, <3>4, <3>5, <3>7 DEF Thread, Job
  <2>2. Deciding' \subseteq Deciding
    BY <1>1, <1>3, <2>1 DEF Deciding, In, Running
  <2>3. CASE late' = late
    <3>1. Cardinality(Deciding') <= Cardinality(Deciding) /\ Cardinality(Deciding') \in Nat
      BY <1>2, <2>2, SmallerCount
    <3>2. QED
      BY <1>1, <1>2, <1>4, <1>6, <2>3, <3>1, BatchAssumption DEF CountInv, BaseType
  <2>4. CASE late' = late + 1 /\ In(f, "job") /\ work'[f].step # "job"
    <3>1. Deciding' \subseteq Deciding \ {f} /\ f \in Deciding
      BY <1>3, <2>2, <2>4 DEF Deciding
    <3>2. IsFiniteSet(Deciding \ {f}) /\ Cardinality(Deciding \ {f}) = Cardinality(Deciding) - 1
      BY <1>2, <3>1, FS_RemoveElement
    <3>3. Cardinality(Deciding') <= Cardinality(Deciding) - 1 /\ Cardinality(Deciding') \in Nat
      BY <3>1, <3>2, SmallerCount
    <3>4. QED
      BY <1>1, <1>2, <1>4, <1>6, <2>4, <3>3, BatchAssumption DEF CountInv, BaseType
  <2>5. QED
    BY <2>3, <2>4, ThreadCounters DEF FileInv
<1>7. QED
  BY <1>5, <1>6 DEF BaseType

\* Of the actions of a thread only one leaves a job behind that says it is running.
LEMMA JobTells ==
  ASSUME BaseType, NEW f \in Files, FileInv(f), Thread(f), ~OrphanJob(f),
         jobs'[f][work[f].policy] = "running"
  PROVE  future'[f] = "running" /\ work'[f].policy = work[f].policy
<1>1. /\ WorkType(work[f]) /\ work[f].policy \in DOMAIN Policies
      /\ {"failed", "completed"} \subseteq Statuses
  BY DEF FileInv, WorkType, Statuses
<1>2. CASE StartFile(f) \/ CheckStop(f) \/ JobNotCreated(f)
  <2>1. jobs[f][work[f].policy] # "running"
    BY <1>1, <1>2 DEF StartFile, CheckStop, JobNotCreated, FileInv, JobsInv, In, Running
  <2>2. jobs' = jobs
    BY <1>2 DEF StartFile, CheckStop, JobNotCreated, rows
  <2>3. QED
    BY <2>1, <2>2
<1>3. CASE InputMissing(f) \/ DiskLow(f) \/ NotInLibrary(f) \/ BeginPhases(f) \/ JobNotCompleted(f)
  BY <1>1, <1>3 DEF InputMissing, DiskLow, NotInLibrary, BeginPhases, JobNotCompleted, In, Running,
                    batch, BaseType, WorkType
<1>4. CASE Phase(f)
  <2>1. CASE SkipPhase(f) \/ IdlePhase(f) \/ ChangingPhase(f)
    BY <1>1, <2>1 DEF SkipPhase, IdlePhase, ChangingPhase, EndPhase, In, Running, batch, BaseType,
                      WorkType
  <2>2. CASE UnreadablePhase(f) \/ FailingPhase(f) \/ EscapingPhase(f)
    BY <1>1, <2>2 DEF UnreadablePhase, FailingPhase, EscapingPhase, EndPhase, In, Running, batch,
                      BaseType, WorkType
  <2>3. QED
    BY <1>4, <2>1, <2>2 DEF Phase
<1>5. ASSUME NEW status \in {"failed", "completed"}, SetJob(f, status)
      PROVE  FALSE
  BY <1>1, <1>5, SetJobFrame
<1>6. CASE CompleteJob(f) \/ CompleteUnknown(f) \/ FailJob(f)
  BY <1>5, <1>6 DEF CompleteJob, CompleteUnknown, FailJob
<1>7. QED
  BY <1>2, <1>3, <1>4, <1>6 DEF Thread, Job

LEMMA OrphansFinite ==
  ASSUME NEW S, S \subseteq Files \X DOMAIN Policies
  PROVE  IsFiniteSet(S) /\ Cardinality(S) \in Nat
BY FilesFinite, FS_Product, SmallerCount

LEMMA ThreadOrphans ==
  ASSUME BaseType, Cardinality(Orphans) <= faults,
         NEW f \in Files, FileInv(f), Thread(f), LocalStep(f)
  PROVE  Cardinality(Orphans') <= faults'
<1>1. /\ Orphans \subseteq Files \X DOMAIN Policies
      /\ Orphans' = {job \in Files \X DOMAIN Policies :
                       /\ jobs'[job[1]][job[2]] = "running"
                       /\ ~(future'[job[1]] = "running" /\ work'[job[1]].policy = job[2])}
  BY DEF Orphans, Running
<1>2. IsFiniteSet(Orphans) /\ Cardinality(Orphans) \in Nat
  BY <1>1, OrphansFinite
<1>3. ASSUME NEW job \in Orphans', job \notin Orphans
      PROVE  job = <<f, work[f].policy>>
  <2> PICK g \in Files, p \in DOMAIN Policies : job = <<g, p>>
    BY <1>1, <1>3
  <2>1. /\ jobs'[g][p] = "running" /\ ~(future'[g] = "running" /\ work'[g].policy = p)
        /\ jobs[g][p] # "running" \/ (future[g] = "running" /\ work[g].policy = p)
    BY <1>1, <1>3 DEF Orphans, Running
  <2>2. g = f
    BY <2>1 DEF LocalStep, Frame, JobFrame
  <2>3. p = work[f].policy
    BY <2>1, <2>2 DEF LocalStep, JobFrame
  <2>4. QED
    BY <2>2, <2>3
<1>4. CASE OrphanJob(f)
  <2>1. Orphans' \subseteq Orphans \cup {<<f, work[f].policy>>}
    BY <1>3
  <2>2. /\ IsFiniteSet(Orphans \cup {<<f, work[f].policy>>})
        /\ Cardinality(Orphans \cup {<<f, work[f].policy>>}) <= Cardinality(Orphans) + 1
    BY <1>2, OneMore
  <2>3. /\ Cardinality(Orphans') <= Cardinality(Orphans \cup {<<f, work[f].policy>>})
        /\ Cardinality(Orphans') \in Nat
        /\ Cardinality(Orphans \cup {<<f, work[f].policy>>}) \in Nat
    BY <2>1, <2>2, SmallerCount
  <2>4. faults' = faults + 1 /\ faults \in Nat
    BY <1>4, BatchAssumption DEF OrphanJob, BaseType
  <2>5. QED
    BY <1>2, <2>2, <2>3, <2>4
<1>5. CASE ~OrphanJob(f)
  <2>1. Orphans' \subseteq Orphans
    <3> SUFFICES ASSUME NEW job \in Orphans', job \notin Orphans
                 PROVE  FALSE
      OBVIOUS
    <3>1. job = <<f, work[f].policy>>
      BY <1>3
    <3>2. /\ jobs'[f][work[f].policy] = "running"
          /\ ~(future'[f] = "running" /\ work'[f].policy = work[f].policy)
      BY <1>1, <3>1
    <3>3. QED
      BY <1>5, <3>2, JobTells
  <2>2. Cardinality(Orphans') <= Cardinality(Orphans) /\ Cardinality(Orphans') \in Nat
    BY <1>2, <2>1, SmallerCount
  <2>3. faults' >= faults /\ faults' \in Nat /\ faults \in Nat
    BY ThreadCounters, BatchAssumption DEF BaseType, FileInv
  <2>4. QED
    BY <1>2, <2>2, <2>3
<1>6. QED
  BY <1>4, <1>5

----------------------------------------------------------------------------
(* The main thread.                                                        *)

LEMMA CollectInv ==
  ASSUME IInv, NEW f \in Files, Collect(f)
  PROVE  IInv'
<1>1. /\ main = "collecting" /\ ~stop /\ stop' \in BOOLEAN /\ future[f] = "finished"
      /\ results' = [results EXCEPT ![f] = verdict[f]]
      /\ stop' => main' # "collecting"
      /\ main' \in {"collecting", "cancelling"}
  BY DEF Collect, IInv, BaseType
<1>2. /\ future' = future /\ verdict' = verdict /\ work' = work /\ media' = media
      /\ library' = library /\ renamed' = renamed /\ jobs' = jobs /\ faults' = faults /\ late' = late
  BY DEF Collect, mainLeaves, files, rows
<1>3. BaseType'
  BY <1>1, <1>2 DEF IInv, BaseType
<1>4. ASSUME NEW g \in Files
      PROVE  FileInv(g)'
  <2>1. FileInv(g) /\ results'[g] \in {results[g]} \cup {v \in {verdict[g]} : future[g] = "finished"}
    BY <1>1 DEF IInv, BaseType
  <2>2. VerdictInv(future[g], verdict[g], results'[g], jobs[g], stop')
    BY <1>1, <2>1 DEF FileInv, VerdictInv
  <2>3. QED
    BY <1>2, <2>1, <2>2 DEF FileInv
<1>5. CountInv'
  <2>1. Active' = Active /\ Deciding' = Deciding
    BY <1>2 DEF Active, Deciding, In, Running
  <2>2. late = 0 /\ Cardinality(Active) <= Workers /\ Cardinality(Deciding) <= Cardinality(Active)
    BY <1>1, ActiveFinite DEF IInv, CountInv
  <2>3. Cardinality(Active) \in Nat /\ Cardinality(Deciding) \in Nat
    BY ActiveFinite, FS_CardinalityType
  <2>4. QED
    BY <1>2, <2>1, <2>2, <2>3, BatchAssumption DEF CountInv
<1>6. Orphans' = Orphans
  BY <1>2 DEF Orphans, Running
<1>7. QED
  BY <1>2, <1>3, <1>4, <1>5, <1>6 DEF IInv

LEMMA InterruptInv ==
  ASSUME IInv, Interrupt
  PROVE  IInv'
<1>1. /\ main = "collecting" /\ ~stop /\ stop' = TRUE /\ main' = "cancelling" /\ results' = results
      /\ future' = future /\ verdict' = verdict /\ work' = work /\ media' = media
      /\ library' = library /\ renamed' = renamed /\ jobs' = jobs /\ faults' = faults /\ late' = late
  BY DEF Interrupt, mainLeaves, files, rows, IInv, BaseType
<1>2. BaseType'
  BY <1>1 DEF IInv, BaseType
<1>3. ASSUME NEW g \in Files
      PROVE  FileInv(g)'
  BY <1>1 DEF IInv, FileInv, VerdictInv
<1>4. CountInv'
  <2>1. Active' = Active /\ Deciding' = Deciding
    BY <1>1 DEF Active, Deciding, In, Running
  <2>2. late = 0 /\ Cardinality(Active) <= Workers /\ Cardinality(Deciding) <= Cardinality(Active)
    BY <1>1, ActiveFinite DEF IInv, CountInv
  <2>3. Cardinality(Active) \in Nat /\ Cardinality(Deciding) \in Nat
    BY ActiveFinite, FS_CardinalityType
  <2>4. QED
    BY <1>1, <2>1, <2>2, <2>3, BatchAssumption DEF CountInv
<1>5. Orphans' = Orphans
  BY <1>1 DEF Orphans, Running
<1>6. QED
  BY <1>1, <1>2, <1>3, <1>4, <1>5 DEF IInv

LEMMA CancelInv ==
  ASSUME IInv, CancelPending
  PROVE  IInv'
<1>1. /\ main' = "waiting" /\ stop' = stop /\ results' = results /\ verdict' = verdict
      /\ work' = work /\ media' = media /\ library' = library /\ renamed' = renamed
      /\ jobs' = jobs /\ faults' = faults /\ late' = late
      /\ future' = [g \in Files |-> IF future[g] = "pending" THEN "cancelled" ELSE future[g]]
  BY DEF CancelPending, files, rows
<1>2. BaseType'
  BY <1>1 DEF IInv, BaseType, Futures
<1>3. ASSUME NEW g \in Files
      PROVE  FileInv(g)'
  <2>1. FileInv(g) /\ (future'[g] = future[g] \/ (future[g] = "pending" /\ future'[g] = "cancelled"))
    BY <1>1 DEF IInv
  <2>2. JobsInv(future'[g], work[g], jobs[g])
    BY <2>1 DEF FileInv, JobsInv
  <2>3. LibraryInv(future'[g], work[g], jobs[g], media[g], library[g])
    BY <2>1 DEF FileInv, LibraryInv
  <2>4. VerdictInv(future'[g], verdict[g], results[g], jobs[g], stop)
    BY <2>1 DEF FileInv, VerdictInv
  <2>5. QED
    BY <1>1, <2>1, <2>2, <2>3, <2>4 DEF FileInv
<1>4. \A g \in Files : Running(g)' <=> Running(g)
  BY <1>1 DEF Running
<1>5. CountInv'
  <2>1. Active' = Active /\ Deciding' = Deciding
    BY <1>1, <1>4 DEF Active, Deciding, In, Running
  <2>2. QED
    BY <1>1, <2>1 DEF CountInv, IInv
<1>6. Orphans' = Orphans
  BY <1>1, <1>4 DEF Orphans, Running
<1>7. QED
  BY <1>1, <1>2, <1>3, <1>5, <1>6 DEF IInv

LEMMA FinishInv ==
  ASSUME IInv, Finish
  PROVE  IInv'
<1>1. /\ main' = "done" /\ stop' = stop /\ results' = results /\ future' = future
      /\ verdict' = verdict /\ work' = work /\ media' = media /\ library' = library
      /\ renamed' = renamed /\ jobs' = jobs /\ faults' = faults /\ late' = late
  BY DEF Finish, mainLeaves, files, rows
<1>2. Active' = Active /\ Deciding' = Deciding /\ Orphans' = Orphans
  BY <1>1 DEF Active, Deciding, Orphans, In, Running
<1>3. BaseType' /\ CountInv'
  BY <1>1, <1>2 DEF IInv, BaseType, CountInv
<1>4. \A g \in Files : FileInv(g)'
  BY <1>1 DEF IInv, FileInv
<1>5. QED
  BY <1>1, <1>2, <1>3, <1>4 DEF IInv

----------------------------------------------------------------------------
(* The invariant.                                                          *)

LEMMA InitInv == Init => IInv
<1> SUFFICES ASSUME Init PROVE IInv
  OBVIOUS
<1>1. BaseType
  <2>1. faults \in 0..MaxFaults /\ late \in Nat
    BY BatchAssumption DEF Init
  <2>2. media = [f \in Files |-> media[f]] /\ library = [f \in Files |-> library[f]]
    <3>1. Media = [f \in Files |-> Media[f]]
      BY BatchAssumption
    <3>2. media = Media /\ library = [f \in Files |-> IF f \in Unscanned THEN None ELSE Media[f]]
      BY DEF Init
    <3>3. QED
      BY <3>1, <3>2
  <2>3. work = [f \in Files |-> work[f]] /\ renamed \subseteq Files
    BY DEF Init
  <2>4. jobs \in [Files -> [DOMAIN Policies -> Statuses]]
    BY DEF Init, Statuses
  <2>5. /\ future \in [Files -> Futures]
        /\ verdict \in [Files -> Verdicts] /\ results \in [Files -> Verdicts]
    BY DEF Init, Futures, Verdicts
  <2>6. main = "collecting" /\ stop = FALSE
    BY DEF Init
  <2>7. QED
    BY <2>1, <2>2, <2>3, <2>4, <2>5, <2>6 DEF BaseType
<1>2. ASSUME NEW f \in Files
      PROVE  FileInv(f)
  <2>1. /\ future[f] = "pending" /\ verdict[f] = "none" /\ results[f] = "none" /\ work[f] = Idle
        /\ \A p \in DOMAIN Policies : jobs[f][p] = "none"
        /\ library[f] \in {None, media[f]}
    BY <1>2 DEF Init
  <2>2. QED
    BY <2>1, IdleWork DEF FileInv, JobsInv, LibraryInv, VerdictInv
<1>3. Active = {} /\ Deciding = {} /\ Orphans = {}
  BY DEF Init, Active, Deciding, Orphans, In, Running
<1>4. QED
  BY <1>1, <1>2, <1>3, FS_EmptySet, BatchAssumption DEF IInv, CountInv, Init

LEMMA NextInv == IInv /\ [Next]_vars => IInv'
<1> SUFFICES ASSUME IInv, [Next]_vars PROVE IInv'
  OBVIOUS
<1>1. ASSUME NEW f \in Files, Thread(f)
      PROVE  IInv'
  <2>1. BaseType /\ FileInv(f) /\ WorkType(work[f]) /\ CountInv /\ Cardinality(Orphans) <= faults
    BY DEF IInv, FileInv
  <2>2. LocalStep(f)
    BY <1>1, <2>1, ThreadLocal
  <2>3. BaseType' /\ CountInv' /\ Cardinality(Orphans') <= faults'
    BY <1>1, <2>1, <2>2, ThreadBase, ThreadCount, ThreadOrphans
  <2>4. ASSUME NEW g \in Files
        PROVE  FileInv(g)'
    <3>1. CASE g = f
      BY <2>2, <3>1 DEF LocalStep
    <3>2. CASE g # f
      BY <2>1, <2>2, <3>2, ThreadOthers DEF IInv
    <3>3. QED
      BY <3>1, <3>2
  <2>5. QED
    BY <2>3, <2>4 DEF IInv
<1>2. CASE Main
  BY <1>2, CollectInv, CancelInv, FinishInv DEF Main
<1>3. CASE Interrupt
  BY <1>3, InterruptInv
<1>4. CASE UNCHANGED vars
  <2>1. /\ main' = main /\ stop' = stop /\ results' = results /\ future' = future
        /\ verdict' = verdict /\ work' = work /\ media' = media /\ library' = library
        /\ renamed' = renamed /\ jobs' = jobs /\ faults' = faults /\ late' = late
    BY <1>4 DEF vars
  <2>2. Active' = Active /\ Deciding' = Deciding /\ Orphans' = Orphans
    BY <2>1 DEF Active, Deciding, Orphans, In, Running
  <2>3. BaseType' /\ CountInv'
    BY <2>1, <2>2 DEF IInv, BaseType, CountInv
  <2>4. \A g \in Files : FileInv(g)'
    BY <2>1 DEF IInv, FileInv
  <2>5. QED
    BY <2>1, <2>2, <2>3, <2>4 DEF IInv
<1>5. QED
  BY <1>1, <1>2, <1>3, <1>4 DEF Next

\* Whatever threads, faults and Ctrl-C do, in any order: the invariant that the
\* theorems below follow from.
THEOREM BatchInvariant == Spec => []IInv
<1>1. Init => IInv
  BY InitInv
<1>2. IInv /\ [Next]_vars => IInv'
  BY NextInv
<1>3. QED
  BY <1>1, <1>2, PTL DEF Spec

\* What the variables range over.
THEOREM BatchTypeOK == Spec => []TypeOK
<1>1. ASSUME IInv PROVE TypeOK
  <2>1. ASSUME NEW f \in Files
        PROVE  /\ work[f].step \in Steps /\ work[f].succeeded \in BOOLEAN
               /\ work[f].policy \in DOMAIN Policies
               /\ work[f].step = "phase" => work[f].phase \in DOMAIN PolicyOf(f).phases
               /\ work[f].outcome \in [Names -> Outcomes]
               /\ work[f].modified \subseteq Names /\ work[f].failed \subseteq Names
    <3>1. WorkType(work[f])
      BY <1>1, <2>1 DEF IInv, FileInv
    <3>2. /\ DOMAIN PolicyOf(f).phases = 1..Len(PolicyOf(f).phases)
          /\ Len(PolicyOf(f).phases) \in Nat
      BY <3>1, PolicyFacts DEF WorkType, PolicyOf
    <3>3. work[f].step = "phase" =>
            work[f].phase \in Nat \ {0} /\ work[f].phase <= Len(PolicyOf(f).phases)
      BY <3>1 DEF WorkType, PhasesOf, PolicyOf
    <3>4. QED
      BY <3>1, <3>2, <3>3 DEF WorkType
  <2>2. BaseType
    BY <1>1 DEF IInv
  <2>3. DOMAIN work = Files /\ DOMAIN media = Files /\ DOMAIN library = Files
    BY <2>2 DEF BaseType
  <2>4. QED
    BY <2>1, <2>2, <2>3 DEF TypeOK, BaseType, Futures, Verdicts, Statuses, Outcomes
<1>2. QED
  BY <1>1, BatchInvariant, PTL

\* A file that the batch reports as processed has a job that completed for every
\* policy, and no more jobs stay running than updates of a job's row failed.
THEOREM BatchJobsTell == Spec => []JobsTell
<1>1. ASSUME IInv PROVE JobsTell
  <2>1. OkMeansAll
    BY <1>1 DEF IInv, FileInv, VerdictInv, OkMeansAll
  <2>2. NoOrphans
    BY <1>1 DEF IInv, NoOrphans
  <2>3. QED
    BY <2>1, <2>2 DEF JobsTell
<1>2. QED
  BY <1>1, BatchInvariant, PTL

\* A phase runs on the work of the phases it depends on, not after one whose error
\* mode ends the phases, and on the file as it is.
THEOREM BatchPhasesFollow == Spec => []PhasesFollow
<1>1. ASSUME IInv PROVE PhasesFollow
  <2>1. ASSUME NEW f \in Files
        PROVE  /\ WorkType(work[f]) /\ PhasesInv(work[f])
               /\ PhasesOf(work[f]) = PolicyOf(f).phases
               /\ \A k \in DOMAIN PolicyOf(f).phases :
                    PolicyOf(f).phases[k].dependsOn \subseteq Names
    BY <1>1, PolicyFacts DEF IInv, FileInv, PhasesOf, PolicyOf, WorkType
  <2>2. CompletedDependencies
    <3> SUFFICES ASSUME NEW f \in Files, NEW k \in DOMAIN PolicyOf(f).phases,
                        work[f].outcome[PolicyOf(f).phases[k].name] \in {"completed", "failed"},
                        NEW d \in PolicyOf(f).phases[k].dependsOn
                 PROVE  work[f].outcome[d] = "completed" /\ d \notin work[f].failed
      BY DEF CompletedDependencies
    <3>1. d \in Names
      BY <2>1
    <3>2. work[f].outcome[d] = "completed"
      BY <2>1 DEF PhasesInv, DependenciesMet
    <3>3. QED
      BY <2>1, <3>1, <3>2 DEF PhasesInv, FailuresKnown
  <2>3. OnErrorStops
    <3> SUFFICES ASSUME NEW f \in Files, NEW j \in DOMAIN PolicyOf(f).phases,
                        NEW k \in DOMAIN PolicyOf(f).phases,
                        j < k, PolicyOf(f).phases[j].name \in work[f].failed,
                        EffectiveOnError(PolicyOf(f), PolicyOf(f).phases[j]) # "continue"
                 PROVE  work[f].outcome[PolicyOf(f).phases[k].name] = "pending"
      BY DEF OnErrorStops
    <3>1. ~LetsGoOn(work[f], j)
      BY <2>1 DEF LetsGoOn, PolicyOf
    <3>2. QED
      BY <2>1, <3>1 DEF PhasesInv, ModesKept
  <2>4. KnownIsReal
    BY <1>1 DEF KnownIsReal, IInv, FileInv, LibraryInv, In, Running
  <2>5. QED
    BY <2>2, <2>3, <2>4 DEF PhasesFollow
<1>2. QED
  BY <1>1, BatchInvariant, PTL

\* After the stop no more jobs are created than there are threads, whatever is left
\* in the queue and in the lists of policies.
THEOREM StopIsHeeded == Spec => []StopTakesEffect
<1>1. ASSUME IInv PROVE StopTakesEffect
  <2>1. Cardinality(Deciding) \in Nat
    BY ActiveFinite, FS_CardinalityType
  <2>2. QED
    BY <1>1, <2>1, BatchAssumption DEF IInv, CountInv, BaseType, StopTakesEffect
<1>2. QED
  BY <1>1, BatchInvariant, PTL

=============================================================================
