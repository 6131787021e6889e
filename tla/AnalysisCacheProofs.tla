------------------------- MODULE AnalysisCacheProofs -------------------------
(***************************************************************************)
(* Theorems about AnalysisCache, for every film, every number of processes *)
(* and every bound: what is stored of the sound of the film, and what the  *)
(* policies that use it are told.                                          *)
(***************************************************************************)
EXTENDS AnalysisCache, FiniteSetTheorems, TLAPS

Hashes == Contents \cup {NoHash}
Sounds == Seq(Languages \cup {Silence})

----------------------------------------------------------------------------
(* Types.                                                                  *)

AnalysisPcs == {"track", "listen", "store", "segments"}
RunPcs      == {"load", "evaluate", "evaluated", "introspect", "measure", "record"}

AnalysisState(s) ==
    \/ s \in [pc : {"tracks"}, hash : Hashes, reuse : BOOLEAN]
    \/ s \in [pc : AnalysisPcs, reuse : BOOLEAN, hash : Hashes, ids : Seq(Nat), i : Nat,
              samples : Sounds, key : Nat \cup {None}]

ClassState(s) ==
    \/ s \in [pc : {"cached", "rows"}, force : BOOLEAN, hash : Hashes,
              original : Originals \cup {None}]
    \/ s \in [pc : {"classify"}, hash : Hashes, original : Originals \cup {None},
              ids : Seq(Nat), tracks : Contents, i : Nat]

ScanState(s) ==
    \/ s \in [pc : {"idle", "cleared"}]
    \/ s \in [pc : {"hash"}, stamp : Contents]
    \/ s \in [pc : {"begin", "persist"}, stamp : Contents, hash : Hashes]
    \/ s \in [pc : {"commit"}, stamp : Contents, hash : Hashes, tracks : Contents \cup {None}]

RunState(s) ==
    \/ s \in [pc : {"load"}, loaded : Hashes]
    \/ s \in [pc : {"evaluate", "introspect"}, loaded : Hashes, ids : Seq(Nat)]
    \/ s.pc = "evaluated" /\ s \in [pc : {"evaluated"}, loaded : Hashes, ids : Seq(Nat),
                                    used : {s.used}, multi : {s.multi}, whole : BOOLEAN]
    \/ s \in [pc : {"measure"}, loaded : Hashes, tracks : Contents]
    \/ s \in [pc : {"record"}, loaded : Hashes, tracks : Contents, stamp : Contents, hash : Hashes]

StateType(s) == AnalysisState(s) \/ ClassState(s) \/ ScanState(s) \/ RunState(s)

HistType(c, h) ==
    /\ h \in [seen : SUBSET Contents, returned : BOOLEAN, failed : BOOLEAN,
              recorded : SUBSET Hashes, blind : BOOLEAN, torn : SUBSET Nat,
              mixed : BOOLEAN, calm : SUBSET Procs]
    /\ c \in h.seen

HeardType(r) ==
    r \in [key : Nat, hash : Hashes, primary : {r.primary}, multi : {r.multi}, segs : {r.segs}]

\* What hangs on rows hangs on rows of the film; a row has one track.
DbType(d) ==
    /\ d \in [stamp : Contents, hash : Hashes, original : Originals \cup {None}, tracks : Contents,
              ids : Seq(Nat), next : Nat, heard : {d.heard}, classed : {d.classed}]
    /\ Len(d.ids) = Len(Film[d.tracks])
    /\ \A i \in DOMAIN d.ids, j \in DOMAIN d.ids : d.ids[i] = d.ids[j] => i = j
    /\ \A i \in DOMAIN d.ids : d.ids[i] < d.next
    /\ DOMAIN d.heard \subseteq Range(d.ids) /\ DOMAIN d.classed \subseteq Range(d.ids)
    /\ d.heard = [id \in DOMAIN d.heard |-> d.heard[id]]
    /\ \A id \in DOMAIN d.heard : HeardType(d.heard[id])

WriterInv ==
    /\ writer \in Procs \cup {None}
    /\ \A p \in Procs : writer = p <=> proc[p].pc \in {"persist", "commit", "cleared"}

Types ==
    /\ content \in Contents /\ HistType(content, history) /\ DbType(db)
    /\ proc = [p \in Procs |-> proc[p]] /\ \A p \in Procs : StateType(proc[p])
    /\ WriterInv

----------------------------------------------------------------------------
(* What a process in state s knows: database d, content c, history h.      *)

\* Rows that were read keep their index.
Placed(ids, d) ==
    \A i \in DOMAIN ids :
        ids[i] < d.next /\ \A j \in DOMAIN d.ids : ids[i] = d.ids[j] => i = j

Sound(c, i, k) == IF i \in DOMAIN Film[c] THEN Film[c][i].samples[k] ELSE Silence

\* The hash of a file is of a content it had.
SeenInv(s, h) ==
    s.pc \in AnalysisPcs \cup {"tracks", "begin", "persist", "commit", "record"} =>
        s.hash \in h.seen \cup {NoHash}

\* An analysis whose hash is that of the film has heard the film.
AnalysisInv(s, d, c, h) ==
    /\ s.pc \in AnalysisPcs => Placed(s.ids, d) /\ s.i # 0
    /\ s.pc = "track" => s.samples = <<>>
    /\ s.pc \in {"listen", "store", "segments"} =>
         /\ s.i \in DOMAIN s.ids
         /\ s.pc = "listen" => Len(s.samples) < SamplesPerTrack
         /\ s.pc # "listen" => Len(s.samples) = SamplesPerTrack
         /\ ~h.returned /\ ~h.failed /\ s.hash = c =>
              \A k \in DOMAIN s.samples : s.samples[k] = Sound(c, s.i, k)

\* A classification under the hash that is recorded has the tracks that are recorded.
ClassInv(s, d, h) ==
    /\ s.pc = "classify" =>
         /\ Len(s.ids) = Len(Film[s.tracks]) /\ s.i \in DOMAIN s.ids
         /\ Placed(s.ids, d)
    /\ s.pc \in {"cached", "rows", "classify"} => s.hash \in h.recorded
    /\ s.pc = "classify" /\ ~h.blind /\ s.hash = d.hash => s.tracks = d.tracks /\ s.ids = d.ids

\* What it has stored so far is there, on the rows that are.
HalfwayInv(s, d, h) ==
    s.pc = "classify" /\ ~h.mixed =>
        \A j \in 1..s.i - 1 : s.ids[j] \in Range(d.ids) =>
            /\ s.ids[j] \in DOMAIN d.classed
            /\ d.classed[s.ids[j]] = ClassifyTrack(Film[s.tracks], j, s.original, s.hash)

\* A run that nobody disturbed is on the film as it was recorded, or has no rows.
RunInv(p, s, d, c, h) ==
    p \in h.calm =>
        /\ s.pc \in RunPcs
        /\ s.pc = "load" => s.loaded = c /\ d.tracks = c
        /\ s.pc \in {"evaluate", "evaluated"} =>
             \/ s.ids = <<>>
             \/ s.loaded = c /\ d.tracks = c /\ s.ids = d.ids

\* The verdicts it has used are those of the film.
UsedInv(p, s, c, h) ==
    s.pc = "evaluated" =>
        /\ DOMAIN s.used \subseteq DOMAIN s.ids
        /\ s.multi <=> IsMultiLanguage(Range(s.used))
        /\ p \in h.calm /\ ~h.returned /\ ~h.failed =>
             \A i \in DOMAIN s.used : s.used[i].hash = s.loaded =>
                 /\ i \in DOMAIN Film[c] /\ SameVerdict(s.used[i], Verdict(Film[c][i].samples))
                 /\ s.whole => s.used[i].segs = Segments(Film[c][i].samples)

ProcInv(p, s, d, c, h) ==
    /\ SeenInv(s, h) /\ AnalysisInv(s, d, c, h) /\ ClassInv(s, d, h) /\ HalfwayInv(s, d, h)
    /\ RunInv(p, s, d, c, h) /\ UsedInv(p, s, c, h)

----------------------------------------------------------------------------
(* What is stored.                                                         *)

HeardInv(d, c, h) ==
    /\ d.hash \in h.seen \cup {NoHash}
    /\ \A id \in DOMAIN d.heard : d.heard[id].hash \in h.seen \cup {NoHash}
    /\ ~h.returned /\ ~h.failed =>
         \A i \in DOMAIN d.ids \cap DOMAIN Film[c] :
             d.ids[i] \in DOMAIN d.heard /\ d.heard[d.ids[i]].hash = c =>
                 SameVerdict(d.heard[d.ids[i]], Verdict(Film[c][i].samples))

\* Between its two transactions an analysis is alone with its row, and what it has
\* stored is there, if the row is not torn.
StoringInv ==
    \A p \in Procs : Storing(p) /\ Row(p) \notin history.torn =>
        /\ \A q \in Procs : Storing(q) /\ Row(q) = Row(p) => q = p
        /\ Row(p) \in DOMAIN db.heard =>
             LET v == db.heard[Row(p)]
             IN  /\ v.key = proc[p].key /\ v.hash = proc[p].hash
                 /\ SameVerdict(v, Verdict(proc[p].samples))

Settled(id) == id \notin history.torn /\ \A p \in Procs : Storing(p) => Row(p) # id

SegmentsInv ==
    \A id \in DOMAIN db.heard : Settled(id) =>
        /\ SameVerdict(db.heard[id], Verdict(db.heard[id].segs))
        /\ ~history.returned /\ ~history.failed /\ db.heard[id].hash = content =>
             \A i \in DOMAIN db.ids \cap DOMAIN Film[content] :
                 db.ids[i] = id => db.heard[id].segs = Segments(Film[content][i].samples)

RecordInv(d, h) ==
    /\ d.hash \in h.recorded
    /\ ~h.blind => d.tracks = d.hash
    /\ \A id \in DOMAIN d.classed : d.classed[id].hash \in h.recorded

Complete(d) ==
    \E original \in Originals \cup {None} : \A i \in DOMAIN d.ids :
        /\ d.ids[i] \in DOMAIN d.classed
        /\ d.classed[d.ids[i]] = ClassifyTrack(Film[d.tracks], i, original, d.hash)

ClassesInv ==
    ~history.blind /\ ~history.mixed /\ CachedClasses(db.hash) /\ (\A p \in Procs : ~Halfway(p)) =>
        Complete(db)

IInv ==
    /\ Types
    /\ \A p \in Procs : ProcInv(p, proc[p], db, content, history)
    /\ HeardInv(db, content, history) /\ StoringInv /\ SegmentsInv
    /\ RecordInv(db, history) /\ ClassesInv

----------------------------------------------------------------------------
(* The helpers.                                                            *)

LEMMA ElementFacts ==
  ASSUME NEW S, NEW q \in Seq(S), NEW j \in 1..Len(q)
  PROVE  q[j] \in S
OBVIOUS

LEMMA FilmFacts ==
  /\ NoHash \notin Contents /\ None \notin Contents /\ None \notin Procs /\ None # NoHash
  /\ \A c \in Contents :
       /\ Film[c] \in Seq([samples : Sounds, tag : Languages \cup {None}, commentary : BOOLEAN])
       /\ Len(Film[c]) \in Nat /\ DOMAIN Film[c] = 1..Len(Film[c])
       /\ 1 \in DOMAIN Film[c]
       /\ \A i \in DOMAIN Film[c] : Film[c][i].samples \in Sounds
<1> DEFINE T == [samples : Sounds, tag : Languages \cup {None}, commentary : BOOLEAN]
<1>1. NoHash \notin Contents /\ None \notin Contents /\ None \notin Procs /\ None # NoHash
  BY AnalysisCacheAssumption
<1>2. Film \in [Contents -> Seq(T)]
  BY AnalysisCacheAssumption DEF Sounds
<1>3. \A t \in T : t.samples \in Sounds
  OBVIOUS
<1> HIDE DEF T
<1>4. ASSUME NEW c \in Contents
      PROVE  /\ Film[c] \in Seq(T) /\ Len(Film[c]) \in Nat /\ DOMAIN Film[c] = 1..Len(Film[c])
             /\ 1 \in DOMAIN Film[c]
             /\ \A i \in DOMAIN Film[c] : Film[c][i].samples \in Sounds
  <2>1. Film[c] \in Seq(T) /\ Film[c] # <<>>
    BY <1>2, AnalysisCacheAssumption
  <2>2. Len(Film[c]) \in Nat /\ DOMAIN Film[c] = 1..Len(Film[c]) /\ Len(Film[c]) # 0
    BY <2>1
  <2>3. \A i \in DOMAIN Film[c] : Film[c][i] \in T
    BY <2>1
  <2>4. QED
    BY <1>3, <2>1, <2>2, <2>3
<1>5. QED
  BY <1>1, <1>4 DEF T

LEMMA SampleFacts ==
  ASSUME NEW c \in Contents
  PROVE  /\ SamplesPerTrack \in Nat \ {0}
         /\ \A i \in DOMAIN Film[c] :
              Film[c][i].samples \in Sounds /\ Len(Film[c][i].samples) = SamplesPerTrack
<1> DEFINE d == CHOOSE x \in Contents : TRUE
<1>1. d \in Contents
  OBVIOUS
<1>2. \A x \in Contents : \A i \in DOMAIN Film[x] : Film[x][i].samples \in Sounds /\ Film[x][i].samples # <<>>
  <2> SUFFICES ASSUME NEW x \in Contents, NEW i \in DOMAIN Film[x]
               PROVE  Film[x][i].samples \in Sounds /\ Film[x][i].samples # <<>>
    OBVIOUS
  <2>1. QED
    BY FilmFacts, AnalysisCacheAssumption
<1>3. 1 \in DOMAIN Film[d]
  BY <1>1, FilmFacts
<1>4. Film[d][1].samples \in Sounds /\ Film[d][1].samples # <<>>
  BY <1>1, <1>2, <1>3
<1>5. SamplesPerTrack = Len(Film[d][1].samples)
  BY DEF SamplesPerTrack
<1>6. SamplesPerTrack \in Nat \ {0}
  BY <1>4, <1>5 DEF Sounds
<1>7. \A i \in DOMAIN Film[c] : Len(Film[c][i].samples) = SamplesPerTrack
  BY <1>1, <1>3, <1>5, AnalysisCacheAssumption
<1>8. QED
  BY <1>2, <1>6, <1>7

\* The verdict on the segments of a track is the verdict on the track.
LEMMA SegmentsFacts ==
  ASSUME NEW samples
  PROVE  /\ Segments(Segments(samples)) = Segments(samples)
         /\ Verdict(Segments(samples)) = Verdict(samples)
         /\ Verdict(samples).segs = Segments(samples)
<1>1. Segments(Segments(samples)) = Segments(samples)
  BY DEF Segments, Restrict
<1>2. Verdict(Segments(samples)) = Verdict(samples)
  BY <1>1 DEF Verdict
<1>3. Verdict(samples).segs = Segments(samples)
  BY DEF Verdict
<1>4. QED
  BY <1>1, <1>2, <1>3

\* What an analysis that is done has heard.
LEMMA WholeSound ==
  ASSUME NEW c \in Contents, NEW i \in DOMAIN Film[c], NEW samples \in Sounds,
         Len(samples) = SamplesPerTrack, \A k \in DOMAIN samples : samples[k] = Sound(c, i, k)
  PROVE  samples = Film[c][i].samples
<1>1. Film[c][i].samples \in Sounds /\ Len(Film[c][i].samples) = Len(samples)
  BY SampleFacts
<1>2. \A k \in 1..Len(samples) : samples[k] = Film[c][i].samples[k]
  BY DEF Sound, Sounds
<1>3. QED
  BY <1>1, <1>2 DEF Sounds

LEMMA RangeFacts ==
  ASSUME NEW ids \in Seq(Nat)
  PROVE  /\ Range(ids) \subseteq Nat
         /\ \A i \in DOMAIN ids : ids[i] \in Range(ids) /\ ids[i] \in Nat
         /\ \A id \in Range(ids) : \E i \in DOMAIN ids : ids[i] = id
BY DEF Range

LEMMA WithFacts ==
  ASSUME NEW f, NEW x, NEW v
  PROVE  /\ DOMAIN With(f, x, v) = DOMAIN f \cup {x} /\ With(f, x, v)[x] = v
         /\ With(f, x, v) = [y \in DOMAIN f \cup {x} |-> With(f, x, v)[y]]
         /\ \A y \in DOMAIN f : y # x => With(f, x, v)[y] = f[y]
BY DEF With

LEMMA WithoutFacts ==
  ASSUME NEW f, NEW S
  PROVE  /\ DOMAIN Without(f, S) = DOMAIN f \ S
         /\ Without(f, S) = [y \in DOMAIN f \ S |-> Without(f, S)[y]]
         /\ \A y \in DOMAIN f \ S : Without(f, S)[y] = f[y]
BY DEF Without

LEMMA GotoFacts ==
  ASSUME Types, NEW p \in Procs, NEW s, Goto(p, s)
  PROVE  /\ proc'[p] = s
         /\ \A q \in Procs : q # p => proc'[q] = proc[q]
         /\ proc' = [q \in Procs |-> proc'[q]]
BY DEF Types, Goto

\* What the name of a step tells of what its process remembers.
LEMMA AnalysisStates ==
  ASSUME NEW s, StateType(s)
  PROVE  /\ s.pc = "tracks" => s \in [pc : {"tracks"}, hash : Hashes, reuse : BOOLEAN]
         /\ s.pc \in AnalysisPcs =>
              s \in [pc : AnalysisPcs, reuse : BOOLEAN, hash : Hashes, ids : Seq(Nat), i : Nat,
                     samples : Sounds, key : Nat \cup {None}]
BY DEF StateType, AnalysisState, ClassState, ScanState, RunState, AnalysisPcs

LEMMA ClassStates ==
  ASSUME NEW s, StateType(s)
  PROVE  /\ s.pc \in {"cached", "rows"} =>
              s \in [pc : {"cached", "rows"}, force : BOOLEAN, hash : Hashes,
                     original : Originals \cup {None}]
         /\ s.pc = "classify" =>
              s \in [pc : {"classify"}, hash : Hashes, original : Originals \cup {None},
                     ids : Seq(Nat), tracks : Contents, i : Nat]
BY DEF StateType, AnalysisState, ClassState, ScanState, RunState, AnalysisPcs

LEMMA ScanStates ==
  ASSUME NEW s, StateType(s)
  PROVE  /\ s.pc = "hash" => s \in [pc : {"hash"}, stamp : Contents]
         /\ s.pc \in {"begin", "persist"} =>
              s \in [pc : {"begin", "persist"}, stamp : Contents, hash : Hashes]
         /\ s.pc = "commit" => s \in [pc : {"commit"}, stamp : Contents, hash : Hashes,
                                      tracks : Contents \cup {None}]
BY DEF StateType, AnalysisState, ClassState, ScanState, RunState, AnalysisPcs

LEMMA RunStates ==
  ASSUME NEW s, StateType(s)
  PROVE  /\ s.pc = "load" => s \in [pc : {"load"}, loaded : Hashes]
         /\ s.pc \in {"evaluate", "introspect"} =>
              s \in [pc : {"evaluate", "introspect"}, loaded : Hashes, ids : Seq(Nat)]
         /\ s.pc = "evaluated" => s \in [pc : {"evaluated"}, loaded : Hashes, ids : Seq(Nat),
                                         used : {s.used}, multi : {s.multi}, whole : BOOLEAN]
         /\ s.pc = "measure" => s \in [pc : {"measure"}, loaded : Hashes, tracks : Contents]
         /\ s.pc = "record" => s \in [pc : {"record"}, loaded : Hashes, tracks : Contents,
                                      stamp : Contents, hash : Hashes]
BY DEF StateType, AnalysisState, ClassState, ScanState, RunState, AnalysisPcs


----------------------------------------------------------------------------
(* What a step leaves alone.                                               *)

Later(h, g) ==
    /\ h.seen \subseteq g.seen /\ h.recorded \subseteq g.recorded
    /\ (h.returned => g.returned) /\ (h.failed => g.failed)
    /\ (h.blind => g.blind) /\ (h.mixed => g.mixed)

\* What a process knows stays true when its rows and its film stay.
LEMMA ProcStays ==
  ASSUME NEW s, StateType(s), NEW d, NEW e, DbType(d), NEW c, NEW h, NEW g, NEW p,
         ProcInv(p, s, d, c, h), Later(h, g), p \in g.calm => p \in h.calm,
         e.ids = d.ids, e.tracks = d.tracks, e.hash = d.hash, e.next \in Nat, d.next <= e.next,
         s.pc # "classify" \/ g.mixed \/ s.i = 1 \/ e.classed = d.classed
  PROVE  ProcInv(p, s, e, c, g)
<1>1. d.next \in Nat
  BY DEF DbType
<1>2. ASSUME NEW ids \in Seq(Nat), Placed(ids, d) PROVE Placed(ids, e)
  BY <1>1, <1>2 DEF Placed
<1>3. AnalysisInv(s, e, c, g)
  <2>1. s.pc \in AnalysisPcs => Placed(s.ids, e)
    <3>1. s.pc \in AnalysisPcs => s.ids \in Seq(Nat)
      BY AnalysisStates
    <3>2. QED
      BY <1>2, <3>1 DEF ProcInv, AnalysisInv
  <2>2. QED
    BY <2>1 DEF ProcInv, AnalysisInv, Later
<1>4. ClassInv(s, e, g)
  <2>1. s.pc = "classify" => Placed(s.ids, e)
    <3>1. s.pc = "classify" => s.ids \in Seq(Nat)
      BY ClassStates
    <3>2. QED
      BY <1>2, <3>1 DEF ProcInv, ClassInv
  <2>2. QED
    BY <2>1 DEF ProcInv, ClassInv, Later
<1>5. HalfwayInv(s, e, g)
  <2>1. CASE s.pc # "classify" \/ g.mixed
    BY <2>1 DEF HalfwayInv
  <2>2. CASE s.i = 1
    BY <2>2 DEF HalfwayInv
  <2>3. CASE e.classed = d.classed
    BY <2>3 DEF HalfwayInv, ProcInv, Later
  <2>4. QED
    BY <2>1, <2>2, <2>3
<1>6. RunInv(p, s, e, c, g)
  BY DEF ProcInv, RunInv
<1>7. UsedInv(p, s, c, g)
  BY DEF ProcInv, UsedInv, Later
<1>8. SeenInv(s, g)
  BY DEF ProcInv, SeenInv, Later
<1>9. QED
  BY <1>3, <1>4, <1>5, <1>6, <1>7, <1>8 DEF ProcInv

\* A step of one process on what it remembers.
LEMMA ProcStep ==
  ASSUME IInv, NEW p \in Procs, NEW s, Goto(p, s), StateType(s), UNCHANGED <<db, content>>,
         HistType(content, history'), Later(history, history'), history.torn \subseteq history'.torn,
         \A q \in Procs : q # p => (q \in history'.calm => q \in history.calm),
         ProcInv(p, s, db, content, history'),
         s.pc # "segments", Storing(p) => Row(p) \in history'.torn,
         s.pc = "classify" => s.i = 1, Halfway(p) => history'.mixed,
         writer' \in Procs \cup {None}, writer' = p <=> s.pc \in {"persist", "commit", "cleared"},
         \A q \in Procs : q # p => (writer' = q <=> writer = q)
  PROVE  IInv'
<1>1. /\ Types /\ HeardInv(db, content, history) /\ StoringInv /\ SegmentsInv
      /\ RecordInv(db, history) /\ ClassesInv
      /\ \A q \in Procs : ProcInv(q, proc[q], db, content, history)
  BY DEF IInv
<1>2. /\ proc'[p] = s
      /\ \A q \in Procs : q # p => proc'[q] = proc[q]
      /\ proc' = [q \in Procs |-> proc'[q]]
  BY <1>1, GotoFacts
<1>3. Types'
  <2>1. \A q \in Procs : StateType(proc'[q])
    BY <1>1, <1>2 DEF Types
  <2>2. WriterInv'
    BY <1>1, <1>2 DEF Types, WriterInv
  <2>3. content' = content /\ db' = db /\ HistType(content', history') /\ content' \in Contents
    BY <1>1 DEF Types
  <2>4. QED
    BY <1>1, <1>2, <2>1, <2>2, <2>3 DEF Types
<1>4. ASSUME NEW q \in Procs
      PROVE  ProcInv(q, proc'[q], db', content', history')
  <2>1. CASE q = p
    BY <1>2, <2>1
  <2>2. CASE q # p
    <3>1. StateType(proc[q]) /\ DbType(db) /\ db.next \in Nat
      BY <1>1 DEF Types, DbType
    <3>2. ProcInv(q, proc[q], db, content, history')
      BY <1>1, <2>2, <3>1, ProcStays
    <3>3. QED
      BY <1>2, <2>2, <3>2
  <2>3. QED
    BY <2>1, <2>2
<1>5. HeardInv(db', content', history')
  BY <1>1 DEF HeardInv, Later
<1>6. ASSUME NEW q \in Procs, Storing(q)'
      PROVE  q # p /\ Storing(q) /\ Row(q)' = Row(q) /\ proc'[q] = proc[q]
  BY <1>2, <1>6 DEF Storing, At, Row
<1>7. StoringInv'
  <2>1. SUFFICES ASSUME NEW q \in Procs, Storing(q)', Row(q)' \notin history'.torn
                 PROVE  /\ \A r \in Procs : Storing(r)' /\ Row(r)' = Row(q)' => r = q
                        /\ Row(q)' \in DOMAIN db'.heard =>
                             LET v == db'.heard[Row(q)']
                             IN  /\ v.key = proc'[q].key /\ v.hash = proc'[q].hash
                                 /\ SameVerdict(v, Verdict(proc'[q].samples))
    BY DEF StoringInv
  <2>2. Storing(q) /\ Row(q)' = Row(q) /\ Row(q) \notin history.torn /\ proc'[q] = proc[q]
    BY <1>6, <2>1
  <2>3. \A r \in Procs : Storing(r)' /\ Row(r)' = Row(q)' => r = q
    BY <1>1, <1>6, <2>2 DEF StoringInv
  <2>4. QED
    BY <1>1, <2>2, <2>3 DEF StoringInv
<1>8. SegmentsInv'
  <2>1. SUFFICES ASSUME NEW id \in DOMAIN db.heard, Settled(id)'
                 PROVE  Settled(id)
    BY <1>1 DEF SegmentsInv, Later
  <2>2. id \notin history'.torn /\ \A r \in Procs : Storing(r)' => Row(r)' # id
    BY <2>1 DEF Settled
  <2>3. ASSUME NEW r \in Procs, Storing(r) PROVE Row(r) # id
    <3>1. CASE r = p
      BY <2>2, <2>3, <3>1
    <3>2. CASE r # p
      <4>1. Storing(r)' /\ Row(r)' = Row(r)
        BY <1>2, <2>3, <3>2 DEF Storing, At, Row
      <4>2. QED
        BY <2>2, <4>1
    <3>3. QED
      BY <3>1, <3>2
  <2>4. QED
    BY <2>2, <2>3 DEF Settled
<1>9. RecordInv(db', history')
  BY <1>1 DEF RecordInv, Later
<1>10. ClassesInv'
  <2>1. SUFFICES ASSUME ~history'.mixed, ~history'.blind, \A q \in Procs : ~Halfway(q)',
                        CachedClasses(db.hash)
                 PROVE  Complete(db)
    BY DEF ClassesInv, CachedClasses, Complete
  <2>2. ~history.mixed /\ ~history.blind
    BY <2>1 DEF Later
  <2>3. ASSUME NEW q \in Procs PROVE ~Halfway(q)
    <3>1. CASE q = p
      BY <2>1, <3>1
    <3>2. CASE q # p
      BY <1>2, <2>1, <3>2 DEF Halfway, At
    <3>3. QED
      BY <3>1, <3>2
  <2>4. QED
    BY <1>1, <2>1, <2>2, <2>3 DEF ClassesInv
<1>11. QED
  BY <1>3, <1>4, <1>5, <1>7, <1>8, <1>9, <1>10 DEF IInv


LEMMA QuietStep ==
  ASSUME IInv, NEW p \in Procs, NEW s, Goto(p, s), StateType(s), UNCHANGED <<db, content>>,
         writer' = writer, history' = history,
         ProcInv(p, s, db, content, history), s.pc \notin {"segments", "persist", "commit", "cleared"},
         proc[p].pc \notin {"segments", "persist", "commit", "cleared", "classify"},
         s.pc = "classify" => s.i = 1
  PROVE  IInv'
<1>1. HistType(content, history') /\ Later(history, history') /\ ~Storing(p) /\ ~Halfway(p)
  BY DEF IInv, Types, Later, Storing, Halfway, At
<1>2. /\ writer' \in Procs \cup {None}
      /\ writer' = p <=> s.pc \in {"persist", "commit", "cleared"}
  BY DEF IInv, Types, WriterInv
<1>3. QED
  BY <1>1, <1>2, ProcStep

\* Who is not in a run is not in an undisturbed one.
LEMMA NotCalm ==
  ASSUME IInv, NEW p \in Procs, proc[p].pc \notin RunPcs
  PROVE  p \notin history.calm
BY DEF IInv, ProcInv, RunInv

LEMMA OtherProc ==
  ASSUME NEW p, NEW s, NEW d, NEW c, NEW h, p \notin h.calm,
         s.pc \notin AnalysisPcs \cup {"tracks", "cached", "rows", "classify", "evaluated"},
         SeenInv(s, h)
  PROVE  ProcInv(p, s, d, c, h)
BY DEF ProcInv, AnalysisInv, ClassInv, HalfwayInv, RunInv, UsedInv, AnalysisPcs

LEMMA AnalysisProc ==
  ASSUME NEW p, NEW s, NEW d, NEW c, NEW h, p \notin h.calm, s.pc \in AnalysisPcs \cup {"tracks"},
         SeenInv(s, h), AnalysisInv(s, d, c, h)
  PROVE  ProcInv(p, s, d, c, h)
BY DEF ProcInv, ClassInv, HalfwayInv, RunInv, UsedInv, AnalysisPcs

LEMMA ClassProc ==
  ASSUME NEW p, NEW s, NEW d, NEW c, NEW h, p \notin h.calm, s.pc \in {"cached", "rows", "classify"},
         ClassInv(s, d, h), s.pc = "classify" => s.i = 1
  PROVE  ProcInv(p, s, d, c, h)
<1>1. HalfwayInv(s, d, h)
  BY DEF HalfwayInv
<1>2. QED
  BY <1>1 DEF ProcInv, SeenInv, AnalysisInv, RunInv, UsedInv, AnalysisPcs

LEMMA TaskFacts ==
  ASSUME IInv, NEW p \in Procs, Task(p)
  PROVE  proc[p].pc = "idle" /\ p \notin history.calm
<1>1. proc[p].pc = "idle"
  BY DEF Task, Idle
<1>2. QED
  BY <1>1, NotCalm DEF RunPcs

----------------------------------------------------------------------------
(* Analyses.                                                               *)

LEMMA StartAnalysisKeeps ==
  ASSUME IInv, NEW p \in Procs, NEW reuse \in {"always", "hashed", "never"}, StartAnalysis(p, reuse)
  PROVE  IInv'
<1> DEFINE s == [pc |-> "tracks", hash |-> db.hash,
                 reuse |-> reuse = "always" \/ (reuse = "hashed" /\ db.hash # NoHash)]
<1>1. /\ Goto(p, s) /\ UNCHANGED <<db, content>> /\ writer' = writer /\ history' = history
      /\ Task(p)
  BY DEF StartAnalysis, Quiet
<1>2. db.hash \in Hashes
  BY DEF IInv, Types, DbType
<1>3. s.pc = "tracks" /\ s.hash = db.hash /\ s \in [pc : {"tracks"}, hash : Hashes, reuse : BOOLEAN]
  BY <1>2
<1> HIDE DEF s
<1>4. StateType(s)
  BY <1>3 DEF StateType, AnalysisState
<1>5. ProcInv(p, s, db, content, history)
  <2>1. db.hash \in history.seen \cup {NoHash}
    BY DEF IInv, HeardInv
  <2>2. SeenInv(s, history) /\ AnalysisInv(s, db, content, history)
    BY <1>3, <2>1 DEF SeenInv, AnalysisInv, AnalysisPcs
  <2>3. QED
    BY <1>1, <1>3, <2>2, TaskFacts, AnalysisProc
<1>6. QED
  BY <1>1, <1>3, <1>4, <1>5, TaskFacts, QuietStep


LEMMA FollowingFacts ==
  ASSUME IInv, NEW p \in Procs, proc[p].pc \in AnalysisPcs
  PROVE  /\ StateType(Following(p)) /\ Following(p).pc = "track"
         /\ ProcInv(p, Following(p), db, content, history) /\ p \notin history.calm
<1> DEFINE s == Following(p)
<1>1. p \notin history.calm
  BY NotCalm DEF AnalysisPcs, RunPcs
<1>2. /\ proc[p].reuse \in BOOLEAN /\ proc[p].hash \in Hashes /\ proc[p].ids \in Seq(Nat)
      /\ proc[p].i \in Nat
  <2>1. proc[p] \in [pc : AnalysisPcs, reuse : BOOLEAN, hash : Hashes, ids : Seq(Nat), i : Nat,
                     samples : Sounds, key : Nat \cup {None}]
    BY AnalysisStates DEF IInv, Types
  <2>2. QED
    BY <2>1
<1>3. /\ s.pc = "track" /\ s.hash = proc[p].hash /\ s.ids = proc[p].ids /\ s.i = proc[p].i + 1
      /\ s.samples = <<>>
      /\ s \in [pc : AnalysisPcs, reuse : BOOLEAN, hash : Hashes, ids : Seq(Nat), i : Nat,
                samples : Sounds, key : Nat \cup {None}]
  BY <1>2 DEF Following, Track, AnalysisPcs, Sounds
<1> HIDE DEF s
<1>4. StateType(s)
  BY <1>3 DEF StateType, AnalysisState
<1>5. proc[p].hash \in history.seen \cup {NoHash} /\ Placed(proc[p].ids, db)
  BY DEF IInv, ProcInv, SeenInv, AnalysisInv
<1>6. SeenInv(s, history)
  BY <1>3, <1>5 DEF SeenInv
<1>7. AnalysisInv(s, db, content, history)
  BY <1>2, <1>3, <1>5 DEF AnalysisInv
<1>8. ProcInv(p, s, db, content, history)
  BY <1>1, <1>3, <1>6, <1>7, AnalysisProc DEF AnalysisPcs
<1>9. QED
  BY <1>1, <1>3, <1>4, <1>8 DEF s

LEMMA ReadTracksKeeps ==
  ASSUME IInv, NEW p \in Procs, ReadTracks(p)
  PROVE  IInv'
<1> DEFINE s == Track(p, db.ids, 1)
<1>1. /\ Goto(p, s) /\ UNCHANGED <<db, content>> /\ writer' = writer /\ history' = history
      /\ proc[p].pc = "tracks"
  BY DEF ReadTracks, Quiet, At
<1>2. proc[p].reuse \in BOOLEAN /\ proc[p].hash \in Hashes
  <2>1. proc[p] \in [pc : {"tracks"}, hash : Hashes, reuse : BOOLEAN]
    BY <1>1, AnalysisStates DEF IInv, Types
  <2>2. QED
    BY <2>1
<1>3. DbType(db) /\ db.ids \in Seq(Nat)
  BY DEF IInv, Types, DbType
<1>4. /\ s.pc = "track" /\ s.hash = proc[p].hash /\ s.ids = db.ids /\ s.i = 1
      /\ s.samples = <<>>
      /\ s \in [pc : AnalysisPcs, reuse : BOOLEAN, hash : Hashes, ids : Seq(Nat), i : Nat,
                samples : Sounds, key : Nat \cup {None}]
  BY <1>2, <1>3 DEF Track, AnalysisPcs, Sounds
<1> HIDE DEF s
<1>5. StateType(s)
  BY <1>4 DEF StateType, AnalysisState
<1>6. proc[p].hash \in history.seen \cup {NoHash} /\ Placed(db.ids, db)
  BY <1>1, <1>3 DEF IInv, ProcInv, SeenInv, Placed, DbType
<1>7. SeenInv(s, history) /\ AnalysisInv(s, db, content, history)
  BY <1>4, <1>6 DEF SeenInv, AnalysisInv
<1>8. ProcInv(p, s, db, content, history)
  BY <1>1, <1>4, <1>7, AnalysisProc, NotCalm DEF AnalysisPcs, RunPcs
<1>9. QED
  BY <1>1, <1>4, <1>5, <1>8, QuietStep

LEMMA IdleFacts ==
  ASSUME NEW p, NEW d, NEW c, NEW h, p \notin h.calm
  PROVE  StateType(Idle) /\ Idle.pc = "idle" /\ ProcInv(p, Idle, d, c, h)
<1>1. StateType(Idle) /\ Idle.pc = "idle"
  BY DEF StateType, ScanState, Idle
<1>2. SeenInv(Idle, h)
  BY <1>1 DEF SeenInv, AnalysisPcs
<1>3. QED
  BY <1>1, <1>2, OtherProc DEF AnalysisPcs

LEMMA TakeTrackKeeps ==
  ASSUME IInv, NEW p \in Procs, TakeTrack(p)
  PROVE  IInv'
<1>1. /\ UNCHANGED <<db, content>> /\ writer' = writer /\ history' = history
      /\ proc[p].pc = "track" /\ proc[p].pc \in AnalysisPcs
  BY DEF TakeTrack, Quiet, At, AnalysisPcs
<1>2. p \notin history.calm
  BY <1>1, FollowingFacts
<1>3. CASE Goto(p, Idle)
  BY <1>1, <1>2, <1>3, IdleFacts, QuietStep
<1>4. CASE Goto(p, Following(p))
  BY <1>1, <1>4, FollowingFacts, QuietStep
<1>5. CASE Goto(p, [proc[p] EXCEPT !.pc = "listen"]) /\ ~(proc[p].i > Len(proc[p].ids))
  <2> DEFINE s == [proc[p] EXCEPT !.pc = "listen"]
  <2>1. proc[p] \in [pc : AnalysisPcs, reuse : BOOLEAN, hash : Hashes, ids : Seq(Nat), i : Nat,
                     samples : Sounds, key : Nat \cup {None}]
    BY <1>1, AnalysisStates DEF IInv, Types
  <2>2. /\ s \in [pc : AnalysisPcs, reuse : BOOLEAN, hash : Hashes, ids : Seq(Nat), i : Nat,
                  samples : Sounds, key : Nat \cup {None}]
        /\ s.pc = "listen" /\ s.hash = proc[p].hash /\ s.ids = proc[p].ids /\ s.i = proc[p].i
        /\ s.samples = proc[p].samples
    BY <2>1 DEF AnalysisPcs
  <2> HIDE DEF s
  <2>3. /\ SeenInv(proc[p], history) /\ AnalysisInv(proc[p], db, content, history)
        /\ content \in Contents
    BY DEF IInv, ProcInv, Types
  <2>4. /\ proc[p].samples = <<>> /\ Placed(proc[p].ids, db) /\ proc[p].i # 0
        /\ proc[p].hash \in history.seen \cup {NoHash}
    BY <1>1, <2>3 DEF AnalysisInv, SeenInv
  <2>5. s.i \in DOMAIN s.ids
    BY <1>5, <2>1, <2>2, <2>4
  <2>6. Len(s.samples) < SamplesPerTrack /\ \A k \in DOMAIN s.samples : FALSE
    BY <2>2, <2>3, <2>4, SampleFacts
  <2>7. AnalysisInv(s, db, content, history)
    BY <2>2, <2>4, <2>5, <2>6 DEF AnalysisInv
  <2>8. SeenInv(s, history) /\ StateType(s)
    BY <2>2, <2>4 DEF SeenInv, StateType, AnalysisState
  <2>9. ProcInv(p, s, db, content, history)
    BY <1>2, <2>2, <2>7, <2>8, AnalysisProc
  <2>10. Goto(p, s)
    BY <1>5 DEF s
  <2>11. QED
    BY <1>1, <2>2, <2>8, <2>9, <2>10, QuietStep
<1>6. QED
  BY <1>3, <1>4, <1>5 DEF TakeTrack

LEMMA ListenKeeps ==
  ASSUME IInv, NEW p \in Procs, NEW fails \in BOOLEAN, Listen(p, fails)
  PROVE  IInv'
<1> DEFINE i == proc[p].i
           k == Len(proc[p].samples) + 1
           sample == IF fails \/ i \notin DOMAIN Film[content] THEN Silence ELSE Film[content][i].samples[k]
           s == [proc[p] EXCEPT !.samples = Append(proc[p].samples, sample),
                                !.pc = IF k = SamplesPerTrack THEN "store" ELSE proc[p].pc]
<1>1. /\ UNCHANGED <<db, content>> /\ writer' = writer
      /\ history' = [history EXCEPT !.failed = history.failed \/ fails]
      /\ Goto(p, s) /\ proc[p].pc = "listen"
  BY DEF Listen, At
<1>2. /\ content \in Contents /\ HistType(content, history)
      /\ SeenInv(proc[p], history) /\ AnalysisInv(proc[p], db, content, history)
      /\ ProcInv(p, proc[p], db, content, history) /\ p \notin history.calm
  BY <1>1, NotCalm DEF IInv, Types, ProcInv, RunPcs
<1>3. proc[p] \in [pc : AnalysisPcs, reuse : BOOLEAN, hash : Hashes, ids : Seq(Nat), i : Nat,
                   samples : Sounds, key : Nat \cup {None}]
  BY <1>1, AnalysisStates DEF IInv, Types, AnalysisPcs
<1>4. /\ proc[p].samples \in Seq(Languages \cup {Silence}) /\ Len(proc[p].samples) \in Nat
      /\ Len(proc[p].samples) < SamplesPerTrack /\ SamplesPerTrack \in Nat
      /\ k \in 1..SamplesPerTrack
  BY <1>1, <1>2, <1>3, SampleFacts DEF AnalysisInv, Sounds
<1>5. sample \in Languages \cup {Silence} /\ (~fails => sample = Sound(content, i, k))
  <2>1. CASE fails \/ i \notin DOMAIN Film[content]
    BY <2>1 DEF Sound
  <2>2. CASE ~(fails \/ i \notin DOMAIN Film[content])
    <3>1. Film[content][i].samples \in Seq(Languages \cup {Silence})
          /\ Len(Film[content][i].samples) = SamplesPerTrack
      BY <1>2, <2>2, SampleFacts DEF Sounds
    <3>2. k \in 1..Len(Film[content][i].samples)
      BY <1>4, <3>1
    <3> HIDE DEF k
    <3>3. Film[content][i].samples[k] \in Languages \cup {Silence}
      BY <3>1, <3>2, ElementFacts
    <3>4. QED
      BY <2>2, <3>3 DEF Sound
  <2>3. QED
    BY <2>1, <2>2
<1> HIDE DEF sample
<1>6. /\ Append(proc[p].samples, sample) \in Sounds
      /\ Len(Append(proc[p].samples, sample)) = k
      /\ DOMAIN Append(proc[p].samples, sample) = 1..k
      /\ Append(proc[p].samples, sample)[k] = sample
      /\ \A j \in 1..k : j # k =>
           j \in DOMAIN proc[p].samples /\ Append(proc[p].samples, sample)[j] = proc[p].samples[j]
  BY <1>4, <1>5 DEF Sounds
<1>7. /\ s \in [pc : AnalysisPcs, reuse : BOOLEAN, hash : Hashes, ids : Seq(Nat), i : Nat,
                samples : Sounds, key : Nat \cup {None}]
      /\ s.pc = (IF k = SamplesPerTrack THEN "store" ELSE "listen")
      /\ s.hash = proc[p].hash /\ s.ids = proc[p].ids /\ s.i = i
      /\ s.samples = Append(proc[p].samples, sample)
  BY <1>1, <1>3, <1>6 DEF AnalysisPcs
<1> HIDE DEF s
<1>8. /\ HistType(content, history') /\ Later(history, history') /\ history'.torn = history.torn
      /\ history'.calm = history.calm /\ history'.seen = history.seen
      /\ history'.returned = history.returned /\ history'.mixed = history.mixed
      /\ history'.failed = (history.failed \/ fails)
  BY <1>1, <1>2 DEF HistType, Later
<1>9. AnalysisInv(s, db, content, history')
  <2>1. Placed(s.ids, db) /\ s.i # 0 /\ s.i \in DOMAIN s.ids
    BY <1>1, <1>2, <1>7 DEF AnalysisInv, AnalysisPcs
  <2>2. /\ s.pc = "listen" => Len(s.samples) < SamplesPerTrack
        /\ s.pc # "listen" => Len(s.samples) = SamplesPerTrack
        /\ s.pc # "track"
    BY <1>4, <1>6, <1>7
  <2>3. ASSUME ~history'.returned, ~history'.failed, s.hash = content, NEW j \in DOMAIN s.samples
        PROVE  s.samples[j] = Sound(content, s.i, j)
    <3>1. ~fails /\ ~history.failed /\ ~history.returned
      BY <1>8, <2>3
    <3>2. CASE j = k
      BY <1>5, <1>6, <1>7, <3>1, <3>2
    <3>3. CASE j # k
      BY <1>1, <1>2, <1>6, <1>7, <2>3, <3>1, <3>3 DEF AnalysisInv
    <3>4. QED
      BY <3>2, <3>3
  <2>4. QED
    BY <2>1, <2>2, <2>3 DEF AnalysisInv
<1>10. SeenInv(s, history') /\ StateType(s) /\ s.pc \in AnalysisPcs \cup {"tracks"}
       /\ s.pc \notin {"segments", "classify", "persist", "commit", "cleared"}
  BY <1>1, <1>2, <1>7, <1>8 DEF SeenInv, StateType, AnalysisState, AnalysisPcs
<1>11. ProcInv(p, s, db, content, history') /\ p \notin history'.calm
  BY <1>2, <1>8, <1>9, <1>10, AnalysisProc
<1>12. ~Storing(p) /\ ~Halfway(p)
  BY <1>1 DEF Storing, Halfway, At
<1>13. writer' \in Procs \cup {None} /\ (writer' = p <=> s.pc \in {"persist", "commit", "cleared"})
  BY <1>1, <1>10 DEF IInv, Types, WriterInv
<1>14. QED
  BY <1>1, <1>8, <1>10, <1>11, <1>12, <1>13, ProcStep

LEMMA AnalysisLockedOutKeeps ==
  ASSUME IInv, NEW p \in Procs, AnalysisLockedOut(p)
  PROVE  IInv'
<1>1. /\ UNCHANGED <<db, content>> /\ writer' = writer /\ Goto(p, Following(p))
      /\ proc[p].pc \in {"store", "segments"} /\ proc[p].pc \in AnalysisPcs
      /\ history' = [history EXCEPT !.torn = IF Storing(p) THEN history.torn \cup {Row(p)} ELSE history.torn]
  BY DEF AnalysisLockedOut, AnalysisPcs
<1>2. /\ StateType(Following(p)) /\ Following(p).pc = "track" /\ p \notin history.calm
      /\ ProcInv(p, Following(p), db, content, history)
  BY <1>1, FollowingFacts
<1>3. Row(p) \in Nat
  <2>1. proc[p].i \in DOMAIN proc[p].ids
    BY <1>1 DEF IInv, ProcInv, AnalysisInv
  <2>2. proc[p] \in [pc : AnalysisPcs, reuse : BOOLEAN, hash : Hashes, ids : Seq(Nat), i : Nat,
                     samples : Sounds, key : Nat \cup {None}]
    BY <1>1, AnalysisStates DEF IInv, Types
  <2>3. proc[p].ids \in Seq(Nat)
    BY <2>2
  <2>4. QED
    BY <2>1, <2>3 DEF Row
<1>4. /\ HistType(content, history') /\ Later(history, history') /\ history.torn \subseteq history'.torn
      /\ history'.calm = history.calm /\ (Storing(p) => Row(p) \in history'.torn)
  BY <1>1, <1>3 DEF IInv, Types, HistType, Later
<1>5. ProcInv(p, Following(p), db, content, history')
  <2>1. DbType(db) /\ db.next \in Nat /\ db.next <= db.next
    BY DEF IInv, Types, DbType
  <2>2. QED
    BY <1>2, <1>4, <2>1, ProcStays
<1>6. ~Halfway(p) /\ writer' \in Procs \cup {None}
      /\ (writer' = p <=> Following(p).pc \in {"persist", "commit", "cleared"})
  BY <1>1, <1>2 DEF Halfway, At, IInv, Types, WriterInv
<1>7. QED
  BY <1>1, <1>2, <1>4, <1>5, <1>6, ProcStep


\* A step of one process that changes what is stored of the sound.
LEMMA HeardStep ==
  ASSUME IInv, NEW p \in Procs, NEW s, Goto(p, s), StateType(s), content' = content, writer' = writer,
         DbType(db'), db'.ids = db.ids, db'.tracks = db.tracks, db'.hash = db.hash,
         db'.classed = db.classed, db.next <= db'.next,
         HistType(content, history'), Later(history, history'),
         history'.mixed = history.mixed, history'.blind = history.blind,
         history'.calm = history.calm,
         ProcInv(p, s, db, content, history), s.pc \notin {"persist", "commit", "cleared", "classify"},
         proc[p].pc \notin {"persist", "commit", "cleared", "classify"}
  PROVE  /\ Types' /\ RecordInv(db', history') /\ ClassesInv'
         /\ \A q \in Procs : ProcInv(q, proc'[q], db', content', history')
<1>1. /\ Types /\ RecordInv(db, history) /\ ClassesInv /\ DbType(db)
      /\ \A q \in Procs : ProcInv(q, proc[q], db, content, history)
  BY DEF IInv, Types
<1>2. /\ proc'[p] = s
      /\ \A q \in Procs : q # p => proc'[q] = proc[q]
      /\ proc' = [q \in Procs |-> proc'[q]]
  BY <1>1, GotoFacts
<1>3. Types'
  <2>1. \A q \in Procs : StateType(proc'[q])
    BY <1>1, <1>2 DEF Types
  <2>2. WriterInv'
    BY <1>1, <1>2 DEF Types, WriterInv
  <2>3. HistType(content', history') /\ content' \in Contents
    BY <1>1 DEF Types
  <2>4. QED
    BY <1>1, <1>2, <2>1, <2>2, <2>3 DEF Types
<1>4. ASSUME NEW q \in Procs
      PROVE  ProcInv(q, proc'[q], db', content', history')
  <2>1. StateType(proc'[q]) /\ ProcInv(q, proc'[q], db, content, history)
    BY <1>1, <1>2 DEF Types
  <2>2. db'.next \in Nat
    BY DEF DbType
  <2>3. QED
    BY <1>1, <2>1, <2>2, ProcStays
<1>5. RecordInv(db', history')
  BY <1>1 DEF RecordInv, Later
<1>6. ClassesInv'
  <2>1. SUFFICES ASSUME ~history.mixed, ~history.blind, \A q \in Procs : ~Halfway(q)',
                        CachedClasses(db.hash)'
                 PROVE  Complete(db')
    BY DEF ClassesInv
  <2>2. CachedClasses(db.hash)
    BY <2>1 DEF CachedClasses
  <2>3. ASSUME NEW q \in Procs PROVE ~Halfway(q)
    <3>1. CASE q = p
      BY <3>1 DEF Halfway, At
    <3>2. CASE q # p
      BY <1>2, <2>1, <3>2 DEF Halfway, At
    <3>3. QED
      BY <3>1, <3>2
  <2>4. Complete(db)
    BY <1>1, <2>1, <2>2, <2>3 DEF ClassesInv
  <2>5. QED
    BY <2>4 DEF Complete
<1>7. QED
  BY <1>3, <1>4, <1>5, <1>6

LEMMA RowFacts ==
  ASSUME IInv, NEW p \in Procs, proc[p].pc \in {"listen", "store", "segments"}
  PROVE  /\ Row(p) \in Nat /\ proc[p].i \in DOMAIN proc[p].ids /\ p \notin history.calm
         /\ proc[p] \in [pc : AnalysisPcs, reuse : BOOLEAN, hash : Hashes, ids : Seq(Nat), i : Nat,
                         samples : Sounds, key : Nat \cup {None}]
         /\ proc[p].hash \in history.seen \cup {NoHash}
         /\ \A i \in DOMAIN db.ids : db.ids[i] = Row(p) => i = proc[p].i
<1>1. proc[p].i \in DOMAIN proc[p].ids /\ Placed(proc[p].ids, db)
  BY DEF IInv, ProcInv, AnalysisInv, AnalysisPcs
<1>2. proc[p] \in [pc : AnalysisPcs, reuse : BOOLEAN, hash : Hashes, ids : Seq(Nat), i : Nat,
                   samples : Sounds, key : Nat \cup {None}]
  BY AnalysisStates DEF IInv, Types, AnalysisPcs
<1>3. proc[p].ids \in Seq(Nat)
  BY <1>2
<1>4. Row(p) \in Nat
  BY <1>1, <1>3 DEF Row
<1>5. p \notin history.calm
  BY NotCalm DEF RunPcs
<1>6. proc[p].hash \in history.seen \cup {NoHash}
  BY DEF IInv, ProcInv, SeenInv, AnalysisPcs
<1>7. \A i \in DOMAIN db.ids : db.ids[i] = Row(p) => i = proc[p].i
  BY <1>1 DEF Placed, Row
<1>8. QED
  BY <1>1, <1>2, <1>4, <1>5, <1>6, <1>7

\* What an analysis under the hash of the film has heard at its row is the film.
LEMMA HeardFilm ==
  ASSUME IInv, NEW p \in Procs, proc[p].pc \in {"store", "segments"},
         ~history.returned, ~history.failed, proc[p].hash = content,
         NEW i \in DOMAIN db.ids \cap DOMAIN Film[content], db.ids[i] = Row(p)
  PROVE  proc[p].samples = Film[content][i].samples
<1>1. i = proc[p].i /\ proc[p].samples \in Sounds
  BY RowFacts
<1>2. /\ Len(proc[p].samples) = SamplesPerTrack
      /\ \A k \in DOMAIN proc[p].samples : proc[p].samples[k] = Sound(content, proc[p].i, k)
  BY DEF IInv, ProcInv, AnalysisInv
<1>3. content \in Contents
  BY DEF IInv, Types
<1>4. QED
  BY <1>1, <1>2, <1>3, WholeSound


LEMMA StoreVerdictKeeps ==
  ASSUME IInv, NEW p \in Procs, StoreVerdict(p)
  PROVE  IInv'
<1> DEFINE v    == Verdict(proc[p].samples)
           id   == Row(p)
           key  == IF id \in DOMAIN db.heard THEN db.heard[id].key ELSE db.next
           segs == IF id \in DOMAIN db.heard THEN db.heard[id].segs ELSE <<>>
           overlap == \E q \in Procs : Storing(q) /\ Row(q) = id
           r == [key |-> key, hash |-> proc[p].hash, primary |-> v.primary, multi |-> v.multi,
                 segs |-> segs]
           s == [proc[p] EXCEPT !.pc = "segments", !.key = key]
<1>1. /\ proc[p].pc = "store" /\ writer = None /\ content' = content /\ writer' = writer
      /\ \/ id \notin Range(db.ids) /\ Goto(p, Following(p)) /\ UNCHANGED <<db, history>>
         \/ /\ id \in Range(db.ids) /\ Goto(p, s)
            /\ db' = [db EXCEPT !.heard = With(db.heard, id, r),
                                !.next = IF key = db.next THEN db.next + 1 ELSE db.next]
            /\ history' = [history EXCEPT !.torn = IF overlap THEN history.torn \cup {id}
                                                   ELSE history.torn \ {id}]
  BY DEF StoreVerdict, StoreWith, At
<1>2. proc[p].pc \in AnalysisPcs
  BY <1>1 DEF AnalysisPcs
<1>3. CASE id \notin Range(db.ids) /\ Goto(p, Following(p)) /\ UNCHANGED <<db, history>>
  BY <1>1, <1>2, <1>3, FollowingFacts, QuietStep
<1>4. CASE /\ id \in Range(db.ids) /\ Goto(p, s)
           /\ db' = [db EXCEPT !.heard = With(db.heard, id, r),
                               !.next = IF key = db.next THEN db.next + 1 ELSE db.next]
           /\ history' = [history EXCEPT !.torn = IF overlap THEN history.torn \cup {id}
                                                  ELSE history.torn \ {id}]
  <2>1. /\ Types /\ DbType(db) /\ HistType(content, history) /\ HeardInv(db, content, history)
        /\ StoringInv /\ SegmentsInv /\ ProcInv(p, proc[p], db, content, history)
        /\ content \in Contents /\ db.next \in Nat
    BY DEF IInv, Types, DbType
  <2>2. /\ id \in Nat /\ p \notin history.calm
        /\ proc[p] \in [pc : AnalysisPcs, reuse : BOOLEAN, hash : Hashes, ids : Seq(Nat), i : Nat,
                        samples : Sounds, key : Nat \cup {None}]
        /\ proc[p].hash \in history.seen \cup {NoHash}
    BY <1>1, RowFacts
  <2>3. key \in Nat
    BY <2>1 DEF DbType, HeardType
  <2> HIDE DEF key, id, segs, v
  <2>4. HeardType(r) /\ r.key = key /\ r.hash = proc[p].hash /\ SameVerdict(r, v)
    BY <2>2, <2>3 DEF HeardType, SameVerdict
  <2>5. /\ s \in [pc : AnalysisPcs, reuse : BOOLEAN, hash : Hashes, ids : Seq(Nat), i : Nat,
                  samples : Sounds, key : Nat \cup {None}]
        /\ s.pc = "segments" /\ s.hash = proc[p].hash /\ s.ids = proc[p].ids /\ s.i = proc[p].i
        /\ s.samples = proc[p].samples /\ s.key = key
    BY <2>2, <2>3 DEF AnalysisPcs
  <2> HIDE DEF r, s
  <2>6. /\ db'.heard = With(db.heard, id, r) /\ db'.ids = db.ids /\ db'.tracks = db.tracks
        /\ db'.hash = db.hash /\ db'.classed = db.classed /\ db'.next \in {db.next, db.next + 1}
        /\ db' \in [stamp : Contents, hash : Hashes, original : Originals \cup {None},
                    tracks : Contents, ids : Seq(Nat), next : Nat,
                    heard : {db'.heard}, classed : {db'.classed}]
    <3> DEFINE heard == With(db.heard, id, r)
               next == IF key = db.next THEN db.next + 1 ELSE db.next
    <3>1. db' = [db EXCEPT !.heard = heard, !.next = next]
      BY <1>4
    <3>2. next \in {db.next, db.next + 1} /\ next \in Nat
      BY <2>1
    <3>3. db \in [stamp : Contents, hash : Hashes, original : Originals \cup {None},
                  tracks : Contents, ids : Seq(Nat), next : Nat,
                  heard : {db.heard}, classed : {db.classed}]
      BY <2>1 DEF DbType
    <3> HIDE DEF heard, next
    <3>4. /\ db'.heard = heard /\ db'.ids = db.ids /\ db'.tracks = db.tracks
          /\ db'.hash = db.hash /\ db'.classed = db.classed /\ db'.next = next
      BY <3>1, <3>3
    <3>5. db' \in [stamp : Contents, hash : Hashes, original : Originals \cup {None},
                   tracks : Contents, ids : Seq(Nat), next : Nat,
                   heard : {heard}, classed : {db.classed}]
      BY <3>1, <3>2, <3>3
    <3>6. QED
      BY <3>2, <3>4, <3>5 DEF heard
  <2>7. /\ DOMAIN db'.heard = DOMAIN db.heard \cup {id} /\ db'.heard[id] = r
        /\ db'.heard = [x \in DOMAIN db.heard \cup {id} |-> db'.heard[x]]
        /\ \A x \in DOMAIN db.heard : x # id => db'.heard[x] = db.heard[x]
    BY <2>6 DEF With
  <2>8. DbType(db')
    <3>1. /\ \A i \in DOMAIN db.ids : db.ids[i] < db.next /\ db.ids[i] \in Nat
          /\ Len(db.ids) = Len(Film[db.tracks])
          /\ \A i \in DOMAIN db.ids, j \in DOMAIN db.ids : db.ids[i] = db.ids[j] => i = j
          /\ DOMAIN db.heard \subseteq Range(db.ids) /\ DOMAIN db.classed \subseteq Range(db.ids)
          /\ \A x \in DOMAIN db.heard : HeardType(db.heard[x])
      BY <2>1 DEF DbType
    <3>2. \A i \in DOMAIN db'.ids : db'.ids[i] < db'.next
      BY <2>1, <2>6, <3>1
    <3>3. /\ DOMAIN db'.heard \subseteq Range(db'.ids) /\ DOMAIN db'.classed \subseteq Range(db'.ids)
          /\ \A x \in DOMAIN db'.heard : HeardType(db'.heard[x])
          /\ db'.heard = [x \in DOMAIN db'.heard |-> db'.heard[x]]
      <4>1. /\ DOMAIN db'.heard \subseteq Range(db'.ids)
            /\ DOMAIN db'.classed \subseteq Range(db'.ids)
        BY <1>4, <2>6, <2>7, <3>1
      <4>2. \A x \in DOMAIN db'.heard : HeardType(db'.heard[x])
        BY <2>4, <2>7, <3>1
      <4>3. db'.heard = [x \in DOMAIN db'.heard |-> db'.heard[x]]
        BY <2>7
      <4>4. QED
        BY <4>1, <4>2, <4>3
    <3>4. QED
      BY <2>6, <3>1, <3>2, <3>3 DEF DbType
  <2>9. /\ HistType(content, history') /\ Later(history, history')
        /\ history'.mixed = history.mixed /\ history'.blind = history.blind
        /\ history'.calm = history.calm /\ history'.seen = history.seen
        /\ history'.returned = history.returned /\ history'.failed = history.failed
        /\ history'.torn = IF overlap THEN history.torn \cup {id} ELSE history.torn \ {id}
    BY <1>4, <2>1, <2>2 DEF HistType, Later
  <2>10. StateType(s) /\ SeenInv(s, history) /\ AnalysisInv(s, db, content, history)
    <3>1. AnalysisInv(proc[p], db, content, history) /\ SeenInv(proc[p], history)
      BY <2>1 DEF ProcInv
    <3>2. QED
      BY <1>1, <1>2, <2>2, <2>5, <3>1 DEF StateType, AnalysisState, AnalysisInv, SeenInv
  <2>11. ProcInv(p, s, db, content, history)
    BY <2>2, <2>5, <2>10, AnalysisProc DEF AnalysisPcs
  <2>12. /\ Types' /\ RecordInv(db', history') /\ ClassesInv'
         /\ \A q \in Procs : ProcInv(q, proc'[q], db', content', history')
    <3>1. db.next <= db'.next
      BY <2>1, <2>6
    <3>2. Goto(p, s)
      BY <1>4
    <3>3. s.pc \notin {"persist", "commit", "cleared", "classify"}
      BY <2>5
    <3>4. proc[p].pc \notin {"persist", "commit", "cleared", "classify"}
      BY <1>1
    <3>5. QED
      BY <1>1, <2>6, <2>8, <2>9, <2>10, <2>11, <3>1, <3>2, <3>3, <3>4, HeardStep
  <2>13. HeardInv(db', content', history')
    <3>1. \A x \in DOMAIN db'.heard : db'.heard[x].hash \in history'.seen \cup {NoHash}
      BY <2>1, <2>2, <2>4, <2>7, <2>9 DEF HeardInv
    <3>2. ASSUME ~history.returned, ~history.failed, NEW i \in DOMAIN db.ids \cap DOMAIN Film[content],
                 db.ids[i] \in DOMAIN db'.heard, db'.heard[db.ids[i]].hash = content
          PROVE  SameVerdict(db'.heard[db.ids[i]], Verdict(Film[content][i].samples))
      <4>1. CASE db.ids[i] = id
        <5>1. proc[p].hash = content
          BY <2>4, <2>7, <3>2, <4>1
        <5>2. proc[p].samples = Film[content][i].samples
          BY <1>1, <3>2, <4>1, <5>1, HeardFilm DEF id
        <5>3. QED
          BY <2>4, <2>7, <4>1, <5>2 DEF v
      <4>2. CASE db.ids[i] # id
        BY <2>1, <2>7, <3>2, <4>2 DEF HeardInv
      <4>3. QED
        BY <4>1, <4>2
    <3>3. QED
      BY <1>1, <2>1, <2>6, <2>9, <3>1, <3>2 DEF HeardInv
  <2>14. /\ proc'[p] = s /\ Storing(p)' /\ Row(p)' = id
         /\ \A q \in Procs : q # p =>
              proc'[q] = proc[q] /\ (Storing(q)' <=> Storing(q)) /\ Row(q)' = Row(q)
    <3>1. proc'[p] = s /\ \A q \in Procs : q # p => proc'[q] = proc[q]
      BY <1>4, <2>1, GotoFacts
    <3>2. QED
      BY <2>5, <3>1 DEF Storing, At, Row, id
  <2>15. StoringInv'
    <3>1. SUFFICES ASSUME NEW q \in Procs, Storing(q)', Row(q)' \notin history'.torn
                   PROVE  /\ \A x \in Procs : Storing(x)' /\ Row(x)' = Row(q)' => x = q
                          /\ Row(q)' \in DOMAIN db'.heard =>
                               LET w == db'.heard[Row(q)']
                               IN  /\ w.key = proc'[q].key /\ w.hash = proc'[q].hash
                                   /\ SameVerdict(w, Verdict(proc'[q].samples))
      BY DEF StoringInv
    <3>2. CASE q = p
      <4>1. ~overlap
        BY <2>9, <2>14, <3>1, <3>2
      <4>2. \A x \in Procs : Storing(x)' /\ Row(x)' = Row(q)' => x = q
        BY <2>14, <3>2, <4>1
      <4>3. QED
        BY <2>4, <2>5, <2>7, <2>14, <3>2, <4>2 DEF v
    <3>3. CASE q # p
      <4>1. Storing(q) /\ Row(q)' = Row(q) /\ proc'[q] = proc[q]
        BY <2>14, <3>1, <3>3
      <4>2. Row(q) # id /\ Row(q) \notin history.torn
        BY <2>9, <3>1, <4>1
      <4>3. \A x \in Procs : Storing(x)' /\ Row(x)' = Row(q)' => x = q
        BY <2>1, <2>14, <4>1, <4>2 DEF StoringInv
      <4>4. QED
        BY <2>1, <2>7, <4>1, <4>2, <4>3 DEF StoringInv
    <3>4. QED
      BY <3>2, <3>3
  <2>16. SegmentsInv'
    <3>1. SUFFICES ASSUME NEW x \in DOMAIN db'.heard, Settled(x)'
                   PROVE  /\ SameVerdict(db'.heard[x], Verdict(db'.heard[x].segs))
                          /\ ~history.returned /\ ~history.failed /\ db'.heard[x].hash = content =>
                               \A i \in DOMAIN db.ids \cap DOMAIN Film[content] :
                                 db.ids[i] = x => db'.heard[x].segs = Segments(Film[content][i].samples)
      BY <1>1, <2>6, <2>9 DEF SegmentsInv
    <3>2. x # id
      BY <2>14, <3>1 DEF Settled
    <3>3. x \notin history.torn
      BY <2>9, <3>1, <3>2 DEF Settled
    <3>4. ASSUME NEW q \in Procs, Storing(q) PROVE Row(q) # x
      <4>1. q # p
        BY <1>1, <3>4 DEF Storing, At
      <4>2. QED
        BY <2>14, <3>1, <3>4, <4>1 DEF Settled
    <3>5. Settled(x)
      BY <3>3, <3>4 DEF Settled
    <3>6. x \in DOMAIN db.heard /\ db'.heard[x] = db.heard[x]
      BY <2>7, <3>1, <3>2
    <3>7. QED
      BY <2>1, <3>5, <3>6 DEF SegmentsInv
  <2>17. QED
    BY <2>12, <2>13, <2>15, <2>16 DEF IInv
<1>5. QED
  BY <1>1, <1>3, <1>4


LEMMA StoreSegmentsKeeps ==
  ASSUME IInv, NEW p \in Procs, StoreSegments(p)
  PROVE  IInv'
<1> DEFINE id  == Row(p)
           new == Segments(proc[p].samples)
<1>1. /\ proc[p].pc = "segments" /\ content' = content /\ writer' = writer /\ history' = history
      /\ Goto(p, Following(p)) /\ Storing(p)
      /\ db' = IF id \in DOMAIN db.heard /\ db.heard[id].key = proc[p].key
                 THEN [db EXCEPT !.heard = [db.heard EXCEPT ![id] = [db.heard[id] EXCEPT !.segs = new]]]
                 ELSE db
  BY DEF StoreSegments, Quiet, At, Storing
<1>2. /\ proc[p].pc \in AnalysisPcs
      /\ proc[p].pc \notin {"persist", "commit", "cleared", "classify"}
  BY <1>1 DEF AnalysisPcs
<1>3. /\ Types /\ DbType(db) /\ HistType(content, history) /\ HeardInv(db, content, history)
      /\ StoringInv /\ SegmentsInv /\ content \in Contents
  BY DEF IInv, Types
<1>4. /\ StateType(Following(p)) /\ Following(p).pc = "track"
      /\ ProcInv(p, Following(p), db, content, history)
  BY <1>2, FollowingFacts
<1> HIDE DEF id, new
<1>5. /\ db'.ids = db.ids /\ db'.tracks = db.tracks /\ db'.hash = db.hash
      /\ db'.classed = db.classed /\ db'.next = db.next /\ DOMAIN db'.heard = DOMAIN db.heard
      /\ \A x \in DOMAIN db.heard :
           /\ x # id \/ db.heard[x].key # proc[p].key => db'.heard[x] = db.heard[x]
           /\ x = id /\ db.heard[x].key = proc[p].key => db'.heard[x].segs = new
           /\ HeardType(db'.heard[x])
           /\ db'.heard[x].hash = db.heard[x].hash /\ db'.heard[x].key = db.heard[x].key
           /\ db'.heard[x].primary = db.heard[x].primary /\ db'.heard[x].multi = db.heard[x].multi
      /\ DbType(db')
  <2>1. CASE id \in DOMAIN db.heard /\ db.heard[id].key = proc[p].key
    <3> DEFINE r == [db.heard[id] EXCEPT !.segs = new]
               heard == [db.heard EXCEPT ![id] = r]
    <3>1. db' = [db EXCEPT !.heard = heard]
      BY <1>1, <2>1
    <3>2. HeardType(db.heard[id])
      BY <1>3, <2>1 DEF DbType
    <3>3. /\ HeardType(r) /\ r.segs = new /\ r.hash = db.heard[id].hash /\ r.key = db.heard[id].key
          /\ r.primary = db.heard[id].primary /\ r.multi = db.heard[id].multi
      BY <3>2 DEF HeardType
    <3> HIDE DEF r
    <3>4. db.heard = [x \in DOMAIN db.heard |-> db.heard[x]]
      BY <1>3 DEF DbType
    <3>5. /\ DOMAIN heard = DOMAIN db.heard /\ heard[id] = r
          /\ \A x \in DOMAIN db.heard : x # id => heard[x] = db.heard[x]
          /\ heard = [x \in DOMAIN heard |-> heard[x]]
      BY <2>1, <3>4
    <3> HIDE DEF heard
    <3>6. db \in [stamp : Contents, hash : Hashes, original : Originals \cup {None},
                  tracks : Contents, ids : Seq(Nat), next : Nat,
                  heard : {db.heard}, classed : {db.classed}]
      BY <1>3 DEF DbType
    <3>7. /\ db'.ids = db.ids /\ db'.tracks = db.tracks /\ db'.hash = db.hash
          /\ db'.classed = db.classed /\ db'.next = db.next /\ db'.heard = heard
          /\ db' \in [stamp : Contents, hash : Hashes, original : Originals \cup {None},
                      tracks : Contents, ids : Seq(Nat), next : Nat,
                      heard : {heard}, classed : {db.classed}]
      BY <3>1, <3>6
    <3>8. \A x \in DOMAIN db.heard : HeardType(heard[x])
      BY <1>3, <3>3, <3>5 DEF DbType
    <3>9. DbType(db')
      BY <1>3, <3>5, <3>7, <3>8 DEF DbType
    <3>10. QED
      BY <2>1, <3>3, <3>5, <3>7, <3>8, <3>9
  <2>2. CASE ~(id \in DOMAIN db.heard /\ db.heard[id].key = proc[p].key)
    BY <1>1, <1>3, <2>2 DEF DbType
  <2>3. QED
    BY <2>1, <2>2
<1>6. /\ Types' /\ RecordInv(db', history') /\ ClassesInv'
      /\ \A q \in Procs : ProcInv(q, proc'[q], db', content', history')
  <2>1. HistType(content, history') /\ Later(history, history') /\ db.next <= db'.next
    BY <1>1, <1>3, <1>5 DEF Later, DbType
  <2>2. Following(p).pc \notin {"persist", "commit", "cleared", "classify"}
    BY <1>4
  <2>3. QED
    BY <1>1, <1>2, <1>4, <1>5, <2>1, <2>2, HeardStep
<1>7. HeardInv(db', content', history')
  BY <1>1, <1>3, <1>5 DEF HeardInv, SameVerdict
<1>8. /\ ~Storing(p)'
      /\ \A q \in Procs : q # p =>
           proc'[q] = proc[q] /\ (Storing(q)' <=> Storing(q)) /\ Row(q)' = Row(q)
  <2>1. proc'[p] = Following(p) /\ \A q \in Procs : q # p => proc'[q] = proc[q]
    BY <1>1, <1>3, GotoFacts
  <2>2. QED
    BY <1>4, <2>1 DEF Storing, At, Row
<1>9. StoringInv'
  <2>1. SUFFICES ASSUME NEW q \in Procs, Storing(q)', Row(q)' \notin history'.torn
                 PROVE  /\ \A x \in Procs : Storing(x)' /\ Row(x)' = Row(q)' => x = q
                        /\ Row(q)' \in DOMAIN db'.heard =>
                             LET w == db'.heard[Row(q)']
                             IN  /\ w.key = proc'[q].key /\ w.hash = proc'[q].hash
                                 /\ SameVerdict(w, Verdict(proc'[q].samples))
    BY DEF StoringInv
  <2>2. q # p /\ Storing(q) /\ Row(q)' = Row(q) /\ proc'[q] = proc[q] /\ Row(q) \notin history.torn
    BY <1>1, <1>8, <2>1
  <2>3. Row(q) # id
    BY <1>1, <1>3, <2>2 DEF StoringInv, id
  <2>4. \A x \in Procs : Storing(x)' /\ Row(x)' = Row(q)' => x = q
    BY <1>3, <1>8, <2>2 DEF StoringInv
  <2>5. QED
    BY <1>3, <1>5, <2>2, <2>3, <2>4 DEF StoringInv
<1>10. SegmentsInv'
  <2>1. SUFFICES ASSUME NEW x \in DOMAIN db'.heard, Settled(x)'
                 PROVE  /\ SameVerdict(db'.heard[x], Verdict(db'.heard[x].segs))
                        /\ ~history.returned /\ ~history.failed /\ db'.heard[x].hash = content =>
                             \A i \in DOMAIN db.ids \cap DOMAIN Film[content] :
                               db.ids[i] = x => db'.heard[x].segs = Segments(Film[content][i].samples)
    BY <1>1, <1>5 DEF SegmentsInv
  <2>2. x \notin history.torn /\ x \in DOMAIN db.heard
    BY <1>1, <1>5, <2>1 DEF Settled
  <2>3. ASSUME NEW q \in Procs, q # p, Storing(q) PROVE Row(q) # x
    BY <1>8, <2>1, <2>3 DEF Settled
  <2>4. CASE x = id
    <3>1. /\ db.heard[x].key = proc[p].key /\ db.heard[x].hash = proc[p].hash
          /\ SameVerdict(db.heard[x], Verdict(proc[p].samples))
      BY <1>1, <1>3, <2>2, <2>4 DEF StoringInv, id
    <3>2. db'.heard[x].segs = new /\ db'.heard[x].hash = proc[p].hash
          /\ SameVerdict(db'.heard[x], Verdict(proc[p].samples))
      BY <1>5, <2>2, <2>4, <3>1 DEF SameVerdict
    <3>3. Verdict(new) = Verdict(proc[p].samples)
      BY SegmentsFacts DEF new
    <3>4. ASSUME ~history.returned, ~history.failed, db'.heard[x].hash = content,
                 NEW i \in DOMAIN db.ids \cap DOMAIN Film[content], db.ids[i] = x
          PROVE  new = Segments(Film[content][i].samples)
      <4>1. proc[p].samples = Film[content][i].samples
        BY <1>1, <2>4, <3>2, <3>4, HeardFilm DEF id
      <4>2. QED
        BY <4>1 DEF new
    <3>5. QED
      BY <3>2, <3>3, <3>4
  <2>5. CASE x # id
    <3>1. Settled(x)
      BY <2>2, <2>3, <2>5 DEF Settled, id
    <3>2. db'.heard[x] = db.heard[x]
      BY <1>5, <2>2, <2>5
    <3>3. QED
      BY <1>3, <2>2, <3>1, <3>2 DEF SegmentsInv
  <2>6. QED
    BY <2>4, <2>5
<1>11. QED
  BY <1>6, <1>7, <1>9, <1>10 DEF IInv


----------------------------------------------------------------------------
(* Classifications.                                                        *)

LEMMA StartClassifyKeeps ==
  ASSUME IInv, NEW p \in Procs, NEW force \in BOOLEAN, StartClassify(p, force)
  PROVE  IInv'
<1> DEFINE s == [pc |-> "cached", force |-> force, hash |-> db.hash, original |-> db.original]
<1>1. /\ Goto(p, s) /\ UNCHANGED <<db, content>> /\ writer' = writer /\ history' = history
      /\ Task(p)
  BY DEF StartClassify, Quiet
<1>2. db.hash \in Hashes /\ db.original \in Originals \cup {None} /\ db.hash \in history.recorded
  BY DEF IInv, Types, DbType, RecordInv
<1>3. /\ s.pc = "cached" /\ s.hash = db.hash
      /\ s \in [pc : {"cached", "rows"}, force : BOOLEAN, hash : Hashes,
                original : Originals \cup {None}]
  BY <1>2
<1> HIDE DEF s
<1>4. StateType(s)
  BY <1>3 DEF StateType, ClassState
<1>5. ProcInv(p, s, db, content, history)
  <2>1. ClassInv(s, db, history)
    BY <1>2, <1>3 DEF ClassInv
  <2>2. QED
    BY <1>1, <1>3, <2>1, TaskFacts, ClassProc
<1>6. QED
  BY <1>1, <1>3, <1>4, <1>5, TaskFacts, QuietStep

LEMMA LookUpClassesKeeps ==
  ASSUME IInv, NEW p \in Procs, LookUpClasses(p)
  PROVE  IInv'
<1> DEFINE s == [proc[p] EXCEPT !.pc = "rows"]
<1>1. /\ Goto(p, Idle) \/ Goto(p, s)
      /\ UNCHANGED <<db, content>> /\ writer' = writer /\ history' = history
      /\ proc[p].pc = "cached"
  BY DEF LookUpClasses, Quiet, At
<1>2. p \notin history.calm
  BY <1>1, NotCalm DEF RunPcs
<1>3. CASE Goto(p, Idle)
  BY <1>1, <1>2, <1>3, IdleFacts, QuietStep
<1>4. CASE Goto(p, s)
  <2>1. proc[p] \in [pc : {"cached", "rows"}, force : BOOLEAN, hash : Hashes,
                     original : Originals \cup {None}]
    BY <1>1, ClassStates DEF IInv, Types
  <2>2. /\ s.pc = "rows" /\ s.hash = proc[p].hash
        /\ s \in [pc : {"cached", "rows"}, force : BOOLEAN, hash : Hashes,
                  original : Originals \cup {None}]
    BY <2>1
  <2> HIDE DEF s
  <2>3. StateType(s)
    BY <2>2 DEF StateType, ClassState
  <2>4. ClassInv(s, db, history)
    BY <1>1, <2>2 DEF IInv, ProcInv, ClassInv
  <2>5. ProcInv(p, s, db, content, history)
    BY <1>2, <2>2, <2>4, ClassProc
  <2>6. QED
    BY <1>1, <1>4, <2>2, <2>3, <2>5, QuietStep
<1>5. QED
  BY <1>1, <1>3, <1>4

LEMMA ReadRowsKeeps ==
  ASSUME IInv, NEW p \in Procs, ReadRows(p)
  PROVE  IInv'
<1> DEFINE s == [pc |-> "classify", hash |-> proc[p].hash, original |-> proc[p].original,
                 ids |-> db.ids, tracks |-> db.tracks, i |-> 1]
<1>1. /\ Goto(p, s) /\ UNCHANGED <<db, content>> /\ writer' = writer /\ history' = history
      /\ proc[p].pc = "rows"
  BY DEF ReadRows, Quiet, At
<1>2. /\ proc[p].hash \in Hashes /\ proc[p].original \in Originals \cup {None}
      /\ proc[p].hash \in history.recorded
  <2>1. proc[p] \in [pc : {"cached", "rows"}, force : BOOLEAN, hash : Hashes,
                     original : Originals \cup {None}]
    BY <1>1, ClassStates DEF IInv, Types
  <2>2. ClassInv(proc[p], db, history)
    BY DEF IInv, ProcInv
  <2>3. QED
    BY <1>1, <2>1, <2>2 DEF ClassInv
<1>3. /\ DbType(db) /\ db.ids \in Seq(Nat) /\ db.tracks \in Contents
      /\ Len(db.ids) = Len(Film[db.tracks])
  BY DEF IInv, Types, DbType
<1>4. /\ s.pc = "classify" /\ s.hash = proc[p].hash /\ s.ids = db.ids /\ s.tracks = db.tracks /\ s.i = 1
      /\ s \in [pc : {"classify"}, hash : Hashes, original : Originals \cup {None},
                ids : Seq(Nat), tracks : Contents, i : Nat]
  BY <1>2, <1>3
<1> HIDE DEF s
<1>5. StateType(s)
  BY <1>4 DEF StateType, ClassState
<1>6. ClassInv(s, db, history)
  <2>1. 1 \in DOMAIN db.ids
    BY <1>3, FilmFacts
  <2>2. Placed(db.ids, db)
    BY <1>3 DEF DbType, Placed
  <2>3. QED
    BY <1>2, <1>3, <1>4, <2>1, <2>2 DEF ClassInv
<1>7. ProcInv(p, s, db, content, history)
  BY <1>1, <1>4, <1>6, NotCalm, ClassProc DEF RunPcs
<1>8. QED
  BY <1>1, <1>4, <1>5, <1>7, QuietStep

LEMMA ClassifyLockedOutKeeps ==
  ASSUME IInv, NEW p \in Procs, ClassifyLockedOut(p)
  PROVE  IInv'
<1>1. /\ Goto(p, Idle) /\ UNCHANGED <<db, content>> /\ writer' = writer /\ proc[p].pc = "classify"
      /\ history' = [history EXCEPT !.mixed = history.mixed \/ Halfway(p)]
  BY DEF ClassifyLockedOut, At
<1>2. HistType(content, history) /\ p \notin history.calm
  BY <1>1, NotCalm DEF IInv, Types, RunPcs
<1>3. /\ HistType(content, history') /\ Later(history, history')
      /\ history'.torn = history.torn /\ history'.calm = history.calm
      /\ (Halfway(p) => history'.mixed)
  BY <1>1, <1>2 DEF HistType, Later, Halfway, At
<1>4. /\ StateType(Idle) /\ Idle.pc = "idle" /\ ProcInv(p, Idle, db, content, history')
  BY <1>2, <1>3, IdleFacts
<1>5. ~Storing(p)
  BY <1>1 DEF Storing, At
<1>6. writer' \in Procs \cup {None} /\ (writer' = p <=> Idle.pc \in {"persist", "commit", "cleared"})
  BY <1>1, <1>4 DEF IInv, Types, WriterInv
<1>7. QED
  BY <1>1, <1>3, <1>4, <1>5, <1>6, ProcStep


----------------------------------------------------------------------------
(* Scans, and the end of a clear.                                          *)

LEMMA StartScanKeeps ==
  ASSUME IInv, NEW p \in Procs, NEW full \in BOOLEAN, StartScan(p, full)
  PROVE  IInv'
<1> DEFINE s == [pc |-> "hash", stamp |-> content]
<1>1. /\ Goto(p, s) /\ UNCHANGED <<db, content>> /\ writer' = writer /\ history' = history
      /\ Task(p)
  BY DEF StartScan, Quiet
<1>2. content \in Contents
  BY DEF IInv, Types
<1>3. s.pc = "hash" /\ s \in [pc : {"hash"}, stamp : Contents]
  BY <1>2
<1> HIDE DEF s
<1>4. StateType(s) /\ SeenInv(s, history)
  BY <1>3 DEF StateType, ScanState, SeenInv, AnalysisPcs
<1>5. ProcInv(p, s, db, content, history)
  BY <1>1, <1>3, <1>4, TaskFacts, OtherProc DEF AnalysisPcs
<1>6. QED
  BY <1>1, <1>3, <1>4, <1>5, TaskFacts, QuietStep

LEMMA HashKeeps ==
  ASSUME IInv, NEW p \in Procs, NEW hashed \in BOOLEAN, Hash(p, hashed)
  PROVE  IInv'
<1> DEFINE s == [pc |-> "begin", stamp |-> proc[p].stamp, hash |-> IF hashed THEN content ELSE NoHash]
<1>1. /\ Goto(p, s) /\ UNCHANGED <<db, content>> /\ writer' = writer /\ history' = history
      /\ proc[p].pc = "hash"
  BY DEF Hash, Quiet, At
<1>2. content \in Contents /\ content \in history.seen
  BY DEF IInv, Types, HistType
<1>3. proc[p].stamp \in Contents
  <2>1. proc[p] \in [pc : {"hash"}, stamp : Contents]
    BY <1>1, ScanStates DEF IInv, Types
  <2>2. QED
    BY <2>1
<1>4. /\ s.pc = "begin" /\ s.hash \in history.seen \cup {NoHash}
      /\ s \in [pc : {"begin", "persist"}, stamp : Contents, hash : Hashes]
  BY <1>2, <1>3 DEF Hashes
<1> HIDE DEF s
<1>5. StateType(s) /\ SeenInv(s, history)
  BY <1>4 DEF StateType, ScanState, SeenInv
<1>6. ProcInv(p, s, db, content, history)
  BY <1>1, <1>4, <1>5, NotCalm, OtherProc DEF AnalysisPcs, RunPcs
<1>7. QED
  BY <1>1, <1>4, <1>5, <1>6, QuietStep

\* Steps of a scan or a clear that change what holds the database, or nothing.
LEMMA WriterStep ==
  ASSUME IInv, NEW p \in Procs, NEW s, Goto(p, s), StateType(s), UNCHANGED <<db, content, history>>,
         proc[p].pc \in {"begin", "persist", "cleared"},
         s.pc \in {"idle", "persist", "commit"}, SeenInv(s, history),
         writer' = IF s.pc = "idle" THEN None ELSE p, writer \in {None, p}
  PROVE  IInv'
<1>1. /\ HistType(content, history') /\ Later(history, history') /\ ~Storing(p) /\ ~Halfway(p)
      /\ history' = history
  BY DEF IInv, Types, Later, Storing, Halfway, At
<1>2. p \notin history.calm
  BY NotCalm DEF RunPcs
<1>3. ProcInv(p, s, db, content, history)
  BY <1>2, OtherProc DEF AnalysisPcs
<1>4. /\ writer' \in Procs \cup {None}
      /\ writer' = p <=> s.pc \in {"persist", "commit", "cleared"}
      /\ \A q \in Procs : q # p => (writer' = q <=> writer = q)
  BY FilmFacts
<1>5. QED
  BY <1>1, <1>3, <1>4, ProcStep

LEMMA EndClearKeeps ==
  ASSUME IInv, NEW p \in Procs, EndClear(p)
  PROVE  IInv'
<1>1. /\ Goto(p, Idle) /\ UNCHANGED <<db, content, history>> /\ proc[p].pc = "cleared" /\ writer' = None
  BY DEF EndClear, At
<1>2. StateType(Idle) /\ Idle.pc = "idle" /\ SeenInv(Idle, history)
  BY DEF StateType, ScanState, Idle, SeenInv, AnalysisPcs
<1>3. writer = p
  BY <1>1 DEF IInv, Types, WriterInv
<1>4. QED
  BY <1>1, <1>2, <1>3, WriterStep

LEMMA BeginScanKeeps ==
  ASSUME IInv, NEW p \in Procs, BeginScan(p)
  PROVE  IInv'
<1> DEFINE s == [proc[p] EXCEPT !.pc = "persist"]
<1>1. /\ Goto(p, s) /\ UNCHANGED <<db, content, history>> /\ proc[p].pc = "begin"
      /\ writer = None /\ writer' = p
  BY DEF BeginScan, At
<1>2. proc[p] \in [pc : {"begin", "persist"}, stamp : Contents, hash : Hashes]
  BY <1>1, ScanStates DEF IInv, Types
<1>3. /\ s.pc = "persist" /\ s.hash = proc[p].hash
      /\ s \in [pc : {"begin", "persist"}, stamp : Contents, hash : Hashes]
  BY <1>2
<1> HIDE DEF s
<1>4. StateType(s) /\ SeenInv(s, history)
  BY <1>1, <1>3 DEF StateType, ScanState, IInv, ProcInv, SeenInv
<1>5. QED
  BY <1>1, <1>3, <1>4, WriterStep

LEMMA PersistKeeps ==
  ASSUME IInv, NEW p \in Procs, NEW readable \in BOOLEAN, Persist(p, readable)
  PROVE  IInv'
<1> DEFINE s == [pc |-> "commit", stamp |-> proc[p].stamp, hash |-> proc[p].hash,
                 tracks |-> IF readable THEN content ELSE None]
<1>1. /\ Goto(p, s) /\ UNCHANGED <<db, content, history>> /\ proc[p].pc = "persist"
      /\ writer' = writer
  BY DEF Persist, Quiet, At
<1>2. proc[p].stamp \in Contents /\ proc[p].hash \in Hashes /\ content \in Contents
  <2>1. proc[p] \in [pc : {"begin", "persist"}, stamp : Contents, hash : Hashes]
    BY <1>1, ScanStates DEF IInv, Types
  <2>2. QED
    BY <2>1 DEF IInv, Types
<1>3. /\ s.pc = "commit" /\ s.hash = proc[p].hash
      /\ s \in [pc : {"commit"}, stamp : Contents, hash : Hashes, tracks : Contents \cup {None}]
  BY <1>2
<1> HIDE DEF s
<1>4. StateType(s) /\ SeenInv(s, history)
  BY <1>1, <1>3 DEF StateType, ScanState, IInv, ProcInv, SeenInv
<1>5. writer = p
  BY <1>1 DEF IInv, Types, WriterInv
<1>6. QED
  BY <1>1, <1>3, <1>4, <1>5, WriterStep

----------------------------------------------------------------------------
(* Runs.                                                                   *)

LEMMA RunProc ==
  ASSUME NEW p, NEW s, NEW d, NEW c, NEW h, s.pc \in RunPcs \ {"evaluated"},
         SeenInv(s, h), RunInv(p, s, d, c, h)
  PROVE  ProcInv(p, s, d, c, h)
BY DEF ProcInv, AnalysisInv, ClassInv, HalfwayInv, UsedInv, AnalysisPcs, RunPcs

LEMMA StartRunKeeps ==
  ASSUME IInv, NEW p \in Procs, StartRun(p)
  PROVE  IInv'
<1> DEFINE s == [pc |-> "load", loaded |-> db.hash]
           calm == IF {db.hash, db.tracks} = {content} THEN history.calm \cup {p}
                   ELSE history.calm \ {p}
<1>1. /\ Goto(p, s) /\ UNCHANGED <<db, content>> /\ writer' = writer /\ Task(p)
      /\ history' = [history EXCEPT !.calm = calm]
  BY DEF StartRun
<1>2. HistType(content, history) /\ db.hash \in Hashes /\ proc[p].pc = "idle"
  BY <1>1, TaskFacts DEF IInv, Types, DbType
<1>3. s.pc = "load" /\ s.loaded = db.hash /\ s \in [pc : {"load"}, loaded : Hashes]
  BY <1>2
<1> HIDE DEF s
<1>4. /\ HistType(content, history') /\ Later(history, history')
      /\ history'.torn = history.torn /\ history'.calm = calm
  BY <1>1, <1>2 DEF HistType, Later
<1>5. StateType(s) /\ SeenInv(s, history') /\ RunInv(p, s, db, content, history')
  <2>1. p \in calm => db.hash = content /\ db.tracks = content
    OBVIOUS
  <2>2. QED
    BY <1>3, <1>4, <2>1 DEF StateType, RunState, SeenInv, RunInv, RunPcs, AnalysisPcs
<1>6. ProcInv(p, s, db, content, history')
  BY <1>3, <1>5, RunProc DEF RunPcs
<1>7. ~Storing(p) /\ ~Halfway(p)
  BY <1>2 DEF Storing, Halfway, At
<1>8. writer' \in Procs \cup {None} /\ (writer' = p <=> s.pc \in {"persist", "commit", "cleared"})
  BY <1>1, <1>2, <1>3 DEF IInv, Types, WriterInv
<1>9. QED
  BY <1>1, <1>3, <1>4, <1>5, <1>6, <1>7, <1>8, ProcStep

LEMMA LoadTracksKeeps ==
  ASSUME IInv, NEW p \in Procs, LoadTracks(p)
  PROVE  IInv'
<1> DEFINE s == [pc |-> "evaluate", loaded |-> proc[p].loaded, ids |-> db.ids]
<1>1. /\ Goto(p, s) /\ UNCHANGED <<db, content>> /\ writer' = writer /\ history' = history
      /\ proc[p].pc = "load"
  BY DEF LoadTracks, Quiet, At
<1>2. proc[p].loaded \in Hashes /\ db.ids \in Seq(Nat)
  <2>1. proc[p] \in [pc : {"load"}, loaded : Hashes]
    BY <1>1, RunStates DEF IInv, Types
  <2>2. QED
    BY <2>1 DEF IInv, Types, DbType
<1>3. /\ s.pc = "evaluate" /\ s.loaded = proc[p].loaded /\ s.ids = db.ids
      /\ s \in [pc : {"evaluate", "introspect"}, loaded : Hashes, ids : Seq(Nat)]
  BY <1>2
<1> HIDE DEF s
<1>4. RunInv(p, proc[p], db, content, history)
  BY DEF IInv, ProcInv
<1>5. StateType(s) /\ SeenInv(s, history) /\ RunInv(p, s, db, content, history)
  BY <1>1, <1>3, <1>4 DEF StateType, RunState, SeenInv, RunInv, RunPcs, AnalysisPcs
<1>6. ProcInv(p, s, db, content, history)
  BY <1>3, <1>5, RunProc DEF RunPcs
<1>7. QED
  BY <1>1, <1>3, <1>5, <1>6, QuietStep

LEMMA PhaseEndsKeeps ==
  ASSUME IInv, NEW p \in Procs, NEW last \in BOOLEAN, PhaseEnds(p, last)
  PROVE  IInv'
<1> DEFINE s == [pc |-> "evaluate", loaded |-> proc[p].loaded, ids |-> proc[p].ids]
<1>1. /\ UNCHANGED <<db, content>> /\ writer' = writer /\ proc[p].pc = "evaluated"
      /\ \/ /\ Goto(p, Idle) /\ history' = [history EXCEPT !.calm = history.calm \ {p}]
         \/ Goto(p, s) /\ history' = [history EXCEPT !.calm = history.calm]
  BY DEF PhaseEnds, At
<1>2. HistType(content, history) /\ ~Storing(p) /\ ~Halfway(p)
  BY <1>1 DEF IInv, Types, Storing, Halfway, At
<1>3. CASE Goto(p, Idle) /\ history' = [history EXCEPT !.calm = history.calm \ {p}]
  <2>1. /\ HistType(content, history') /\ Later(history, history')
        /\ history'.torn = history.torn /\ history'.calm = history.calm \ {p}
    BY <1>2, <1>3 DEF HistType, Later
  <2>2. /\ StateType(Idle) /\ Idle.pc = "idle" /\ ProcInv(p, Idle, db, content, history')
    BY <2>1, IdleFacts
  <2>3. writer' \in Procs \cup {None} /\ (writer' = p <=> Idle.pc \in {"persist", "commit", "cleared"})
    BY <1>1, <2>2 DEF IInv, Types, WriterInv
  <2>4. QED
    BY <1>1, <1>2, <1>3, <2>1, <2>2, <2>3, ProcStep
<1>4. CASE Goto(p, s) /\ history' = [history EXCEPT !.calm = history.calm]
  <2>1. history' = history
    BY <1>2, <1>4 DEF HistType
  <2>2. proc[p].loaded \in Hashes /\ proc[p].ids \in Seq(Nat)
    <3>1. proc[p] \in [pc : {"evaluated"}, loaded : Hashes, ids : Seq(Nat),
                       used : {proc[p].used}, multi : {proc[p].multi}, whole : BOOLEAN]
      BY <1>1, RunStates DEF IInv, Types
    <3>2. QED
      BY <3>1
  <2>3. /\ s.pc = "evaluate" /\ s.loaded = proc[p].loaded /\ s.ids = proc[p].ids
        /\ s \in [pc : {"evaluate", "introspect"}, loaded : Hashes, ids : Seq(Nat)]
    BY <2>2
  <2> HIDE DEF s
  <2>4. RunInv(p, proc[p], db, content, history)
    BY DEF IInv, ProcInv
  <2>5. StateType(s) /\ SeenInv(s, history) /\ RunInv(p, s, db, content, history)
    BY <1>1, <2>3, <2>4 DEF StateType, RunState, SeenInv, RunInv, RunPcs, AnalysisPcs
  <2>6. ProcInv(p, s, db, content, history)
    BY <2>3, <2>5, RunProc DEF RunPcs
  <2>7. QED
    BY <1>1, <1>4, <2>1, <2>3, <2>5, <2>6, QuietStep
<1>5. QED
  BY <1>1, <1>3, <1>4


LEMMA IntrospectKeeps ==
  ASSUME IInv, NEW p \in Procs, Introspect(p)
  PROVE  IInv'
<1> DEFINE s == [pc |-> "measure", loaded |-> proc[p].loaded, tracks |-> content]
<1>1. /\ Goto(p, s) /\ UNCHANGED <<db, content>> /\ writer' = writer /\ history' = history
      /\ proc[p].pc = "introspect"
  BY DEF Introspect, Quiet, At
<1>2. proc[p].loaded \in Hashes /\ content \in Contents
  <2>1. proc[p] \in [pc : {"evaluate", "introspect"}, loaded : Hashes, ids : Seq(Nat)]
    BY <1>1, RunStates DEF IInv, Types
  <2>2. QED
    BY <2>1 DEF IInv, Types
<1>3. s.pc = "measure" /\ s \in [pc : {"measure"}, loaded : Hashes, tracks : Contents]
  BY <1>2
<1> HIDE DEF s
<1>4. StateType(s) /\ SeenInv(s, history) /\ RunInv(p, s, db, content, history)
  BY <1>3 DEF StateType, RunState, SeenInv, RunInv, RunPcs, AnalysisPcs
<1>5. ProcInv(p, s, db, content, history)
  BY <1>3, <1>4, RunProc DEF RunPcs
<1>6. QED
  BY <1>1, <1>3, <1>4, <1>5, QuietStep

LEMMA MeasureKeeps ==
  ASSUME IInv, NEW p \in Procs, NEW hashed \in BOOLEAN, Measure(p, hashed)
  PROVE  IInv'
<1> DEFINE s == [pc |-> "record", loaded |-> proc[p].loaded, tracks |-> proc[p].tracks,
                 stamp |-> content, hash |-> IF hashed THEN content ELSE NoHash]
<1>1. /\ Goto(p, s) /\ UNCHANGED <<db, content>> /\ writer' = writer /\ history' = history
      /\ proc[p].pc = "measure"
  BY DEF Measure, Quiet, At
<1>2. /\ proc[p].loaded \in Hashes /\ proc[p].tracks \in Contents
      /\ content \in Contents /\ content \in history.seen
  <2>1. proc[p] \in [pc : {"measure"}, loaded : Hashes, tracks : Contents]
    BY <1>1, RunStates DEF IInv, Types
  <2>2. QED
    BY <2>1 DEF IInv, Types, HistType
<1>3. /\ s.pc = "record" /\ s.hash \in history.seen \cup {NoHash}
      /\ s \in [pc : {"record"}, loaded : Hashes, tracks : Contents, stamp : Contents, hash : Hashes]
  BY <1>2 DEF Hashes
<1> HIDE DEF s
<1>4. StateType(s) /\ SeenInv(s, history) /\ RunInv(p, s, db, content, history)
  BY <1>3 DEF StateType, RunState, SeenInv, RunInv, RunPcs
<1>5. ProcInv(p, s, db, content, history)
  BY <1>3, <1>4, RunProc DEF RunPcs
<1>6. QED
  BY <1>1, <1>3, <1>4, <1>5, QuietStep

\* The policy is told of the verdicts on the rows it knows, as they are stored.
LEMMA EvaluateKeeps ==
  ASSUME IInv, NEW p \in Procs, Evaluate(p)
  PROVE  IInv'
<1> DEFINE ids  == proc[p].ids
           used == [i \in {j \in DOMAIN ids : ids[j] \in DOMAIN db.heard} |-> db.heard[ids[i]]]
           whole == /\ Range(ids) \cap history.torn = {}
                    /\ \A q \in Procs : Storing(q) => Row(q) \notin Range(ids)
           multi == IsMultiLanguage(Range(used))
           s == [pc |-> "evaluated", loaded |-> proc[p].loaded, ids |-> ids,
                 used |-> used, multi |-> multi, whole |-> whole]
<1>1. /\ Goto(p, s) /\ UNCHANGED <<db, content>> /\ writer' = writer /\ history' = history
      /\ proc[p].pc = "evaluate"
  BY DEF Evaluate, Quiet, At
<1>2. proc[p].loaded \in Hashes /\ ids \in Seq(Nat)
  <2>1. proc[p] \in [pc : {"evaluate", "introspect"}, loaded : Hashes, ids : Seq(Nat)]
    BY <1>1, RunStates DEF IInv, Types
  <2>2. QED
    BY <2>1
<1>3. whole \in BOOLEAN
  OBVIOUS
<1>4. /\ DOMAIN used \subseteq DOMAIN ids
      /\ \A i \in DOMAIN used : ids[i] \in DOMAIN db.heard /\ used[i] = db.heard[ids[i]]
  OBVIOUS
<1> HIDE DEF used, multi, ids
<1>5. whole => \A i \in DOMAIN ids : Settled(ids[i])
  BY <1>2, RangeFacts DEF Settled
<1> HIDE DEF whole
<1>6. /\ s.pc = "evaluated" /\ s.loaded = proc[p].loaded /\ s.ids = ids /\ s.used = used
      /\ s.multi = multi /\ s.whole = whole
      /\ s \in [pc : {"evaluated"}, loaded : Hashes, ids : Seq(Nat), used : {s.used},
                multi : {s.multi}, whole : BOOLEAN]
  BY <1>2, <1>3
<1> HIDE DEF s
<1>7. /\ RunInv(p, proc[p], db, content, history) /\ HeardInv(db, content, history) /\ SegmentsInv
      /\ DbType(db) /\ content \in Contents
  BY DEF IInv, ProcInv, Types
<1>8. p \in history.calm =>
        \/ ids = <<>>
        \/ proc[p].loaded = content /\ db.tracks = content /\ ids = db.ids
  BY <1>1, <1>7 DEF RunInv, ids
<1>9. RunInv(p, s, db, content, history)
  BY <1>6, <1>8 DEF RunInv, RunPcs
<1>10. UsedInv(p, s, content, history)
  <2>1. ASSUME p \in history.calm, ~history.returned, ~history.failed,
               NEW i \in DOMAIN used, used[i].hash = proc[p].loaded
        PROVE  /\ i \in DOMAIN Film[content]
               /\ SameVerdict(used[i], Verdict(Film[content][i].samples))
               /\ whole => used[i].segs = Segments(Film[content][i].samples)
    <3>1. i \in DOMAIN ids /\ ids[i] \in DOMAIN db.heard /\ used[i] = db.heard[ids[i]]
      BY <1>4
    <3>2. proc[p].loaded = content /\ db.tracks = content /\ ids = db.ids
      BY <1>8, <2>1, <3>1
    <3>3. i \in DOMAIN db.ids \cap DOMAIN Film[content]
      BY <1>2, <1>7, <3>1, <3>2, FilmFacts DEF DbType
    <3>4. SameVerdict(used[i], Verdict(Film[content][i].samples))
      BY <1>7, <2>1, <3>1, <3>2, <3>3 DEF HeardInv
    <3>5. whole => used[i].segs = Segments(Film[content][i].samples)
      BY <1>5, <1>7, <2>1, <3>1, <3>2, <3>3 DEF SegmentsInv
    <3>6. QED
      BY <3>3, <3>4, <3>5
  <2>2. s.multi <=> IsMultiLanguage(Range(s.used))
    BY <1>6 DEF multi
  <2>3. QED
    BY <1>4, <1>6, <2>1, <2>2 DEF UsedInv
<1>11. StateType(s) /\ SeenInv(s, history)
  BY <1>6 DEF StateType, RunState, SeenInv, AnalysisPcs
<1>12. ProcInv(p, s, db, content, history)
  BY <1>6, <1>9, <1>10, <1>11 DEF ProcInv, AnalysisInv, ClassInv, HalfwayInv, AnalysisPcs
<1>13. QED
  BY <1>1, <1>6, <1>11, <1>12, QuietStep

----------------------------------------------------------------------------
(* A process that ends.                                                    *)

LEMMA DieKeeps ==
  ASSUME IInv, NEW p \in Procs, Die(p)
  PROVE  IInv'
<1> DEFINE torn == IF Storing(p) THEN history.torn \cup {Row(p)} ELSE history.torn
           mixed == history.mixed \/ Halfway(p)
<1>1. /\ Goto(p, Idle) /\ UNCHANGED <<db, content>> /\ writer' = (IF writer = p THEN None ELSE writer)
      /\ history' = [history EXCEPT !.torn = torn, !.mixed = mixed, !.calm = history.calm \ {p}]
  BY DEF Die
<1>2. HistType(content, history) /\ writer \in Procs \cup {None}
  BY DEF IInv, Types, WriterInv
<1>3. torn \in SUBSET Nat /\ history.torn \subseteq torn /\ (Storing(p) => Row(p) \in torn)
      /\ mixed \in BOOLEAN
  <2>1. Storing(p) => Row(p) \in Nat
    BY RowFacts DEF Storing, At
  <2>2. QED
    BY <1>2, <2>1 DEF HistType, Halfway, At
<1> HIDE DEF torn
<1>4. /\ HistType(content, history') /\ Later(history, history')
      /\ history'.torn = torn /\ history'.calm = history.calm \ {p} /\ history'.mixed = mixed
  BY <1>1, <1>2, <1>3 DEF HistType, Later
<1>5. StateType(Idle) /\ Idle.pc = "idle" /\ ProcInv(p, Idle, db, content, history')
  BY <1>4, IdleFacts
<1>6. /\ writer' \in Procs \cup {None} /\ (writer' = p <=> Idle.pc \in {"persist", "commit", "cleared"})
      /\ \A q \in Procs : q # p => (writer' = q <=> writer = q)
  BY <1>1, <1>2, <1>5, FilmFacts
<1>7. QED
  BY <1>1, <1>3, <1>4, <1>5, <1>6, ProcStep


----------------------------------------------------------------------------
(* Steps that change rows of the film, but store no verdict.               *)

LEMMA TypesStep ==
  ASSUME Types, NEW p \in Procs, NEW s, Goto(p, s), StateType(s), content' = content, DbType(db'),
         HistType(content, history'),
         writer' \in Procs \cup {None}, writer' = p <=> s.pc \in {"persist", "commit", "cleared"},
         \A q \in Procs : q # p => (writer' = q <=> writer = q)
  PROVE  Types'
<1>1. /\ proc'[p] = s
      /\ \A q \in Procs : q # p => proc'[q] = proc[q]
      /\ proc' = [q \in Procs |-> proc'[q]]
  BY GotoFacts
<1>2. \A q \in Procs : StateType(proc'[q])
  BY <1>1 DEF Types
<1>3. WriterInv'
  BY <1>1 DEF Types, WriterInv
<1>4. content' \in Contents
  BY DEF Types
<1>5. QED
  BY <1>1, <1>2, <1>3, <1>4 DEF Types

\* Verdicts that stay, on rows that keep their index, stay true.
LEMMA SoundStays ==
  ASSUME IInv, NEW p \in Procs, NEW s, Goto(p, s), content' = content,
         proc[p].pc # "segments", s.pc # "segments",
         db'.hash \in history.seen \cup {NoHash}, DOMAIN db'.heard \subseteq DOMAIN db.heard,
         \A id \in DOMAIN db'.heard : db'.heard[id] = db.heard[id],
         \A i \in DOMAIN db'.ids : db'.ids[i] \in DOMAIN db'.heard =>
            i \in DOMAIN db.ids /\ db.ids[i] = db'.ids[i],
         history'.seen = history.seen, history'.returned = history.returned,
         history'.failed = history.failed, history'.torn = history.torn
  PROVE  HeardInv(db', content', history') /\ StoringInv' /\ SegmentsInv'
<1>1. Types /\ HeardInv(db, content, history) /\ StoringInv /\ SegmentsInv
  BY DEF IInv
<1>2. proc'[p] = s /\ \A q \in Procs : q # p => proc'[q] = proc[q]
  BY <1>1, GotoFacts
<1>3. \A q \in Procs : (Storing(q)' <=> Storing(q)) /\
        (Storing(q) => Row(q)' = Row(q) /\ proc'[q] = proc[q])
  <2>1. ASSUME NEW q \in Procs
        PROVE  (Storing(q)' <=> Storing(q)) /\ (Storing(q) => Row(q)' = Row(q) /\ proc'[q] = proc[q])
    <3>1. CASE q = p
      BY <1>2, <3>1 DEF Storing, At
    <3>2. CASE q # p
      BY <1>2, <3>2 DEF Storing, At, Row
    <3>3. QED
      BY <3>1, <3>2
  <2>2. QED
    BY <2>1
<1>4. HeardInv(db', content', history')
  BY <1>1 DEF HeardInv
<1>5. StoringInv'
  <2>1. SUFFICES ASSUME NEW q \in Procs, Storing(q)', Row(q)' \notin history'.torn
                 PROVE  /\ \A x \in Procs : Storing(x)' /\ Row(x)' = Row(q)' => x = q
                        /\ Row(q)' \in DOMAIN db'.heard =>
                             LET w == db'.heard[Row(q)']
                             IN  /\ w.key = proc'[q].key /\ w.hash = proc'[q].hash
                                 /\ SameVerdict(w, Verdict(proc'[q].samples))
    BY DEF StoringInv
  <2>2. Storing(q) /\ Row(q)' = Row(q) /\ proc'[q] = proc[q] /\ Row(q) \notin history.torn
    BY <1>3, <2>1
  <2>3. \A x \in Procs : Storing(x)' /\ Row(x)' = Row(q)' => x = q
    BY <1>1, <1>3, <2>2 DEF StoringInv
  <2>4. QED
    BY <1>1, <2>2, <2>3 DEF StoringInv
<1>6. SegmentsInv'
  <2>1. SUFFICES ASSUME NEW x \in DOMAIN db'.heard, Settled(x)'
                 PROVE  /\ SameVerdict(db'.heard[x], Verdict(db'.heard[x].segs))
                        /\ ~history.returned /\ ~history.failed /\ db'.heard[x].hash = content =>
                             \A i \in DOMAIN db'.ids \cap DOMAIN Film[content] :
                               db'.ids[i] = x => db'.heard[x].segs = Segments(Film[content][i].samples)
    BY DEF SegmentsInv
  <2>2. Settled(x)
    BY <1>3, <2>1 DEF Settled
  <2>3. QED
    BY <1>1, <2>1, <2>2 DEF SegmentsInv
<1>7. QED
  BY <1>4, <1>5, <1>6

LEMMA ClearAllKeeps ==
  ASSUME IInv, NEW p \in Procs, ClearAll(p)
  PROVE  IInv'
<1>1. /\ Task(p) /\ db' = [db EXCEPT !.heard = <<>>] /\ proc' = proc /\ content' = content
      /\ writer' = writer /\ history' = history
  BY DEF ClearAll, Quiet
<1>2. proc[p] = Idle /\ p \notin history.calm
  BY <1>1, TaskFacts DEF Task
<1>3. Goto(p, Idle)
  BY <1>1, <1>2 DEF Goto, IInv, Types
<1>4. StateType(Idle) /\ Idle.pc = "idle" /\ ProcInv(p, Idle, db, content, history)
  BY <1>2, IdleFacts
<1>5. /\ DbType(db) /\ HistType(content, history) /\ Later(history, history)
      /\ db.hash \in history.seen \cup {NoHash}
  BY DEF IInv, Types, Later, HeardInv
<1>6. /\ db'.ids = db.ids /\ db'.tracks = db.tracks /\ db'.hash = db.hash
      /\ db'.classed = db.classed /\ db'.next = db.next /\ db'.heard = <<>>
      /\ db' \in [stamp : Contents, hash : Hashes, original : Originals \cup {None},
                  tracks : Contents, ids : Seq(Nat), next : Nat,
                  heard : {db'.heard}, classed : {db'.classed}]
  BY <1>1, <1>5 DEF DbType
<1>7. DOMAIN db'.heard = {} /\ db'.heard = [id \in DOMAIN db'.heard |-> db'.heard[id]]
  BY <1>6
<1>8. DbType(db') /\ db.next <= db'.next
  BY <1>5, <1>6, <1>7 DEF DbType
<1>9. /\ Types' /\ RecordInv(db', history') /\ ClassesInv'
      /\ \A q \in Procs : ProcInv(q, proc'[q], db', content', history')
  <2>1. /\ Idle.pc \notin {"persist", "commit", "cleared", "classify"}
        /\ proc[p].pc \notin {"persist", "commit", "cleared", "classify"}
        /\ HistType(content, history') /\ Later(history, history')
        /\ history'.mixed = history.mixed /\ history'.blind = history.blind
        /\ history'.calm = history.calm
    BY <1>1, <1>2, <1>4, <1>5
  <2>2. QED
    BY <1>1, <1>3, <1>4, <1>6, <1>8, <2>1, HeardStep
<1>10. HeardInv(db', content', history') /\ StoringInv' /\ SegmentsInv'
  BY <1>1, <1>2, <1>3, <1>4, <1>5, <1>6, <1>7, SoundStays
<1>11. QED
  BY <1>9, <1>10 DEF IInv

\* A step of one process that changes what is stored of the kind of the tracks.
LEMMA ClassedStep ==
  ASSUME IInv, NEW p \in Procs, NEW s, Goto(p, s), StateType(s), content' = content, DbType(db'),
         db'.ids = db.ids, db'.tracks = db.tracks, db'.hash = db.hash, db'.heard = db.heard,
         db'.next = db.next,
         HistType(content, history'), Later(history, history'), history'.torn = history.torn,
         history'.seen = history.seen, history'.returned = history.returned,
         history'.failed = history.failed, history'.calm = history.calm,
         ProcInv(p, s, db', content, history'), s.pc # "segments", proc[p].pc # "segments",
         \A q \in Procs : q # p /\ proc[q].pc = "classify" => history'.mixed \/ proc[q].i = 1,
         writer' \in Procs \cup {None}, writer' = p <=> s.pc \in {"persist", "commit", "cleared"},
         \A q \in Procs : q # p => (writer' = q <=> writer = q),
         RecordInv(db', history'), ClassesInv'
  PROVE  IInv'
<1>1. /\ Types /\ DbType(db) /\ \A q \in Procs : ProcInv(q, proc[q], db, content, history)
      /\ db.hash \in history.seen \cup {NoHash}
  BY DEF IInv, Types, HeardInv
<1>2. proc'[p] = s /\ \A q \in Procs : q # p => proc'[q] = proc[q]
  BY <1>1, GotoFacts
<1>3. ASSUME NEW q \in Procs PROVE ProcInv(q, proc'[q], db', content', history')
  <2>1. CASE q = p
    BY <1>2, <2>1
  <2>2. CASE q # p
    <3>1. /\ StateType(proc[q]) /\ db'.next \in Nat /\ db.next <= db'.next
          /\ ProcInv(q, proc[q], db, content, history)
      BY <1>1 DEF Types, DbType
    <3>2. proc[q].pc # "classify" \/ history'.mixed \/ proc[q].i = 1 \/ db'.classed = db.classed
      BY <2>2
    <3>3. ProcInv(q, proc[q], db', content, history')
      BY <1>1, <3>1, <3>2, ProcStays
    <3>4. QED
      BY <1>2, <2>2, <3>3
  <2>3. QED
    BY <2>1, <2>2
<1>4. Types'
  BY <1>1, TypesStep
<1>5. HeardInv(db', content', history') /\ StoringInv' /\ SegmentsInv'
  BY <1>1, SoundStays
<1>6. QED
  BY <1>3, <1>4, <1>5 DEF IInv

LEMMA ClearClassesKeeps ==
  ASSUME IInv, NEW p \in Procs, ClearClasses(p)
  PROVE  IInv'
<1> DEFINE s == [pc |-> "cleared"]
           mixed == history.mixed \/ \E q \in Procs : Halfway(q)
<1>1. /\ Task(p) /\ writer = None /\ db' = [db EXCEPT !.classed = <<>>] /\ Goto(p, s)
      /\ content' = content /\ writer' = p /\ history' = [history EXCEPT !.mixed = mixed]
  BY DEF ClearClasses
<1>2. /\ Types /\ DbType(db) /\ HistType(content, history) /\ RecordInv(db, history)
      /\ proc[p].pc = "idle" /\ p \notin history.calm
  BY <1>1, TaskFacts DEF IInv, Types
<1>3. mixed \in BOOLEAN /\ (history.mixed => mixed)
  BY <1>2 DEF HistType
<1>4. s.pc = "cleared" /\ StateType(s)
  BY DEF StateType, ScanState
<1> HIDE DEF s, mixed
<1>5. /\ HistType(content, history') /\ Later(history, history') /\ history'.torn = history.torn
      /\ history'.seen = history.seen /\ history'.returned = history.returned
      /\ history'.failed = history.failed /\ history'.calm = history.calm
      /\ history'.mixed = mixed /\ history'.recorded = history.recorded /\ history'.blind = history.blind
  BY <1>1, <1>2, <1>3 DEF HistType, Later
<1>6. /\ db'.ids = db.ids /\ db'.tracks = db.tracks /\ db'.hash = db.hash /\ db'.heard = db.heard
      /\ db'.next = db.next /\ db'.classed = <<>>
      /\ db' \in [stamp : Contents, hash : Hashes, original : Originals \cup {None},
                  tracks : Contents, ids : Seq(Nat), next : Nat,
                  heard : {db'.heard}, classed : {db'.classed}]
  BY <1>1, <1>2 DEF DbType
<1>7. DOMAIN db'.classed = {}
  BY <1>6
<1>8. DbType(db')
  BY <1>2, <1>6, <1>7 DEF DbType
<1>9. ProcInv(p, s, db', content, history')
  <2>1. SeenInv(s, history')
    BY <1>4 DEF SeenInv, AnalysisPcs
  <2>2. QED
    BY <1>2, <1>4, <1>5, <2>1, OtherProc DEF AnalysisPcs
<1>10. ASSUME NEW q \in Procs, q # p, proc[q].pc = "classify"
       PROVE  history'.mixed \/ proc[q].i = 1
  <2>1. proc[q].i \in DOMAIN proc[q].ids
    BY <1>10 DEF IInv, ProcInv, ClassInv
  <2>2. proc[q] \in [pc : {"classify"}, hash : Hashes, original : Originals \cup {None},
                     ids : Seq(Nat), tracks : Contents, i : Nat]
    BY <1>2, <1>10, ClassStates DEF Types
  <2>3. proc[q].i = 1 \/ proc[q].i > 1
    BY <2>1, <2>2
  <2>4. QED
    BY <1>5, <1>10, <2>3 DEF Halfway, At, mixed
<1>11. RecordInv(db', history')
  BY <1>2, <1>5, <1>6, <1>7 DEF RecordInv
<1>12. ClassesInv'
  <2>1. ~CachedClasses(db.hash)'
    BY <1>7 DEF CachedClasses
  <2>2. QED
    BY <2>1 DEF ClassesInv
<1>13. /\ writer' \in Procs \cup {None} /\ (writer' = p <=> s.pc \in {"persist", "commit", "cleared"})
       /\ \A q \in Procs : q # p => (writer' = q <=> writer = q)
  BY <1>1, <1>4, FilmFacts
<1>14. QED
  BY <1>1, <1>2, <1>4, <1>5, <1>6, <1>8, <1>9, <1>10, <1>11, <1>12, <1>13, ClassedStep


LEMMA StoreClassKeeps ==
  ASSUME IInv, NEW p \in Procs, StoreClass(p)
  PROVE  IInv'
<1> DEFINE tracks == Film[proc[p].tracks]
           i      == proc[p].i
           id     == Row(p)
           class  == ClassifyTrack(tracks, i, proc[p].original, proc[p].hash)
           gone   == id \notin Range(db.ids)
           others == \E q \in Procs \ {p} : At(q, "classify")
           mixed  == history.mixed \/ gone \/ others
           next   == [proc[p] EXCEPT !.i = i + 1]
           s      == IF gone \/ i = Len(tracks) THEN Idle ELSE next
<1>1. /\ proc[p].pc = "classify" /\ writer' = writer /\ content' = content /\ Goto(p, s)
      /\ db' = IF gone THEN db ELSE [db EXCEPT !.classed = With(db.classed, id, class)]
      /\ history' = [history EXCEPT !.mixed = mixed]
  BY DEF StoreClass, StoreClassWith, At
<1>2. /\ Types /\ DbType(db) /\ HistType(content, history) /\ RecordInv(db, history)
      /\ ClassInv(proc[p], db, history) /\ HalfwayInv(proc[p], db, history)
      /\ p \notin history.calm
  BY <1>1, NotCalm DEF IInv, Types, ProcInv, RunPcs
<1>3. proc[p] \in [pc : {"classify"}, hash : Hashes, original : Originals \cup {None},
                   ids : Seq(Nat), tracks : Contents, i : Nat]
  BY <1>1, <1>2, ClassStates DEF Types
<1>4. /\ proc[p].ids \in Seq(Nat) /\ Len(proc[p].ids) = Len(tracks) /\ i \in DOMAIN proc[p].ids
      /\ Placed(proc[p].ids, db) /\ proc[p].hash \in history.recorded
      /\ proc[p].original \in Originals \cup {None}
      /\ (~history.blind /\ proc[p].hash = db.hash => proc[p].tracks = db.tracks /\ proc[p].ids = db.ids)
  BY <1>1, <1>2, <1>3 DEF ClassInv
<1>5. mixed \in BOOLEAN /\ (history.mixed => mixed)
  BY <1>2 DEF HistType
<1> HIDE DEF mixed
<1>6. /\ HistType(content, history') /\ Later(history, history') /\ history'.torn = history.torn
      /\ history'.seen = history.seen /\ history'.returned = history.returned
      /\ history'.failed = history.failed /\ history'.calm = history.calm
      /\ history'.mixed = mixed /\ history'.recorded = history.recorded /\ history'.blind = history.blind
  BY <1>1, <1>2, <1>5 DEF HistType, Later
<1>7. StateType(s) /\ s.pc \in {"idle", "classify"}
  <2>1. StateType(Idle) /\ Idle.pc = "idle"
    BY DEF StateType, ScanState, Idle
  <2>2. /\ next.pc = "classify"
        /\ next \in [pc : {"classify"}, hash : Hashes, original : Originals \cup {None},
                     ids : Seq(Nat), tracks : Contents, i : Nat]
    BY <1>3
  <2>3. StateType(next)
    BY <2>2 DEF StateType, ClassState
  <2>4. QED
    BY <2>1, <2>2, <2>3
<1>8. /\ writer' \in Procs \cup {None} /\ (writer' = p <=> s.pc \in {"persist", "commit", "cleared"})
      /\ \A q \in Procs : q # p => (writer' = q <=> writer = q)
  BY <1>1, <1>2, <1>7 DEF Types, WriterInv
<1>9. CASE gone
  <2>1. mixed /\ s = Idle /\ db' = db
    BY <1>1, <1>9 DEF mixed
  <2>2. StateType(Idle) /\ Idle.pc = "idle" /\ ProcInv(p, Idle, db, content, history')
    BY <1>2, <1>6, IdleFacts
  <2>3. ~Storing(p) /\ (Halfway(p) => history'.mixed) /\ Goto(p, Idle)
    BY <1>1, <1>6, <2>1 DEF Storing, At
  <2>4. history.torn \subseteq history'.torn /\ UNCHANGED <<db, content>>
    BY <1>1, <1>6, <2>1
  <2>5. QED
    BY <1>6, <1>8, <2>1, <2>2, <2>3, <2>4, ProcStep
<1>10. CASE ~gone
  <2> HIDE DEF class, s
  <2>1. /\ db'.ids = db.ids /\ db'.tracks = db.tracks /\ db'.hash = db.hash /\ db'.heard = db.heard
        /\ db'.next = db.next /\ db'.classed = With(db.classed, id, class)
        /\ db' \in [stamp : Contents, hash : Hashes, original : Originals \cup {None},
                    tracks : Contents, ids : Seq(Nat), next : Nat,
                    heard : {db'.heard}, classed : {db'.classed}]
    <3> DEFINE classed == With(db.classed, id, class)
    <3>1. db' = [db EXCEPT !.classed = classed]
      BY <1>1, <1>10
    <3> HIDE DEF classed
    <3>2. db \in [stamp : Contents, hash : Hashes, original : Originals \cup {None},
                  tracks : Contents, ids : Seq(Nat), next : Nat,
                  heard : {db.heard}, classed : {db.classed}]
      BY <1>2 DEF DbType
    <3>3. QED
      BY <3>1, <3>2 DEF classed
  <2>2. /\ DOMAIN db'.classed = DOMAIN db.classed \cup {id} /\ db'.classed[id] = class
        /\ \A x \in DOMAIN db.classed : x # id => db'.classed[x] = db.classed[x]
    BY <2>1 DEF With
  <2>3. DbType(db')
    <3>1. DOMAIN db'.classed \subseteq Range(db.ids)
      BY <1>2, <1>10, <2>2 DEF DbType
    <3>2. QED
      BY <1>2, <2>1, <3>1 DEF DbType
  <2>4. class.hash = proc[p].hash
    BY DEF class, ClassifyTrack
  <2>5. RecordInv(db', history')
    <3>1. \A x \in DOMAIN db'.classed : db'.classed[x].hash \in history.recorded
      BY <1>2, <1>4, <2>2, <2>4 DEF RecordInv
    <3>2. QED
      BY <1>2, <1>6, <2>1, <3>1 DEF RecordInv
  <2>6. ASSUME ~mixed
        PROVE  \A j \in 1..i : proc[p].ids[j] \in Range(db.ids) =>
                 /\ proc[p].ids[j] \in DOMAIN db'.classed
                 /\ db'.classed[proc[p].ids[j]] =
                      ClassifyTrack(tracks, j, proc[p].original, proc[p].hash)
    <3>1. SUFFICES ASSUME NEW j \in 1..i, proc[p].ids[j] \in Range(db.ids)
                   PROVE  /\ proc[p].ids[j] \in DOMAIN db'.classed
                          /\ db'.classed[proc[p].ids[j]] =
                               ClassifyTrack(tracks, j, proc[p].original, proc[p].hash)
      OBVIOUS
    <3>2. CASE j = i
      BY <2>2, <3>2 DEF class, Row
    <3>3. CASE j # i
      <4>1. j \in 1..i - 1 /\ j \in DOMAIN proc[p].ids
        BY <1>3, <1>4, <3>1, <3>3
      <4>2. proc[p].ids[j] # id
        <5>1. PICK m \in DOMAIN db.ids : db.ids[m] = id
          BY <1>2, <1>10, RangeFacts DEF DbType
        <5>2. m = i
          BY <1>4, <5>1 DEF Placed, Row
        <5>3. QED
          BY <1>4, <3>3, <4>1, <5>1, <5>2 DEF Placed
      <4>3. /\ proc[p].ids[j] \in DOMAIN db.classed
            /\ db.classed[proc[p].ids[j]] = ClassifyTrack(tracks, j, proc[p].original, proc[p].hash)
        <5>1. ~history.mixed
          BY <1>5, <2>6
        <5>2. QED
          BY <1>1, <1>2, <3>1, <4>1, <5>1 DEF HalfwayInv
      <4>4. QED
        BY <2>2, <4>2, <4>3
    <3>4. QED
      BY <3>2, <3>3
  <2>7. ProcInv(p, s, db', content, history')
    <3>1. CASE s = Idle
      BY <1>2, <1>6, <3>1, IdleFacts
    <3>2. CASE s = next /\ i # Len(tracks)
      <4>1. /\ s.pc = "classify" /\ s.hash = proc[p].hash /\ s.ids = proc[p].ids
            /\ s.tracks = proc[p].tracks /\ s.original = proc[p].original /\ s.i = i + 1
        BY <1>3, <3>2
      <4> HIDE DEF next
      <4>2. s.i \in DOMAIN s.ids
        BY <1>3, <1>4, <3>2, <4>1
      <4>3. Placed(s.ids, db')
        BY <1>4, <2>1, <4>1 DEF Placed
      <4>4. ClassInv(s, db', history')
        BY <1>4, <1>6, <2>1, <4>1, <4>2, <4>3 DEF ClassInv
      <4>5. HalfwayInv(s, db', history')
        <5>1. s.i - 1 = i
          BY <1>3, <4>1
        <5>2. QED
          BY <1>6, <2>1, <2>6, <4>1, <5>1 DEF HalfwayInv
      <4>6. QED
        BY <1>2, <1>6, <4>1, <4>4, <4>5 DEF ProcInv, SeenInv, AnalysisInv, RunInv, UsedInv, AnalysisPcs
    <3>3. QED
      BY <1>10, <3>1, <3>2 DEF s
  <2>8. ClassesInv'
    <3>1. SUFFICES ASSUME ~history'.blind, ~history'.mixed, CachedClasses(db.hash)',
                          \A q \in Procs : ~Halfway(q)'
                   PROVE  Complete(db')
      BY DEF ClassesInv
    <3>2. proc[p].hash = db.hash
      BY <1>10, <2>1, <2>2, <2>4, <3>1 DEF CachedClasses
    <3>3. proc[p].tracks = db.tracks /\ proc[p].ids = db.ids
      BY <1>4, <1>6, <3>1, <3>2
    <3>4. i = Len(tracks)
      <4>1. SUFFICES ASSUME i # Len(tracks)
                     PROVE  FALSE
        OBVIOUS
      <4>2. proc'[p] = next
        BY <1>1, <1>2, <1>10, <4>1, GotoFacts DEF s
      <4>3. next.pc = "classify" /\ next.i = i + 1 /\ i \in Nat /\ i # 0
        BY <1>3, <1>4
      <4>4. Halfway(p)'
        BY <4>2, <4>3 DEF Halfway, At
      <4>5. QED
        BY <3>1, <4>4
    <3>5. ~mixed /\ db.ids \in Seq(Nat)
      BY <1>2, <1>6, <3>1 DEF DbType
    <3>6. ASSUME NEW j \in DOMAIN db.ids
          PROVE  /\ db.ids[j] \in DOMAIN db'.classed
                 /\ db'.classed[db.ids[j]] = ClassifyTrack(Film[db.tracks], j, proc[p].original, db.hash)
      <4>1. j \in 1..i
        BY <1>4, <3>3, <3>4, <3>5
      <4>2. db.ids[j] \in Range(db.ids)
        BY <3>5, RangeFacts
      <4>3. QED
        BY <2>6, <3>2, <3>3, <3>5, <4>1, <4>2
    <3>7. QED
      BY <1>4, <2>1, <3>6 DEF Complete
  <2>9. ASSUME NEW q \in Procs, q # p, proc[q].pc = "classify"
        PROVE  history'.mixed
    BY <1>6, <2>9 DEF mixed, At
  <2>10. s.pc # "segments" /\ proc[p].pc # "segments"
    BY <1>1, <1>7
  <2>11. Goto(p, s)
    BY <1>1
  <2>12. QED
    BY <1>1, <1>6, <1>7, <1>8, <2>1, <2>3, <2>5, <2>7, <2>8, <2>9, <2>10, <2>11, ClassedStep
<1>11. QED
  BY <1>9, <1>10


----------------------------------------------------------------------------
(* Rows of the tracks that are recorded.                                   *)

LEMMA UpsertFacts ==
  ASSUME NEW d, DbType(d), NEW c \in Contents, NEW e, e = UpsertTracks(d, c)
  PROVE  /\ DbType(e) /\ e.tracks = c /\ e.hash = d.hash /\ d.next <= e.next /\ e.next \in Nat
         /\ \A i \in DOMAIN e.ids \cap DOMAIN d.ids : e.ids[i] = d.ids[i]
         /\ \A i \in DOMAIN e.ids \ DOMAIN d.ids : d.next <= e.ids[i]
         /\ d.tracks = c => e.ids = d.ids
         /\ DOMAIN e.heard = DOMAIN d.heard \cap Range(e.ids)
         /\ \A id \in DOMAIN e.heard : e.heard[id] = d.heard[id]
         /\ DOMAIN e.classed = DOMAIN d.classed \cap Range(e.ids)
         /\ \A id \in DOMAIN e.classed : e.classed[id] = d.classed[id]
<1> DEFINE kept == [i \in DOMAIN Film[c] |->
                      IF i \in DOMAIN d.ids THEN d.ids[i] ELSE d.next + i - 1 - Len(d.ids)]
           gone == Range(d.ids) \ Range(kept)
           new  == Range(kept) \ Range(d.ids)
           heard == Without(d.heard, gone)
           classed == Without(d.classed, gone)
           next == d.next + Cardinality(new)
<1>1. /\ d \in [stamp : Contents, hash : Hashes, original : Originals \cup {None}, tracks : Contents,
                ids : Seq(Nat), next : Nat, heard : {d.heard}, classed : {d.classed}]
      /\ d.ids \in Seq(Nat) /\ d.next \in Nat /\ Len(d.ids) = Len(Film[d.tracks])
      /\ \A i \in DOMAIN d.ids, j \in DOMAIN d.ids : d.ids[i] = d.ids[j] => i = j
      /\ \A i \in DOMAIN d.ids : d.ids[i] < d.next /\ d.ids[i] \in Nat
      /\ DOMAIN d.heard \subseteq Range(d.ids) /\ DOMAIN d.classed \subseteq Range(d.ids)
      /\ \A id \in DOMAIN d.heard : HeardType(d.heard[id])
  BY DEF DbType
<1>2. PICK n \in Nat : n = Len(Film[c]) /\ DOMAIN Film[c] = 1..n
  BY FilmFacts
<1>3. PICK m \in Nat : m = Len(d.ids) /\ DOMAIN d.ids = 1..m
  BY <1>1
<1>4. PICK k \in Nat : k = d.next
  BY <1>1
<1>5. /\ DOMAIN kept = 1..n
      /\ \A i \in 1..n : i <= m => kept[i] = d.ids[i] /\ kept[i] \in Nat /\ kept[i] < k
      /\ \A i \in 1..n : ~(i <= m) => kept[i] = k + i - 1 - m /\ kept[i] \in Nat
  <2>1. DOMAIN kept = 1..n /\ \A i \in 1..n : i \in DOMAIN d.ids <=> i <= m
    BY <1>2, <1>3
  <2>2. \A i \in 1..n : i <= m => kept[i] = d.ids[i] /\ kept[i] \in Nat /\ kept[i] < k
    BY <1>1, <1>4, <2>1
  <2>3. \A i \in 1..n : ~(i <= m) => kept[i] = k + i - 1 - m
    BY <1>3, <1>4, <2>1
  <2> HIDE DEF kept
  <2>4. \A i \in 1..n : ~(i <= m) => kept[i] \in Nat
    BY <2>3
  <2>5. QED
    BY <2>1, <2>2, <2>3, <2>4
<1>6. kept \in Seq(Nat) /\ Len(kept) = n
  <2>1. kept = [i \in 1..n |-> kept[i]]
    BY <1>2
  <2> HIDE DEF kept
  <2>2. \A i \in 1..n : kept[i] \in Nat
    BY <1>5
  <2>3. QED
    BY <1>5, <2>1, <2>2
<1>7. e = [d EXCEPT !.tracks = c, !.ids = kept, !.next = next, !.heard = heard, !.classed = classed]
  BY DEF UpsertTracks
<1> HIDE DEF kept
<1>8. next = k + (IF n > m THEN n - m ELSE 0)
  <2>1. ASSUME NEW x \in new PROVE x \in k..(k + n - m - 1)
    <3>1. PICK i \in 1..n : x = kept[i]
      BY <1>5, <2>1 DEF Range
    <3>2. ASSUME i <= m PROVE FALSE
      <4>1. i \in DOMAIN d.ids /\ d.ids[i] = x
        BY <1>3, <1>5, <3>1, <3>2
      <4>2. QED
        BY <2>1, <4>1 DEF Range
    <3>3. x = k + i - 1 - m
      BY <1>5, <3>1, <3>2
    <3>4. QED
      BY <3>2, <3>3
  <2>2. ASSUME NEW x \in k..(k + n - m - 1) PROVE x \in new
    <3>1. PICK i \in 1..n : i = x - k + 1 + m
      OBVIOUS
    <3>2. ~(i <= m) /\ x = k + i - 1 - m
      BY <3>1
    <3>3. x \in Range(kept)
      BY <1>5, <3>2 DEF Range
    <3>4. \A j \in DOMAIN d.ids : d.ids[j] # x
      BY <1>1, <1>4
    <3>5. QED
      BY <3>3, <3>4 DEF Range
  <2>3. new = k..(k + n - m - 1)
    BY <2>1, <2>2
  <2>4. /\ k \in Int /\ k + n - m - 1 \in Int
    OBVIOUS
  <2>5. Cardinality(k..(k + n - m - 1)) =
          IF k > k + n - m - 1 THEN 0 ELSE k + n - m - 1 - k + 1
    BY <2>4, FS_Interval
  <2> HIDE DEF new
  <2>6. Cardinality(new) = IF n > m THEN n - m ELSE 0
    BY <2>3, <2>5
  <2>7. QED
    BY <1>4, <2>6
<1> HIDE DEF next
<1>9. next \in Nat /\ d.next <= next /\ \A i \in 1..n : kept[i] < next
  <2>1. next \in Nat /\ k <= next
    BY <1>8
  <2>2. ASSUME NEW i \in 1..n PROVE kept[i] < next
    <3>1. CASE i <= m
      <4>1. kept[i] \in Nat /\ kept[i] < k
        BY <1>5, <3>1
      <4>2. QED
        BY <2>1, <4>1
    <3>2. CASE ~(i <= m)
      <4>1. kept[i] = k + i - 1 - m
        BY <1>5, <3>2
      <4>2. QED
        BY <1>8, <3>2, <4>1
    <3>3. QED
      BY <3>1, <3>2
  <2>3. QED
    BY <1>4, <2>1, <2>2
<1>10. \A i \in 1..n, j \in 1..n : kept[i] = kept[j] => i = j
  <2>1. \A i \in 1..n, j \in 1..n : i <= m /\ j <= m /\ kept[i] = kept[j] => i = j
    BY <1>1, <1>3, <1>5
  <2>2. \A i \in 1..n, j \in 1..n : ~(i <= m) /\ ~(j <= m) /\ kept[i] = kept[j] => i = j
    BY <1>5
  <2>3. \A i \in 1..n, j \in 1..n : i <= m /\ ~(j <= m) => kept[i] # kept[j]
    BY <1>5
  <2>4. QED
    BY <2>1, <2>2, <2>3
<1>11. /\ DOMAIN heard = DOMAIN d.heard \cap Range(kept)
      /\ heard = [id \in DOMAIN heard |-> heard[id]]
      /\ \A id \in DOMAIN heard : heard[id] = d.heard[id]
  BY <1>1 DEF Without
<1>12. /\ DOMAIN classed = DOMAIN d.classed \cap Range(kept)
       /\ \A id \in DOMAIN classed : classed[id] = d.classed[id]
  BY <1>1 DEF Without
<1> HIDE DEF heard, classed
<1>13. /\ e.tracks = c /\ e.hash = d.hash /\ e.ids = kept /\ e.next = next
       /\ e.heard = heard /\ e.classed = classed
       /\ e \in [stamp : Contents, hash : Hashes, original : Originals \cup {None}, tracks : Contents,
                 ids : Seq(Nat), next : Nat, heard : {heard}, classed : {classed}]
  BY <1>1, <1>6, <1>7, <1>9
<1>14. DbType(e)
  <2>1. \A id \in DOMAIN heard : HeardType(heard[id])
    BY <1>1, <1>11
  <2>2. Len(kept) = Len(Film[c])
    BY <1>2, <1>6
  <2>3. QED
    BY <1>5, <1>9, <1>10, <1>11, <1>12, <1>13, <2>1, <2>2 DEF DbType
<1>15. ASSUME d.tracks = c PROVE kept = d.ids
  <2>1. n = m
    BY <1>1, <1>2, <1>3, <1>15
  <2>2. \A i \in 1..n : kept[i] = d.ids[i]
    BY <1>5, <2>1
  <2>3. kept = [i \in 1..n |-> kept[i]] /\ d.ids = [i \in 1..m |-> d.ids[i]]
    BY <1>1, <1>3, <1>5, <1>6
  <2>4. QED
    BY <2>1, <2>2, <2>3
<1>16. /\ \A i \in DOMAIN kept \cap DOMAIN d.ids : kept[i] = d.ids[i]
       /\ \A i \in DOMAIN kept \ DOMAIN d.ids : d.next <= kept[i]
  <2>1. \A i \in DOMAIN kept \cap DOMAIN d.ids : kept[i] = d.ids[i]
    BY <1>3, <1>5
  <2>2. ASSUME NEW i \in DOMAIN kept \ DOMAIN d.ids PROVE d.next <= kept[i]
    <3>1. i \in 1..n /\ ~(i <= m)
      BY <1>3, <1>5
    <3>2. kept[i] = k + i - 1 - m
      BY <1>5, <3>1
    <3>3. QED
      BY <1>4, <3>1, <3>2
  <2>3. QED
    BY <2>1, <2>2
<1>17. QED
  BY <1>9, <1>11, <1>12, <1>13, <1>14, <1>15, <1>16


\* What becomes of the rows when a hash is recorded: a row keeps its index, and what is
\* stored for rows that stay.
Recorded(d, e, hash, tracks) ==
    /\ DbType(d) /\ DbType(e) /\ e.hash = hash /\ e.tracks = (IF tracks = None THEN d.tracks ELSE tracks)
    /\ d.next <= e.next
    /\ \A i \in DOMAIN e.ids \cap DOMAIN d.ids : e.ids[i] = d.ids[i]
    /\ \A i \in DOMAIN e.ids \ DOMAIN d.ids : d.next <= e.ids[i]
    /\ d.tracks = e.tracks => e.ids = d.ids
    /\ DOMAIN e.heard = DOMAIN d.heard \cap Range(e.ids)
    /\ \A id \in DOMAIN e.heard : e.heard[id] = d.heard[id]
    /\ DOMAIN e.classed = DOMAIN d.classed \cap Range(e.ids)
    /\ \A id \in DOMAIN e.classed : e.classed[id] = d.classed[id]

RecordedIn(h, g, c, d, hash, tracks) ==
    /\ g.seen = h.seen /\ g.returned = h.returned /\ g.failed = h.failed /\ g.mixed = h.mixed
    /\ g.torn = h.torn /\ g.recorded = h.recorded \cup {hash}
    /\ ~g.blind => ~h.blind /\ tracks = hash /\ (hash = d.hash \/ hash \notin h.recorded)
    /\ g.calm \subseteq h.calm /\ (tracks \notin {c, None} => g.calm = {})

LEMMA RecordedFacts ==
  ASSUME NEW d, DbType(d), NEW f, DbType(f), f.ids = d.ids, f.tracks = d.tracks, f.next = d.next,
         f.heard = d.heard, f.classed = d.classed,
         NEW tracks \in Contents \cup {None}, NEW e,
         e = IF tracks = None THEN f ELSE UpsertTracks(f, tracks)
  PROVE  Recorded(d, e, f.hash, tracks)
<1>1. CASE tracks = None
  <2>1. e = f /\ d.next \in Nat
    BY <1>1 DEF DbType
  <2>2. DOMAIN d.heard \subseteq Range(d.ids) /\ DOMAIN d.classed \subseteq Range(d.ids)
    BY DEF DbType
  <2>3. QED
    BY <1>1, <2>1, <2>2 DEF Recorded
<1>2. CASE tracks # None
  <2>1. tracks \in Contents /\ e = UpsertTracks(f, tracks)
    BY <1>2
  <2>2. /\ DbType(e) /\ e.tracks = tracks /\ e.hash = f.hash /\ f.next <= e.next
        /\ \A i \in DOMAIN e.ids \cap DOMAIN f.ids : e.ids[i] = f.ids[i]
        /\ \A i \in DOMAIN e.ids \ DOMAIN f.ids : f.next <= e.ids[i]
        /\ f.tracks = tracks => e.ids = f.ids
        /\ DOMAIN e.heard = DOMAIN f.heard \cap Range(e.ids)
        /\ \A id \in DOMAIN e.heard : e.heard[id] = f.heard[id]
        /\ DOMAIN e.classed = DOMAIN f.classed \cap Range(e.ids)
        /\ \A id \in DOMAIN e.classed : e.classed[id] = f.classed[id]
    BY <2>1, UpsertFacts
  <2>3. QED
    BY <1>2, <2>2 DEF Recorded
<1>3. QED
  BY <1>1, <1>2

LEMMA HistoryRecorded ==
  ASSUME NEW hash \in Hashes, NEW tracks \in Contents \cup {None}, Recording(hash, tracks),
         HistType(content, history)
  PROVE  HistType(content, history') /\ RecordedIn(history, history', content, db, hash, tracks)
<1> DEFINE blind == history.blind \/ tracks # hash \/ (hash # db.hash /\ hash \in history.recorded)
           calm == IF tracks \in {content, None} THEN history.calm ELSE {}
<1>1. history' = [history EXCEPT !.recorded = history.recorded \cup {hash}, !.blind = blind,
                                 !.calm = calm]
  BY DEF Recording
<1>2. blind \in BOOLEAN /\ calm \in SUBSET Procs
  BY DEF HistType
<1>3. /\ ~blind => ~history.blind /\ tracks = hash /\ (hash = db.hash \/ hash \notin history.recorded)
      /\ calm \subseteq history.calm /\ (tracks \notin {content, None} => calm = {})
  OBVIOUS
<1> HIDE DEF blind, calm
<1>4. /\ history'.recorded = history.recorded \cup {hash} /\ history'.blind = blind
      /\ history'.calm = calm /\ history'.seen = history.seen /\ history'.returned = history.returned
      /\ history'.failed = history.failed /\ history'.mixed = history.mixed
      /\ history'.torn = history.torn /\ HistType(content, history')
  BY <1>1, <1>2 DEF HistType
<1>5. QED
  BY <1>3, <1>4 DEF RecordedIn

\* What any other process knows is as true of the record that is new.
LEMMA ProcRecorded ==
  ASSUME NEW q, NEW s, StateType(s), NEW d, NEW e, NEW c \in Contents, NEW h, NEW g,
         NEW hash \in Hashes, NEW tracks \in Contents \cup {None},
         Recorded(d, e, hash, tracks), RecordedIn(h, g, c, d, hash, tracks),
         ProcInv(q, s, d, c, h), RecordInv(d, h)
  PROVE  ProcInv(q, s, e, c, g)
<1>1. /\ d.next \in Nat /\ e.next \in Nat /\ d.next <= e.next /\ d.ids \in Seq(Nat) /\ e.ids \in Seq(Nat)
      /\ \A i \in DOMAIN e.ids : e.ids[i] \in Nat
  BY DEF Recorded, DbType
<1>2. ASSUME NEW ids \in Seq(Nat), Placed(ids, d) PROVE Placed(ids, e)
  <2>1. SUFFICES ASSUME NEW i \in DOMAIN ids
                 PROVE  ids[i] < e.next /\ \A j \in DOMAIN e.ids : ids[i] = e.ids[j] => i = j
    BY DEF Placed
  <2>2. ids[i] < d.next /\ ids[i] \in Nat
    BY <1>2, <2>1 DEF Placed
  <2>3. ASSUME NEW j \in DOMAIN e.ids, ids[i] = e.ids[j] PROVE i = j
    <3>1. CASE j \in DOMAIN d.ids
      BY <1>2, <2>1, <2>3, <3>1 DEF Placed, Recorded
    <3>2. CASE j \notin DOMAIN d.ids
      <4>1. d.next <= e.ids[j]
        BY <2>3, <3>2 DEF Recorded
      <4>2. QED
        BY <1>1, <2>2, <2>3, <4>1
    <3>3. QED
      BY <3>1, <3>2
  <2>4. QED
    BY <1>1, <2>2, <2>3
<1>3. SeenInv(s, g)
  BY DEF ProcInv, SeenInv, RecordedIn
<1>4. AnalysisInv(s, e, c, g)
  <2>1. s.pc \in AnalysisPcs => Placed(s.ids, e)
    <3>1. s.pc \in AnalysisPcs => s.ids \in Seq(Nat)
      BY AnalysisStates
    <3>2. QED
      BY <1>2, <3>1 DEF ProcInv, AnalysisInv
  <2>2. QED
    BY <2>1 DEF ProcInv, AnalysisInv, RecordedIn
<1>5. s.pc = "classify" => Placed(s.ids, e) /\ Placed(s.ids, d) /\ s.ids \in Seq(Nat) /\ s.i \in DOMAIN s.ids
  <2>1. s.pc = "classify" => s.ids \in Seq(Nat)
    BY ClassStates
  <2>2. QED
    BY <1>2, <2>1 DEF ProcInv, ClassInv
<1>6. ClassInv(s, e, g)
  <2>1. ASSUME s.pc = "classify", ~g.blind, s.hash = e.hash
        PROVE  s.tracks = e.tracks /\ s.ids = e.ids
    <3>1. ~h.blind /\ tracks = hash /\ s.hash = hash /\ tracks # None
      BY <2>1, FilmFacts DEF Recorded, RecordedIn, Hashes
    <3>2. s.hash \in h.recorded
      BY <2>1 DEF ProcInv, ClassInv
    <3>3. hash = d.hash
      BY <2>1, <3>1, <3>2 DEF RecordedIn
    <3>4. s.tracks = d.tracks /\ s.ids = d.ids
      BY <2>1, <3>1, <3>3 DEF ProcInv, ClassInv
    <3>5. d.tracks = d.hash
      BY <3>1 DEF RecordInv
    <3>6. QED
      BY <3>1, <3>3, <3>4, <3>5 DEF Recorded
  <2>2. s.pc \in {"cached", "rows", "classify"} => s.hash \in g.recorded
    BY DEF ProcInv, ClassInv, RecordedIn
  <2>3. s.pc = "classify" => Len(s.ids) = Len(Film[s.tracks])
    BY DEF ProcInv, ClassInv
  <2>4. QED
    BY <1>5, <2>1, <2>2, <2>3 DEF ClassInv
<1>7. HalfwayInv(s, e, g)
  <2>1. SUFFICES ASSUME s.pc = "classify", ~g.mixed, NEW j \in 1..s.i - 1, s.ids[j] \in Range(e.ids)
                 PROVE  /\ s.ids[j] \in DOMAIN e.classed
                        /\ e.classed[s.ids[j]] = ClassifyTrack(Film[s.tracks], j, s.original, s.hash)
    BY DEF HalfwayInv
  <2>2. j \in DOMAIN s.ids
    <3>1. s.ids \in Seq(Nat) /\ s.i \in DOMAIN s.ids
      BY <1>5, <2>1
    <3>2. QED
      BY <3>1
  <2>3. PICK k \in DOMAIN e.ids : e.ids[k] = s.ids[j]
    BY <1>1, <2>1, RangeFacts
  <2>4. k \in DOMAIN d.ids
    <3>1. s.ids[j] < d.next /\ s.ids[j] \in Nat
      BY <1>5, <2>1, <2>2 DEF Placed
    <3>2. QED
      BY <1>1, <2>3, <3>1 DEF Recorded
  <2>5. s.ids[j] \in Range(d.ids)
    BY <1>1, <2>3, <2>4, RangeFacts DEF Recorded
  <2>6. /\ s.ids[j] \in DOMAIN d.classed
        /\ d.classed[s.ids[j]] = ClassifyTrack(Film[s.tracks], j, s.original, s.hash)
    BY <2>1, <2>5 DEF ProcInv, HalfwayInv, RecordedIn
  <2>7. QED
    BY <2>1, <2>6 DEF Recorded
<1>8. RunInv(q, s, e, c, g)
  <2>1. SUFFICES ASSUME q \in g.calm
                 PROVE  /\ s.pc \in RunPcs
                        /\ s.pc = "load" => s.loaded = c /\ e.tracks = c
                        /\ s.pc \in {"evaluate", "evaluated"} =>
                             \/ s.ids = <<>>
                             \/ s.loaded = c /\ e.tracks = c /\ s.ids = e.ids
    BY DEF RunInv
  <2>2. q \in h.calm /\ tracks \in {c, None}
    BY <2>1 DEF RecordedIn
  <2>3. d.tracks = c => e.tracks = c /\ e.ids = d.ids
    BY <2>2 DEF Recorded
  <2>4. QED
    BY <2>2, <2>3 DEF ProcInv, RunInv
<1>9. UsedInv(q, s, c, g)
  BY DEF ProcInv, UsedInv, RecordedIn
<1>10. QED
  BY <1>3, <1>4, <1>6, <1>7, <1>8, <1>9 DEF ProcInv


LEMMA RecordStep ==
  ASSUME IInv, NEW p \in Procs, NEW s, Goto(p, s), StateType(s), content' = content,
         NEW hash \in Hashes, NEW tracks \in Contents \cup {None},
         hash \in history.seen \cup {NoHash},
         Recorded(db, db', hash, tracks), Recording(hash, tracks),
         ProcInv(p, s, db', content, history'),
         s.pc \notin {"segments", "classify"}, proc[p].pc \notin {"segments", "classify"},
         writer' \in Procs \cup {None}, writer' = p <=> s.pc \in {"persist", "commit", "cleared"},
         \A q \in Procs : q # p => (writer' = q <=> writer = q)
  PROVE  IInv'
<1>1. /\ Types /\ HistType(content, history) /\ RecordInv(db, history) /\ ClassesInv
      /\ \A q \in Procs : StateType(proc[q]) /\ ProcInv(q, proc[q], db, content, history)
      /\ content \in Contents
  BY DEF IInv, Types
<1>2. HistType(content, history') /\ RecordedIn(history, history', content, db, hash, tracks)
  BY <1>1, HistoryRecorded
<1>3. proc'[p] = s /\ \A q \in Procs : q # p => proc'[q] = proc[q]
  BY <1>1, GotoFacts
<1>4. ASSUME NEW q \in Procs PROVE ProcInv(q, proc'[q], db', content', history')
  <2>1. CASE q = p
    BY <1>3, <2>1
  <2>2. CASE q # p
    <3>1. ProcInv(q, proc[q], db', content, history')
      BY <1>1, <1>2, ProcRecorded
    <3>2. QED
      BY <1>3, <2>2, <3>1
  <2>3. QED
    BY <2>1, <2>2
<1>5. DbType(db) /\ DbType(db')
  BY DEF Recorded
<1>6. Types'
  BY <1>1, <1>2, <1>5, TypesStep
<1>7. /\ db.next \in Nat /\ db.ids \in Seq(Nat) /\ db'.ids \in Seq(Nat)
      /\ DOMAIN db.heard \subseteq Range(db.ids) /\ DOMAIN db.classed \subseteq Range(db.ids)
      /\ \A i \in DOMAIN db.ids : db.ids[i] < db.next /\ db.ids[i] \in Nat
  BY <1>5 DEF DbType
<1>8. ASSUME NEW i \in DOMAIN db'.ids, db'.ids[i] \in Range(db.ids)
      PROVE  i \in DOMAIN db.ids /\ db.ids[i] = db'.ids[i]
  <2>1. PICK j \in DOMAIN db.ids : db.ids[j] = db'.ids[i]
    BY <1>7, <1>8, RangeFacts
  <2>2. ASSUME i \notin DOMAIN db.ids PROVE FALSE
    <3>1. db.next <= db'.ids[i]
      BY <1>8, <2>2 DEF Recorded
    <3>2. QED
      BY <1>7, <2>1, <3>1
  <2>3. QED
    BY <1>8, <2>2 DEF Recorded
<1>9. HeardInv(db', content', history') /\ StoringInv' /\ SegmentsInv'
  <2>1. /\ db'.hash = hash /\ DOMAIN db'.heard \subseteq DOMAIN db.heard
        /\ \A id \in DOMAIN db'.heard : db'.heard[id] = db.heard[id]
        /\ DOMAIN db'.heard \subseteq Range(db.ids)
    BY <1>7 DEF Recorded
  <2>2. \A i \in DOMAIN db'.ids : db'.ids[i] \in DOMAIN db'.heard =>
            i \in DOMAIN db.ids /\ db.ids[i] = db'.ids[i]
    BY <1>8, <2>1
  <2>3. /\ history'.seen = history.seen /\ history'.returned = history.returned
        /\ history'.failed = history.failed /\ history'.torn = history.torn
    BY <1>2 DEF RecordedIn
  <2>4. QED
    BY <2>1, <2>2, <2>3, SoundStays
<1>10. RecordInv(db', history')
  <2>1. ASSUME ~history'.blind PROVE db'.tracks = db'.hash
    <3>1. tracks = hash /\ tracks # None
      BY <1>2, <2>1, FilmFacts DEF RecordedIn, Hashes
    <3>2. QED
      BY <3>1 DEF Recorded
  <2>2. \A id \in DOMAIN db'.classed : db'.classed[id].hash \in history'.recorded
    BY <1>1, <1>2 DEF RecordInv, Recorded, RecordedIn
  <2>3. QED
    BY <1>2, <2>1, <2>2 DEF RecordInv, Recorded, RecordedIn
<1>11. ClassesInv'
  <2>1. SUFFICES ASSUME ~history'.blind, ~history'.mixed, CachedClasses(db.hash)',
                        \A q \in Procs : ~Halfway(q)'
                 PROVE  Complete(db')
    BY DEF ClassesInv
  <2>2. /\ ~history.blind /\ ~history.mixed /\ tracks = hash /\ tracks # None
        /\ (hash = db.hash \/ hash \notin history.recorded) /\ db'.hash = hash
    BY <1>2, <2>1, FilmFacts DEF RecordedIn, Recorded, Hashes
  <2>3. PICK id \in Range(db'.ids) \cap DOMAIN db'.classed : db'.classed[id].hash = hash
    BY <2>1, <2>2 DEF CachedClasses
  <2>4. hash \in history.recorded
    BY <1>1, <2>3 DEF Recorded, RecordInv
  <2>5. hash = db.hash /\ db.tracks = hash /\ db'.tracks = hash
    BY <1>1, <2>2, <2>4 DEF RecordInv, Recorded
  <2>6. /\ db'.ids = db.ids /\ db'.tracks = db.tracks /\ db'.hash = db.hash
        /\ DOMAIN db'.classed = DOMAIN db.classed
        /\ \A x \in DOMAIN db.classed : db'.classed[x] = db.classed[x]
    BY <1>7, <2>2, <2>5 DEF Recorded
  <2>7. CachedClasses(db.hash)
    BY <2>1, <2>6 DEF CachedClasses
  <2>8. ASSUME NEW q \in Procs PROVE ~Halfway(q)
    <3>1. CASE q = p
      BY <3>1 DEF Halfway, At
    <3>2. CASE q # p
      BY <1>3, <2>1, <3>2 DEF Halfway, At
    <3>3. QED
      BY <3>1, <3>2
  <2>9. Complete(db)
    BY <1>1, <2>2, <2>7, <2>8 DEF ClassesInv
  <2>10. QED
    BY <2>6, <2>9 DEF Complete
<1>12. QED
  BY <1>4, <1>6, <1>9, <1>10, <1>11 DEF IInv

LEMMA CommitScanKeeps ==
  ASSUME IInv, NEW p \in Procs, CommitScan(p)
  PROVE  IInv'
<1> DEFINE hash   == proc[p].hash
           tracks == proc[p].tracks
           d == [db EXCEPT !.stamp = proc[p].stamp, !.hash = hash, !.original = None]
<1>1. /\ proc[p].pc = "commit" /\ db' = (IF tracks = None THEN d ELSE UpsertTracks(d, tracks))
      /\ writer' = None /\ Goto(p, Idle) /\ Recording(hash, tracks) /\ content' = content
  BY DEF CommitScan, At
<1>2. /\ Types /\ DbType(db) /\ writer = p /\ p \notin history.calm
      /\ HistType(content, history)
  BY <1>1, NotCalm DEF IInv, Types, WriterInv, RunPcs
<1>3. proc[p].stamp \in Contents /\ hash \in Hashes /\ tracks \in Contents \cup {None}
  <2>1. proc[p] \in [pc : {"commit"}, stamp : Contents, hash : Hashes, tracks : Contents \cup {None}]
    BY <1>1, <1>2, ScanStates DEF Types
  <2>2. QED
    BY <2>1
<1>4. hash \in history.seen \cup {NoHash}
  BY <1>1 DEF IInv, ProcInv, SeenInv
<1>5. /\ DbType(d) /\ d.ids = db.ids /\ d.tracks = db.tracks /\ d.next = db.next
      /\ d.heard = db.heard /\ d.classed = db.classed /\ d.hash = hash
  BY <1>2, <1>3 DEF DbType
<1> HIDE DEF d
<1>6. Recorded(db, db', hash, tracks)
  <2>1. Recorded(db, db', d.hash, tracks)
    BY <1>1, <1>2, <1>3, <1>5, RecordedFacts
  <2>2. QED
    BY <1>5, <2>1
<1>7. StateType(Idle) /\ Idle.pc = "idle" /\ ProcInv(p, Idle, db', content, history')
  <2>1. RecordedIn(history, history', content, db, hash, tracks)
    BY <1>1, <1>2, <1>3, HistoryRecorded
  <2>2. p \notin history'.calm
    BY <1>2, <2>1 DEF RecordedIn
  <2>3. QED
    BY <2>2, IdleFacts
<1>8. /\ writer' \in Procs \cup {None} /\ (writer' = p <=> Idle.pc \in {"persist", "commit", "cleared"})
      /\ \A q \in Procs : q # p => (writer' = q <=> writer = q)
  BY <1>1, <1>2, <1>7, FilmFacts
<1>9. Idle.pc \notin {"segments", "classify"} /\ proc[p].pc \notin {"segments", "classify"}
  BY <1>1, <1>7
<1>10. QED
  BY <1>1, <1>3, <1>4, <1>6, <1>7, <1>8, <1>9, RecordStep

LEMMA RecordKeeps ==
  ASSUME IInv, NEW p \in Procs, Record(p)
  PROVE  IInv'
<1> DEFINE hash   == proc[p].hash
           tracks == proc[p].tracks
           d == [db EXCEPT !.stamp = proc[p].stamp, !.hash = hash]
           s == [pc |-> "evaluate", loaded |-> proc[p].loaded, ids |-> <<>>]
<1>1. /\ proc[p].pc = "record" /\ db' = UpsertTracks(d, tracks) /\ writer' = writer
      /\ Goto(p, s) /\ Recording(hash, tracks) /\ content' = content
  BY DEF Record, RecordAs, At
<1>2. Types /\ DbType(db) /\ WriterInv
  BY DEF IInv, Types
<1>3. proc[p].loaded \in Hashes /\ proc[p].stamp \in Contents /\ hash \in Hashes /\ tracks \in Contents
  <2>1. proc[p] \in [pc : {"record"}, loaded : Hashes, tracks : Contents, stamp : Contents, hash : Hashes]
    BY <1>1, <1>2, RunStates DEF Types
  <2>2. QED
    BY <2>1
<1>4. hash \in history.seen \cup {NoHash}
  BY <1>1 DEF IInv, ProcInv, SeenInv
<1>5. /\ DbType(d) /\ d.ids = db.ids /\ d.tracks = db.tracks /\ d.next = db.next
      /\ d.heard = db.heard /\ d.classed = db.classed /\ d.hash = hash
  BY <1>2, <1>3 DEF DbType
<1> HIDE DEF d
<1>6. Recorded(db, db', hash, tracks)
  <2>1. tracks # None
    BY <1>3, FilmFacts
  <2>2. Recorded(db, db', d.hash, tracks)
    BY <1>1, <1>2, <1>3, <1>5, <2>1, RecordedFacts
  <2>3. QED
    BY <1>5, <2>2
<1>7. /\ s.pc = "evaluate" /\ s.ids = <<>>
      /\ s \in [pc : {"evaluate", "introspect"}, loaded : Hashes, ids : Seq(Nat)]
  BY <1>3
<1> HIDE DEF s
<1>8. StateType(s) /\ ProcInv(p, s, db', content, history')
  <2>1. StateType(s) /\ SeenInv(s, history') /\ RunInv(p, s, db', content, history')
    BY <1>7 DEF StateType, RunState, SeenInv, RunInv, RunPcs, AnalysisPcs
  <2>2. QED
    BY <1>7, <2>1, RunProc DEF RunPcs
<1>9. /\ writer' \in Procs \cup {None} /\ (writer' = p <=> s.pc \in {"persist", "commit", "cleared"})
      /\ \A q \in Procs : q # p => (writer' = q <=> writer = q)
  BY <1>1, <1>2, <1>7 DEF WriterInv
<1>10. s.pc \notin {"segments", "classify"} /\ proc[p].pc \notin {"segments", "classify"}
  BY <1>1, <1>7
<1>11. QED
  BY <1>1, <1>3, <1>4, <1>6, <1>8, <1>9, <1>10, RecordStep


----------------------------------------------------------------------------
(* The film changes.                                                       *)

\* Nothing is known or stored under the hash of a content the film did not have before.
LEMMA BecomeStep ==
  ASSUME IInv, NEW c \in Contents, NEW actors, BecomeBy(c, actors), db' = db, writer' = writer,
         proc' = [q \in Procs |-> proc'[q]],
         \A q \in Procs :
            \/ q \notin actors /\ proc'[q] = proc[q]
            \/ /\ proc[q].pc = "evaluated" /\ proc'[q].pc = "introspect" /\ StateType(proc'[q])
  PROVE  IInv'
<1> DEFINE returned == history.returned \/ c \in history.seen
<1>1. /\ Types /\ HistType(content, history) /\ HeardInv(db, content, history) /\ StoringInv
      /\ SegmentsInv /\ RecordInv(db, history) /\ ClassesInv /\ DbType(db) /\ WriterInv
      /\ \A q \in Procs : StateType(proc[q]) /\ ProcInv(q, proc[q], db, content, history)
  BY DEF IInv, Types
<1>2. /\ c # content /\ content' = c
      /\ history' = [history EXCEPT !.seen = history.seen \cup {c}, !.returned = returned,
                                    !.calm = history.calm \cap actors]
  BY DEF BecomeBy
<1>3. returned \in BOOLEAN /\ (~returned => ~history.returned /\ c \notin history.seen)
  BY <1>1 DEF HistType
<1> HIDE DEF returned
<1>4. /\ HistType(c, history') /\ history'.seen = history.seen \cup {c}
      /\ history'.returned = returned /\ history'.calm = history.calm \cap actors
      /\ history'.failed = history.failed /\ history'.recorded = history.recorded
      /\ history'.blind = history.blind /\ history'.torn = history.torn
      /\ history'.mixed = history.mixed
  BY <1>1, <1>2, <1>3 DEF HistType
<1>5. ~returned => \A hash \in history.seen \cup {NoHash} : hash # c
  BY <1>3, FilmFacts
<1>6. Types'
  <2>1. \A q \in Procs : StateType(proc'[q])
    BY <1>1
  <2>2. WriterInv'
    BY <1>1 DEF WriterInv
  <2>3. QED
    BY <1>1, <1>2, <1>4, <2>1, <2>2 DEF Types
<1>7. ASSUME NEW q \in Procs PROVE ProcInv(q, proc'[q], db', content', history')
  <2>1. CASE q \notin actors /\ proc'[q] = proc[q]
    <3> DEFINE s == proc[q]
    <3>1. ProcInv(q, s, db, content, history) /\ q \notin history'.calm
      BY <1>1, <1>4, <2>1
    <3> HIDE DEF s
    <3>2. SeenInv(s, history') /\ (s.pc \in AnalysisPcs => s.hash \in history.seen \cup {NoHash})
      BY <1>4, <3>1 DEF ProcInv, SeenInv
    <3>3. AnalysisInv(s, db, c, history')
      <4>1. s.pc \in {"listen", "store", "segments"} => s.pc \in AnalysisPcs
        BY DEF AnalysisPcs
      <4>2. QED
        BY <1>4, <1>5, <3>1, <3>2, <4>1 DEF ProcInv, AnalysisInv
    <3>4. ClassInv(s, db, history') /\ HalfwayInv(s, db, history')
      BY <1>4, <3>1 DEF ProcInv, ClassInv, HalfwayInv
    <3>5. RunInv(q, s, db, c, history') /\ UsedInv(q, s, c, history')
      BY <3>1 DEF ProcInv, RunInv, UsedInv
    <3>6. ProcInv(q, s, db, c, history')
      BY <3>2, <3>3, <3>4, <3>5 DEF ProcInv
    <3>7. QED
      BY <1>2, <2>1, <3>6 DEF s
  <2>2. CASE proc'[q].pc = "introspect"
    <3>1. SeenInv(proc'[q], history') /\ RunInv(q, proc'[q], db', content', history')
      BY <2>2 DEF SeenInv, RunInv, RunPcs, AnalysisPcs
    <3>2. QED
      BY <2>2, <3>1, RunProc DEF RunPcs
  <2>3. QED
    BY <1>7, <2>1, <2>2
<1>8. HeardInv(db', content', history')
  BY <1>1, <1>2, <1>4, <1>5 DEF HeardInv
<1>9. \A q \in Procs : (Storing(q)' <=> Storing(q)) /\
        (Storing(q) => Row(q)' = Row(q) /\ proc'[q] = proc[q])
  <2>1. ASSUME NEW q \in Procs
        PROVE  (Storing(q)' <=> Storing(q)) /\ (Storing(q) => Row(q)' = Row(q) /\ proc'[q] = proc[q])
    <3>1. CASE proc'[q] = proc[q]
      BY <3>1 DEF Storing, At, Row
    <3>2. CASE proc[q].pc = "evaluated" /\ proc'[q].pc = "introspect"
      BY <3>2 DEF Storing, At
    <3>3. QED
      BY <2>1, <3>1, <3>2
  <2>2. QED
    BY <2>1
<1>10. StoringInv'
  <2>1. SUFFICES ASSUME NEW q \in Procs, Storing(q)', Row(q)' \notin history'.torn
                 PROVE  /\ \A x \in Procs : Storing(x)' /\ Row(x)' = Row(q)' => x = q
                        /\ Row(q)' \in DOMAIN db'.heard =>
                             LET w == db'.heard[Row(q)']
                             IN  /\ w.key = proc'[q].key /\ w.hash = proc'[q].hash
                                 /\ SameVerdict(w, Verdict(proc'[q].samples))
    BY DEF StoringInv
  <2>2. Storing(q) /\ Row(q)' = Row(q) /\ proc'[q] = proc[q] /\ Row(q) \notin history.torn
    BY <1>4, <1>9, <2>1
  <2>3. \A x \in Procs : Storing(x)' /\ Row(x)' = Row(q)' => x = q
    BY <1>1, <1>9, <2>2 DEF StoringInv
  <2>4. QED
    BY <1>1, <2>2, <2>3 DEF StoringInv
<1>11. SegmentsInv'
  <2>1. SUFFICES ASSUME NEW x \in DOMAIN db.heard, Settled(x)'
                 PROVE  /\ SameVerdict(db.heard[x], Verdict(db.heard[x].segs))
                        /\ ~(~returned /\ db.heard[x].hash = c)
    BY <1>2, <1>4 DEF SegmentsInv
  <2>2. Settled(x)
    BY <1>4, <1>9, <2>1 DEF Settled
  <2>3. db.heard[x].hash \in history.seen \cup {NoHash}
    BY <1>1, <2>1 DEF HeardInv
  <2>4. QED
    BY <1>1, <1>5, <2>1, <2>2, <2>3 DEF SegmentsInv
<1>12. RecordInv(db', history')
  BY <1>1, <1>4 DEF RecordInv
<1>13. ClassesInv'
  <2>1. SUFFICES ASSUME ~history.blind, ~history.mixed, CachedClasses(db.hash)',
                        \A q \in Procs : ~Halfway(q)'
                 PROVE  Complete(db)
    BY <1>4 DEF ClassesInv
  <2>2. CachedClasses(db.hash)
    BY <2>1 DEF CachedClasses
  <2>3. ASSUME NEW q \in Procs PROVE ~Halfway(q)
    <3>1. CASE proc'[q] = proc[q]
      BY <2>1, <3>1 DEF Halfway, At
    <3>2. CASE proc[q].pc = "evaluated"
      BY <3>2 DEF Halfway, At
    <3>3. QED
      BY <2>3, <3>1, <3>2
  <2>4. QED
    BY <1>1, <2>1, <2>2, <2>3 DEF ClassesInv
<1>14. QED
  BY <1>6, <1>7, <1>8, <1>10, <1>11, <1>12, <1>13 DEF IInv

LEMMA ChangeKeeps ==
  ASSUME IInv, NEW p \in Procs, NEW c \in Contents, Change(p, c)
  PROVE  IInv'
<1> DEFINE s == [pc |-> "introspect", loaded |-> proc[p].loaded, ids |-> proc[p].ids]
<1>1. /\ proc[p].pc = "evaluated" /\ BecomeBy(c, {p}) /\ Goto(p, s) /\ db' = db /\ writer' = writer
  BY DEF Change, At
<1>2. proc[p].loaded \in Hashes /\ proc[p].ids \in Seq(Nat)
  <2>1. proc[p] \in [pc : {"evaluated"}, loaded : Hashes, ids : Seq(Nat),
                     used : {proc[p].used}, multi : {proc[p].multi}, whole : BOOLEAN]
    BY <1>1, RunStates DEF IInv, Types
  <2>2. QED
    BY <2>1
<1>3. /\ s.pc = "introspect"
      /\ s \in [pc : {"evaluate", "introspect"}, loaded : Hashes, ids : Seq(Nat)]
  BY <1>2
<1> HIDE DEF s
<1>4. StateType(s)
  BY <1>3 DEF StateType, RunState
<1>5. /\ proc'[p] = s
      /\ \A q \in Procs : q # p => proc'[q] = proc[q]
      /\ proc' = [q \in Procs |-> proc'[q]]
  BY <1>1, GotoFacts DEF IInv
<1>6. \A q \in Procs :
        \/ q \notin {p} /\ proc'[q] = proc[q]
        \/ proc[q].pc = "evaluated" /\ proc'[q].pc = "introspect" /\ StateType(proc'[q])
  BY <1>1, <1>3, <1>4, <1>5
<1>7. QED
  BY <1>1, <1>5, <1>6, BecomeStep

LEMMA ReplaceKeeps ==
  ASSUME IInv, NEW c \in Contents, Replace(c)
  PROVE  IInv'
<1>1. BecomeBy(c, {}) /\ db' = db /\ writer' = writer /\ proc' = proc
  BY DEF Replace
<1>2. proc' = [q \in Procs |-> proc'[q]]
  BY <1>1 DEF IInv, Types
<1>3. \A q \in Procs : q \notin {} /\ proc'[q] = proc[q]
  BY <1>1
<1>4. QED
  BY <1>1, <1>2, <1>3, BecomeStep


----------------------------------------------------------------------------
(* Every state.                                                            *)

LEMMA InitInv ==
  ASSUME Init
  PROVE  IInv
<1>1. PICK original \in Originals :
        db = [stamp |-> content, hash |-> content, original |-> original, tracks |-> content,
              ids |-> [i \in DOMAIN Film[content] |-> i], next |-> Len(Film[content]) + 1,
              heard |-> <<>>, classed |-> <<>>]
  BY DEF Init
<1>2. /\ content \in Contents /\ writer = None /\ proc = [p \in Procs |-> Idle]
      /\ history = [seen |-> {content}, returned |-> FALSE, failed |-> FALSE,
                    recorded |-> {content}, blind |-> FALSE, torn |-> {}, mixed |-> FALSE, calm |-> {}]
  BY AnalysisCacheAssumption DEF Init
<1>3. PICK n \in Nat : n = Len(Film[content]) /\ DOMAIN Film[content] = 1..n
  BY <1>2, FilmFacts
<1> DEFINE ids == [i \in DOMAIN Film[content] |-> i]
<1>4. ids \in Seq(Nat) /\ Len(ids) = n /\ DOMAIN ids = 1..n /\ \A i \in 1..n : ids[i] = i
  <2>1. ids = [i \in 1..n |-> i]
    BY <1>3
  <2>2. QED
    BY <2>1
<1> HIDE DEF ids
<1>5. /\ db.hash = content /\ db.tracks = content /\ db.ids = ids /\ db.next = n + 1
      /\ db.heard = <<>> /\ db.classed = <<>>
      /\ db \in [stamp : Contents, hash : Hashes, original : Originals \cup {None}, tracks : Contents,
                 ids : Seq(Nat), next : Nat, heard : {db.heard}, classed : {db.classed}]
  BY <1>1, <1>2, <1>3, <1>4 DEF ids, Hashes
<1>6. DOMAIN db.heard = {} /\ DOMAIN db.classed = {} /\ db.heard = [id \in DOMAIN db.heard |-> db.heard[id]]
  BY <1>5
<1>7. DbType(db)
  BY <1>3, <1>4, <1>5, <1>6 DEF DbType
<1>8. /\ HistType(content, history) /\ content \in history.seen /\ content \in history.recorded
      /\ history.calm = {}
  BY <1>2 DEF HistType, Hashes
<1>9. \A p \in Procs : proc[p] = Idle /\ Idle.pc = "idle" /\ StateType(Idle)
  BY <1>2 DEF Idle, StateType, ScanState
<1>10. Types
  <2>1. WriterInv
    BY <1>2, <1>9, FilmFacts DEF WriterInv
  <2>2. QED
    BY <1>2, <1>7, <1>8, <1>9, <2>1 DEF Types
<1>11. \A p \in Procs : ProcInv(p, proc[p], db, content, history)
  BY <1>8, <1>9, IdleFacts
<1>12. HeardInv(db, content, history) /\ RecordInv(db, history) /\ SegmentsInv
  BY <1>5, <1>6, <1>8 DEF HeardInv, RecordInv, SegmentsInv
<1>13. StoringInv
  BY <1>9 DEF StoringInv, Storing, At
<1>14. ClassesInv
  BY <1>6 DEF ClassesInv, CachedClasses
<1>15. QED
  BY <1>10, <1>11, <1>12, <1>13, <1>14 DEF IInv

LEMMA NextInv ==
  ASSUME IInv, [Next]_vars
  PROVE  IInv'
<1>1. CASE UNCHANGED vars
  BY <1>1 DEF vars, IInv, Types, WriterInv, StoringInv, SegmentsInv, Settled, ClassesInv,
             CachedClasses, Storing, Halfway, At, Row
<1>2. ASSUME NEW p \in Procs, Analyse(p) PROVE IInv'
  BY <1>2, StartAnalysisKeeps, ListenKeeps, ReadTracksKeeps, TakeTrackKeeps, StoreVerdictKeeps,
     StoreSegmentsKeeps, AnalysisLockedOutKeeps DEF Analyse
<1>3. ASSUME NEW p \in Procs, Classify(p) PROVE IInv'
  BY <1>3, StartClassifyKeeps, LookUpClassesKeeps, ReadRowsKeeps, StoreClassKeeps,
     ClassifyLockedOutKeeps DEF Classify
<1>4. ASSUME NEW p \in Procs, Clear(p) PROVE IInv'
  BY <1>4, ClearAllKeeps, ClearClassesKeeps, EndClearKeeps DEF Clear
<1>5. ASSUME NEW p \in Procs, Scan(p) PROVE IInv'
  BY <1>5, StartScanKeeps, HashKeeps, PersistKeeps, BeginScanKeeps, CommitScanKeeps DEF Scan
<1>6. ASSUME NEW p \in Procs, Run(p) PROVE IInv'
  BY <1>6, PhaseEndsKeeps, ChangeKeeps, MeasureKeeps, StartRunKeeps, LoadTracksKeeps, EvaluateKeeps,
     IntrospectKeeps, RecordKeeps DEF Run
<1>7. QED
  BY <1>1, <1>2, <1>3, <1>4, <1>5, <1>6, DieKeeps, ReplaceKeeps DEF Next

\* Whatever processes analyse, classify, clear, scan and run on the film, and whoever
\* changes it or dies meanwhile: the analyses and the records keep to IInv.
THEOREM AnalysisInvariant == Spec => []IInv
<1>1. Init => IInv
  BY InitInv
<1>2. IInv /\ [Next]_vars => IInv'
  BY NextInv
<1>3. QED
  BY <1>1, <1>2, PTL DEF Spec

\* A row has one track.
LEMMA RowCount ==
  ASSUME NEW ids \in Seq(Nat),
         \A i \in DOMAIN ids, j \in DOMAIN ids : ids[i] = ids[j] => i = j
  PROVE  Cardinality(Range(ids)) = Len(ids)
<1> DEFINE n == Len(ids)
           rows == Range(ids)
<1>1. n \in Nat /\ DOMAIN ids = 1..n
  OBVIOUS
<1>2. ids \in [1..n -> rows] /\ rows = {ids[i] : i \in 1..n}
  BY <1>1 DEF Range
<1>3. IsFiniteSet(1..n) /\ Cardinality(1..n) = n
  BY <1>1, FS_Interval
<1> HIDE DEF rows
<1>4. ids \in Bijection(1..n, rows)
  BY <1>1, <1>2 DEF Bijection, Injection, Surjection, IsInjective
<1>5. ExistsBijection(1..n, rows)
  BY <1>4 DEF ExistsBijection
<1>6. Cardinality(rows) = Cardinality(1..n)
  BY <1>3, <1>5, FS_Bijection
<1>7. QED
  BY <1>3, <1>6 DEF rows


LEMMA InvTells ==
  ASSUME IInv
  PROVE  CachesTell
<1>1. /\ Types /\ DbType(db) /\ WriterInv /\ HeardInv(db, content, history) /\ SegmentsInv
      /\ ClassesInv /\ content \in Contents
  BY DEF IInv, Types
<1>2. TypeOK
  <2>1. /\ db.stamp \in Contents /\ db.tracks \in Contents /\ db.hash \in Contents \cup {NoHash}
        /\ db.original \in Originals \cup {None} /\ db.ids \in Seq(Nat)
        /\ Len(db.ids) = Len(Film[db.tracks])
        /\ \A i \in DOMAIN db.ids, j \in DOMAIN db.ids : db.ids[i] = db.ids[j] => i = j
        /\ \A i \in DOMAIN db.ids : db.ids[i] < db.next
        /\ DOMAIN db.heard \subseteq Range(db.ids) /\ DOMAIN db.classed \subseteq Range(db.ids)
    BY <1>1 DEF DbType, Hashes
  <2>2. Cardinality(Range(db.ids)) = Len(db.ids)
    BY <2>1, RowCount
  <2>3. \A id \in Range(db.ids) : id < db.next
    BY <2>1, RangeFacts
  <2>4. /\ writer \in Procs \cup {None}
        /\ \A p \in Procs : writer = p <=> proc[p].pc \in {"persist", "commit", "cleared"}
    BY <1>1 DEF WriterInv
  <2>5. QED
    BY <1>1, <2>1, <2>2, <2>3, <2>4 DEF TypeOK
<1>3. CacheIsTrue
  BY <1>1 DEF CacheIsTrue, HeardInv
<1>4. SegmentsFollow
  BY <1>1 DEF SegmentsFollow, SegmentsInv, Settled
<1>5. ClassifiedWhole
  <2>1. SUFFICES ASSUME CachedClasses(db.hash), ~history.blind, ~history.mixed,
                        \A p \in Procs : ~At(p, "classify")
                 PROVE  Complete(db)
    BY DEF ClassifiedWhole, Complete
  <2>2. \A p \in Procs : ~Halfway(p)
    BY <2>1 DEF Halfway
  <2>3. QED
    BY <1>1, <2>1, <2>2 DEF ClassesInv
<1>6. QED
  BY <1>2, <1>3, <1>4, <1>5 DEF CachesTell, VerdictsTrue

\* Whatever is analysed, classified, cleared, scanned, run, replaced or killed in between,
\* the rows are as they should be, a verdict stored under the hash of the film is true of it,
\* a verdict goes with its segments, and classifications that are taken for valid are whole,
\* outside the exceptions CachesTell names: get_cached_analysis(), persist_analysis_result()
\* and classify_file_tracks().
THEOREM AnalysisCachesTell == Spec => []CachesTell
BY AnalysisInvariant, InvTells, PTL

\* The verdict on a set of tracks depends on what is told of each.
LEMMA SameMulti ==
  ASSUME NEW I, NEW f, NEW g, DOMAIN f = I, DOMAIN g = I,
         \A i \in I : SameVerdict(f[i], g[i]) /\ f[i].segs = g[i].segs
  PROVE  IsMultiLanguage(Range(f)) <=> IsMultiLanguage(Range(g))
<1>1. \A i \in I : /\ Secondary(f[i]) = Secondary(g[i]) /\ f[i].multi = g[i].multi
                   /\ f[i] \in Range(f) /\ g[i] \in Range(g)
  BY DEF Secondary, SameVerdict, Range
<1>2. \A v \in Range(f) : \E i \in I : v = f[i]
  BY DEF Range
<1>3. \A v \in Range(g) : \E i \in I : v = g[i]
  BY DEF Range
<1>4. ASSUME IsMultiLanguage(Range(f)) PROVE IsMultiLanguage(Range(g))
  <2>1. PICK i \in I : f[i].multi /\ \E share \in Secondary(f[i]) : share >= Threshold
    BY <1>2, <1>4 DEF IsMultiLanguage
  <2>2. QED
    BY <1>1, <2>1 DEF IsMultiLanguage
<1>5. ASSUME IsMultiLanguage(Range(g)) PROVE IsMultiLanguage(Range(f))
  <2>1. PICK i \in I : g[i].multi /\ \E share \in Secondary(g[i]) : share >= Threshold
    BY <1>3, <1>5 DEF IsMultiLanguage
  <2>2. QED
    BY <1>1, <2>1 DEF IsMultiLanguage
<1>6. QED
  BY <1>4, <1>5

LEMMA InvUsed ==
  ASSUME IInv
  PROVE  UsedVerdictsTrue
<1>1. SUFFICES ASSUME NEW p \in history.calm, At(p, "evaluated"), ~history.returned, ~history.failed
               PROVE  LET used  == proc[p].used
                          film  == Film[content]
                          known == {i \in DOMAIN used : used[i].hash = proc[p].loaded}
                      IN  /\ \A i \in known : i \in DOMAIN film /\
                               SameVerdict(used[i], Verdict(film[i].samples))
                          /\ known = DOMAIN film /\ proc[p].whole =>
                               (proc[p].multi <=> IsMultiLanguage({Verdict(t.samples) : t \in Range(film)}))
  BY DEF UsedVerdictsTrue
<1> DEFINE used  == proc[p].used
           film  == Film[content]
           known == {i \in DOMAIN used : used[i].hash = proc[p].loaded}
<1>2. /\ p \in Procs /\ proc[p].pc = "evaluated" /\ content \in Contents /\ DbType(db)
  BY <1>1 DEF IInv, Types, HistType, At
<1>3. /\ DOMAIN used \subseteq DOMAIN proc[p].ids
      /\ proc[p].multi <=> IsMultiLanguage(Range(used))
      /\ \A i \in known :
           /\ i \in DOMAIN film /\ SameVerdict(used[i], Verdict(film[i].samples))
           /\ proc[p].whole => used[i].segs = Segments(film[i].samples)
  BY <1>1, <1>2 DEF IInv, ProcInv, UsedInv
<1>4. \/ proc[p].ids = <<>>
      \/ db.tracks = content /\ proc[p].ids = db.ids
  BY <1>1, <1>2 DEF IInv, ProcInv, RunInv
<1>5. ASSUME known = DOMAIN film, proc[p].whole
      PROVE  proc[p].multi <=> IsMultiLanguage({Verdict(t.samples) : t \in Range(film)})
  <2>1. known # {} /\ known \subseteq DOMAIN used
    BY <1>2, <1>5, FilmFacts
  <2>2. proc[p].ids = db.ids /\ db.tracks = content
    BY <1>3, <1>4, <2>1
  <2>3. DOMAIN db.ids = DOMAIN film
    BY <1>2, <2>2, FilmFacts DEF DbType
  <2>4. DOMAIN used = DOMAIN film
    BY <1>3, <1>5, <2>1, <2>2, <2>3
  <2> DEFINE true == [i \in DOMAIN film |-> Verdict(film[i].samples)]
  <2> HIDE DEF used
  <2>5. DOMAIN true = DOMAIN film
    OBVIOUS
  <2>6. \A i \in DOMAIN film : SameVerdict(used[i], true[i]) /\ used[i].segs = true[i].segs
    BY <1>3, <1>5, SegmentsFacts
  <2>7. Range(true) = {Verdict(t.samples) : t \in Range(film)}
    BY DEF Range
  <2> HIDE DEF true
  <2>8. IsMultiLanguage(Range(used)) <=> IsMultiLanguage(Range(true))
    BY <2>4, <2>5, <2>6, SameMulti
  <2>9. QED
    BY <1>3, <2>7, <2>8
<1>6. QED
  BY <1>3, <1>5

\* A policy in a run that nobody disturbs is told the truth by
\* get_language_results_for_tracks(), in every phase, and its audio_is_multi_language
\* condition holds exactly if it holds of the sound.
THEOREM PoliciesHearTheTruth == Spec => []UsedVerdictsTrue
BY AnalysisInvariant, InvUsed, PTL

=============================================================================
