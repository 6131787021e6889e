------------------------------ MODULE PolicyFiles ------------------------------
(***************************************************************************)
(* One policy file and who uses it: the pages of the visual editor, the    *)
(* requests they save with (server/api/policies.py, policy/editor.py), the *)
(* request that creates a policy, the list with its cache keyed by mtime   *)
(* (policy/discovery.py), a user with a text editor, and the death of the  *)
(* daemon.  The event loop runs what a handler does between two awaits;    *)
(* the work given to threads interleaves read by read and write by write.  *)
(*                                                                         *)
(* A content is a document with the keys whose value the editor wrote from *)
(* a request, "empty" (truncated and not yet written: a policy fits in one *)
(* buffer) or "mixed" (two writers wrote over one another).  Every change  *)
(* of the content is a version and carries the tick of the clock as mtime; *)
(* several may carry the same.                                             *)
(*                                                                         *)
(* Stamps are compared for equality only.  What the page does to its form  *)
(* is not modelled: it may send any request of its scene.                  *)
(***************************************************************************)
EXTENDS PolicyConversion

CONSTANTS
  Pages,      \* browser pages (or clients of the API) that edit the policy
  Scenes,     \* what may happen (see below)
  BoolWords   \* strings YAML 1.1 reads as booleans and YAML 1.2 does not

VARIABLES
  scene,      \* the scene played
  file,       \* [content, mtime, version], or << >> while there is no file
  versions,   \* how many versions there were
  clock,      \* the tick a change is stamped with
  stamps,     \* how many versions carry each tick
  pages,      \* what each page shows and how far its request is
  creator,    \* the request that creates the policy: "idle", "creating", "truncated" or "done"
  lister,     \* the list request: [at] and what it read
  cache       \* _policy_cache: [mtime, summary], or << >>

vars == << scene, file, versions, clock, stamps, pages, creator, lister, cache >>

(***************************************************************************)
(* A scene: the document `first` there is (or << >>), the requests the     *)
(* pages may send, the documents a user may write while there were fewer   *)
(* than `writes` versions, which pages take part, how often each is loaded *)
(* and saved, whether the policies are listed, the file may be deleted and *)
(* the daemon die, and the last tick of the clock.                         *)
(***************************************************************************)
Present == DOMAIN file # {}
Bad(sort) == [bad |-> sort]
Readable(c) == Given(c, "doc")
Written(doc, plain) == [doc |-> doc, plain |-> plain]

-----------------------------------------------------------------------------
\* Reading a policy

(***************************************************************************)
(* The editor (ruamel.yaml, YAML 1.2) writes a string such as `no` without *)
(* quotes; yaml.safe_load (YAML 1.1) reads it as False, which is no string *)
(* for any field of the policy.  No document of the scenes has such a word *)
(* inside a phase.                                                         *)
(***************************************************************************)
ReadAsBool(c) ==
  \/ /\ "config" \in c.plain
     /\ \E key \in {"audio_languages", "subtitle_languages"} \cap DOMAIN c.doc.config :
          \E i \in DOMAIN c.doc.config[key] : c.doc.config[key][i] \in BoolWords
  \/ \E key \in {"name", "description", "category"} \cap c.plain : c.doc[key] \in BoolWords

\* load_policy(): an empty file and bad syntax are PolicyValidationError too.
LoadPolicy(c) == IF ~ Readable(c) \/ ReadAsBool(c) THEN Refused ELSE LoadFromDict(c.doc)

\* _parse_policy_file(): what the list shows of a file.
Summary(c) ==
  LET LANGUAGES == {"audio_languages", "subtitle_languages"}
      Has(r, section, enabled) ==
        Given(r, section) /\ (enabled => Given(r[section], "enabled") /\ r[section].enabled)
      On(section, enabled) ==
        \/ Has(c.doc, section, enabled)
        \/ \E i \in DOMAIN c.doc.phases : Has(c.doc.phases[i], section, enabled)
  IN  IF ~ Readable(c) \/ ~ Given(c.doc, "phases") THEN Refused
      ELSE [shown |-> Only(c.doc, {"schema_version", "name", "description", "category"}),
            misread |-> ReadAsBool(c),
            languages |-> (IF Given(c.doc, "config") THEN Only(c.doc.config, LANGUAGES) ELSE << >>)
                            @@ Only(c.doc, LANGUAGES),
            has_transcode |-> On("transcode", FALSE), has_transcription |-> On("transcription", TRUE)]

-----------------------------------------------------------------------------
\* Requests

\* PolicyEditorRequest.to_policy_dict() of a request with phases.
PolicyDict(body) ==
  [schema_version |-> 13, phases |-> body.sent.phases,
   config |-> IF Given(body.sent, "config") THEN body.sent.config ELSE << >>]
    @@ Only(body.sent, {"name", "description", "category"})

\* Without phases the flat form is sent on, which the model refuses; a null
\* config next to phases raises before anything is validated.
RequestVerdict(body) ==
  IF ~ Given(body.sent, "phases") \/ "config" \in body.nulls THEN "invalid"
  ELSE ValidatePolicyData(PolicyDict(body))

\* The document editor.save() writes: the keys sent over those in the file.
Merged(c, dict) ==
  LET old == IF Readable(c) THEN c.doc ELSE << >>
      changed == {k \in DOMAIN dict : ~ (Given(old, k) /\ old[k] = dict[k])}
  IN  Written(dict @@ old, (IF Readable(c) THEN c.plain ELSE {}) \cup changed)

\* The content changes: a new version, stamped with the present tick.
Install(c) ==
  /\ file' = [content |-> c, mtime |-> clock, version |-> versions + 1]
  /\ versions' = versions + 1
  /\ stamps' = [stamps EXCEPT ![clock] = @ + 1]

SameFile == UNCHANGED << file, versions, stamps >>

\* What becomes of what is written to a truncated file: all writers start at its
\* beginning, and what another wrote shows behind what is shorter; of a file that
\* was deleted nothing is seen again.
Stored(c) ==
  \/ Present /\ Install(c)
  \/ Present /\ file.content # Bad("empty") /\ Install(Bad("mixed"))
  \/ ~ Present /\ SameFile

Become(p, state) == pages' = [pages EXCEPT ![p] = state]
Advance(p, at) == pages' = [pages EXCEPT ![p].at = at]
Fill(p, at, fields) == Become(p, [fields @@ pages[p] EXCEPT !.at = at])

\* What a page keeps when its request is answered with an error.
Shown(p) == Without(pages[p], {"dict", "checked", "found", "merged"})
Answer(p) == Become(p, [Shown(p) EXCEPT !.at = "open"])

-----------------------------------------------------------------------------
\* The page.  policy_editor_handler reads the file, then asks for its mtime.

ReadPage(p) ==
  /\ pages[p].at \in {"closed", "open"} /\ pages[p].loads > 0 /\ Present
  /\ Become(p, [at |-> "read", loads |-> pages[p].loads - 1, saves |-> pages[p].saves,
                base |-> file.version])
  /\ SameFile /\ UNCHANGED << scene, clock, creator, lister, cache >>

StatPage(p) ==
  /\ pages[p].at = "read"
  /\ IF Present THEN Fill(p, "open", [stamp |-> file.mtime, stamped |-> file.version])
     ELSE Become(p, [at |-> "closed", loads |-> pages[p].loads, saves |-> pages[p].saves])
  /\ SameFile /\ UNCHANGED << scene, clock, creator, lister, cache >>

-----------------------------------------------------------------------------
\* PUT /api/policies/{name}

Send(p) ==
  /\ pages[p].at = "open" /\ pages[p].saves > 0
  /\ \E body \in scene.requests :
       IF Present /\ RequestVerdict(body) = "ok"
       THEN Become(p, [pages[p] EXCEPT !.at = "validated", !.saves = @ - 1]
                        @@ [dict |-> PolicyDict(body)])
       ELSE Become(p, [pages[p] EXCEPT !.saves = @ - 1])
  /\ SameFile /\ UNCHANGED << scene, clock, creator, lister, cache >>

\* Mutants: the stamp is not compared; what is to be written is not loaded first.
CheckStampNot(p) ==
  /\ pages[p].at = "validated"
  /\ IF Present /\ Loads(pages[p].dict) THEN Fill(p, "checked", [checked |-> file.version]) ELSE Answer(p)
  /\ SameFile /\ UNCHANGED << scene, clock, creator, lister, cache >>

CheckStampOnly(p) ==
  /\ pages[p].at = "validated"
  /\ IF Present /\ file.mtime = pages[p].stamp THEN Fill(p, "checked", [checked |-> file.version])
     ELSE Answer(p)
  /\ SameFile /\ UNCHANGED << scene, clock, creator, lister, cache >>

\* The stamp is compared once; then editor.save() loads what it will write.
CheckStamp(p) ==
  /\ pages[p].at = "validated"
  /\ IF Present /\ file.mtime = pages[p].stamp /\ Loads(pages[p].dict)
     THEN Fill(p, "checked", [checked |-> file.version])
     ELSE Answer(p)
  /\ SameFile /\ UNCHANGED << scene, clock, creator, lister, cache >>

ReadCurrent(p) ==
  /\ pages[p].at = "checked"
  /\ IF Present /\ file.content # Bad("mixed")
     THEN Fill(p, "merged", [found |-> file.content,
                             merged |-> Merged(file.content, pages[p].dict)])
     ELSE Answer(p)
  /\ SameFile /\ UNCHANGED << scene, clock, creator, lister, cache >>

Truncate(p) ==
  /\ pages[p].at = "merged"
  /\ Install(Bad("empty"))
  /\ Fill(p, "truncated", [checked |-> versions + 1])
  /\ UNCHANGED << scene, clock, creator, lister, cache >>

WriteBack(p) ==
  /\ pages[p].at = "truncated"
  /\ Stored(pages[p].merged)
  /\ Fill(p, "written", [base |-> versions'])
  /\ UNCHANGED << scene, clock, creator, lister, cache >>

Reload(p) ==
  /\ pages[p].at = "written"
  /\ IF Present /\ Readable(file.content) THEN Advance(p, "reloaded") ELSE Answer(p)
  /\ SameFile /\ UNCHANGED << scene, clock, creator, lister, cache >>

\* The answer 200 carries the new stamp; the page takes it and keeps its form.
AnswerSaved(p) ==
  /\ pages[p].at = "reloaded"
  /\ IF Present
     THEN Become(p, [Shown(p) EXCEPT !.at = "open", !.stamp = file.mtime, !.stamped = file.version])
     ELSE Answer(p)
  /\ SameFile /\ UNCHANGED << scene, clock, creator, lister, cache >>

-----------------------------------------------------------------------------
\* POST /api/policies: the file is looked for on the loop, written in a thread.

DefaultPolicy ==
  [schema_version |-> 13,
   config |-> [audio_languages |-> << "eng" >>, subtitle_languages |-> << "eng" >>],
   phases |-> << [name |-> "organize", track_order |-> << "video", "audio", "subtitle" >>,
                  default_flags |-> [set_first_video_default |-> TRUE,
                                     set_preferred_audio_default |-> TRUE,
                                     set_preferred_subtitle_default |-> FALSE,
                                     clear_other_defaults |-> TRUE]] >>]

StartCreate ==
  /\ creator = "idle" /\ ~ Present
  /\ creator' = "creating"
  /\ SameFile /\ UNCHANGED << scene, clock, pages, lister, cache >>

\* open(policy_path, "w") asks nothing: what has appeared since is lost.
TruncateNew ==
  /\ creator = "creating"
  /\ creator' = "truncated"
  /\ Install(Bad("empty"))
  /\ UNCHANGED << scene, clock, pages, lister, cache >>

WriteNew ==
  /\ creator = "truncated"
  /\ creator' = "done"
  /\ Stored(Written(DefaultPolicy, DOMAIN DefaultPolicy))
  /\ UNCHANGED << scene, clock, pages, lister, cache >>

-----------------------------------------------------------------------------
\* GET /api/policies: the mtime first, then the cache or the file.  A file that goes
\* between the listing of the directory and its turn loses its entry.

ListStat ==
  /\ lister.at = "idle" /\ scene.lists
  /\ IF Present
     THEN /\ lister' = IF Given(cache, "mtime") /\ cache.mtime = file.mtime
                       THEN lister ELSE [at |-> "stated", mtime |-> file.mtime]
          /\ UNCHANGED cache
     ELSE cache' \in {cache, << >>} /\ UNCHANGED lister
  /\ SameFile /\ UNCHANGED << scene, clock, pages, creator >>

\* Mutant: an entry there is gets the new mtime and keeps its summary.
ListReadTouch ==
  /\ lister.at = "stated"
  /\ lister' = [at |-> "idle"]
  /\ cache' = (IF Given(cache, "summary") THEN [mtime |-> lister.mtime, summary |-> cache.summary]
               ELSE [mtime |-> lister.mtime, summary |-> IF Present THEN Summary(file.content) ELSE Refused])
  /\ SameFile /\ UNCHANGED << scene, clock, pages, creator >>

ListRead ==
  /\ lister.at = "stated"
  /\ lister' = [at |-> "idle"]
  /\ cache' = [mtime |-> lister.mtime,
               summary |-> IF Present THEN Summary(file.content) ELSE Refused]
  /\ SameFile /\ UNCHANGED << scene, clock, pages, creator >>

-----------------------------------------------------------------------------
\* Around the program

EditExternally ==
  /\ versions < scene.writes
  /\ \E d \in scene.external : Install(Written(d, {}))
  /\ UNCHANGED << scene, clock, pages, creator, lister, cache >>

DeleteExternally ==
  /\ Present /\ scene.deletes
  /\ file' = << >>
  /\ UNCHANGED << scene, versions, stamps, clock, pages, creator, lister, cache >>

\* The daemon dies and comes back: what its threads had not written is lost,
\* the pages stay open in their browsers, the cache is empty.
Crash ==
  /\ scene.crashes
  /\ creator \in {"creating", "truncated"} \/ \E p \in Pages : pages[p].at \notin {"closed", "open"}
  /\ pages' = [p \in Pages |->
       IF Given(pages[p], "stamp") THEN [Shown(p) EXCEPT !.at = "open"]
       ELSE [at |-> "closed", loads |-> pages[p].loads, saves |-> pages[p].saves]]
  /\ creator' = IF creator \in {"creating", "truncated"} THEN "done" ELSE creator
  /\ lister' = [at |-> "idle"] /\ cache' = << >>
  /\ SameFile /\ UNCHANGED << scene, clock >>

Tick ==
  /\ clock < scene.ticks
  /\ clock' = clock + 1
  /\ SameFile /\ UNCHANGED << scene, pages, creator, lister, cache >>

-----------------------------------------------------------------------------
Init ==
  /\ scene \in Scenes
  /\ file = IF DOMAIN scene.first = {} THEN << >>
            ELSE [content |-> Written(scene.first, {}), mtime |-> 1, version |-> 1]
  /\ versions = (IF DOMAIN scene.first = {} THEN 0 ELSE 1) /\ clock = 1
  /\ stamps = [t \in 1 .. scene.ticks |-> IF t = 1 THEN versions ELSE 0]
  /\ pages = [p \in Pages |-> [at |-> "closed", loads |-> IF p \in scene.pages THEN scene.loads ELSE 0,
                               saves |-> scene.saves]]
  /\ creator = IF DOMAIN scene.first = {} THEN "idle" ELSE "done"
  /\ lister = [at |-> "idle"] /\ cache = << >>

PageNext(p) == ReadPage(p) \/ StatPage(p) \/ Send(p) \/ CheckStamp(p) \/ ReadCurrent(p)
                 \/ Truncate(p) \/ WriteBack(p) \/ Reload(p) \/ AnswerSaved(p)

Next ==
  \/ \E p \in Pages : PageNext(p)
  \/ StartCreate \/ TruncateNew \/ WriteNew \/ ListStat \/ ListRead
  \/ EditExternally \/ DeleteExternally \/ Crash \/ Tick

Spec == Init /\ [][Next]_vars

-----------------------------------------------------------------------------
\* Properties

\* Types: a request carries what its next step needs, a version is counted once.
PAGE_STATES == {"closed", "read", "open", "validated", "checked", "merged", "truncated",
                "written", "reloaded"}
TypeOK ==
  /\ scene \in Scenes /\ clock \in 1 .. scene.ticks /\ versions \in Nat
  /\ Present => /\ DOMAIN file = {"content", "mtime", "version"}
                /\ file.mtime \in 1 .. clock /\ file.version \in 1 .. versions
                /\ Readable(file.content) \/ file.content \in {Bad("empty"), Bad("mixed")}
  /\ \A p \in Pages :
       /\ pages[p].at \in PAGE_STATES
       /\ pages[p].at \notin {"closed", "read"} =>
            /\ pages[p].stamp \in 1 .. clock
            /\ {pages[p].base, pages[p].stamped} \subseteq 1 .. versions
       /\ pages[p].at \in {"validated", "checked", "merged", "truncated"} => Given(pages[p], "dict")
       /\ pages[p].at \in {"merged", "truncated"} => Readable(pages[p].merged)
  /\ creator \in {"idle", "creating", "truncated", "done"}
  /\ lister.at = "idle" \/ (lister.at = "stated" /\ lister.mtime \in 1 .. clock)
  /\ Given(cache, "mtime") => cache.mtime \in 1 .. clock

(***************************************************************************)
(* docs/usage/policy-editor.md: a save is rejected when the file was       *)
(* modified since the page was loaded.  So it is, but for three windows: a *)
(* change between the comparison and the write, a change between the two   *)
(* calls that loaded the page (or that answered its last save), and two    *)
(* changes with one mtime.                                                 *)
(***************************************************************************)
StaleSavesRefused ==
  [][\A p \in Pages :
       /\ pages[p].at = "merged" /\ pages'[p].at = "truncated" /\ Present
       /\ pages[p].stamped = pages[p].base
       /\ stamps[pages[p].stamp] = 1
       /\ file.version = pages[p].checked
       => file.version = pages[p].base]_vars

(***************************************************************************)
(* What PolicyRoundTripEditor.save promises: whatever it writes over a     *)
(* policy that could be loaded can be loaded, although it checks only the  *)
(* keys of the request and keeps the rest of the file.  The words YAML 1.1 *)
(* takes for booleans are the exception.                                   *)
(***************************************************************************)
SavedPoliciesLoad ==
  [][\A p \in Pages :
       /\ pages[p].at = "truncated" /\ pages'[p].at = "written"
       /\ DOMAIN file' # {} /\ file'.content = pages[p].merged
       /\ Given(LoadPolicy(pages[p].found), "policy")
       => \/ Given(LoadPolicy(file'.content), "policy")
          \/ ReadAsBool(file'.content)]_vars

\* The list never keeps a summary of other content under the mtime the file
\* has, unless two changes share that mtime: the mtime is taken before the read.
CacheTells ==
  /\ TypeOK
  /\ Present /\ Given(cache, "mtime") /\ cache.mtime = file.mtime /\ stamps[file.mtime] = 1
     => cache.summary = Summary(file.content)

(***************************************************************************)
(* serialize_condition: an expression that can be parsed back to the same  *)
(* condition.  It is for every condition of the policies on disk that      *)
(* Spellable admits.                                                       *)
(***************************************************************************)
Conditions(policy) ==
  {policy.phases[i].rules.items[j].when :
     <<i, j>> \in {x \in (DOMAIN policy.phases) \X (1 .. 9) :
                     /\ Given(policy.phases[x[1]], "rules")
                     /\ x[2] \in DOMAIN policy.phases[x[1]].rules.items}}
ExpressionsReadBack ==
  Present /\ Given(LoadPolicy(file.content), "policy") =>
    \A c \in Conditions(LoadPolicy(file.content).policy) :
      Spellable(c) => Parse(Serialize(c)) = [condition |-> c]

=============================================================================
