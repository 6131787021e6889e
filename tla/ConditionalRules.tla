-------------------------- MODULE ConditionalRules --------------------------
(***************************************************************************)
(* Conditional rules of a policy: conditions over the tracks and what is   *)
(* known of them, the actions a matching rule takes, and the two ways of   *)
(* going through the rules (src/vpo/policy/conditions.py, actions.py and   *)
(* evaluator/rules.py).                                                    *)
(*                                                                         *)
(* What is known of a file is the record                                   *)
(*   [tracks, analysed, origin, plugins, tags]:                            *)
(* analysed maps track ids to a language analysis, origin to an original   *)
(* or dubbed classification, plugins maps <<plugin, field>> to a value and *)
(* tags the container tags to their values; each but tracks may be None.   *)
(***************************************************************************)
EXTENDS TrackPolicy

(***************************************************************************)
(* Conditions.                                                             *)
(***************************************************************************)
Compare(a, op, b) ==
    \/ op = "eq"  /\ a = b
    \/ op = "neq" /\ a # b
    \/ op = "lt"  /\ a < b
    \/ op = "lte" /\ a <= b
    \/ op = "gt"  /\ a > b
    \/ op = "gte" /\ a >= b
    \/ op = "contains" /\ a \in b     \* b stands for the strings that contain it

\* A filter is a record of the criteria that are given; those absent always match.
MatchesTrack(t, filter) ==
    \A c \in DOMAIN filter :
        CASE c = "language" -> t.lang # None
                               /\ \E l \in filter.language : LanguagesMatch(t.lang, l)
          [] c = "codec"    -> t.codec \in filter.codec
          [] c = "default"  -> t.default = filter.default
          [] c = "forced"   -> t.forced = filter.forced
          [] c = "title"    -> t.title \in filter.title
          [] c = "channels" -> t.channels # None
                               /\ Compare(t.channels, filter.channels[1], filter.channels[2])
          [] c = "notCommentary" -> filter.notCommentary => t.title \notin CommentaryTitles

Matching(known, type, filter) ==
    {i \in Positions(known.tracks, type) : MatchesTrack(known.tracks[i], filter)}

\* The analyses of the audio tracks a multi-language condition looks at.
IsMultiLanguage(known, when) ==
    /\ known.analysed # None
    /\ \E i \in Positions(known.tracks, "audio") :
         LET id == known.tracks[i].id
         IN  /\ when.index \in {None, i}
             /\ id \in DOMAIN known.analysed
             /\ known.analysed[id].multi
             /\ \/ when.primary = None
                \/ when.primary # None
                   /\ LanguagesMatch(known.analysed[id].primary, when.primary)
             /\ \E share \in known.analysed[id].secondary : share >= when.threshold

\* is_original and is_dubbed: some classified audio track whose status is as asked.
HasOrigin(known, when, status) ==
    /\ known.origin # None
    /\ \E i \in Positions(known.tracks, "audio") :
         LET id == known.tracks[i].id
         IN  /\ id \in DOMAIN known.origin
             /\ known.origin[id].confidence >= when.confidence
             /\ \/ when.lang = None
                \/ /\ when.lang # None
                   /\ known.origin[id].lang # None
                   /\ LanguagesMatch(known.origin[id].lang, when.lang)
             /\ when.value = (known.origin[id].status = status)

\* A metadata comparison on the value stored under key, when there is one.
ComparesMetadata(store, key, when) ==
    /\ store # None
    /\ key \in DOMAIN store
    /\ \/ when.op = "exists"
       \/ /\ when.op # "exists"
          /\ store[key] # None
          /\ when.op \in {"lt", "lte", "gt", "gte"} => store[key] \in Int /\ when.value \in Int
          /\ Compare(store[key], when.op, when.value)

RECURSIVE EvaluateCondition(_, _)
EvaluateCondition(when, known) ==
    CASE when.kind = "exists"   -> Matching(known, when.type, when.filter) # {}
      [] when.kind = "count"    ->
           Compare(Cardinality(Matching(known, when.type, when.filter)), when.op, when.value)
      [] when.kind = "multi"    -> IsMultiLanguage(known, when)
      [] when.kind = "plugin"   -> ComparesMetadata(known.plugins, when.key, when)
      [] when.kind = "tag"      -> ComparesMetadata(known.tags, when.key, when)
      [] when.kind = "original" -> HasOrigin(known, when, "original")
      [] when.kind = "dubbed"   -> HasOrigin(known, when, "dubbed")
      [] when.kind = "and"      -> \A c \in Range(when.of) : EvaluateCondition(c, known)
      [] when.kind = "or"       -> \E c \in Range(when.of) : EvaluateCondition(c, known)
      [] when.kind = "not"      -> ~EvaluateCondition(when.of, known)

(***************************************************************************)
(* Actions.  Their effect is a record: the operations to skip, the flag,   *)
(* language and tag changes in order, and whether a fail action was met.   *)
(***************************************************************************)
NoEffect == [fail |-> FALSE, skips |-> {}, flags |-> << >>, langs |-> << >>, tags |-> << >>]

Both(e, f) == [fail |-> e.fail \/ f.fail, skips |-> e.skips \cup f.skips,
               flags |-> e.flags \o f.flags, langs |-> e.langs \o f.langs,
               tags |-> e.tags \o f.tags]

\* The positions an action is about, in order; lang None means any language.
Targets(known, type, lang) ==
    InOrder({i \in Positions(known.tracks, type) :
               \/ lang = None
               \/ /\ lang # None /\ known.tracks[i].lang # None
                  /\ LanguagesMatch(known.tracks[i].lang, lang)}, known.tracks)

\* The value an action sets: given, or looked up in the plugins' metadata (None: skip).
Resolved(known, action) ==
    IF action.value # None THEN action.value
    ELSE IF known.plugins # None /\ action.from \in DOMAIN known.plugins
           THEN known.plugins[action.from] ELSE None

ExecuteAction(action, known) ==
    LET targets == Targets(known, action.type, action.lang)
        value   == Resolved(known, action)
        change(i) == [index |-> i, flag |-> action.flag, value |-> action.value]
    IN  CASE action.kind = "skip" -> [NoEffect EXCEPT !.skips = {action.what}]
          [] action.kind = "fail" -> [NoEffect EXCEPT !.fail = TRUE]
          [] action.kind = "set_forced" ->
               [NoEffect EXCEPT !.flags = [k \in DOMAIN targets |-> change(targets[k])]]
          [] action.kind = "set_default" ->   \* the first match only
               [NoEffect EXCEPT !.flags =
                  IF targets = << >> THEN << >> ELSE <<change(targets[1])>>]
          [] action.kind = "set_language" ->
               [NoEffect EXCEPT !.langs =
                  IF value = None THEN << >>
                  ELSE [k \in DOMAIN targets |-> [index |-> targets[k], value |-> value]]]
          [] action.kind = "set_tag" ->
               [NoEffect EXCEPT !.tags =
                  IF value = None THEN << >> ELSE <<[field |-> action.field, value |-> value]>>]

\* A fail action stops the sequence: what follows it is not executed.
ExecuteActions(actions, known) ==
    LET fails == {k \in DOMAIN actions : actions[k].kind = "fail"}
        last  == IF fails = {} THEN Len(actions) ELSE Min(fails)
    IN  FoldLeft(LAMBDA e, a : Both(e, ExecuteAction(a, known)), NoEffect,
                 SubSeq(actions, 1, last))

(***************************************************************************)
(* Rules, tried in order: the first that matches (FIRST) or all that match *)
(* (ALL); the else branch of the last one when none does.                  *)
(***************************************************************************)
EvaluateRules(rules, known) ==
    LET items == rules.items
        hits  == {k \in DOMAIN items : EvaluateCondition(items[k].when, known)}
        taken == IF rules.match = "first" /\ hits # {} THEN {Min(hits)} ELSE hits
        otherwise == IF items = << >> THEN None ELSE Last(items).else
        chosen == InOrder(taken, items)
    IN  IF hits # {}
          THEN FoldLeft(LAMBDA e, k : Both(e, ExecuteActions(items[k].then, known)),
                        NoEffect, chosen)
        ELSE IF otherwise # None THEN ExecuteActions(otherwise, known)
        ELSE NoEffect
=============================================================================
