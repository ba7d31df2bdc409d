--------------------------- MODULE BackgroundModel ---------------------------
(***************************************************************************)
(* background_model.rs: which registered model the "background model"      *)
(* setting names.                                                          *)
(*                                                                         *)
(* A spec is a text followed by ":"-separated suffixes (those after any    *)
(* provider slash).  Its prefix n is the text with the first n suffixes; a *)
(* model says which prefixes are its id and which are part of its id or    *)
(* label, so a suffix may as well belong to a model's name.                *)
(***************************************************************************)
EXTENDS Naturals, Sequences, FiniteSets

NoModel == [id |-> 0]

VALID_THINKING_LEVELS == {"off", "minimal", "low", "medium", "high", "xhigh"}

prefix(spec, n) == [text |-> spec.text, suffixes |-> SubSeq(spec.suffixes, 1, n)]

\* A stable name or a -latest tag, not a dated version.
is_alias(m) == m.alias

\* A reference that two models answer to is no match.
find_exact_model_reference_match(p, models) ==
    LET found == {m \in models : p \in m.exact}
    IN  IF Cardinality(found) = 1 THEN CHOOSE m \in found : TRUE ELSE NoModel

\* The highest id of the matching aliases, of the dated versions when there is no alias.
try_match_model(p, models) ==
    LET exact   == find_exact_model_reference_match(p, models)
        found   == {m \in models : p \in m.within}
        aliases == {m \in found : is_alias(m)}
        pool    == IF aliases # {} THEN aliases ELSE found
    IN  CASE exact # NoModel -> exact
          [] exact = NoModel /\ pool = {} -> NoModel
          [] OTHER -> CHOOSE m \in pool : \A o \in pool : m.id >= o.id

Resolved(model, level, warning) == [model |-> model, level |-> level, warning |-> warning]

\* The prefixes from the whole spec down to its text: the last suffix decides what is reported.
parse_spec(spec, models) ==
    LET parse[n \in 0 .. Len(spec.suffixes)] ==
          LET m     == try_match_model(prefix(spec, n), models)
              inner == parse[n - 1]
              valid == spec.suffixes[n] \in VALID_THINKING_LEVELS
          IN  CASE m # NoModel -> Resolved(m, "", "")
                [] m = NoModel /\ n = 0 -> Resolved(NoModel, "", "no_match")
                [] m = NoModel /\ n > 0 /\ inner.model = NoModel -> Resolved(NoModel, "", "no_match")
                [] m = NoModel /\ n > 0 /\ inner.model # NoModel /\ valid ->
                     Resolved(inner.model, spec.suffixes[n], "")
                [] OTHER -> Resolved(inner.model, "", "level_dropped")
    IN  parse[Len(spec.suffixes)]

\* A script: spec is refused, its resolution is not ported.
resolve_background_model(spec, models) ==
    CASE spec.kind = "unset"  -> Resolved(NoModel, "", "")
      [] spec.kind = "script" -> Resolved(NoModel, "", "not_ported")
      [] OTHER -> parse_spec(spec, models)

\* Does some prefix of the spec name a model?
names_a_model(spec, models) ==
    \E n \in 0 .. Len(spec.suffixes) : try_match_model(prefix(spec, n), models) # NoModel
=============================================================================
