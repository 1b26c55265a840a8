--------------------------- MODULE PlaystyleInsight --------------------------
(***************************************************************************)
(* The playstyle of a player, from the window of the last ranked matches   *)
(* to the validated text: which matches are analysed and against which     *)
(* aggregate, the comparisons of the whole window and of the most played   *)
(* champions, what they allow to be said, and the validation of what the   *)
(* model answers.  Values and differences are left out: a comparison is    *)
(* the matches it rests on.                                                *)
(***************************************************************************)
EXTENDS Naturals, Sequences, FiniteSets

CONSTANTS Windows,           \* sequences of match rows, the latest first
          ExploratoryMin,    \* PLAYER_PLAYSTYLE_EXPLORATORY_MIN
          MaxRepairAttempts,
          None

VARIABLES window,  \* listPlaystyleWindow
          context, \* inputContext of the insight's row
          call,    \* [pc, attempt] of the request to the model
          said,    \* the answer that is stored
          result   \* what the generation ends in

vars == <<window, context, call, said, result>>

LOCAL INSTANCE SequencesExt

EconomyMetrics == {"CS", "DIFF"}
CombatMetrics == {"DMG"}
OverallMetrics == EconomyMetrics \cup CombatMetrics
SliceMetrics == OverallMetrics \cup {"KDA"}
MaxSlices == 3

-----------------------------------------------------------------------------
(* The window                                                              *)

Classify(row) ==
  CASE row.remake -> "remake"
    [] ~row.remake /\ ~row.completed -> "incomplete"
    [] ~row.remake /\ row.completed /\ row.position = "UNKNOWN" -> "unknownPosition"
    [] OTHER -> IF row.usable THEN "analyzed" ELSE "incomplete"

Analyzed(rows) == SelectSeq(rows, LAMBDA r : Classify(r) = "analyzed")

\* lookupBaseline: the aggregate of the player's tier if it is resolved and
\* has a sufficient sample, else the one of all tiers, whatever its sample.
Baseline(row) ==
  IF row.ranked /\ row.exact # None /\ row.exact.sufficient THEN row.exact ELSE row.all

HasValue(row, metric) == metric = "DIFF" => row.timeline

\* Mutant: the sample of the baseline is not looked at.
AnyBaseline(row, metric) ==
  HasValue(row, metric) /\ Baseline(row) # None /\ metric \in Baseline(row).metrics
Comparable(row, metric) ==
  /\ HasValue(row, metric)
  /\ Baseline(row) # None
  /\ Baseline(row).sufficient /\ metric \in Baseline(row).metrics

-----------------------------------------------------------------------------
(* buildPlayerPlaystyleProfile                                             *)

CountComparable(rows, metric) == Len(SelectSeq(rows, LAMBDA r : Comparable(r, metric)))

\* Mutant: the matches of a slice count, not those that can be compared.
EnoughMatches(rows, metric) == Len(rows) >= ExploratoryMin
InterpretationAllowed(rows, metric) == CountComparable(rows, metric) >= ExploratoryMin

SliceOf(row) == <<row.champion, row.position>>
RowsOf(rows, slice) == SelectSeq(rows, LAMBDA r : SliceOf(r) = slice)
Latest(rows, slice) == CHOOSE i \in DOMAIN rows : SliceOf(rows[i]) = slice
                         /\ \A j \in DOMAIN rows : SliceOf(rows[j]) = slice => i <= j

\* groupAnalyzedMatches: most played first, then most recently played.
Before(rows, a, b) ==
  LET na == Len(RowsOf(rows, a))   nb == Len(RowsOf(rows, b))
  IN  na > nb \/ (na = nb /\ Latest(rows, a) < Latest(rows, b))

ChampionSlices(rows) ==
  LET played == {SliceOf(r) : r \in Range(rows)}
      enough == {s \in played : Len(RowsOf(rows, s)) >= ExploratoryMin}
        sorted == SetToSortSeq(enough, LAMBDA a, b : Before(rows, a, b))
  IN  SubSeq(sorted, 1, IF Len(sorted) < MaxSlices THEN Len(sorted) ELSE MaxSlices)

Profile(rows) ==
  [overall |-> {m \in OverallMetrics : InterpretationAllowed(rows, m)},
   slices |-> [i \in DOMAIN ChampionSlices(rows) |->
     LET s == ChampionSlices(rows)[i]
     IN  [slice |-> s, allowed |-> {m \in SliceMetrics : InterpretationAllowed(RowsOf(rows, s), m)}]],
   comparable |-> Len(SelectSeq(rows, LAMBDA r : \E m \in SliceMetrics : Comparable(r, m)))]

-----------------------------------------------------------------------------
(* buildPlayerPlaystyleContext: the catalogue is a sequence of [id,        *)
(* allowed], with the metrics in a fixed order.                            *)

MetricOrder == <<"KDA", "CS", "DMG", "DIFF">>
Entries(scope, metrics, allowed) ==
  LET listed == SelectSeq(MetricOrder, LAMBDA m : m \in metrics)
  IN  [i \in DOMAIN listed |-> [id |-> scope \o <<listed[i]>>, allowed |-> listed[i] \in allowed]]

Catalog(profile) ==
  <<[id |-> <<"SCOPE">>, allowed |-> TRUE]>>
  \o (IF profile.comparable < 2 * ExploratoryMin
      THEN <<[id |-> <<"CONFIDENCE_WARNING">>, allowed |-> TRUE]>> ELSE <<>>)
  \o Entries(<<"OVERALL">>, OverallMetrics, profile.overall)
  \o FlattenSeq([i \in DOMAIN profile.slices |->
       Entries(<<"SLICE", profile.slices[i].slice>>, SliceMetrics, profile.slices[i].allowed)])

Slices(profile) == {profile.slices[i] : i \in DOMAIN profile.slices}

\* Mutant: the slices alone make the economy worth a paragraph.
EconomyOfSlices(profile) == \E s \in Slices(profile) : s.allowed # {}
EconomyAllowed(profile) ==
  profile.overall \cap EconomyMetrics # {} \/ \E s \in Slices(profile) : s.allowed \cap EconomyMetrics # {}

Context(profile) ==
  [catalog |-> Catalog(profile),
   allowedSlices |-> {s.slice : s \in {t \in Slices(profile) : t.allowed # {}}},
   economyAllowed |-> EconomyAllowed(profile),
   combatAllowed |-> profile.overall \cap CombatMetrics # {},
   generationEligible |-> profile.overall # {} \/ \E s \in Slices(profile) : s.allowed # {}]

HandleMapping(ctx) == SelectSeq(ctx.catalog, LAMBDA e : e.allowed)

-----------------------------------------------------------------------------
(* validatePlayerPlaystyleInsight                                          *)

CatalogIds(ctx) == {e.id : e \in Range(ctx.catalog)}
KnownToken(ctx, token) ==
  IF token[1] = "E" THEN token[2] \in DOMAIN HandleMapping(ctx) ELSE token \in CatalogIds(ctx)
Resolve(ctx, token) == IF token[1] = "E" THEN HandleMapping(ctx)[token[2]].id ELSE token

AllowedIds(ctx) == {e.id : e \in {c \in Range(ctx.catalog) : c.allowed}}
IsStatistical(id) == id[1] \in {"OVERALL", "SLICE"}

Claims(insight) ==
  insight.claims \cup insight.economy \cup insight.combat \cup {t.claim : t \in insight.tendencies}
Cites(ctx, claim) == {Resolve(ctx, token) : token \in claim.cites}

BadEvidence(ctx, insight) ==
  \E c \in Claims(insight) :
    \/ \E id \in Cites(ctx, c) : IsStatistical(id) /\ id \notin AllowedIds(ctx)
    \/ ~\E id \in Cites(ctx, c) : IsStatistical(id) /\ id \in AllowedIds(ctx)

\* Mutant: a tendency may cite another champion.
AnySlice(ctx, t) == TRUE
TendencyIsCited(ctx, t) ==
  \E id \in Cites(ctx, t.claim) : id[1] = "SLICE" /\ id \in AllowedIds(ctx) /\ id[2] = t.slice
WrongSlice(ctx, insight) ==
  \/ insight.economy # {} /\ ~ctx.economyAllowed
  \/ insight.combat # {} /\ ~ctx.combatAllowed
  \/ \E t \in insight.tendencies : t.slice \notin ctx.allowedSlices

\* Not JSON, or not of the stored shape.
Parsed(out) == out.form = "INSIGHT"

Reason(ctx, out) ==
  CASE ~Parsed(out) -> out.form
    [] Parsed(out) /\ (\E c \in Claims(out) : \E t \in c.cites : ~KnownToken(ctx, t)) -> "EVIDENCE"
    [] OTHER ->
       CASE BadEvidence(ctx, out) -> "EVIDENCE"
         [] WrongSlice(ctx, out) -> "SLICE"
         [] \E t \in out.tendencies : ~TendencyIsCited(ctx, t) -> "EVIDENCE"
         [] \E c \in Claims(out) : c.wording = "DIGITS" -> "NUMERIC"
         [] \E c \in Claims(out) : c.wording = "TAGS" -> "HTML"
         [] OTHER -> None

-----------------------------------------------------------------------------
(* generatePlayerPlaystyle                                                 *)

Init ==
  /\ window \in Windows /\ context = None
  /\ call = [pc |-> "build", attempt |-> 0]
  /\ said = None /\ result = None

BuildContext ==
  /\ call.pc = "build"
  /\ context' = Context(Profile(Analyzed(window)))
  /\ IF context'.generationEligible
     THEN call' = [call EXCEPT !.pc = "ask"] /\ UNCHANGED result
     ELSE call' = [call EXCEPT !.pc = "end"] /\ result' = "LOW_CONFIDENCE"
  /\ UNCHANGED <<window, said>>

Answer(out) ==
  /\ call.pc = "ask"
  /\ LET reason == Reason(context, out)
     IN  CASE reason = None ->
                call' = [call EXCEPT !.pc = "end"] /\ result' = "STORED" /\ said' = out
           [] reason # None /\ call.attempt < MaxRepairAttempts ->
                call' = [call EXCEPT !.attempt = @ + 1] /\ UNCHANGED <<said, result>>
           [] OTHER ->
                call' = [call EXCEPT !.pc = "end"] /\ result' = reason /\ UNCHANGED said
  /\ UNCHANGED <<window, context>>

\* What a model may answer: a claim, and perhaps a paragraph or a tendency.
Tokens(ctx) == {<<"E", n>> : n \in 1 .. Len(HandleMapping(ctx)) + 1} \cup CatalogIds(ctx)
ClaimsOf(ctx, wordings) == {[cites |-> {a}, wording |-> w] : a \in Tokens(ctx), w \in wordings}
Insight(claims, economy, combat, tendencies) ==
  [form |-> "INSIGHT", claims |-> claims, economy |-> economy, combat |-> combat, tendencies |-> tendencies]
Outputs(ctx) ==
  {[form |-> f] : f \in {"PARSE", "SCHEMA"}}
  \cup {Insight({c}, {}, {}, {}) : c \in ClaimsOf(ctx, {"PLAIN", "DIGITS", "TAGS"})}
  \cup {Insight({c}, {c}, {}, {}) : c \in ClaimsOf(ctx, {"PLAIN"})}
  \cup {Insight({c}, {}, {c}, {}) : c \in ClaimsOf(ctx, {"PLAIN"})}
  \cup {Insight({c}, {}, {}, {[slice |-> SliceOf(r), claim |-> c]}) :
          c \in ClaimsOf(ctx, {"PLAIN"}), r \in Range(window)}

Next ==
  \/ BuildContext
  \/ /\ call.pc = "ask"
     /\ \E out \in Outputs(context) : Answer(out)

Spec == Init /\ [][Next]_vars

-----------------------------------------------------------------------------
TypeOK ==
  /\ window \in Windows
  /\ call.pc \in {"build", "ask", "end"} /\ call.attempt \in 0 .. MaxRepairAttempts
  /\ result \in {None, "LOW_CONFIDENCE", "STORED", "PARSE", "SCHEMA", "EVIDENCE", "SLICE", "NUMERIC", "HTML"}
  /\ (call.pc = "end") = (result # None)

\* The matches behind a number, counted in the window itself.
Backs(row, metric) ==
  /\ ~row.remake /\ row.completed /\ row.usable /\ row.position # "UNKNOWN"
  /\ metric = "DIFF" => row.timeline
  /\ \/ row.ranked /\ row.exact # None /\ row.exact.sufficient /\ metric \in row.exact.metrics
     \/ /\ ~(row.ranked /\ row.exact # None /\ row.exact.sufficient)
        /\ row.all # None /\ row.all.sufficient /\ metric \in row.all.metrics
Backing(id) ==
  {i \in DOMAIN window : /\ Backs(window[i], id[Len(id)])
                         /\ id[1] = "SLICE" => SliceOf(window[i]) = id[2]}
Backed(id) == Cardinality(Backing(id)) >= ExploratoryMin

(* A stored playstyle rests on matches: whatever a claim cites is backed   *)
(* by enough matches of the window, each with the number and with an       *)
(* aggregate of a sufficient sample to compare it to; a tendency by        *)
(* matches of that champion in that position; and the paragraphs on        *)
(* economy and combat exist only where a number of their kind is backed.   *)
(* A window that is sent to the model can be answered.                     *)
PlaystylesAreSupported ==
  /\ result = "STORED" =>
       /\ \A c \in Claims(said) :
            /\ \A id \in Cites(context, c) : IsStatistical(id) => Backed(id)
            /\ \E id \in Cites(context, c) : IsStatistical(id)
       /\ \A t \in said.tendencies :
            \E id \in Cites(context, t.claim) : id[1] = "SLICE" /\ id[2] = t.slice
       /\ said.economy # {} =>
            \E id \in CatalogIds(context) : IsStatistical(id) /\ id[Len(id)] \in EconomyMetrics /\ Backed(id)
       /\ said.combat # {} => Backed(<<"OVERALL", "DMG">>)
  /\ call.pc = "ask" =>
       \E id \in CatalogIds(context) :
         Reason(context, Insight({[cites |-> {id}, wording |-> "PLAIN"]}, {}, {}, {})) = None
=============================================================================
