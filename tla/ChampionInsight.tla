--------------------------- MODULE ChampionInsight ---------------------------
(***************************************************************************)
(* The text of a champion insight, from the numbers it may speak about to  *)
(* the validated result: the context with what the samples allow, the      *)
(* catalogue of evidence, the handles E1, E2, ... under which it is shown  *)
(* to the model, the validation of what the model answers, and the repair  *)
(* attempts and provider errors around it.  A text is a set of claims with *)
(* their citations and the one trait of their wording that is checked.     *)
(***************************************************************************)
EXTENDS Naturals, Sequences, FiniteSets

CONSTANTS Inputs,            \* what the statistics, builds and matchups services answer
          Champion,          \* the champion the insight is about
          MaxRepairAttempts,
          None

VARIABLES input,   \* the answers the context is built from
          context, \* inputContext of the insight's row
          call,    \* [pc, attempt, mode] of the request to the model
          said,    \* the answer that is stored
          result   \* what the generation ends in

vars == <<input, context, call, said, result>>

LOCAL INSTANCE SequencesExt

-----------------------------------------------------------------------------
(* buildChampionInsightContext                                             *)

MaxCoreBuilds == 2
MaxSingleRows == 1
MaxMatchupsPerSide == 3

Take(rows, limit) == SubSeq(rows, 1, IF limit < Len(rows) THEN limit ELSE Len(rows))
TakeDisplayable(rows, limit) == Take(SelectSeq(rows, LAMBDA r : r.band # "BELOW_DISPLAY"), limit)

PerformanceAllowed(in) == in.performance = "SUFFICIENT"
BuildAllowed(row) == row.band \in {"CREDIBLE", "STRONG"} /\ ~row.lowSample

\* Mutant: every build that is shown may be explained.
BuildShown(row) == row.band # "BELOW_DISPLAY"
BuildMakesEligible(row) == BuildAllowed(row)

Builds(in) == [core |-> TakeDisplayable(in.core, MaxCoreBuilds),
               runes |-> TakeDisplayable(in.runes, MaxSingleRows)]
Matchups(in, side) == Take(in.matchups[side], MaxMatchupsPerSide)
Sides == {"STRONG", "WEAK"}
AllowedOpponents(in) ==
  UNION {{r.opponent : r \in {q \in Range(Matchups(in, side)) : ~q.lowSample}} : side \in Sides}

-----------------------------------------------------------------------------
(* buildEvidenceCatalog: a sequence of [id, allowed].  The opponents whose *)
(* abilities the context carries are those of the rows it has selected.    *)

Entry(id, allowed) == [id |-> id, allowed |-> allowed]
BuildIds == <<<<"BUILD", "CORE_PRIMARY">>, <<"BUILD", "CORE_SECONDARY">>>>

PerformanceEntries(in) ==
  IF in.performance = "NONE" THEN <<>>
  ELSE <<Entry(<<"CHAMPION", "WIN_RATE">>, PerformanceAllowed(in))>>
BuildEntries(in) ==
  [i \in 1 .. Len(Builds(in).core) |-> Entry(BuildIds[i], BuildAllowed(Builds(in).core[i]))]
  \o [i \in 1 .. Len(Builds(in).runes) |-> Entry(<<"RUNE", "PAGE_PRIMARY">>, BuildAllowed(Builds(in).runes[i]))]
MatchupEntries(in, side) ==
  [i \in 1 .. Len(Matchups(in, side)) |->
     Entry(<<"MATCHUP", side, Matchups(in, side)[i].opponent>>, ~Matchups(in, side)[i].lowSample)]
AbilityEntries(in) ==
  LET listed == {r.opponent : r \in Range(Matchups(in, "STRONG")) \cup Range(Matchups(in, "WEAK"))}
      shown == SelectSeq(in.abilities, LAMBDA c : c = Champion \/ c \in listed)
  IN  [i \in 1 .. Len(shown) |-> Entry(<<"ABILITY", shown[i]>>, TRUE)]

Catalog(in) ==
  <<Entry(<<"SCOPE">>, TRUE), Entry(<<"CONFIDENCE_WARNING">>, TRUE)>>
  \o PerformanceEntries(in) \o BuildEntries(in)
  \o MatchupEntries(in, "STRONG") \o MatchupEntries(in, "WEAK") \o AbilityEntries(in)

Context(in) ==
  LET build == \E r \in Range(Builds(in).core) \cup Range(Builds(in).runes) : BuildMakesEligible(r)
  IN  [catalog |-> Catalog(in),
       opponents |-> AllowedOpponents(in),
       buildInsightAllowed |-> build,
       matchupExplanationsAllowed |-> AllowedOpponents(in) # {},
       generationEligible |-> PerformanceAllowed(in) \/ build \/ AllowedOpponents(in) # {}]

\* Abilities may be cited only where a matchup may be explained, and those of
\* an opponent only where its own matchup may.
Citable(ctx, e) ==
  /\ e.allowed
  /\ e.id[1] = "ABILITY" => ctx.opponents # {} /\ e.id[2] \in ctx.opponents \cup {Champion}

GenerationEvidence(ctx) == SelectSeq(ctx.catalog, LAMBDA e : Citable(ctx, e))

\* Mutant: the validation numbers the evidence without the context.
WithoutContext(ctx) == SelectSeq(ctx.catalog, LAMBDA e : e.allowed)
HandleMapping(ctx) == GenerationEvidence(ctx)

-----------------------------------------------------------------------------
(* validateChampionAiInsight                                               *)

CatalogIds(ctx) == {e.id : e \in Range(ctx.catalog)}
KnownToken(ctx, token) ==
  IF token[1] = "E" THEN token[2] \in DOMAIN HandleMapping(ctx) ELSE token \in CatalogIds(ctx)
Resolve(ctx, token) == IF token[1] = "E" THEN HandleMapping(ctx)[token[2]].id ELSE token

AllowedIds(ctx) == {e.id : e \in {c \in Range(ctx.catalog) : c.allowed}}
IsStatistical(id) == id[1] \in {"CHAMPION", "BUILD", "RUNE", "MATCHUP"}
IsBuildSlice(id) == id[1] \in {"BUILD", "RUNE"}

Claims(insight) == insight.claims \cup insight.build \cup {m.claim : m \in insight.matchups}
Cites(ctx, claim) == {Resolve(ctx, token) : token \in claim.cites}

UnknownEvidence(ctx, insight) == \E c \in Claims(insight) : \E token \in c.cites : ~KnownToken(ctx, token)
\* Mutant: a claim may cite what its sample does not allow.
NoDisallowed(ctx, insight) == FALSE
DisallowedEvidence(ctx, insight) ==
  \E c \in Claims(insight) : \E id \in Cites(ctx, c) : IsStatistical(id) /\ id \notin AllowedIds(ctx)
MissingEvidence(ctx, insight) ==
  \/ \E c \in Claims(insight) : ~\E id \in Cites(ctx, c) : IsStatistical(id) /\ id \in AllowedIds(ctx)
  \/ \E c \in insight.build : ~\E id \in Cites(ctx, c) : IsBuildSlice(id) /\ id \in AllowedIds(ctx)

WrongSlice(ctx, insight) ==
  \/ insight.build # {} /\ ~ctx.buildInsightAllowed
  \/ insight.matchups # {} /\ ~ctx.matchupExplanationsAllowed
  \/ \E m \in insight.matchups :
       LET id == <<"MATCHUP", m.side, m.opponent>>
       IN  id \notin AllowedIds(ctx) \/ id \notin Cites(ctx, m.claim)

Wording(insight, trait) == \E c \in Claims(insight) : c.wording = trait

\* Not JSON, or not of the stored shape.
Parsed(out) == out.form = "INSIGHT"

\* The first check that fails, or None.
Reason(ctx, out) ==
  CASE ~Parsed(out) -> out.form
    [] Parsed(out) /\ UnknownEvidence(ctx, out) -> "EVIDENCE"
    [] OTHER ->
       CASE DisallowedEvidence(ctx, out) \/ MissingEvidence(ctx, out) -> "EVIDENCE"
         [] WrongSlice(ctx, out) -> "SLICE"
         [] Wording(out, "DIGITS") -> "NUMERIC"
         [] Wording(out, "TAGS") -> "HTML"
         [] \E c \in out.build : c.wording = "MECHANICS" -> "EVIDENCE"
         [] OTHER -> None

-----------------------------------------------------------------------------
(* generateChampionInsight and the provider                                *)

Init ==
  /\ input \in Inputs /\ context = None
  /\ call = [pc |-> "build", attempt |-> 0, mode |-> "json_schema"]
  /\ said = None /\ result = None

\* getInsights: a context that allows nothing is answered LOW_CONFIDENCE.
BuildContext ==
  /\ call.pc = "build"
  /\ context' = Context(input)
  /\ IF context'.generationEligible
     THEN call' = [call EXCEPT !.pc = "ask"] /\ UNCHANGED result
     ELSE call' = [call EXCEPT !.pc = "end"] /\ result' = "LOW_CONFIDENCE"
  /\ UNCHANGED <<input, said>>

\* A provider without JSON schemas is asked once more, with json_object.
SchemaRefused ==
  /\ call.pc = "ask" /\ call.mode = "json_schema"
  /\ call' = [call EXCEPT !.mode = "json_object"]
  /\ UNCHANGED <<input, context, said, result>>

\* A timeout, a lost connection, an unreadable answer, 429 and 5xx may be
\* tried again by the queue; any other status ends the generation.
ProviderFails ==
  /\ call.pc = "ask"
  /\ call' = [call EXCEPT !.pc = "end"]
  /\ result' \in {"RETRYABLE", "PROVIDER_AUTH"}
  /\ UNCHANGED <<input, context, said>>

Answer(out) ==
  /\ call.pc = "ask"
  /\ LET reason == Reason(context, out)
     IN  CASE reason = None ->
                call' = [call EXCEPT !.pc = "end"] /\ result' = "STORED" /\ said' = out
           [] reason # None /\ call.attempt < MaxRepairAttempts ->
                /\ call' = [call EXCEPT !.attempt = @ + 1, !.mode = "json_schema"]
                /\ UNCHANGED <<said, result>>
           [] OTHER ->
                /\ call' = [call EXCEPT !.pc = "end"]
                /\ result' = IF reason \in {"NUMERIC", "HTML", "EVIDENCE", "SLICE"}
                             THEN "GROUNDING" ELSE "VALIDATION"
                /\ UNCHANGED said
  /\ UNCHANGED <<input, context>>

\* What a model may answer: one claim, and perhaps a claim about the builds
\* or one about a matchup, each with a citation or two.
Tokens(ctx) == {<<"E", n>> : n \in 1 .. Len(GenerationEvidence(ctx)) + 1} \cup CatalogIds(ctx)
ClaimsOf(ctx, wordings) ==
  LET last == <<"E", Len(GenerationEvidence(ctx))>>
  IN  {[cites |-> {a} \cup b, wording |-> w] : a \in Tokens(ctx), b \in {{}, {last}}, w \in wordings}
Insight(claims, build, matchups) ==
  [form |-> "INSIGHT", claims |-> claims, build |-> build, matchups |-> matchups]
Outputs(ctx) ==
  {[form |-> f] : f \in {"PARSE", "SCHEMA"}}
  \cup {Insight({c}, {}, {}) : c \in ClaimsOf(ctx, {"PLAIN", "DIGITS", "TAGS"})}
  \cup {Insight({c}, {c}, {}) : c \in ClaimsOf(ctx, {"PLAIN", "MECHANICS"})}
  \cup {Insight({c}, {}, {[opponent |-> id[3], side |-> id[2], claim |-> c]}) :
          c \in ClaimsOf(ctx, {"PLAIN"}), id \in {i \in CatalogIds(ctx) : i[1] = "MATCHUP"}}

Next ==
  \/ BuildContext \/ SchemaRefused \/ ProviderFails
  \/ /\ call.pc = "ask"
     /\ \E out \in Outputs(context) : Answer(out)

Spec == Init /\ [][Next]_vars

-----------------------------------------------------------------------------
TypeOK ==
  /\ input \in Inputs
  /\ call.pc \in {"build", "ask", "end"} /\ call.attempt \in 0 .. MaxRepairAttempts
  /\ call.mode \in {"json_schema", "json_object"}
  /\ result \in {None, "LOW_CONFIDENCE", "RETRYABLE", "PROVIDER_AUTH", "STORED", "GROUNDING", "VALIDATION"}
  /\ (call.pc = "end") = (result # None)

\* The rows behind a piece of evidence, read from the services' answers.
Supported(in, id) ==
  CASE id[1] = "CHAMPION" -> in.performance = "SUFFICIENT"
    [] id[1] = "BUILD" -> \E r \in Range(in.core) : r.band \in {"CREDIBLE", "STRONG"} /\ ~r.lowSample
    [] id[1] = "RUNE" -> \E r \in Range(in.runes) : r.band \in {"CREDIBLE", "STRONG"} /\ ~r.lowSample
    [] id[1] = "MATCHUP" -> \E r \in Range(in.matchups[id[2]]) : r.opponent = id[3] /\ ~r.lowSample
    [] OTHER -> TRUE

(* A stored text speaks only of numbers whose samples allow it.  A handle  *)
(* means to the validation what it meant to the model that was shown it;   *)
(* every number a claim cites comes from a sample that is large enough,    *)
(* and every claim cites one.  And a context that is sent to the model can *)
(* be answered: there is evidence that a valid text may cite, so that the  *)
(* attempts are not spent on a context that no text satisfies.             *)
InsightsAreSupported ==
  /\ result = "STORED" =>
       \A c \in Claims(said) :
         LET shown == GenerationEvidence(context)
             meant == {IF t[1] = "E" /\ t[2] \in DOMAIN shown THEN shown[t[2]].id ELSE t : t \in c.cites}
         IN  /\ meant = Cites(context, c)
             /\ \A id \in meant : Supported(input, id)
             /\ \E id \in meant : IsStatistical(id)
  /\ call.pc = "ask" =>
       \E id \in CatalogIds(context) :
         Reason(context, Insight({[cites |-> {id}, wording |-> "PLAIN"]}, {}, {})) = None
=============================================================================
