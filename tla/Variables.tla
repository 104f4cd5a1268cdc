----------------------------- MODULE Variables -----------------------------
(***************************************************************************)
(* How `{{name}}` is resolved (postly-core/src/variables.rs): a template is *)
(* substituted pass after pass, at most MaxPasses times, from seven scopes   *)
(* of which the first that defines a name wins.                              *)
(*                                                                         *)
(* A text is the sequence of its tokens: a name stands for the expression    *)
(* `{{name}}`, Literal for text without braces, Unclosed for a `{{` without   *)
(* `}}`, which can only be the last token of the input.  Names written with   *)
(* blanks inside the braces are left out.                                    *)
(***************************************************************************)
EXTENDS Naturals, Sequences, SequencesExt

CONSTANTS
  VariableNames,   \* the names that templates and scopes use
  Definitions,     \* the scopes and texts that a name may be given
  Templates,       \* the inputs that are resolved
  MaxPasses        \* how often resolve_text substitutes

Literal == "text"
Unclosed == "{{"

(* The order in which `lookup` asks the scopes.                              *)
LookupOrderCollectionFirst ==
  <<"collection", "iteration", "runtime", "request", "environment",
    "project", "globals">>
LookupOrder ==
  <<"iteration", "runtime", "request", "environment", "collection",
    "project", "globals">>
Scopes == Range(LookupOrder)
Undefined == <<Unclosed, Unclosed>>

ASSUME VariablesAssumption ==
  /\ Literal \notin VariableNames /\ Unclosed \notin VariableNames
  /\ Definitions \subseteq Scopes \X Seq(VariableNames \cup {Literal})
  /\ Templates \subseteq Seq(VariableNames \cup {Literal, Unclosed})
  /\ MaxPasses \in Nat \ {0}

VARIABLES
  variable_context,   \* VariableContext: the text of each name in each scope
  template,           \* the input of `resolve`
  resolved,           \* the text after the passes so far
  passes,             \* the passes so far
  seen,               \* the names met so far
  diagnostics,        \* the kinds and names of the diagnostics
  resolution          \* "idle", "running" or "done"

resolutionVars ==
  <<variable_context, template, resolved, passes, seen, diagnostics, resolution>>

(* A context gives each name a text in some scopes.                          *)
Defines(context, scope, n) == context[scope][n] # Undefined
Lookup(context, n) ==
  LET defining == SelectSeq(LookupOrder, LAMBDA s : Defines(context, s, n))
  IN IF defining = <<>> THEN Undefined ELSE context[Head(defining)][n]

(* The merged map that scripts and previews are given: later scopes of this  *)
(* order overwrite earlier ones.                                             *)
MergeOrder ==
  <<"globals", "project", "collection", "environment", "request", "runtime",
    "iteration">>
VisibleValues(context) ==
  [n \in VariableNames |->
     FoldLeft(LAMBDA text, s : IF Defines(context, s, n)
                               THEN context[s][n] ELSE text,
              Undefined, MergeOrder)]

(* substitute_once: every expression is replaced by its text once, an         *)
(* undefined one stays.                                                      *)
Replacement(context, token) ==
  IF token \in VariableNames /\ Lookup(context, token) # Undefined
  THEN Lookup(context, token) ELSE <<token>>
SubstituteOnce(text, context) ==
  FlattenSeq([i \in DOMAIN text |-> Replacement(context, text[i])])
NamesIn(text) == SelectSeq(text, LAMBDA token : token \in VariableNames)

(* The diagnostics of one pass from `text` to `next`: a name is called cyclic *)
(* when it was met before, here or in an earlier pass, and is still there.    *)
PassDiagnostics(text, next) ==
  LET names == NamesIn(text)
      met(i) == Range(seen) \cup Range(SubSeq(names, 1, i - 1))
  IN {<<"Malformed", Unclosed>> : t \in Range(text) \cap {Unclosed}}
       \cup {<<"Undefined", n>> :
               n \in {m \in Range(names) :
                        Lookup(variable_context, m) = Undefined}}
       \cup {<<"Cyclic", names[i]>> :
               i \in {j \in DOMAIN names :
                        names[j] \in met(j) /\ names[j] \in Range(next)}}

ResolutionInit ==
  /\ variable_context = [s \in Scopes |-> [n \in VariableNames |-> Undefined]]
  /\ template = <<>> /\ resolved = <<>> /\ passes = 0 /\ seen = <<>>
  /\ diagnostics = {} /\ resolution = "idle"

(* A scope of the context is given a value before the template is resolved.   *)
DefineVariable(s, n, text) ==
  /\ resolution = "idle" /\ ~Defines(variable_context, s, n)
  /\ variable_context' = [variable_context EXCEPT ![s][n] = text]
  /\ UNCHANGED <<template, resolved, passes, seen, diagnostics, resolution>>

Resolve(input) ==
  /\ resolution = "idle"
  /\ template' = input /\ resolved' = input
  /\ resolution' = "running"
  /\ UNCHANGED <<variable_context, passes, seen, diagnostics>>

(* One round of the loop, which stops when nothing changes.                   *)
SubstitutePass ==
  LET next == SubstituteOnce(resolved, variable_context) IN
  /\ resolution = "running"
  /\ resolved' = next
  /\ passes' = passes + 1
  /\ seen' = seen \o NamesIn(resolved)
  /\ diagnostics' = diagnostics \cup PassDiagnostics(resolved, next)
  /\ resolution' = IF next = resolved \/ passes' = MaxPasses
                   THEN "done" ELSE "running"
  /\ UNCHANGED <<variable_context, template>>

ResolutionNext ==
  \/ \E n \in VariableNames, d \in Definitions : DefineVariable(d[1], n, d[2])
  \/ \E input \in Templates : Resolve(input)
  \/ SubstitutePass

ResolutionSpec == ResolutionInit /\ [][ResolutionNext]_resolutionVars

-----------------------------------------------------------------------------
ResolutionTypeOK ==
  /\ variable_context \in [Scopes -> [VariableNames -> {d[2] : d \in Definitions} \cup {Undefined}]]
  /\ template \in Templates \cup {<<>>}
  /\ resolved \in Seq(VariableNames \cup {Literal, Unclosed})
  /\ passes \in 0 .. MaxPasses
  /\ seen \in Seq(VariableNames)
  /\ diagnostics \subseteq {"Malformed", "Undefined", "Cyclic"}
                             \X (VariableNames \cup {Unclosed})
  /\ resolution \in {"idle", "running", "done"}

(* What a template means: its defined names, transitively, and the expansion *)
(* of a text whose names are at most `depth` definitions deep.               *)
Uses(n) == Range(NamesIn(VisibleValues(variable_context)[n]))
Reachable ==
  LET reach[k \in Nat] ==
        IF k = 0 THEN Range(NamesIn(template))
        ELSE reach[k - 1] \cup UNION {Uses(n) : n \in reach[k - 1]}
  IN reach[Cardinality(VariableNames)]
OnCycle(n) ==
  LET reach[k \in Nat] ==
        IF k = 0 THEN Uses(n)
        ELSE reach[k - 1] \cup UNION {Uses(m) : m \in reach[k - 1]}
  IN n \in reach[Cardinality(VariableNames)]
Cycles == {n \in Reachable : OnCycle(n)}

Expansion ==
  LET visible == VisibleValues(variable_context)
      expand[k \in Nat] ==
        [n \in VariableNames |->
           IF k = 0 \/ visible[n] = Undefined THEN <<n>>
           ELSE FlattenSeq([i \in DOMAIN visible[n] |->
                  IF visible[n][i] \in VariableNames
                  THEN expand[k - 1][visible[n][i]] ELSE <<visible[n][i]>>])]
  IN FlattenSeq([i \in DOMAIN template |->
       IF template[i] \in VariableNames
       THEN expand[Cardinality(VariableNames)][template[i]] ELSE <<template[i]>>])

(* Without a cycle, and with more passes than definitions can be nested, a   *)
(* template resolves to its full expansion in the values that are visible     *)
(* (the order of `lookup` and the order of `visible_values` agree), and        *)
(* exactly the names left in it are diagnosed as undefined: no request is      *)
(* sent to a literal {{name}} that nobody reported.                           *)
AcyclicTemplatesResolve ==
  resolution = "done" /\ Cycles = {} /\ Cardinality(VariableNames) < MaxPasses =>
    /\ resolved = Expansion
    /\ {n \in VariableNames : <<"Undefined", n>> \in diagnostics} =
         Range(NamesIn(resolved))
=============================================================================
