-------------------------- MODULE JsonComparison --------------------------
(***************************************************************************)
(* The comparison of a response with an example or a file: compare_json of   *)
(* postly-core/src/diff.rs, and the window that keeps a baseline, exclusions  *)
(* and the last result while the editor goes on (postly-app/src/comparison.rs). *)
(*                                                                         *)
(* A body is its size and its JSON value, which is <<>> if it is not JSON.  A  *)
(* key is the sequence of its pieces, "/" and "~" being pieces of their own; a *)
(* JSON Pointer is such a text too, and an item of an array is named by its     *)
(* index.  A side of a comparison that may be missing is <<>> or <<value>>.     *)
(***************************************************************************)
EXTENDS Naturals, Sequences, SequencesExt, TLC

CONSTANTS
  ComparedRequests,   \* what is opened: a name and examples, each a body or <<>>
  ComparedBodies,     \* responses and files
  Exclusions,         \* what is written into the field, one pointer in each line
  KeyOrder,           \* the keys of objects, in their order
  MaxComparisonBytes, \* MAX_COMPARISON_BYTES
  MaxChanges,         \* MAX_CHANGES
  MaxVisited,         \* MAX_VISITED
  MaxDepth,           \* the depth that is still compared
  MaxComparisonSteps  \* bound: steps of the window

ASSUME ComparisonAssumption ==
  MaxChanges \in Nat \ {0} /\ MaxVisited \in Nat \ {0} /\ MaxDepth \in Nat

VARIABLES
  compare_request,   \* the request in the editor
  compare_response,  \* its response, <<>> before there is one
  compare_open,      \* the window is open
  compare_baseline,  \* the baseline, <<>> if none is chosen
  compare_ignored,   \* the text of the exclusions
  compare_result,    \* the result that is shown, <<>> if none
  compare_error,     \* an error is shown
  compare_captured,  \* history: the response of the last comparison
  compare_steps      \* history: steps of the window

compareVars ==
  <<compare_request, compare_response, compare_open, compare_baseline, compare_ignored,
    compare_result, compare_error, compare_captured, compare_steps>>

-----------------------------------------------------------------------------
(* compare_json.                                                            *)
Leaf(text) == [kind |-> "leaf", text |-> text]
Items(items) == [kind |-> "array", items |-> items]
Members(members) == [kind |-> "object", members |-> members]

(* The names of the children of a value, in their order, and a child.          *)
KeysOf(value) ==
  CASE value.kind = "object" -> SelectSeq(KeyOrder, LAMBDA k : k \in DOMAIN value.members)
    [] value.kind = "array" -> [i \in DOMAIN value.items |-> <<ToString(i - 1)>>]
    [] OTHER -> <<>>
ChildOf(value, key) ==
  CASE value.kind = "object" /\ key \in DOMAIN value.members -> <<value.members[key]>>
    [] value.kind = "array" /\ key \in ToSet(KeysOf(value)) ->
         <<value.items[CHOOSE i \in DOMAIN value.items : KeysOf(value)[i] = key]>>
    [] OTHER -> <<>>
ChildOfSide(side, key) == IF side = <<>> THEN <<>> ELSE ChildOf(side[1], key)

Spelled(text, sign, by) ==
  FlattenSeq([i \in DOMAIN text |-> IF text[i] = sign THEN by ELSE <<text[i]>>])
EscapedSlashFirst(key) == Spelled(Spelled(key, "/", <<"~", "1">>), "~", <<"~", "0">>)
Escaped(key) == Spelled(Spelled(key, "~", <<"~", "0">>), "/", <<"~", "1">>)

PointerIsValid(pointer) ==
  /\ pointer # <<>> => Head(pointer) = "/"
  /\ \A i \in DOMAIN pointer :
       pointer[i] = "~" => i < Len(pointer) /\ pointer[i + 1] \in {"0", "1"}

NoChangesYet == [changes |-> <<>>, truncated |-> FALSE, ignored_subtrees |-> 0, visited |-> 0]

(* Two values of one kind are compared child by child, and so are the children  *)
(* of a value that is on one side only; anything else is one change.           *)
ChildrenToVisit(before, after) ==
  LET sides == before \o after
      both == before # <<>> /\ after # <<>>
      a == KeysOf(sides[1]) b == KeysOf(Last(sides))
  IN IF \/ both /\ (sides[1].kind # sides[2].kind \/ sides[1].kind = "leaf")
        \/ ~both /\ a = <<>> THEN <<>>
     ELSE IF sides[1].kind = "array" THEN IF Len(a) >= Len(b) THEN a ELSE b
     ELSE SelectSeq(KeyOrder, LAMBDA k : k \in ToSet(a) \cup ToSet(b))
SameContainers(before, after) ==
  /\ before # <<>> /\ after # <<>>
  /\ before[1].kind = after[1].kind /\ before[1].kind # "leaf"
RECURSIVE Visit(_, _, _, _, _, _)
Visit(before, after, pointer, depth, ignored, result) ==
  LET seen == [result EXCEPT !.visited = @ + 1]
      children == ChildrenToVisit(before, after)
      VisitChild(r, key) ==
        Visit(ChildOfSide(before, key), ChildOfSide(after, key),
              pointer \o <<"/">> \o Escaped(key), depth + 1, ignored, r)
  IN IF result.truncated THEN result
     ELSE IF result.visited >= MaxVisited \/ Len(result.changes) >= MaxChanges \/ depth > MaxDepth
     THEN [result EXCEPT !.truncated = TRUE]
     ELSE IF pointer \in ignored THEN [seen EXCEPT !.ignored_subtrees = @ + 1]
     ELSE IF children # <<>> \/ SameContainers(before, after)
     THEN FoldLeft(VisitChild, seen, children)
     ELSE IF before = after THEN seen
     ELSE [seen EXCEPT !.changes =
             Append(@, [pointer |-> pointer, before |-> before, after |-> after])]

Refuses(before, after, ignored) ==
  \/ before.size > MaxComparisonBytes \/ after.size > MaxComparisonBytes
  \/ \E pointer \in ignored : ~PointerIsValid(pointer)
  \/ before.json = <<>> \/ after.json = <<>>
CompareJson(before, after, ignored) ==
  Visit(before.json, after.json, <<>>, 0, ignored, NoChangesYet)

-----------------------------------------------------------------------------
ComparisonInit ==
  /\ compare_request \in ComparedRequests /\ compare_response = <<>>
  /\ compare_open = FALSE /\ compare_baseline = <<>> /\ compare_ignored = {}
  /\ compare_result = <<>> /\ compare_error = FALSE
  /\ compare_captured = <<>> /\ compare_steps = 0

WindowStep ==
  /\ compare_open /\ compare_steps < MaxComparisonSteps /\ compare_steps' = compare_steps + 1
  /\ UNCHANGED <<compare_request, compare_response>>

(* The editor opens another request, which clears the response, or a send of    *)
(* the shown one ends.                                                       *)
OpenAnotherRequest ==
  /\ compare_steps < MaxComparisonSteps /\ compare_steps' = compare_steps + 1
  /\ compare_request' \in ComparedRequests \ {compare_request} /\ compare_response' = <<>>
  /\ UNCHANGED <<compare_open, compare_baseline, compare_ignored, compare_result, compare_error,
                 compare_captured>>
ResponseArrives ==
  /\ compare_steps < MaxComparisonSteps /\ compare_steps' = compare_steps + 1
  /\ \E body \in ComparedBodies : compare_response' = <<body>>
  /\ UNCHANGED <<compare_request, compare_open, compare_baseline, compare_ignored, compare_result,
                 compare_error, compare_captured>>

(* "Compare JSON...": the first example with a body is the baseline.            *)
OpenComparison ==
  /\ compare_response # <<>>
  /\ compare_steps < MaxComparisonSteps /\ compare_steps' = compare_steps + 1
  /\ compare_open' = TRUE /\ compare_ignored' = {}
  /\ compare_result' = <<>> /\ compare_error' = FALSE
  /\ LET bodies == SelectSeq(compare_request.examples, LAMBDA e : e # <<>>)
     IN compare_baseline' = IF bodies = <<>> THEN <<>> ELSE bodies[1]
  /\ UNCHANGED <<compare_request, compare_response, compare_captured>>
ChooseExample ==
  /\ WindowStep
  /\ \E e \in ToSet(compare_request.examples) : e # <<>> /\ compare_baseline' = e
  /\ compare_result' = <<>>
  /\ UNCHANGED <<compare_open, compare_ignored, compare_error, compare_captured>>

(* A file that is too long or cannot be read leaves the baseline and its result. *)
LoadBaseline ==
  /\ WindowStep
  /\ \E body \in ComparedBodies :
       /\ body.size <= MaxComparisonBytes
       /\ compare_baseline' = <<body>>
  /\ compare_result' = <<>> /\ compare_error' = FALSE
  /\ UNCHANGED <<compare_open, compare_ignored, compare_captured>>
LoadFails ==
  /\ WindowStep /\ compare_error' = TRUE
  /\ UNCHANGED <<compare_open, compare_baseline, compare_ignored, compare_result, compare_captured>>
KeepResult == UNCHANGED compare_result
DropResult == compare_result' = <<>>
EditExclusions ==
  /\ WindowStep
  /\ compare_ignored' \in Exclusions \ {compare_ignored} /\ DropResult
  /\ UNCHANGED <<compare_open, compare_baseline, compare_error, compare_captured>>
CompareResponse ==
  /\ WindowStep /\ compare_baseline # <<>> /\ compare_response # <<>>
  /\ LET before == compare_baseline[1] after == compare_response[1] IN
     IF Refuses(before, after, compare_ignored)
     THEN compare_error' = TRUE /\ compare_result' = <<>>
     ELSE /\ compare_error' = FALSE
          /\ compare_result' = <<CompareJson(before, after, compare_ignored)>>
  /\ compare_captured' = compare_response
  /\ UNCHANGED <<compare_open, compare_baseline, compare_ignored>>
CloseComparison ==
  /\ WindowStep
  /\ compare_open' = FALSE /\ compare_baseline' = <<>> /\ compare_result' = <<>>
  /\ UNCHANGED <<compare_ignored, compare_error, compare_captured>>

ComparisonNext ==
  \/ OpenAnotherRequest \/ ResponseArrives \/ OpenComparison \/ ChooseExample \/ LoadBaseline
  \/ LoadFails \/ EditExclusions \/ CompareResponse \/ CloseComparison

ComparisonSpec == ComparisonInit /\ [][ComparisonNext]_compareVars

-----------------------------------------------------------------------------
ComparisonTypeOK ==
  /\ compare_request \in ComparedRequests
  /\ {compare_open, compare_error} \subseteq BOOLEAN
  /\ Len(compare_response) <= 1 /\ Len(compare_baseline) <= 1 /\ Len(compare_captured) <= 1
  /\ compare_result # <<>> =>
       /\ compare_open
       /\ Len(compare_result[1].changes) <= MaxChanges /\ compare_result[1].visited <= MaxVisited

(* What a pointer names in a document, by RFC 6901: its parts between the        *)
(* slashes are unescaped, ~1 before ~0.                                      *)
Unescaped(text) ==
  LET first == {i \in DOMAIN text : text[i] = "~"}
      Sign(i) == IF text[i + 1] = "1" THEN "/" ELSE "~"
  IN FlattenSeq([i \in DOMAIN text |->
       IF i \in first THEN <<Sign(i)>> ELSE IF i - 1 \in first THEN <<>> ELSE <<text[i]>>])
PointerParts(pointer) ==
  LET slashes == SelectSeq([i \in DOMAIN pointer |-> i], LAMBDA i : pointer[i] = "/")
      End(n) == IF n = Len(slashes) THEN Len(pointer) ELSE slashes[n + 1] - 1
  IN [n \in DOMAIN slashes |-> Unescaped(SubSeq(pointer, slashes[n] + 1, End(n)))]
Walk(document, path) == FoldLeft(ChildOfSide, document, path)
Named(document, pointer) == Walk(document, PointerParts(pointer))

(* The paths of the leaves of a document, empty containers being leaves.         *)
RECURSIVE LeafPaths(_)
LeafPaths(value) ==
  IF KeysOf(value) = <<>> THEN {<<>>}
  ELSE UNION {{<<k>> \o p : p \in LeafPaths(ChildOf(value, k)[1])} : k \in ToSet(KeysOf(value))}
Excluded(path, ignored) == \E p \in ignored : IsPrefix(PointerParts(p), path)
IsLeaf(side) == side = <<>> \/ KeysOf(side[1]) = <<>>

(* The result that is shown is of the baseline and the exclusions that are      *)
(* shown, and of the response that was captured.  Each change names, in both     *)
(* documents, what is different there, outside the exclusions; and a result      *)
(* that is not partial leaves out no leaf that is different.                     *)
ComparisonIsExact ==
  compare_result # <<>> =>
    LET before == compare_baseline[1].json
        after == compare_captured[1].json
        result == compare_result[1]
    IN /\ \A i \in DOMAIN result.changes :
            LET change == result.changes[i] IN
            /\ change.before # change.after
            /\ Named(before, change.pointer) = change.before
            /\ Named(after, change.pointer) = change.after
            /\ ~Excluded(PointerParts(change.pointer), compare_ignored)
            /\ \A j \in DOMAIN result.changes :
                 IsPrefix(PointerParts(change.pointer), PointerParts(result.changes[j].pointer)) => i = j
       /\ ~result.truncated =>
            \A path \in LeafPaths(before[1]) \cup LeafPaths(after[1]) :
              \/ Walk(before, path) = Walk(after, path)
              \/ ~(IsLeaf(Walk(before, path)) /\ IsLeaf(Walk(after, path)))
              \/ Excluded(path, compare_ignored)
              \/ \E i \in DOMAIN result.changes :
                   IsPrefix(PointerParts(result.changes[i].pointer), path)
=============================================================================
