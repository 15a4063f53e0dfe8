----------------------------- MODULE RuleStore -----------------------------
(***************************************************************************)
(* The rows of parser_rules that the rule learner writes (source_name is   *)
(* llm-auto), of one host and target type, and the choice of a rule for a  *)
(* page.  A rule's selectors are abstracted to the layout of the page they *)
(* were learned from: they match the pages of that layout.  A path pattern *)
(* is either empty ("any") or one that the refiner inferred ("part").      *)
(***************************************************************************)
EXTENDS Integers, FiniteSets, FiniteSetsExt

CONSTANTS MaxVersion, \* bound: versions of a natural key
          Layouts     \* the shapes that the HTML of a host has had

Paths == {"any", "part"}
Rule == [path : Paths, version : 1..MaxVersion, on : BOOLEAN, layout : Layouts]

\* The row with a natural key; natural keys are unique (Insert's ErrDuplicate).
FindByNaturalKey(rows, path, version) ==
  {r \in rows : r.path = path /\ r.version = version}

\* The highest version of a path pattern, 0 when there is none.
LastVersion(rows, path) ==
  Max({0} \cup {r.version : r \in {q \in rows : q.path = path}})

FindActiveCandidates(rows) == {r \in rows : r.on}
HasEnabled(rows) == FindActiveCandidates(rows) # {}

\* A rule is taken before another: the longer pattern first, then the newer version.
Before(r, s) ==
  \/ r.path = "part" /\ s.path = "any"
  \/ r.path = s.path /\ r.version >= s.version

\* The first candidate whose pattern the page's path matches, as a set.
Resolve(candidates, inPart) ==
  LET matching == {r \in candidates : r.path = "any" \/ inPart}
  IN {r \in matching : \A s \in matching : Before(r, s)}

\* Whether a page that found no rule calls the LLM, from the host's rows.
ShouldEnqueueLLMOnNoRule(rows) == rows = {} \/ HasEnabled(rows)
=============================================================================
