------------------------------- MODULE Detect -------------------------------
(***************************************************************************)
(* The signature engine of internal/detect and the event it enriches, as   *)
(* operators. A pattern is a value; a text (a path, a query, a body, a     *)
(* User-Agent) is what can be read in it: the sequence of its forms, the   *)
(* raw one first and each the decoding of the one before it, as long as    *)
(* the text can be decoded and decoding changes it; a form is the set of   *)
(* patterns that match it. A match across two texts is left out.           *)
(***************************************************************************)
EXTENDS Integers, SequencesExt, FiniteSetsExt

\* The regular expressions of a rule file that compile. A rule is
\* [category, weight, patterns, user_agent], the last two sets of patterns.
CONSTANT Compilable

\* Reload keeps the new rules only if all of them can be used.
Usable(r) ==
  /\ r.patterns \cup r.user_agent \subseteq Compilable
  /\ r.patterns \cup r.user_agent # {}
  /\ r.weight > 0

Loads(file) == \A i \in DOMAIN file : Usable(file[i])

\* The second decoding is left out.
ExpandOnce(text) == UNION {text[i] : i \in DOMAIN text \cap 1..2}

\* The patterns that match the value or one of its two decoded forms.
Expand(text) == UNION {text[i] : i \in DOMAIN text \cap 1..3}

Matching(patterns, readable) == patterns \cap readable # {}

\* The closure add of Analyze: a category counts once.
Add(d, r) ==
  IF r.category \in Range(d.categories) THEN d
  ELSE [score |-> d.score + r.weight, categories |-> Append(d.categories, r.category)]

\* A loop over the rules, for those that match.
Loop(d, rules, matching) == FoldLeft(LAMBDA a, r : IF r \in matching THEN Add(a, r) ELSE a, d, rules)

\* The patterns of all rules are tried first, the User-Agents after them.
Analyze(rules, f) ==
  LET haystack == Expand(f.path) \cup Expand(f.query) \cup Expand(f.body)
      byPattern == {r \in Range(rules) : Matching(r.patterns, haystack)}
      byUserAgent == {r \in Range(rules) : Matching(r.user_agent, f.user_agent)}
      d == Loop(Loop([score |-> 0, categories |-> <<>>], rules, byPattern), rules, byUserAgent)
  IN [score |-> Min({d.score, 100}), categories |-> d.categories]

SeverityFor(score) ==
  CASE score >= 80 -> "critical"
    [] score >= 50 /\ score < 80 -> "high"
    [] score >= 25 /\ score < 50 -> "medium"
    [] score > 0 /\ score < 25 -> "low"
    [] OTHER -> "none"
=============================================================================
