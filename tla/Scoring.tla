------------------------------ MODULE Scoring ------------------------------
(***************************************************************************)
(* From a message to its verdict: run_rules (rules/registry.py), one rule   *)
(* per step, each of which may crash; assess (analysis/scoring.py), one     *)
(* finding per step; and build_alert (analysis/alerts.py).                  *)
(***************************************************************************)
EXTENDS Integers, Sequences, Functions

CONSTANTS
  Message,      \* the messages
  RuleId,       \* the names rules have
  Kind,         \* what a rule may call a finding
  RULES,        \* the registry: the rules in the order they run in
  Check(_, _)   \* what a rule finds in a message

INFO == 0
LOW == 1
MEDIUM == 2
HIGH == 3
Severity == INFO .. HIGH

\* rule_id is <<f.rule, f.kind>>: a rule's findings carry its name as prefix.
Finding == [rule : RuleId, kind : Kind, severity : Severity]

\* Rules are told apart by their names (tests/test_rules_registry.py).
ASSUME RulesAssumption ==
  /\ RULES \in Seq(RuleId)
  /\ \A m, n \in DOMAIN RULES : RULES[m] = RULES[n] => m = n
ASSUME CheckAssumption ==
  \A r \in RuleId : \A m \in Message :
    Check(r, m) \in Seq({f \in Finding : f.rule = r})

\* ScoringConfig.
Points == [s \in Severity |-> CASE s = INFO -> 0 [] s = LOW -> 5
                                [] s = MEDIUM -> 15 [] s = HIGH -> 35]
suspicious_at == 25
phishing_at == 60
max_score == 100

Verdict == {"clean", "suspicious", "phishing"}

VerdictOf(score) ==
  CASE score >= phishing_at -> "phishing"
    [] score >= suspicious_at /\ score < phishing_at -> "suspicious"
    [] score < suspicious_at -> "clean"

\* recommend_actions: what to advise for a finding, by the rule it comes from.
AdviceByRule(rule) ==
  CASE rule = "auth" -> {"verify_sender"}
    [] rule = "reply_to" -> {"dont_reply", "verify_sender"}
    [] rule = "display_name" -> {"check_real_address", "verify_sender"}
    [] rule = "link" -> {"no_click_no_open", "type_the_address", "if_credentials_entered"}
    [] rule = "attachment" -> {"no_click_no_open", "if_attachment_opened"}
    [] OTHER -> {}

VARIABLES
  email,     \* the message
  at,        \* index of the next rule
  findings,  \* what the rules found so far
  errors,    \* the rules that crashed
  points,    \* reasons: index of a finding -> the points it got
  scored,    \* the rule_ids that got points, or came first with none
  total,     \* sum of the points
  result     \* <<>>, then <<the assessment and the alert drafted from it>>

vars == <<email, at, findings, errors, points, scored, total, result>>

Init ==
  /\ email \in Message
  /\ at = 1
  /\ findings = <<>>
  /\ errors = <<>>
  /\ points = <<>>
  /\ scored = {}
  /\ total = 0
  /\ result = <<>>

-----------------------------------------------------------------------------
(* run_rules *)

RunRule ==
  /\ at <= Len(RULES)
  /\ findings' = findings \o Check(RULES[at], email)
  /\ at' = at + 1
  /\ UNCHANGED <<email, errors, points, scored, total, result>>

\* Mutant: an exception leaves the loop.
RuleCrashes_Stops ==
  /\ at <= Len(RULES)
  /\ errors' = Append(errors, RULES[at])
  /\ at' = Len(RULES) + 1
  /\ UNCHANGED <<email, findings, points, scored, total, result>>

\* except Exception: check() returned nothing, so nothing of the rule is kept.
RuleCrashes ==
  /\ at <= Len(RULES)
  /\ errors' = Append(errors, RULES[at])
  /\ at' = at + 1
  /\ UNCHANGED <<email, findings, points, scored, total, result>>

-----------------------------------------------------------------------------
(* assess *)

\* sorted(key=-severity) is stable: the strongest of the findings that are left,
\* and of these the first.
Left == DOMAIN findings \ DOMAIN points

Ranked(i) ==
  /\ i \in Left
  /\ \A j \in Left : \/ findings[i].severity > findings[j].severity
                     \/ findings[i].severity = findings[j].severity /\ i <= j

Id(f) == <<f.rule, f.kind>>

\* Mutant: every finding scores.
Worth_Always(f) == Points[f.severity]

\* Within one rule_id only the first scores.
Worth(f) == IF Id(f) \in scored THEN 0 ELSE Points[f.severity]

ScoreFinding ==
  /\ at > Len(RULES)
  /\ \E i \in DOMAIN findings :
       /\ Ranked(i)
       /\ points' = [j \in DOMAIN points \union {i} |->
                       IF j = i THEN Worth(findings[i]) ELSE points[j]]
       /\ scored' = scored \union {Id(findings[i])}
       /\ total' = total + Worth(findings[i])
  /\ UNCHANGED <<email, at, findings, errors, result>>

\* Mutant: all reasons decide the advice.
Advice_AllReasons(verdict) ==
  {"report_and_delete"}
  \union (IF verdict = "phishing" THEN {"no_click_no_open", "dont_reply"} ELSE {})
  \union UNION {AdviceByRule(findings[i].rule) : i \in DOMAIN points}

\* The findings that actually scored, and the verdict, decide the advice.
Advice(verdict) ==
  {"report_and_delete"}
  \union (IF verdict = "phishing" THEN {"no_click_no_open", "dont_reply"} ELSE {})
  \union UNION {AdviceByRule(findings[i].rule) : i \in {j \in DOMAIN points : points[j] > 0}}

\* build_alert: none for a clean message.
Alert(verdict) ==
  IF verdict = "clean" THEN <<>>
  ELSE <<[severity |-> IF verdict = "phishing" THEN HIGH ELSE MEDIUM,
          actions  |-> Advice(verdict)]>>

\* assess's last statements, and build_alert on what it returns.
Assess ==
  /\ at > Len(RULES) /\ Left = {} /\ result = <<>>
  /\ LET score == IF total > max_score THEN max_score ELSE total
     IN  result' = <<[score    |-> score,
                      verdict  |-> VerdictOf(score),
                      complete |-> errors = <<>>,
                      alert    |-> Alert(VerdictOf(score))]>>
  /\ UNCHANGED <<email, at, findings, errors, points, scored, total>>

Next == RunRule \/ RuleCrashes \/ ScoreFinding \/ Assess

Spec == Init /\ [][Next]_vars

-----------------------------------------------------------------------------
(* Properties *)

TypeOK ==
  /\ email \in Message
  /\ at \in 1 .. Len(RULES) + 1
  /\ findings \in Seq(Finding)
  /\ errors \in Seq(RuleId)
  /\ DOMAIN points \subseteq DOMAIN findings
  /\ points \in [DOMAIN points -> Nat]
  /\ scored = {Id(findings[i]) : i \in DOMAIN points}
  /\ total \in Nat
  /\ at <= Len(RULES) => points = <<>>
  /\ \A k \in DOMAIN result : /\ result[k].score \in 0 .. max_score
                              /\ result[k].verdict \in Verdict

\* The score, stated without any order: of every rule_id the strongest finding
\* counts, once; the sum is capped.  So neither the order of the registry, nor
\* of the attachments, nor how often something is found, changes a score.
ScoreIsStrongest ==
  \A k \in DOMAIN result :
    LET Ids == {Id(findings[i]) : i \in DOMAIN findings}
        PointsOf(id) == {Points[findings[i].severity] :
                           i \in {j \in DOMAIN findings : Id(findings[j]) = id}}
        sum == SumFunction([id \in Ids |->
                 CHOOSE p \in PointsOf(id) : \A q \in PointsOf(id) : p >= q])
    IN  result[k].score = IF sum > max_score THEN max_score ELSE sum

\* "One broken rule must not hide the others' findings", and the assessment says
\* whether one broke: what a rule reported stands together in the result, all of
\* it and nothing else of that rule, whichever others crashed.
CrashHidesNothing ==
  \A k \in DOMAIN result : \A n \in DOMAIN RULES :
    LET own == {i \in DOMAIN findings : findings[i].rule = RULES[n]}
        report == Check(RULES[n], email)
    IN  IF \E e \in DOMAIN errors : errors[e] = RULES[n]
        THEN own = {} /\ ~result[k].complete
        ELSE \E start \in 0 .. Len(findings) :
               /\ own = start + 1 .. start + Len(report)
               /\ \A i \in DOMAIN report : findings[start + i] = report[i]

\* "One HIGH signal alone is therefore only SUSPICIOUS": however often a message
\* repeats it, one kind of finding does not make it phishing.
NoSingleSignal ==
  \A k \in DOMAIN result : result[k].verdict = "phishing" =>
    \E i, j \in DOMAIN points :
      points[i] > 0 /\ points[j] > 0 /\ Id(findings[i]) # Id(findings[j])

\* An alert "gets only relevant actions" (tests/test_analysis_alerts.py:108), and all
\* of them: those of each rule whose report says anything worse than a note, whether
\* that finding scored or repeats one that did, before it or after it; a rule that
\* crashed or only took notes has no say.
AdviceFits ==
  \A k \in DOMAIN result : \A a \in DOMAIN result[k].alert :
    LET Report(n) == Check(RULES[n], email)
        Warns(n) == /\ \A e \in DOMAIN errors : errors[e] # RULES[n]
                    /\ \E i \in DOMAIN Report(n) : Report(n)[i].severity > INFO
        always == IF result[k].verdict = "phishing"
                  THEN {"report_and_delete", "no_click_no_open", "dont_reply"}
                  ELSE {"report_and_delete"}
    IN  result[k].alert[a].actions =
          always \union UNION {AdviceByRule(RULES[n]) : n \in {m \in DOMAIN RULES : Warns(m)}}

\* The module's comment: "it takes two independent strong signals (or one plus
\* several smaller ones) to reach PHISHING".  Refuted: four medium ones do.
PhishingHasStrong ==
  \A k \in DOMAIN result : result[k].verdict = "phishing" =>
    \E i \in DOMAIN points : points[i] > 0 /\ findings[i].severity = HIGH
=============================================================================
