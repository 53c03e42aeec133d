------------------------------ MODULE Pipeline ------------------------------
(***************************************************************************)
(* analyze() (analysis/pipeline.py): extract_iocs, then the rules, then the *)
(* score; and how the link rule (rules/link_text.py) and the attachment     *)
(* rule see what was extracted.                                             *)
(***************************************************************************)
EXTENDS Extraction, Scoring

CONSTANTS
  SUFFIXES,     \* _SUFFIXES: public suffixes of two or three labels
  Facts(_)      \* the facts about a message's headers that rules look at

\* The facts about its links and attachments are filled in later.
ASSUME FactsAssumption ==
  \A m \in Raw : {"links", "attachments"} \subseteq DOMAIN Facts(m)

-----------------------------------------------------------------------------
(* The link rule's view *)

\* registered_domain: one label above the longest suffix, else the last two.
registered_domain(labels) ==
  LET n == Len(labels)
      Suffix(k) == SubSeq(labels, n - k + 1, n)
  IN  CASE n <= 2 -> labels
        [] n > 3 /\ Suffix(3) \in SUFFIXES -> Suffix(4)
        [] n > 2 /\ ~(n > 3 /\ Suffix(3) \in SUFFIXES) /\ Suffix(2) \in SUFFIXES -> Suffix(3)
        [] OTHER -> Suffix(2)

\* _shown_host: <<the host>> that a link's text shows: of its first URL, or of the
\* whole text when that is a bare name.
ShownHost(text) ==
  LET shown == OfKind(text, "url")
  IN  CASE shown # <<>> -> <<shown[1].host>>
        [] shown = <<>> /\ Len(text) = 1 /\ text[1].kind = "name" -> <<text[1].host>>
        [] OTHER -> <<>>

\* _mismatch: an address matches as it is written only, a name by its site.
Mismatch(host, url) ==
  IF LooseIPv4(url.host.parts)
  THEN ~(Dotted(host.parts) /\ Address(host.parts) = Address(url.host.parts))
  ELSE url.host.labels # <<>> /\
         registered_domain(host.labels) # registered_domain(url.host.labels)

DangerousTarget(url) == LooseIPv4(url.host.parts) \/ url.tricky

Judge(url, text) ==
  CASE ShownHost(text) = <<>> \/ ~Mismatch(ShownHost(text)[1], url) -> "honest"
    [] OTHER -> IF DangerousTarget(url) THEN "dangerous" ELSE "mismatch"

\* What the link rule finds in the reported URLs.
LinkFacts ==
  {Judge(p[1], p[2]) : p \in {q \in link_texts : q[1] \in Reported(urls)}}

-----------------------------------------------------------------------------
(* analyze *)

\* RuleContext(email, iocs).
Handoff ==
  /\ phase = "done"
  /\ phase' = "rules"
  /\ email' = [email EXCEPT !.links = LinkFacts,
                            !.attachments = [k \in DOMAIN attachments |-> attachments[k].file]]
  /\ UNCHANGED <<raw, pos, parsed, collector, buckets, at, findings, errors, points,
                 scored, total, result>>

PipelineInit ==
  /\ ExtractionInit
  /\ email = Facts(raw)
  /\ at = 1 /\ findings = <<>> /\ errors = <<>>
  /\ points = <<>> /\ scored = {} /\ total = 0 /\ result = <<>>

PipelineNext ==
  \/ ExtractionNext /\ UNCHANGED vars
  \/ Handoff
  \/ phase = "rules" /\ Next /\ UNCHANGED extraction

PipelineSpec == PipelineInit /\ [][PipelineNext]_<<extraction, vars>>

-----------------------------------------------------------------------------
(* Properties *)

\* From the HTML to the finding: a link of the message whose text shows another site
\* than the one it goes to makes a finding, as severe as the worst of them, and only
\* such a link does; unless the rule crashed, or indicators had to be dropped.
LinksJudged ==
  result # <<>> /\ (\A e \in DOMAIN errors : errors[e] # "link") /\ ~Truncated =>
    LET judged == {Judge(l.url, l.text) : l \in ShownLinks} \ {"honest"}
    IN  {findings[i].severity : i \in {j \in DOMAIN findings : findings[j].rule = "link"}}
          = IF judged = {} THEN {} ELSE {IF "dangerous" \in judged THEN HIGH ELSE MEDIUM}
=============================================================================
