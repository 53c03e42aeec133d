------------------------------- MODULE Rules -------------------------------
(***************************************************************************)
(* The five rules (rules/*.py): what each of them finds in a message.  A    *)
(* message is reduced to the facts the rules look at; how the facts are     *)
(* read out of headers, HTML and file names is left out.                    *)
(***************************************************************************)
EXTENDS Naturals, Sequences
LOCAL INSTANCE SequencesExt

CONSTANT MaxAttachments  \* MAX_ATTACHMENTS_CHECKED

\* The facts of a message:
\*   sender       "none" (or no domain), "own" domain, free "webmail" domain
\*   authResults  there is an Authentication-Results header
\*   spf, dkim, dmarc  the results the topmost one records, in their order
\*   receivedSpf  the Received-SPF result, or "absent"
\*   replyTo      a set of "same", "foreign" and "foreignWebmail" addresses
\*   senderName   a set of "foreignAddress" and "foreignBrand", what it claims
\*   links        a set of "honest", "mismatch" and "dangerous" mismatching links
\*   attachments  a sequence of [named, bidi, ext, disguised, declared]:
\*     ext        the kind of the last extension; "other" when there is none
\*     disguised  the extension before it looks like a document's
\*     declared   the content type is a program's

INFO == 0
LOW == 1
MEDIUM == 2
HIGH == 3
Severity == INFO .. HIGH

\* "rule.kind" is the code's rule_id.
Finding(rule, kind, severity) == [rule |-> rule, kind |-> kind, severity |-> severity]

\* <<f>> when the condition holds.
FoundIf(condition, f) == IF condition THEN <<f>> ELSE <<>>

-----------------------------------------------------------------------------
\* Several results of one method: any pass counts, else the first.
Best(results) ==
  CASE results = <<>> -> "absent"
    [] \E k \in DOMAIN results : results[k] = "pass" -> "pass"
    [] OTHER -> results[1]

\* Received-SPF only stands in for a missing SPF result.
Spf(m) == IF m.spf = <<>> THEN m.receivedSpf ELSE Best(m.spf)

Failures(m) ==
  FoundIf(Best(m.dmarc) = "fail", Finding("auth", "dmarc_fail", HIGH))
  \o FoundIf(Spf(m) = "fail", Finding("auth", "spf_fail", MEDIUM))
  \o FoundIf(Spf(m) = "softfail", Finding("auth", "spf_fail", LOW))
  \o FoundIf(Best(m.dkim) = "fail", Finding("auth", "dkim_fail", MEDIUM))

Authentication(m) ==
  IF ~m.authResults /\ Spf(m) = "absent"
  THEN <<Finding("auth", "no_results", INFO)>>
  ELSE Failures(m)
       \o FoundIf(/\ Failures(m) = <<>>
                  /\ "pass" \notin {Spf(m), Best(m.dkim), Best(m.dmarc)},
                  Finding("auth", "unauthenticated", LOW))

\* A webmail address to answer to is worse when the sender is none himself.
ReplyTo(m) ==
  FoundIf(m.sender # "none" /\ m.replyTo \ {"same"} # {},
          Finding("reply_to", "mismatch",
                  IF "foreignWebmail" \in m.replyTo /\ m.sender # "webmail"
                  THEN HIGH ELSE MEDIUM))

DisplayName(m) ==
  FoundIf(m.sender # "none" /\ "foreignAddress" \in m.senderName,
          Finding("display_name", "address_mismatch", HIGH))
  \o FoundIf(m.sender # "none" /\ "foreignBrand" \in m.senderName,
             Finding("display_name", "brand", MEDIUM))

\* One finding for all links, as severe as the worst of them.
LinkText(m) ==
  FoundIf(m.links \ {"honest"} # {},
          Finding("link", "text_mismatch", IF "dangerous" \in m.links THEN HIGH ELSE MEDIUM))

IsExecutable(a) == a.ext = "executable" \/ (~a.named /\ a.declared)

\* What the last extension says of an attachment, whether or not it is a program.
ByExtension(a) ==
  CASE a.ext = "macro"   -> <<Finding("attachment", "macro_document", MEDIUM)>>
    [] a.ext = "disk"    -> <<Finding("attachment", "disk_image", MEDIUM)>>
    [] a.ext = "html"    -> <<Finding("attachment", "html_file", MEDIUM)>>
    [] a.ext = "archive" -> <<Finding("attachment", "archive", LOW)>>
    [] OTHER -> <<>>

CheckOne(a) ==
  FoundIf(a.named /\ a.bidi, Finding("attachment", "bidi_filename", HIGH))
  \o (CASE IsExecutable(a) /\ a.disguised ->
              <<Finding("attachment", "double_extension", HIGH)>>
        [] IsExecutable(a) /\ ~a.disguised ->
              <<Finding("attachment", "executable", HIGH)>>
        [] ~IsExecutable(a) /\ a.declared ->
              <<Finding("attachment", "type_mismatch", MEDIUM)>>
        [] OTHER -> <<>>)
  \o ByExtension(a)

\* Only the first MaxAttachments attachments are looked at.
Attachments(m) ==
  FlattenSeq([k \in {l \in DOMAIN m.attachments : l <= MaxAttachments} |->
                CheckOne(m.attachments[k])])

-----------------------------------------------------------------------------
\* RULES, in the order of the registry, and rule.check(ctx).
Registry == <<"auth", "reply_to", "display_name", "link", "attachment">>

RuleCheck(rule, m) ==
  CASE rule = "auth"         -> Authentication(m)
    [] rule = "reply_to"     -> ReplyTo(m)
    [] rule = "display_name" -> DisplayName(m)
    [] rule = "link"         -> LinkText(m)
    [] rule = "attachment"   -> Attachments(m)
=============================================================================
