----------------------------- MODULE Extraction -----------------------------
(***************************************************************************)
(* From a raw message to its indicators: parse_email (analysis/parser.py)   *)
(* walks the MIME parts, _HtmlCollector reads the joined HTML, and          *)
(* extract_iocs (analysis/extractor.py) notes URLs, IPs, domains and hashes *)
(* in that order, at most MAX_PER_KIND of each.  One part, one token or one *)
(* indicator per step.                                                      *)
(*                                                                         *)
(* A text is a sequence of words, HTML a sequence of the tokens HTMLParser  *)
(* makes of it; what the regular expressions take for an indicator is a     *)
(* word of that kind.                                                       *)
(***************************************************************************)
EXTENDS Naturals, FiniteSets, SequencesExt

CONSTANTS
  Raw,             \* the messages
  MAX_PER_KIND,    \* indicators kept of each kind
  MAX_BODY_CHARS,  \* length of a body: words, or tokens of HTML
  MAX_LINK_TEXT,   \* length of an anchor's text, in words
  Octet            \* an octet is below it: 256, smaller for TLC

ASSUME ExtractionAssumption ==
  /\ MAX_PER_KIND \in Nat \ {0}
  /\ MAX_BODY_CHARS \in Nat
  /\ MAX_LINK_TEXT \in Nat
  /\ Octet \in Nat \ {0}

\* raw message  [parts, senders, received]: its parts in document order, the domains
\*   of From, Reply-To and Return-Path, the words of its Received headers
\* part   [depth, type, attached, words, tokens, file, digest]; type is "text", "html",
\*   "message" (any message/*), "multipart" or "file"; attached: it has a file name
\*   or is disposed as attachment; digest is "" when it is empty
\* token  [tag, target, words]: the tags a, /a, script, /script (both also for style),
\*   "src" (any other tag with a link) and "broken" (HTMLParser raises), and "data";
\*   target is <<url>> for a web link
\* word   [kind, host, path, tricky]: a "url", "ip", "mail", "hash" or bare "name";
\*   tricky: user information before the host, or punycode in it
\* host   [labels, parts]: a name's labels, or the numbers of a numeric host
AnyWord ==
  [kind : {"url", "ip", "mail", "hash", "name"},
   host : [labels : Seq(STRING), parts : Seq(Nat)], path : STRING, tricky : BOOLEAN]

AnyToken ==
  [tag : {"a", "/a", "script", "/script", "src", "broken", "data"},
   target : {t \in Seq(AnyWord) : Len(t) <= 1}, words : Seq(AnyWord)]

\* Only a multipart or a forwarded message has parts in it.
ASSUME RawAssumption ==
  \A m \in Raw :
    /\ m.senders \in Seq(Seq(STRING)) /\ m.received \in Seq(AnyWord)
    /\ m.parts \in Seq(ToSet(m.parts))
    /\ \A k \in DOMAIN m.parts :
         /\ m.parts[k].depth \in Nat
         /\ m.parts[k].words \in Seq(AnyWord) /\ m.parts[k].tokens \in Seq(AnyToken)
         /\ k < Len(m.parts) /\ m.parts[k + 1].depth > m.parts[k].depth =>
              m.parts[k].type \in {"multipart", "message"}

VARIABLES
  raw,         \* the message
  phase, pos,  \* what is being read, and where in it
  body_text, body_html, attachments,                        \* ParsedEmail
  skip_depth, anchor, anchor_text, visible_text, links,     \* _HtmlCollector
  urls, link_texts, ips, domains, hashes                    \* extract_iocs

parsed    == <<body_text, body_html, attachments>>
collector == <<skip_depth, anchor, anchor_text, visible_text, links>>
buckets   == <<urls, link_texts, ips, domains, hashes>>
extraction == <<raw, phase, pos, parsed, collector, buckets>>

ExtractionInit ==
  /\ raw \in Raw
  /\ phase = "leaves" /\ pos = 1
  /\ body_text = <<>> /\ body_html = <<>> /\ attachments = <<>>
  /\ skip_depth = 0 /\ anchor = <<>> /\ anchor_text = <<>>
  /\ visible_text = <<>> /\ links = <<>>
  /\ urls = <<>> /\ link_texts = {} /\ ips = <<>> /\ domains = <<>> /\ hashes = <<>>

Capped(s, n) == SubSeq(s, 1, IF Len(s) > n THEN n ELSE Len(s))

-----------------------------------------------------------------------------
(* parse_email *)

\* A multipart with no part in it is a leaf.
Container(k) ==
  /\ raw.parts[k].type # "message"
  /\ k < Len(raw.parts) /\ raw.parts[k + 1].depth > raw.parts[k].depth

\* The part after part k and everything in it.
After(k) ==
  CHOOSE n \in k + 1 .. Len(raw.parts) + 1 :
    /\ n <= Len(raw.parts) => raw.parts[n].depth <= raw.parts[k].depth
    /\ \A i \in k + 1 .. n - 1 : raw.parts[i].depth > raw.parts[k].depth

IsBody(p) == p.type \in {"text", "html"} /\ ~p.attached

Descend ==
  /\ phase = "leaves" /\ pos <= Len(raw.parts) /\ Container(pos)
  /\ pos' = pos + 1
  /\ UNCHANGED <<raw, phase, parsed, collector, buckets>>

Leaf ==
  /\ phase = "leaves" /\ pos <= Len(raw.parts) /\ ~Container(pos)
  /\ LET p == raw.parts[pos]
     IN  /\ body_text' = IF IsBody(p) THEN body_text \o p.words ELSE body_text
         /\ body_html' = IF IsBody(p) THEN body_html \o p.tokens ELSE body_html
         /\ attachments' = IF IsBody(p) THEN attachments ELSE Append(attachments, p)
  /\ pos' = After(pos)
  /\ UNCHANGED <<raw, phase, collector, buckets>>

\* _join_capped, and the parts are read.
EndOfParts ==
  /\ phase = "leaves" /\ pos > Len(raw.parts)
  /\ body_text' = Capped(body_text, MAX_BODY_CHARS)
  /\ body_html' = Capped(body_html, MAX_BODY_CHARS)
  /\ phase' = "html" /\ pos' = 1
  /\ UNCHANGED <<raw, attachments, collector, buckets>>

-----------------------------------------------------------------------------
(* _HtmlCollector *)

Reading(tag) ==
  /\ phase = "html" /\ pos <= Len(body_html)
  /\ body_html[pos].tag = tag

\* Within script and style HTMLParser looks for nothing but the end tag.
InScript ==
  /\ phase = "html" /\ pos <= Len(body_html)
  /\ skip_depth > 0 /\ body_html[pos].tag # "/script"
  /\ pos' = pos + 1
  /\ UNCHANGED <<raw, phase, parsed, collector, buckets>>

\* The links once _finish_anchor has run.
FinishAnchor ==
  IF anchor = <<>> THEN links
  ELSE Append(links, [url |-> anchor[1], text |-> Capped(anchor_text, MAX_LINK_TEXT)])

\* Mutant: an open anchor is forgotten.
StartAnchor_Forgets ==
  /\ Reading("a") /\ skip_depth = 0
  /\ anchor' = body_html[pos].target /\ anchor_text' = <<>>
  /\ pos' = pos + 1
  /\ UNCHANGED <<raw, phase, parsed, skip_depth, visible_text, links, buckets>>

\* <a>: it ends an anchor left open, and starts one if it is a web link.
StartAnchor ==
  /\ Reading("a") /\ skip_depth = 0
  /\ links' = FinishAnchor
  /\ anchor' = body_html[pos].target /\ anchor_text' = <<>>
  /\ pos' = pos + 1
  /\ UNCHANGED <<raw, phase, parsed, skip_depth, visible_text, buckets>>

EndAnchor ==
  /\ Reading("/a") /\ skip_depth = 0
  /\ links' = FinishAnchor
  /\ anchor' = <<>> /\ anchor_text' = <<>>
  /\ pos' = pos + 1
  /\ UNCHANGED <<raw, phase, parsed, skip_depth, visible_text, buckets>>

\* src, action, refresh and the href of area, link and base.
OtherLink ==
  /\ Reading("src") /\ skip_depth = 0
  /\ links' = links \o [k \in DOMAIN body_html[pos].target |->
                          [url |-> body_html[pos].target[k], text |-> <<>>]]
  /\ pos' = pos + 1
  /\ UNCHANGED <<raw, phase, parsed, skip_depth, anchor, anchor_text, visible_text, buckets>>

StartScript ==
  /\ Reading("script") /\ skip_depth = 0
  /\ skip_depth' = skip_depth + 1
  /\ pos' = pos + 1
  /\ UNCHANGED <<raw, phase, parsed, anchor, anchor_text, visible_text, links, buckets>>

EndScript ==
  /\ Reading("/script")
  /\ skip_depth' = IF skip_depth > 0 THEN skip_depth - 1 ELSE 0
  /\ pos' = pos + 1
  /\ UNCHANGED <<raw, phase, parsed, anchor, anchor_text, visible_text, links, buckets>>

Data ==
  /\ Reading("data") /\ skip_depth = 0
  /\ visible_text' = visible_text \o body_html[pos].words
  /\ anchor_text' = IF anchor = <<>> THEN <<>> ELSE anchor_text \o body_html[pos].words
  /\ pos' = pos + 1
  /\ UNCHANGED <<raw, phase, parsed, skip_depth, anchor, links, buckets>>

\* "keep whatever was collected before the parser gave up".
GivesUp ==
  /\ Reading("broken") /\ skip_depth = 0
  /\ pos' = Len(body_html) + 1
  /\ UNCHANGED <<raw, phase, parsed, collector, buckets>>

EndOfHtml ==
  /\ phase = "html" /\ pos > Len(body_html)
  /\ links' = FinishAnchor
  /\ anchor' = <<>> /\ anchor_text' = <<>>
  /\ phase' = "urls" /\ pos' = 1
  /\ UNCHANGED <<raw, parsed, skip_depth, visible_text, buckets>>

-----------------------------------------------------------------------------
(* Hosts *)

\* The place value of number i among four: number << (24 - 8 * (i - 1)).
Place(i) == CASE i = 1 -> Octet * Octet * Octet
              [] i = 2 -> Octet * Octet
              [] i = 3 -> Octet
              [] OTHER -> 1

\* _parse_loose_ipv4 accepts the numbers p: the last one fills the places that are left.
LooseIPv4(p) ==
  /\ Len(p) \in 1 .. 4
  /\ \A i \in 1 .. Len(p) - 1 : p[i] < Octet
  /\ p[Len(p)] < Place(Len(p)) * Octet

\* ... and the address it returns.
Address(p) ==
  LET head(i) == IF i < Len(p) THEN p[i] * Place(i) ELSE 0
  IN  p[Len(p)] + head(1) + head(2) + head(3)

\* What ipaddress.IPv4Address accepts: dotted, four octets.
Dotted(p) == Len(p) = 4 /\ \A i \in 1 .. 4 : p[i] < Octet

IsDomain(labels) == Len(labels) >= 2

-----------------------------------------------------------------------------
(* extract_iocs *)

\* The elements of s that pass the test, in their order.
Filtered(s, Test(_)) ==
  FlattenSeq([k \in DOMAIN s |-> IF Test(s[k]) THEN <<s[k]>> ELSE <<>>])

OfKind(words, kind) == Filtered(words, LAMBDA w : w.kind = kind)

\* What is noted in each phase, in the order of the code.
UrlItems ==
  LET shown == OfKind(body_text, "url") \o OfKind(visible_text, "url")
  IN  [k \in DOMAIN shown |-> [url |-> shown[k], text |-> <<>>]] \o links

\* The addresses that _find_ips finds, in URLs too.
IpsIn(words) ==
  LET found == Filtered(words, LAMBDA w : w.kind \in {"ip", "url"} /\ Dotted(w.host.parts))
  IN  [k \in DOMAIN found |-> Address(found[k].host.parts)]

IpItems == IpsIn(body_text) \o IpsIn(visible_text) \o IpsIn(raw.received)

DomainItems ==
  LET mails == OfKind(body_text, "mail") \o OfKind(visible_text, "mail")
  IN  Filtered(raw.senders \o [k \in DOMAIN mails |-> mails[k].host.labels], IsDomain)

HashItems ==
  LET written == OfKind(body_text, "hash") \o OfKind(visible_text, "hash")
      files   == Filtered(attachments, LAMBDA p : p.digest # "")
  IN  [k \in DOMAIN written |-> written[k].path] \o [k \in DOMAIN files |-> files[k].digest]

Items ==
  CASE phase = "urls"    -> UrlItems
    [] phase = "hosts"   -> urls
    [] phase = "ips"     -> IpItems
    [] phase = "domains" -> DomainItems
    [] phase = "hashes"  -> HashItems
    [] OTHER -> <<>>

\* Mutant: a bucket at its limit takes no more, so that nobody sees it overflow.
Note_NoOverflow(bucket, key) ==
  IF (\E k \in DOMAIN bucket : bucket[k] = key) \/ Len(bucket) >= MAX_PER_KIND
  THEN bucket ELSE Append(bucket, key)

\* A new key is kept, one beyond the limit too: it tells that there was more.
Note(bucket, key) ==
  IF (\E k \in DOMAIN bucket : bucket[k] = key) \/ Len(bucket) > MAX_PER_KIND
  THEN bucket ELSE Append(bucket, key)

Noting(p) == phase = p /\ pos <= Len(Items) /\ pos' = pos + 1

\* Mutant: only the link that brings a URL in gives it its text.
AddUrl_FirstText ==
  /\ Noting("urls")
  /\ LET item == Items[pos]
     IN  /\ urls' = Note(urls, item.url)
         /\ link_texts' = IF urls' # urls /\ item.text # <<>>
                          THEN link_texts \cup {<<item.url, item.text>>} ELSE link_texts
  /\ UNCHANGED <<raw, phase, parsed, collector, ips, domains, hashes>>

\* _add_url: a URL that is known gets the text of a further link.
AddUrl ==
  /\ Noting("urls")
  /\ LET item == Items[pos]
     IN  /\ urls' = Note(urls, item.url)
         /\ link_texts' = IF item.text # <<>> /\ \E k \in DOMAIN urls' : urls'[k] = item.url
                          THEN link_texts \cup {<<item.url, item.text>>} ELSE link_texts
  /\ UNCHANGED <<raw, phase, parsed, collector, ips, domains, hashes>>

\* The host of a URL: the address it stands for, else a domain.
NoteHost ==
  /\ Noting("hosts")
  /\ LET host == urls[pos].host
     IN  /\ ips' = IF LooseIPv4(host.parts) THEN Note(ips, Address(host.parts)) ELSE ips
         /\ domains' = IF ~LooseIPv4(host.parts) /\ IsDomain(host.labels)
                       THEN Note(domains, host.labels) ELSE domains
  /\ UNCHANGED <<raw, phase, parsed, collector, urls, link_texts, hashes>>

NoteIp ==
  /\ Noting("ips")
  /\ ips' = Note(ips, Items[pos])
  /\ UNCHANGED <<raw, phase, parsed, collector, urls, link_texts, domains, hashes>>

NoteDomain ==
  /\ Noting("domains")
  /\ domains' = Note(domains, Items[pos])
  /\ UNCHANGED <<raw, phase, parsed, collector, urls, link_texts, ips, hashes>>

\* Hashes are all kept until they are cut.
NoteHash ==
  /\ Noting("hashes")
  /\ hashes' = IF \E k \in DOMAIN hashes : hashes[k] = Items[pos] THEN hashes
               ELSE Append(hashes, Items[pos])
  /\ UNCHANGED <<raw, phase, parsed, collector, urls, link_texts, ips, domains>>

\* Mutant: what is written in the message comes before the hosts of its URLs.
Order_HostsLast == <<"urls", "ips", "domains", "hashes", "hosts", "done">>

Order == <<"urls", "hosts", "ips", "domains", "hashes", "done">>

NextPhase ==
  /\ pos > Len(Items)
  /\ \E k \in 1 .. Len(Order) - 1 : phase = Order[k] /\ phase' = Order[k + 1]
  /\ pos' = 1
  /\ UNCHANGED <<raw, parsed, collector, buckets>>

ExtractionNext ==
  \/ Descend \/ Leaf \/ EndOfParts
  \/ InScript \/ StartAnchor \/ EndAnchor \/ OtherLink \/ StartScript \/ EndScript
  \/ Data \/ GivesUp \/ EndOfHtml
  \/ AddUrl \/ NoteHost \/ NoteIp \/ NoteDomain \/ NoteHash \/ NextPhase

\* What the Iocs hold of a bucket.
Reported(bucket) == {bucket[k] : k \in {i \in DOMAIN bucket : i <= MAX_PER_KIND}}

\* Iocs.truncated.
Truncated ==
  \/ Len(urls) > MAX_PER_KIND \/ Len(ips) > MAX_PER_KIND
  \/ Len(domains) > MAX_PER_KIND \/ Len(hashes) > MAX_PER_KIND

-----------------------------------------------------------------------------
(* The message, read at once: what the properties compare with *)

\* Part k is in a forwarded message.
Forwarded(k) ==
  \E m \in 1 .. k - 1 : /\ raw.parts[m].type = "message"
                        /\ \A i \in m + 1 .. k : raw.parts[i].depth > raw.parts[m].depth

OwnBody == {k \in DOMAIN raw.parts : IsBody(raw.parts[k]) /\ ~Forwarded(k)}

OwnFiles ==
  {k \in DOMAIN raw.parts : ~IsBody(raw.parts[k]) /\ ~Forwarded(k) /\ ~Container(k)}

Text ==
  Capped(FlattenSeq([k \in DOMAIN raw.parts |->
                       IF k \in OwnBody THEN raw.parts[k].words ELSE <<>>]), MAX_BODY_CHARS)
Html ==
  Capped(FlattenSeq([k \in DOMAIN raw.parts |->
                       IF k \in OwnBody THEN raw.parts[k].tokens ELSE <<>>]), MAX_BODY_CHARS)

\* Token k is between <script> and </script>.
Scripted(k) ==
  \E s \in 1 .. k - 1 : /\ Html[s].tag = "script"
                        /\ \A i \in s + 1 .. k - 1 : Html[i].tag # "/script"

\* The tokens of the document that count: no script, nothing past what is broken.
Readable ==
  {k \in DOMAIN Html : /\ ~Scripted(k)
                       /\ \A i \in 1 .. k : Html[i].tag = "broken" => Scripted(i)}

WordsOf(tokens) ==
  FlattenSeq([k \in DOMAIN Html |-> IF k \in tokens THEN Html[k].words ELSE <<>>])

Anchors == {k \in Readable : Html[k].tag = "a" /\ Html[k].target # <<>>}
Others  == {k \in Readable : Html[k].tag = "src" /\ Html[k].target # <<>>}

\* The words between an anchor's start and the next <a> or </a>.
TextOf(k) ==
  Capped(WordsOf({i \in Readable :
                    /\ i > k /\ Html[i].tag = "data"
                    /\ \A j \in k + 1 .. i : j \in Readable => Html[j].tag \notin {"a", "/a"}}),
         MAX_LINK_TEXT)

ShownLinks == {[url |-> Html[k].target[1], text |-> TextOf(k)] : k \in Anchors}
OtherLinks == {[url |-> Html[k].target[1], text |-> <<>>] : k \in Others}

\* The words of the message as its reader sees them.
Written == Text \o WordsOf({k \in Readable : Html[k].tag = "data"})

WrittenAs(kinds) == {Written[k] : k \in {i \in DOMAIN Written : Written[i].kind \in kinds}}

FoundUrls == WrittenAs({"url"}) \cup {l.url : l \in ShownLinks \cup OtherLinks}

FoundIps ==
  {Address(u.host.parts) : u \in {v \in FoundUrls : LooseIPv4(v.host.parts)}}
  \cup {Address(w.host.parts) :
          w \in {v \in ToSet(Written) \cup ToSet(raw.received) :
                    v.kind \in {"ip", "url"} /\ Dotted(v.host.parts)}}

FoundDomains ==
  {u.host.labels : u \in {v \in FoundUrls : ~LooseIPv4(v.host.parts)} \cup WrittenAs({"mail"})}
  \cup ToSet(raw.senders)

FoundHashes ==
  {w.path : w \in WrittenAs({"hash"})}
  \cup ({raw.parts[k].digest : k \in OwnFiles} \ {""})

-----------------------------------------------------------------------------
(* Properties *)

\* Every link of the HTML is collected once, with the words that stand between its
\* <a> and the next <a> or </a>, however anchors, scripts and the joined parts of a
\* message are left open or broken off.
CollectedExactly ==
  phase = "urls" /\ pos = 1 =>
    /\ ToSet(links) = ShownLinks \cup OtherLinks
    /\ Len(links) = Cardinality(Anchors) + Cardinality(Others)

\* "truncated: some kind hit MAX_PER_KIND and the rest was dropped": what is reported
\* is in the sender's own parts of the message ("quoted text can't masquerade as the
\* sender's own words"), and unless truncated is set nothing of them is missing.
TruncatedIffDropped ==
  phase = "done" =>
    LET kept == <<Reported(urls), Reported(ips), Reported(domains), Reported(hashes)>>
        all  == <<FoundUrls, FoundIps, {d \in FoundDomains : IsDomain(d)}, FoundHashes>>
    IN  /\ \A k \in 1 .. 4 : kept[k] \subseteq all[k]
        /\ Truncated <=> \E k \in 1 .. 4 : kept[k] # all[k]

\* Whatever the message writes besides, the address or the domain of every URL that
\* is reported is reported too: the hosts are noted first, so they fit.
HostsReported ==
  phase = "done" =>
    \A u \in Reported(urls) :
      IF LooseIPv4(u.host.parts) THEN Address(u.host.parts) \in Reported(ips)
      ELSE IsDomain(u.host.labels) => u.host.labels \in Reported(domains)
=============================================================================
