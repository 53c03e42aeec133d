----------------------------- MODULE MCPipeline -----------------------------
(* The pipeline with the rules of Rules, for TLC. *)
EXTENDS Pipeline

MCMaxAttachments == 2
R == INSTANCE Rules WITH MaxAttachments <- MCMaxAttachments

MCRULES == R!Registry
MCRuleId == {"auth", "reply_to", "display_name", "link", "attachment"}
MCKind ==
  {"no_results", "dmarc_fail", "spf_fail", "dkim_fail", "unauthenticated",
   "mismatch", "address_mismatch", "brand", "text_mismatch", "bidi_filename",
   "double_extension", "executable", "type_mismatch", "macro_document",
   "disk_image", "html_file", "archive"}
MCCheck(r, m) == R!RuleCheck(r, m)

Auth(header, spf, dkim, dmarc, received) ==
  [authResults |-> header, spf |-> spf, dkim |-> dkim, dmarc |-> dmarc,
   receivedSpf |-> received]

\* Nothing recorded; all passed; one signature of two passed; an unsigned soft
\* fail; Received-SPF only, failed; two failures; all three.
AuthFacts ==
  {Auth(FALSE, <<>>, <<>>, <<>>, "absent"),
   Auth(TRUE, <<"pass">>, <<"fail", "pass">>, <<"pass">>, "absent"),
   Auth(TRUE, <<"softfail">>, <<"none">>, <<>>, "absent"),
   Auth(TRUE, <<"none">>, <<>>, <<>>, "fail"),
   Auth(FALSE, <<>>, <<>>, <<>>, "fail"),
   Auth(TRUE, <<"fail">>, <<"fail", "fail">>, <<"none">>, "absent"),
   Auth(TRUE, <<"fail">>, <<"fail">>, <<"fail">>, "pass")}

File(ext) == [named |-> TRUE, bidi |-> FALSE, ext |-> ext, disguised |-> FALSE,
              declared |-> FALSE]
Nameless == [File("other") EXCEPT !.named = FALSE, !.declared = TRUE]

AttachmentFacts ==
  {<<>>, <<File("macro")>>, <<File("archive"), File("archive")>>,
   <<File("executable"), File("executable")>>,
   <<[File("executable") EXCEPT !.disguised = TRUE], File("html"), Nameless>>,
   <<[File("executable") EXCEPT !.bidi = TRUE], File("executable")>>,
   <<[File("disk") EXCEPT !.declared = TRUE], Nameless>>}

\* What a forwarded message, an empty multipart and an attached page are.
ForwardedFacts ==
  {<<File("other")>>, <<File("other"), File("html"), File("archive")>>}

Sender(s, replyTo, name) == [sender |-> s, replyTo |-> replyTo, senderName |-> name]

\* No sender to compare with; nothing odd; an answer to webmail; to another
\* organisation under a brand's name; a webmail sender.
SenderFacts ==
  {Sender("none", {"foreignWebmail"}, {"foreignAddress"}),
   Sender("own", {"same"}, {}),
   Sender("own", {"same", "foreignWebmail"}, {}),
   Sender("own", {"foreign"}, {"foreignBrand"}),
   Sender("webmail", {"foreignWebmail"}, {"foreignAddress", "foreignBrand"})}

HeaderFacts == {[authResults |-> a.authResults, spf |-> a.spf, dkim |-> a.dkim,
                 dmarc |-> a.dmarc, receivedSpf |-> a.receivedSpf, sender |-> s.sender,
                 replyTo |-> s.replyTo, senderName |-> s.senderName,
                 links |-> {}, attachments |-> <<>>] : a \in AuthFacts, s \in SenderFacts}

MCMessage ==
  {[h EXCEPT !.links = l, !.attachments = f] :
      h \in HeaderFacts, l \in SUBSET {"honest", "mismatch", "dangerous"},
      f \in AttachmentFacts \cup ForwardedFacts}

-----------------------------------------------------------------------------
(* Words, tokens and parts *)

MCSUFFIXES == {<<"co", "uk">>}

Name(labels) == [labels |-> labels, parts |-> <<>>]
Numeric(parts) == [labels |-> <<>>, parts |-> parts]
Word(kind, host, path) == [kind |-> kind, host |-> host, path |-> path, tricky |-> FALSE]
Url(host) == Word("url", host, "/")

\* Two hosts of one site, another site, and an address in two notations, for Octet = 4.
Bank  == Url(Name(<<"www", "bank", "co", "uk">>))
Login == Url(Name(<<"bank", "co", "uk">>))
Evil  == [Url(Name(<<"evil", "co", "uk">>)) EXCEPT !.tricky = TRUE]
Ip    == Url(Numeric(<<1, 2, 3, 0>>))
Loose == Url(Numeric(<<1, 44>>))
Over  == Url(Numeric(<<1, 64>>))

Token(tag, target, words) == [tag |-> tag, target |-> target, words |-> words]
A(url) == Token("a", <<url>>, <<>>)
Mail   == Token("a", <<>>, <<>>)
End    == Token("/a", <<>>, <<>>)
Says(word) == Token("data", <<>>, <<word>>)

NoFile == File("other")
Part(depth, type) ==
  [depth |-> depth, type |-> type, attached |-> FALSE, words |-> <<>>, tokens |-> <<>>,
   file |-> NoFile, digest |-> ""]
Text_(depth, words) == [Part(depth, "text") EXCEPT !.words = words]
Html_(depth, tokens) == [Part(depth, "html") EXCEPT !.tokens = tokens]
Attached(depth, type, file, digest) ==
  [Part(depth, type) EXCEPT !.attached = TRUE, !.file = file, !.digest = digest]

Message_(facts, parts, senders, received) ==
  [facts |-> facts, parts |-> parts, senders |-> senders, received |-> received]

MCFacts(m) == m.facts
Plain == CHOOSE h \in HeaderFacts :
  h.spf = <<"pass">> /\ h.sender = "own" /\ h.replyTo = {"same"}

-----------------------------------------------------------------------------
(* Every kind of header, with honest or mismatching links and attachments *)

LinkHtml ==
  {<<A(Bank), Says(Login), End>>,
   <<A(Bank), Says(Word("name", Name(<<"evil", "com">>), "")), End>>,
   <<A(Bank), Says(Evil), A(Evil), Says(Bank), End>>}

Varied ==
  {Message_(h, <<Part(0, "multipart"), Html_(1, t)>>
                 \o [k \in DOMAIN f |-> Attached(1, "file", f[k], "")], <<>>, <<>>) :
     h \in HeaderFacts, t \in LinkHtml, f \in AttachmentFacts}

(* Every short HTML document over these tokens, after a text *)

Structure ==
  {A(Bank), End, Says(Login), Token("script", <<>>, <<>>), Token("/script", <<>>, <<>>),
   Token("broken", <<>>, <<>>)}

Tokens ==
  Structure \cup {A(Loose), Mail, Says(Ip), Token("src", <<Evil>>, <<>>)}

Document(words, tokens) ==
  Message_(Plain, <<Part(0, "multipart"), Text_(1, words), Html_(1, tokens)>>,
           << <<"evil", "co", "uk">> >>, <<Word("ip", Numeric(<<2, 2, 2, 2>>), "")>>)

Documents ==
  {Document(<<Word("ip", Numeric(<<3, 3, 3, 3>>), ""), Loose, Over>>, <<A(Evil)>> \o t) :
     t \in [1 .. 2 -> Tokens]}
  \cup {Document(<<>>, <<A(Evil)>> \o t) : t \in [1 .. 3 -> Structure]}

(* Parts in parts, forwarded messages and hashes *)

Forwards ==
  {Message_(Plain, parts, <<<<"localhost">>, <<"bank", "co", "uk">>>>, <<>>) : parts \in
     {<<Part(0, "multipart")>>,
      <<Part(0, "message"), Text_(1, <<Evil>>)>>,
      <<Part(0, "multipart"), Part(1, "multipart"), Text_(2, <<Bank>>),
        Part(2, "message"), Part(3, "multipart"), Html_(4, <<A(Evil), Says(Bank)>>),
        Attached(4, "file", File("executable"), "d1"), Html_(1, <<A(Bank), Says(Login)>>)>>,
      <<Part(0, "multipart"), Text_(1, <<Word("hash", Name(<<>>), "d1"),
                                         Word("mail", Name(<<"evil", "com">>), "")>>),
        Attached(1, "text", File("other"), "d1"), Attached(1, "html", File("html"), "d2"),
        Attached(1, "file", File("archive"), "d3")>>,
      <<Part(0, "multipart"), Html_(1, <<A(Bank), Says(Evil)>>), Html_(1, <<Says(Login), End>>),
        Attached(1, "message", File("other"), "d4"), Text_(2, <<Evil>>), Text_(1, <<Ip>>)>>}}

MCRaw == Varied \cup Documents \cup Forwards
=============================================================================
