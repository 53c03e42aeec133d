--------------------------- MODULE PipelineProofs ---------------------------
(***************************************************************************)
(* Theorems about the analysis of a message, for all messages, limits and   *)
(* rules: each link of the HTML is collected once, a report says whether    *)
(* something of the message is missing from it, and what is reported of a   *)
(* URL includes its host; what the rules reported is in the result,         *)
(* whichever crashed, a mismatching link is among it, the score is the sum  *)
(* of the strongest findings, and the verdict is earned by what scored.     *)
(***************************************************************************)
EXTENDS Pipeline, FiniteSetTheorems, WellFoundedInduction, TLAPS

-----------------------------------------------------------------------------
(* Buckets *)

\* A bucket is a sequence, of whatever its keys are.
IsBucket(b) == b \in Seq({b[k] : k \in 1 .. Len(b)})

LEMMA EmptyBucket == IsBucket(<<>>) /\ Len(<<>>) = 0
  BY DEF IsBucket

\* One key more: what was there stays where it was.
LEMMA Appended ==
  ASSUME NEW b, NEW key, IsBucket(b)
  PROVE  /\ IsBucket(Append(b, key))
         /\ Len(b) \in Nat
         /\ Len(Append(b, key)) = Len(b) + 1
         /\ \A k \in 1 .. Len(b) : Append(b, key)[k] = b[k]
         /\ Append(b, key)[Len(b) + 1] = key
<1> DEFINE old == {b[k] : k \in 1 .. Len(b)}
           wide == old \cup {key}
<1>1. b \in Seq(old)
  BY DEF IsBucket
<1>2. b \in Seq(wide) /\ key \in wide
  BY <1>1
<1> HIDE DEF old, wide
<1>3. /\ Len(b) \in Nat /\ Append(b, key) \in Seq(wide)
      /\ Len(Append(b, key)) = Len(b) + 1
      /\ \A k \in 1 .. Len(b) : Append(b, key)[k] = b[k]
      /\ Append(b, key)[Len(b) + 1] = key
  BY <1>2
<1>4. IsBucket(Append(b, key))
  BY <1>3 DEF IsBucket
<1> QED
  BY <1>3, <1>4

\* _note keeps what is there, grows by one key at most, never beyond one more than
\* the limit, and below the limit the key is in the bucket afterwards.
LEMMA Noted ==
  ASSUME NEW b, NEW key, IsBucket(b)
  PROVE  /\ IsBucket(Note(b, key))
         /\ Len(b) \in Nat
         /\ Len(Note(b, key)) \in {Len(b), Len(b) + 1}
         /\ Len(b) <= MAX_PER_KIND + 1 => Len(Note(b, key)) <= MAX_PER_KIND + 1
         /\ \A k \in 1 .. Len(b) : Note(b, key)[k] = b[k]
         /\ Len(b) <= MAX_PER_KIND =>
              \E k \in 1 .. Len(Note(b, key)) : Note(b, key)[k] = key
<1> DEFINE known == \E k \in DOMAIN b : b[k] = key
<1>0. Len(b) \in Nat /\ DOMAIN b = 1 .. Len(b) /\ MAX_PER_KIND \in Nat
  BY ExtractionAssumption DEF IsBucket
<1>1. CASE known \/ Len(b) > MAX_PER_KIND
  <2>1. Note(b, key) = b
    BY <1>1 DEF Note
  <2> QED
    BY <2>1, <1>0, <1>1
<1>2. CASE ~known /\ ~(Len(b) > MAX_PER_KIND)
  <2>1. Note(b, key) = Append(b, key)
    BY <1>2 DEF Note
  <2> HIDE DEF known
  <2> QED
    BY <2>1, <1>0, <1>2, Appended
<1> QED
  BY <1>1, <1>2

-----------------------------------------------------------------------------
(* Hosts are reported *)

\* The host of URL k is noted, not later in its bucket than the URL is in its own.
HostNoted(k) ==
  /\ LooseIPv4(urls[k].host.parts) =>
       \E j \in 1 .. Len(ips) : j <= k /\ ips[j] = Address(urls[k].host.parts)
  /\ ~LooseIPv4(urls[k].host.parts) /\ IsDomain(urls[k].host.labels) =>
       \E j \in 1 .. Len(domains) : j <= k /\ domains[j] = urls[k].host.labels

AfterHosts == {"ips", "domains", "hashes", "done"}

HostsInv ==
  /\ phase \in {"leaves", "html", "urls", "hosts"} \cup AfterHosts
  /\ IsBucket(urls) /\ IsBucket(ips) /\ IsBucket(domains)
  /\ Len(urls) <= MAX_PER_KIND + 1
  /\ phase \in {"leaves", "html", "urls"} => Len(ips) = 0 /\ Len(domains) = 0
  /\ phase = "hosts" =>
       /\ pos \in 1 .. Len(urls) + 1
       /\ Len(ips) < pos /\ Len(domains) < pos
       /\ \A k \in 1 .. pos - 1 : HostNoted(k)
  /\ phase \in AfterHosts => \A k \in 1 .. Len(urls) : HostNoted(k)

LEMMA HostsInit == ExtractionInit => HostsInv
<1> SUFFICES ASSUME ExtractionInit PROVE HostsInv
  OBVIOUS
<1>1. /\ urls = <<>> /\ ips = <<>> /\ domains = <<>> /\ phase = "leaves"
  BY DEF ExtractionInit
<1> QED
  BY <1>1, EmptyBucket, ExtractionAssumption DEF HostsInv, AfterHosts

\* Buckets that only grow keep the hosts that are noted.
LEMMA StaysNoted ==
  ASSUME NEW k \in Nat, HostNoted(k), urls'[k] = urls[k],
         Len(ips) \in Nat, Len(domains) \in Nat, Len(ips') \in Nat, Len(domains') \in Nat,
         Len(ips') >= Len(ips), Len(domains') >= Len(domains),
         \A j \in 1 .. Len(ips) : ips'[j] = ips[j],
         \A j \in 1 .. Len(domains) : domains'[j] = domains[j]
  PROVE  HostNoted(k)'
<1>1. \A j \in 1 .. Len(ips) : j \in 1 .. Len(ips')
  OBVIOUS
<1>2. \A j \in 1 .. Len(domains) : j \in 1 .. Len(domains')
  OBVIOUS
<1>3. ASSUME LooseIPv4(urls[k].host.parts)
      PROVE  \E j \in 1 .. Len(ips') : j <= k /\ ips'[j] = Address(urls[k].host.parts)
  BY <1>1, <1>3 DEF HostNoted
<1>4. ASSUME ~LooseIPv4(urls[k].host.parts), IsDomain(urls[k].host.labels)
      PROVE  \E j \in 1 .. Len(domains') : j <= k /\ domains'[j] = urls[k].host.labels
  BY <1>2, <1>4 DEF HostNoted
<1> QED
  BY <1>3, <1>4 DEF HostNoted

\* Reading the message leaves the buckets alone.
LEMMA ReadingStep ==
  ASSUME HostsInv, UNCHANGED buckets,
         \/ phase \in {"leaves", "html"} /\ phase' \in {"leaves", "html", "urls"}
         \/ phase' = phase /\ pos' = pos
  PROVE  HostsInv'
<1>1. /\ urls' = urls /\ ips' = ips /\ domains' = domains
  BY DEF buckets
<1>2. ASSUME NEW k PROVE HostNoted(k)' <=> HostNoted(k)
  BY <1>1 DEF HostNoted
<1>3. CASE phase \in {"leaves", "html"} /\ phase' \in {"leaves", "html", "urls"}
  BY <1>1, <1>3 DEF HostsInv, IsBucket, AfterHosts
<1>4. CASE phase' = phase /\ pos' = pos
  BY <1>1, <1>2, <1>4 DEF HostsInv, IsBucket
<1> QED
  BY <1>3, <1>4

\* A URL more, while nothing else is noted.
LEMMA UrlStep ==
  ASSUME HostsInv, AddUrl PROVE HostsInv'
<1> DEFINE key == Items[pos].url
<1>1. /\ phase = "urls" /\ phase' = "urls" /\ urls' = Note(urls, key)
      /\ ips' = ips /\ domains' = domains
  BY DEF AddUrl, Noting
<1> HIDE DEF key
<1>2. IsBucket(urls') /\ Len(urls') <= MAX_PER_KIND + 1
  BY <1>1, Noted DEF HostsInv
<1> QED
  BY <1>1, <1>2 DEF HostsInv, IsBucket, AfterHosts

\* The host of URL pos, which is not beyond the limit of its own bucket, finds room.
LEMMA HostStep ==
  ASSUME HostsInv, NoteHost PROVE HostsInv'
<1> DEFINE host == urls[pos].host
           address == Address(host.parts)
           loose == LooseIPv4(host.parts)
           domain == IsDomain(host.labels)
<1>1. /\ phase = "hosts" /\ phase' = "hosts" /\ urls' = urls /\ pos' = pos + 1
      /\ pos <= Len(urls)
      /\ ips' = IF loose THEN Note(ips, address) ELSE ips
      /\ domains' = IF ~loose /\ domain THEN Note(domains, host.labels) ELSE domains
  BY DEF NoteHost, Noting, Items
<1>2. /\ IsBucket(urls) /\ IsBucket(ips) /\ IsBucket(domains)
      /\ Len(urls) \in Nat /\ Len(ips) \in Nat /\ Len(domains) \in Nat
      /\ MAX_PER_KIND \in Nat
  BY ExtractionAssumption, Noted DEF HostsInv
<1>3. /\ pos \in 1 .. Len(urls) /\ Len(urls) <= MAX_PER_KIND + 1
      /\ Len(ips) < pos /\ Len(domains) < pos
      /\ \A k \in 1 .. pos - 1 : HostNoted(k)
  BY <1>1, <1>2 DEF HostsInv
<1>4. Len(ips) <= MAX_PER_KIND /\ Len(domains) <= MAX_PER_KIND
  BY <1>2, <1>3
<1>5. /\ IsBucket(ips') /\ Len(ips') \in {Len(ips), Len(ips) + 1}
      /\ \A j \in 1 .. Len(ips) : ips'[j] = ips[j]
      /\ loose => \E j \in 1 .. Len(ips') : ips'[j] = address
  <2> HIDE DEF address
  <2>1. CASE loose
    BY <2>1, <1>1, <1>2, <1>4, Noted
  <2>2. CASE ~loose
    BY <2>2, <1>1, <1>2
  <2> QED
    BY <2>1, <2>2
<1>6. /\ IsBucket(domains') /\ Len(domains') \in {Len(domains), Len(domains) + 1}
      /\ \A j \in 1 .. Len(domains) : domains'[j] = domains[j]
      /\ ~loose /\ domain => \E j \in 1 .. Len(domains') : domains'[j] = host.labels
  <2> HIDE DEF host
  <2>1. CASE ~loose /\ domain
    BY <2>1, <1>1, <1>2, <1>4, Noted
  <2>2. CASE ~(~loose /\ domain)
    BY <2>2, <1>1, <1>2
  <2> QED
    BY <2>1, <2>2
<1>7. ASSUME NEW k \in 1 .. pos - 1 PROVE HostNoted(k)'
  <2>1. HostNoted(k) /\ k \in Nat
    BY <1>3
  <2> QED
    BY <2>1, <1>1, <1>2, <1>5, <1>6, StaysNoted
<1>8. ASSUME NEW k, k = pos PROVE HostNoted(k)'
  <2>1. loose => \E j \in 1 .. Len(ips') : j <= pos /\ ips'[j] = address
    BY <1>2, <1>3, <1>5
  <2>2. ~loose /\ domain => \E j \in 1 .. Len(domains') : j <= pos /\ domains'[j] = host.labels
    BY <1>2, <1>3, <1>6
  <2>3. urls'[k] = urls[pos]
    BY <1>1, <1>8
  <2> QED
    BY <2>1, <2>2, <2>3, <1>8 DEF HostNoted
<1>9. ASSUME NEW k \in 1 .. pos' - 1 PROVE HostNoted(k)'
  <2>1. k \in 1 .. pos - 1 \/ k = pos
    BY <1>1, <1>3
  <2> QED
    BY <2>1, <1>7, <1>8
<1>10. /\ pos' \in 1 .. Len(urls') + 1 /\ Len(ips') < pos' /\ Len(domains') < pos'
  BY <1>1, <1>2, <1>3, <1>5, <1>6
<1>11. IsBucket(urls') /\ Len(urls') <= MAX_PER_KIND + 1
  BY <1>1, <1>2, <1>3
<1> HIDE DEF host, address, loose, domain
<1> QED
  BY <1>1, <1>5, <1>6, <1>9, <1>10, <1>11 DEF HostsInv, AfterHosts

\* An IP or a domain more, once the hosts are noted.
LEMMA LaterStep ==
  ASSUME HostsInv, NoteIp \/ NoteDomain \/ NoteHash PROVE HostsInv'
<1>1. /\ phase \in AfterHosts /\ phase' = phase /\ urls' = urls
      /\ ips' = ips \/ ips' = Note(ips, Items[pos])
      /\ domains' = domains \/ domains' = Note(domains, Items[pos])
  BY DEF NoteIp, NoteDomain, NoteHash, Noting, AfterHosts
<1>2. /\ IsBucket(urls) /\ IsBucket(ips) /\ IsBucket(domains)
      /\ Len(urls) \in Nat /\ Len(ips) \in Nat /\ Len(domains) \in Nat
      /\ Len(urls) <= MAX_PER_KIND + 1
      /\ \A k \in 1 .. Len(urls) : HostNoted(k)
  BY <1>1, Noted DEF HostsInv
<1>3. /\ IsBucket(ips') /\ Len(ips') \in {Len(ips), Len(ips) + 1}
      /\ \A j \in 1 .. Len(ips) : ips'[j] = ips[j]
  <2>1. CASE ips' = ips
    BY <2>1, <1>2
  <2>2. CASE ips' = Note(ips, Items[pos])
    BY <2>2, <1>2, Noted
  <2> QED
    BY <2>1, <2>2, <1>1
<1>4. /\ IsBucket(domains') /\ Len(domains') \in {Len(domains), Len(domains) + 1}
      /\ \A j \in 1 .. Len(domains) : domains'[j] = domains[j]
  <2>1. CASE domains' = domains
    BY <2>1, <1>2
  <2>2. CASE domains' = Note(domains, Items[pos])
    BY <2>2, <1>2, Noted
  <2> QED
    BY <2>1, <2>2, <1>1
<1>5. ASSUME NEW k \in 1 .. Len(urls) PROVE HostNoted(k)'
  <2>1. HostNoted(k) /\ k \in Nat
    BY <1>2
  <2> QED
    BY <2>1, <1>1, <1>2, <1>3, <1>4, StaysNoted
<1>6. IsBucket(urls') /\ Len(urls') <= MAX_PER_KIND + 1
  BY <1>1, <1>2
<1>7. \A k \in 1 .. Len(urls') : HostNoted(k)'
  BY <1>1, <1>5
<1> QED
  BY <1>1, <1>3, <1>4, <1>6, <1>7 DEF HostsInv, AfterHosts

\* The hosts' turn starts with nothing noted, and ends past the last URL.
LEMMA PhaseStep ==
  ASSUME HostsInv, NextPhase PROVE HostsInv'
<1>1. /\ urls' = urls /\ ips' = ips /\ domains' = domains /\ pos' = 1
      /\ pos > Len(Items)
      /\ \/ phase = "urls" /\ phase' = "hosts"
         \/ phase \in {"hosts"} \cup AfterHosts /\ phase' \in AfterHosts
  BY DEF NextPhase, buckets, Order, AfterHosts
<1>2. /\ IsBucket(urls) /\ IsBucket(ips) /\ IsBucket(domains)
      /\ Len(urls) \in Nat /\ Len(urls) <= MAX_PER_KIND + 1
  BY Noted DEF HostsInv
<1>3. IsBucket(urls') /\ IsBucket(ips') /\ IsBucket(domains') /\ Len(urls') <= MAX_PER_KIND + 1
  BY <1>1, <1>2
<1>4. ASSUME NEW k PROVE HostNoted(k)' <=> HostNoted(k)
  BY <1>1 DEF HostNoted
<1>5. CASE phase = "urls" /\ phase' = "hosts"
  <2>1. /\ Len(ips') = 0 /\ Len(domains') = 0
        /\ pos' \in 1 .. Len(urls') + 1 /\ 1 .. pos' - 1 = {}
    BY <1>1, <1>2, <1>5 DEF HostsInv
  <2> QED
    BY <2>1, <1>1, <1>3, <1>5 DEF HostsInv, AfterHosts
<1>6. CASE phase \in {"hosts"} \cup AfterHosts /\ phase' \in AfterHosts
  <2>1. \A k \in 1 .. Len(urls) : HostNoted(k)
    <3>1. CASE phase = "hosts"
      <4>1. pos \in 1 .. Len(urls) + 1 /\ \A k \in 1 .. pos - 1 : HostNoted(k)
        BY <3>1 DEF HostsInv
      <4>2. pos > Len(urls)
        BY <1>1, <3>1 DEF Items
      <4> QED
        BY <4>1, <4>2, <1>2
    <3> QED
      BY <3>1, <1>6 DEF HostsInv
  <2>2. \A k \in 1 .. Len(urls') : HostNoted(k)'
    BY <2>1, <1>1, <1>4
  <2> QED
    BY <2>2, <1>3, <1>6 DEF HostsInv, AfterHosts
<1> QED
  BY <1>1, <1>5, <1>6

LEMMA HostsStep ==
  HostsInv /\ [ExtractionNext]_extraction => HostsInv'
<1> SUFFICES ASSUME HostsInv, [ExtractionNext]_extraction PROVE HostsInv'
  OBVIOUS
<1>1. CASE UNCHANGED extraction
  BY <1>1, ReadingStep DEF extraction
<1>2. CASE Descend \/ Leaf \/ EndOfParts
  <2>1. /\ UNCHANGED buckets
        /\ phase \in {"leaves", "html"} /\ phase' \in {"leaves", "html", "urls"}
    BY <1>2 DEF Descend, Leaf, EndOfParts
  <2> QED
    BY <2>1, ReadingStep
<1>3. CASE \/ InScript \/ StartAnchor \/ EndAnchor \/ OtherLink \/ StartScript
           \/ EndScript \/ Data \/ GivesUp \/ EndOfHtml
  <2>1. /\ UNCHANGED buckets
        /\ phase \in {"leaves", "html"} /\ phase' \in {"leaves", "html", "urls"}
    BY <1>3 DEF InScript, StartAnchor, EndAnchor, OtherLink, StartScript, EndScript,
                Data, GivesUp, EndOfHtml, Reading
  <2> QED
    BY <2>1, ReadingStep
<1>4. CASE AddUrl
  BY <1>4, UrlStep
<1>5. CASE NoteHost
  BY <1>5, HostStep
<1>6. CASE NoteIp \/ NoteDomain \/ NoteHash
  BY <1>6, LaterStep
<1>7. CASE NextPhase
  BY <1>7, PhaseStep
<1> QED
  BY <1>1, <1>2, <1>3, <1>4, <1>5, <1>6, <1>7 DEF ExtractionNext

LEMMA HostsReportedAtEnd == HostsInv => HostsReported
<1> SUFFICES ASSUME HostsInv, phase = "done", NEW u \in Reported(urls)
             PROVE  IF LooseIPv4(u.host.parts) THEN Address(u.host.parts) \in Reported(ips)
                    ELSE IsDomain(u.host.labels) => u.host.labels \in Reported(domains)
  BY DEF HostsReported
<1>1. /\ IsBucket(urls) /\ IsBucket(ips) /\ IsBucket(domains)
      /\ \A k \in 1 .. Len(urls) : HostNoted(k)
  BY DEF HostsInv, AfterHosts
<1>2. /\ DOMAIN urls = 1 .. Len(urls) /\ Len(urls) \in Nat
      /\ DOMAIN ips = 1 .. Len(ips) /\ Len(ips) \in Nat
      /\ DOMAIN domains = 1 .. Len(domains) /\ Len(domains) \in Nat
      /\ MAX_PER_KIND \in Nat
  BY <1>1, ExtractionAssumption DEF IsBucket
<1>3. PICK k \in 1 .. Len(urls) : k <= MAX_PER_KIND /\ u = urls[k]
  BY <1>2 DEF Reported
<1>4. HostNoted(k)
  BY <1>1
<1>5. CASE LooseIPv4(u.host.parts)
  <2>1. PICK j \in 1 .. Len(ips) : j <= k /\ ips[j] = Address(u.host.parts)
    BY <1>3, <1>4, <1>5 DEF HostNoted
  <2>2. j \in DOMAIN ips /\ j <= MAX_PER_KIND
    BY <2>1, <1>2, <1>3
  <2>3. ips[j] \in Reported(ips)
    BY <2>2 DEF Reported
  <2> QED
    BY <1>5, <2>1, <2>3
<1>6. CASE ~LooseIPv4(u.host.parts)
  <2> SUFFICES ASSUME IsDomain(u.host.labels)
               PROVE  u.host.labels \in Reported(domains)
    BY <1>6
  <2>1. PICK j \in 1 .. Len(domains) : j <= k /\ domains[j] = u.host.labels
    BY <1>3, <1>4, <1>6 DEF HostNoted
  <2>2. j \in DOMAIN domains /\ j <= MAX_PER_KIND
    BY <2>1, <1>2, <1>3
  <2>3. domains[j] \in Reported(domains)
    BY <2>2 DEF Reported
  <2> QED
    BY <2>1, <2>3
<1> QED
  BY <1>5, <1>6

LEMMA ReadsBeforeRules == ExtractionNext => phase # "rules"
  BY DEF ExtractionNext, Descend, Leaf, EndOfParts, InScript, StartAnchor,
     EndAnchor, OtherLink, StartScript, EndScript, Data, GivesUp, EndOfHtml, Reading,
     AddUrl, NoteHost, NoteIp, NoteDomain, NoteHash, Noting, NextPhase, Order

\* Once the rules run, the indicators are no longer touched.
PipelineInv == phase = "rules" \/ HostsInv

LEMMA PipelineStep ==
  PipelineInv /\ [PipelineNext]_<<extraction, vars>> => PipelineInv'
<1> SUFFICES ASSUME PipelineInv, [PipelineNext]_<<extraction, vars>> PROVE PipelineInv'
  OBVIOUS
<1>1. CASE phase = "rules"
  <2>1. CASE ExtractionNext
    BY <1>1, <2>1, ReadsBeforeRules
  <2>2. CASE Handoff
    BY <2>2 DEF Handoff, PipelineInv
  <2>3. CASE UNCHANGED extraction
    BY <1>1, <2>3 DEF extraction, PipelineInv
  <2> QED
    BY <2>1, <2>2, <2>3 DEF PipelineNext
<1>2. CASE HostsInv
  <2>1. CASE ExtractionNext \/ UNCHANGED extraction
    BY <1>2, <2>1, HostsStep DEF PipelineInv
  <2>2. CASE Handoff
    BY <2>2 DEF Handoff, PipelineInv
  <2> QED
    BY <2>1, <2>2 DEF PipelineNext
<1> QED
  BY <1>1, <1>2 DEF PipelineInv

\* In every analysis, whatever the message, its limits and the rules: the address or
\* the domain of each reported URL is reported when extract_iocs is done.
THEOREM UrlHostsInReport == PipelineSpec => []HostsReported
<1>1. PipelineInit => PipelineInv
  BY HostsInit DEF PipelineInit, PipelineInv
<1>2. PipelineInv => HostsReported
  BY HostsReportedAtEnd DEF PipelineInv, HostsReported
<1> QED
  BY <1>1, <1>2, PipelineStep, PTL DEF PipelineSpec

-----------------------------------------------------------------------------
(* Numeric hosts *)

\* ipaddress.IPv4Address(value) never raises: what _parse_loose_ipv4 lets through
\* stands for an address below Octet^4, whichever of the four notations it uses.
THEOREM LooseAddressFits ==
  ASSUME NEW p \in Seq(Nat), LooseIPv4(p)
  PROVE  Address(p) \in 0 .. Octet * Octet * Octet * Octet - 1
<1>1. /\ Len(p) \in 1 .. 4 /\ \A i \in 1 .. Len(p) : p[i] \in Nat
      /\ \A i \in 1 .. Len(p) - 1 : p[i] < Octet
      /\ p[Len(p)] < Place(Len(p)) * Octet
      /\ Octet \in Nat \ {0}
  BY ExtractionAssumption DEF LooseIPv4
<1> DEFINE o2 == Octet * Octet
           o3 == Octet * Octet * Octet
           o4 == Octet * Octet * Octet * Octet
<1>2. o2 \in Nat /\ o3 \in Nat /\ o4 \in Nat
      /\ o2 * Octet = o3 /\ o3 * Octet = o4
      /\ Octet * o2 = o3 /\ Octet * o3 = o4
  BY <1>1
\* A number in its place, of size q, leaves room for what is below q.
<1>3. ASSUME NEW n \in Nat, NEW q \in Nat, n < Octet
      PROVE  n * q \in Nat /\ n * q + q <= Octet * q
  <2>1. (n + 1) * q <= Octet * q
    BY <1>1, <1>3
  <2> QED
    BY <2>1, <1>1
<1>4. /\ Place(1) = o3 /\ Place(2) = o2 /\ Place(3) = Octet /\ Place(4) = 1
  BY DEF Place
<1> HIDE DEF o2, o3, o4
<1>5. ASSUME NEW n \in Nat, n < Octet
      PROVE  /\ \E a \in Nat : a = n * o3 /\ a + o3 <= o4
             /\ \E a \in Nat : a = n * o2 /\ a + o2 <= o3
             /\ \E a \in Nat : a = n * Octet /\ a + Octet <= o2
  <2>1. n * o3 \in Nat /\ n * o3 + o3 <= o4
    BY <1>2, <1>3, <1>5
  <2>2. n * o2 \in Nat /\ n * o2 + o2 <= o3
    BY <1>2, <1>3, <1>5
  <2>3. n * Octet \in Nat /\ n * Octet + Octet <= o2
    BY <1>1, <1>3, <1>5 DEF o2
  <2> QED
    BY <2>1, <2>2, <2>3
<1>6. o2 \in Nat /\ o3 \in Nat /\ o4 \in Nat /\ Octet \in Nat
  BY <1>1, <1>2
<1>7. Address(p) \in Nat /\ Address(p) < o4
  <2>1. CASE Len(p) = 1
    <3>1. Address(p) = p[1] + 0 + 0 + 0 /\ p[1] \in Nat /\ p[1] < o3 * Octet
      BY <1>1, <1>4, <2>1 DEF Address
    <3> QED
      BY <3>1, <1>2
  <2>2. CASE Len(p) = 2
    <3>1. Address(p) = p[2] + p[1] * o3 + 0 + 0
      BY <1>4, <2>2 DEF Address
    <3>2. /\ p[1] \in Nat /\ p[1] < Octet
          /\ p[2] \in Nat /\ p[2] < o2 * Octet
      BY <1>1, <1>4, <2>2
    <3>3. PICK a \in Nat : a = p[1] * o3 /\ a + o3 <= o4
      BY <3>2, <1>5
    <3>4. Address(p) = p[2] + a /\ p[2] < o3
      BY <3>1, <3>2, <3>3, <1>2
    <3>5. a + o3 <= o4 /\ p[2] \in Nat
      BY <3>2, <3>3
    <3> QED
      BY <3>4, <3>5, <1>6
  <2>3. CASE Len(p) = 3
    <3>1. Address(p) = p[3] + p[1] * o3 + p[2] * o2 + 0
      BY <1>4, <2>3 DEF Address
    <3>2. /\ p[1] \in Nat /\ p[1] < Octet /\ p[2] \in Nat /\ p[2] < Octet
          /\ p[3] \in Nat /\ p[3] < Octet * Octet
      BY <1>1, <1>4, <2>3
    <3>3. PICK a \in Nat : a = p[1] * o3 /\ a + o3 <= o4
      BY <3>2, <1>5
    <3>4. PICK b \in Nat : b = p[2] * o2 /\ b + o2 <= o3
      BY <3>2, <1>5
    <3>5. Address(p) = p[3] + a + b + 0 /\ p[3] < o2
      BY <3>1, <3>2, <3>3, <3>4 DEF o2
    <3>6. a + o3 <= o4 /\ b + o2 <= o3 /\ p[3] \in Nat
      BY <3>2, <3>3, <3>4
    <3> QED
      BY <3>5, <3>6, <1>6
  <2>4. CASE Len(p) = 4
    <3>1. Address(p) = p[4] + p[1] * o3 + p[2] * o2 + p[3] * Octet
      BY <1>4, <2>4 DEF Address
    <3>2. /\ p[1] \in Nat /\ p[1] < Octet /\ p[2] \in Nat /\ p[2] < Octet
          /\ p[3] \in Nat /\ p[3] < Octet /\ p[4] \in Nat /\ p[4] < Octet
      BY <1>1, <1>4, <2>4
    <3>3. PICK a \in Nat : a = p[1] * o3 /\ a + o3 <= o4
      BY <3>2, <1>5
    <3>4. PICK b \in Nat : b = p[2] * o2 /\ b + o2 <= o3
      BY <3>2, <1>5
    <3>5. PICK c \in Nat : c = p[3] * Octet /\ c + Octet <= o2
      BY <3>2, <1>5
    <3>6. Address(p) = p[4] + a + b + c
      BY <3>1, <3>3, <3>4, <3>5
    <3>7. a + o3 <= o4 /\ b + o2 <= o3 /\ c + Octet <= o2 /\ p[4] \in Nat /\ p[4] < Octet
      BY <3>2, <3>3, <3>4, <3>5
    <3>8. ASSUME NEW x \in Nat, x < Octet PROVE x + a + b + c \in Nat /\ x + a + b + c < o4
      <4>1. b + c + Octet <= o3
        BY <3>7, <1>6
      <4>2. a + b + c + Octet <= o4
        BY <4>1, <3>7, <1>6
      <4> QED
        BY <4>2, <3>8, <1>6
    <3>9. p[4] \in Nat /\ p[4] < Octet
      BY <3>7
    <3> QED
      BY <3>6, <3>8, <3>9
  <2> QED
    BY <1>1, <2>1, <2>2, <2>3, <2>4
<1> QED
  BY <1>2, <1>7 DEF o4

-----------------------------------------------------------------------------
(* The score: what assess does with the findings, for every set of rules and *)
(* whatever they find.  The induction is over the findings, strongest first. *)

Positive(i) == i \in DOMAIN points /\ points[i] > 0
SameId(i, j) == Id(findings[i]) = Id(findings[j])

\* No finding that is left is stronger than one that had its turn.
InOrder ==
  \A i \in DOMAIN points : \A j \in Left : findings[j].severity <= findings[i].severity

\* A rule_id scores at most once.
ScoresOnce ==
  \A i, j \in DOMAIN points : Positive(i) /\ Positive(j) /\ SameId(i, j) => i = j

\* Each rule_id that had its turn is credited with its strongest finding.
StrongestCounts ==
  \A i \in DOMAIN points : \E j \in DOMAIN points :
    /\ SameId(i, j)
    /\ points[j] = Points[findings[j].severity]
    /\ \A k \in DOMAIN findings : SameId(i, k) => findings[k].severity <= findings[j].severity

\* One rule_id alone is worth 35 points at most, none at all nothing.
OneIdIsLittle ==
  /\ (\A i \in DOMAIN points : ~Positive(i)) => total = 0
  /\ (\A i, j \in DOMAIN points : Positive(i) /\ Positive(j) => SameId(i, j)) => total <= 35

\* The verdict is taken once all findings had their turn.
ResultIsFinal ==
  \A k \in DOMAIN result :
    /\ at > Len(RULES) /\ Left = {}
    /\ result[k].verdict = "phishing" => total >= phishing_at

Inv == /\ TypeOK /\ InOrder /\ ScoresOnce /\ StrongestCounts /\ OneIdIsLittle
       /\ ResultIsFinal

-----------------------------------------------------------------------------
LEMMA PointsFacts ==
  /\ Points \in [Severity -> 0 .. 35]
  /\ Severity \subseteq Int
  /\ \A s \in Severity : s # INFO => Points[s] > 0
BY DEF Points, Severity, INFO, LOW, MEDIUM, HIGH

\* What TypeOK says of the findings, one by one.
LEMMA FindingFacts ==
  ASSUME TypeOK
  PROVE  /\ Len(findings) \in Nat /\ DOMAIN findings = 1 .. Len(findings)
         /\ \A i \in DOMAIN findings :
              findings[i] \in Finding /\ findings[i].severity \in Severity
<1>1. Len(findings) \in Nat /\ DOMAIN findings = 1 .. Len(findings)
  BY DEF TypeOK
<1>2. \A i \in DOMAIN findings : findings[i] \in Finding
  BY DEF TypeOK
<1>3. \A f \in Finding : f.severity \in Severity
  BY DEF Finding
<1> QED
  BY <1>1, <1>2, <1>3

LEMMA InitInv == Init => Inv
  BY RulesAssumption DEF Init, Inv, TypeOK, InOrder, ScoresOnce, StrongestCounts,
     OneIdIsLittle, ResultIsFinal, Positive

\* While the rules run, nothing has been scored yet.
LEMMA RunRuleInv == Inv /\ RunRule => Inv'
<1> SUFFICES ASSUME Inv, RunRule PROVE Inv'
  OBVIOUS
<1>1. Len(RULES) \in Nat /\ RULES[at] \in RuleId
  BY RulesAssumption DEF Inv, TypeOK, RunRule
<1>2. Check(RULES[at], email) \in Seq(Finding)
  <2>1. Check(RULES[at], email) \in Seq({f \in Finding : f.rule = RULES[at]})
    BY <1>1, CheckAssumption DEF Inv, TypeOK
  <2> QED
    BY <2>1
<1>3. points = <<>> /\ points' = <<>> /\ DOMAIN points = {} /\ DOMAIN points' = {}
  BY DEF Inv, TypeOK, RunRule
<1>4. TypeOK'
  BY <1>1, <1>2, <1>3 DEF Inv, TypeOK, RunRule
<1>5. (InOrder /\ ScoresOnce /\ StrongestCounts)'
  BY <1>3 DEF InOrder, ScoresOnce, StrongestCounts
<1>6. OneIdIsLittle'
  BY <1>3 DEF Inv, OneIdIsLittle, RunRule, Positive
<1>7. ResultIsFinal'
  BY <1>1 DEF Inv, TypeOK, ResultIsFinal, RunRule
<1> QED
  BY <1>4, <1>5, <1>6, <1>7 DEF Inv

LEMMA RuleCrashesInv == Inv /\ RuleCrashes => Inv'
<1> SUFFICES ASSUME Inv, RuleCrashes PROVE Inv'
  OBVIOUS
<1>1. Len(RULES) \in Nat /\ RULES[at] \in RuleId
  BY RulesAssumption DEF Inv, TypeOK, RuleCrashes
<1>2. TypeOK'
  BY <1>1 DEF Inv, TypeOK, RuleCrashes, Id
<1>3. (InOrder /\ ScoresOnce /\ StrongestCounts /\ OneIdIsLittle)'
  BY DEF Inv, RuleCrashes, InOrder, ScoresOnce, StrongestCounts, OneIdIsLittle,
     Positive, SameId, Left, Id
<1>4. ResultIsFinal'
  BY <1>1 DEF Inv, TypeOK, ResultIsFinal, RuleCrashes
<1> QED
  BY <1>2, <1>3, <1>4 DEF Inv

\* The finding that has its turn is a strongest one of those left, and either
\* its rule_id scores for the first time, or it gets nothing.
LEMMA ScoreFindingInv == Inv /\ ScoreFinding => Inv'
<1> SUFFICES ASSUME Inv, ScoreFinding PROVE Inv'
  OBVIOUS
<1>1. PICK i \in DOMAIN findings :
        /\ Ranked(i)
        /\ points' = [j \in DOMAIN points \union {i} |->
                        IF j = i THEN Worth(findings[i]) ELSE points[j]]
        /\ scored' = scored \union {Id(findings[i])}
        /\ total' = total + Worth(findings[i])
  BY DEF ScoreFinding
<1> DEFINE w == Worth(findings[i])
           id(j) == Id(findings[j])
           sev(j) == findings[j].severity
<1>2. /\ i \notin DOMAIN points
      /\ DOMAIN points' = DOMAIN points \union {i}
      /\ points'[i] = w
      /\ \A j \in DOMAIN points : points'[j] = points[j]
      /\ findings' = findings /\ result' = result /\ at' = at /\ errors' = errors
      /\ at > Len(RULES)
  BY <1>1 DEF Ranked, Left, ScoreFinding
<1>3. /\ DOMAIN points \subseteq DOMAIN findings
      /\ points \in [DOMAIN points -> Nat]
      /\ scored = {id(j) : j \in DOMAIN points}
      /\ total \in Nat
      /\ \A j \in DOMAIN findings : sev(j) \in Severity /\ sev(j) \in Int
  BY FindingFacts, PointsFacts DEF Inv, TypeOK
<1>4. /\ w \in 0 .. 35 /\ w \in Nat
      /\ w = 0 \/ id(i) \notin scored
      /\ id(i) \notin scored => w = Points[sev(i)]
  BY <1>3, PointsFacts DEF Worth
<1>5. \A j \in DOMAIN findings :
        j \notin DOMAIN points => sev(j) <= sev(i)
  BY <1>1, <1>3 DEF Ranked, Left
<1>6. \A j \in DOMAIN points : sev(i) <= sev(j)
  BY <1>2, <1>3 DEF Inv, InOrder, Left
<1>7. TypeOK'
  <2>1. points' \in [DOMAIN points' -> Nat] /\ DOMAIN points' \subseteq DOMAIN findings'
    BY <1>1, <1>2, <1>3, <1>4
  <2>2. scored' = {Id(findings'[j]) : j \in DOMAIN points'}
    BY <1>1, <1>2, <1>3
  <2>3. total' \in Nat
    BY <1>1, <1>3, <1>4
  <2>4. at' <= Len(RULES)' => points' = <<>>
    BY <1>2, RulesAssumption DEF Inv, TypeOK
  <2> QED
    BY <1>2, <2>1, <2>2, <2>3, <2>4 DEF Inv, TypeOK, ScoreFinding
<1>8. InOrder'
  BY <1>2, <1>3, <1>5, <1>6 DEF Inv, InOrder, Left
<1>9. ScoresOnce'
  <2> SUFFICES ASSUME NEW j \in DOMAIN points', NEW k \in DOMAIN points',
                      points'[j] > 0, points'[k] > 0, id(j) = id(k)
               PROVE  j = k
    BY <1>2 DEF ScoresOnce, Positive, SameId
  <2>1. CASE j # i /\ k # i
    BY <2>1, <1>2 DEF Inv, ScoresOnce, Positive, SameId
  <2>2. CASE j = i /\ k # i
    BY <2>2, <1>2, <1>3, <1>4
  <2>3. CASE j # i /\ k = i
    BY <2>3, <1>2, <1>3, <1>4
  <2> QED
    BY <2>1, <2>2, <2>3
<1>10. StrongestCounts'
  <2> SUFFICES ASSUME NEW j \in DOMAIN points'
               PROVE  \E k \in DOMAIN points' :
                        /\ id(j) = id(k)
                        /\ points'[k] = Points[sev(k)]
                        /\ \A l \in DOMAIN findings : id(j) = id(l) => sev(l) <= sev(k)
    BY <1>2 DEF StrongestCounts, SameId
  <2>1. CASE id(j) \in scored
    <3>1. PICK h \in DOMAIN points : id(h) = id(j)
      BY <2>1, <1>3
    <3>2. PICK k \in DOMAIN points :
            /\ id(h) = id(k)
            /\ points[k] = Points[sev(k)]
            /\ \A l \in DOMAIN findings : id(h) = id(l) => sev(l) <= sev(k)
      BY DEF Inv, StrongestCounts, SameId
    <3> QED
      BY <3>1, <3>2, <1>2
  <2>2. CASE id(j) \notin scored
    <3>1. j = i /\ points'[i] = Points[sev(i)]
      BY <2>2, <1>2, <1>3, <1>4
    <3>2. \A l \in DOMAIN findings : id(i) = id(l) => sev(l) <= sev(i)
      BY <2>2, <3>1, <1>3, <1>5
    <3> QED
      BY <3>1, <3>2, <1>2
  <2> QED
    BY <2>1, <2>2
<1>11. OneIdIsLittle'
  <2>1. CASE w = 0
    <3>1. total' = total /\ \A j : Positive(j)' <=> Positive(j)
      BY <2>1, <1>1, <1>2, <1>3 DEF Positive
    <3> QED
      BY <3>1, <1>2 DEF Inv, OneIdIsLittle, Positive, SameId
  <2>2. CASE w > 0
    <3>1. Positive(i)' /\ \A j \in DOMAIN points : Positive(j) => Positive(j)' /\ id(j) # id(i)
      BY <2>2, <1>2, <1>3, <1>4 DEF Positive
    <3>2. ASSUME \A j, k \in DOMAIN points' : Positive(j)' /\ Positive(k)' => SameId(j, k)'
          PROVE  total' <= 35
      <4>1. \A j \in DOMAIN points : ~Positive(j)
        BY <3>1, <3>2, <1>2 DEF SameId
      <4>2. total = 0
        BY <4>1 DEF Inv, OneIdIsLittle
      <4> QED
        BY <4>2, <1>1, <1>4
    <3> QED
      BY <3>1, <3>2, <1>2 DEF OneIdIsLittle
  <2> QED
    BY <2>1, <2>2, <1>4
<1>12. ResultIsFinal'
  BY <1>1, <1>2 DEF Inv, ResultIsFinal, Ranked
<1> QED
  BY <1>7, <1>8, <1>9, <1>10, <1>11, <1>12 DEF Inv

LEMMA AssessInv == Inv /\ Assess => Inv'
<1> SUFFICES ASSUME Inv, Assess PROVE Inv'
  OBVIOUS
<1> DEFINE score == IF total > max_score THEN max_score ELSE total
<1>1. /\ result' = <<[score |-> score, verdict |-> VerdictOf(score),
                      complete |-> errors = <<>>, alert |-> Alert(VerdictOf(score))]>>
      /\ at > Len(RULES) /\ Left = {}
  BY DEF Assess
<1>2. DOMAIN result' = {1} /\ result'[1].score = score
      /\ result'[1].verdict = VerdictOf(score)
  BY <1>1
<1>3. score \in 0 .. max_score /\ (score >= phishing_at => total >= phishing_at)
  <2>1. total \in Nat
    BY DEF Inv, TypeOK
  <2> QED
    BY <2>1 DEF max_score, phishing_at
<1>4. /\ VerdictOf(score) \in Verdict
      /\ VerdictOf(score) = "phishing" => score >= phishing_at
  BY <1>3 DEF VerdictOf, Verdict, phishing_at, suspicious_at, max_score
<1>5. TypeOK'
  BY <1>2, <1>3, <1>4 DEF Inv, TypeOK, Assess, Id
<1>6. (InOrder /\ ScoresOnce /\ StrongestCounts /\ OneIdIsLittle)'
  BY DEF Inv, Assess, InOrder, ScoresOnce, StrongestCounts, OneIdIsLittle, Positive,
     SameId, Left, Id
<1>7. ResultIsFinal'
  BY <1>1, <1>2, <1>3, <1>4 DEF ResultIsFinal, Assess, Left
<1> QED
  BY <1>5, <1>6, <1>7 DEF Inv

LEMMA StutterInv == Inv /\ UNCHANGED vars => Inv'
  BY DEF Inv, vars, TypeOK, InOrder, ScoresOnce, StrongestCounts, OneIdIsLittle,
     ResultIsFinal, Positive, SameId, Left, Id

LEMMA NextInv == Inv /\ [Next]_vars => Inv'
  BY RunRuleInv, RuleCrashesInv, ScoreFindingInv, AssessInv, StutterInv DEF Next

-----------------------------------------------------------------------------
\* Type correctness of the pipeline, for every set of rules and messages.
THEOREM TypeCorrect == Spec => []TypeOK
<1>1. Inv => TypeOK
  BY DEF Inv
<1> QED
  BY InitInv, NextInv, <1>1, PTL DEF Spec

LEMMA PhishingTakesTwo == Inv => NoSingleSignal
<1> SUFFICES ASSUME Inv, NEW k \in DOMAIN result, result[k].verdict = "phishing",
                    ~ \E i, j \in DOMAIN points :
                        points[i] > 0 /\ points[j] > 0 /\ Id(findings[i]) # Id(findings[j])
             PROVE  FALSE
  BY DEF NoSingleSignal
<1>1. total >= 60
  BY DEF Inv, ResultIsFinal, phishing_at
<1>2. \A i, j \in DOMAIN points : Positive(i) /\ Positive(j) => SameId(i, j)
  BY DEF Positive, SameId
<1>3. total <= 35
  BY <1>2 DEF Inv, OneIdIsLittle
<1> QED
  BY <1>1, <1>3 DEF Inv, TypeOK

\* "One HIGH signal alone is therefore only SUSPICIOUS": with the code's weights
\* and thresholds, whatever the rules are, phishing takes two rule_ids.
THEOREM TwoSignals == Spec => []NoSingleSignal
<1> QED
  BY InitInv, NextInv, PhishingTakesTwo, PTL DEF Spec

\* "Within one rule_id only the first finding scores", and the first is the
\* strongest, for every set of rules: also for rules that report one rule_id with
\* several severities, as none of the shipped ones does.
THEOREM StrongestScoresOnce == Spec => [](ScoresOnce /\ StrongestCounts)
<1>1. Inv => ScoresOnce /\ StrongestCounts
  BY DEF Inv
<1> QED
  BY InitInv, NextInv, <1>1, PTL DEF Spec

-----------------------------------------------------------------------------
(* Sums *)

\* Every set of naturals has a least element: the form that induction takes below.
LEMMA HasLeast ==
  ASSUME NEW S, S \subseteq Nat, S # {}
  PROVE  \E n \in S : \A m \in S : n <= m
<1> DEFINE Less == {p \in Nat \X Nat : p[1] < p[2]}
<1>0. IsWellFoundedOn(Less, Nat)
  BY NatLessThanWellFounded DEF OpToRel
<1>1. PICK n \in S : \A m \in S : ~ (<<m, n>> \in Less)
  BY <1>0, WFMin
<1>2. \A m \in S : m < n => <<m, n>> \in Less
  OBVIOUS
<1>3. ASSUME NEW m \in S PROVE n <= m
  <2>1. ~(m < n) /\ m \in Nat /\ n \in Nat
    BY <1>1, <1>2
  <2> QED
    BY <2>1
<1> QED
  BY <1>3

Some(s) == CHOOSE x \in s : TRUE

\* The sum of f over s, by the sums over smaller sets.
SumBy(f, sums, s) == IF s = {} THEN 0 ELSE f[Some(s)] + sums[s \ {Some(s)}]

AreSums(f, sums, T) == \A s \in SUBSET T : sums[s] = SumBy(f, sums, s)

\* One element less.
LEMMA Without ==
  ASSUME NEW s, IsFiniteSet(s), NEW x \in s
  PROVE  /\ IsFiniteSet(s \ {x}) /\ Cardinality(s) \in Nat /\ Cardinality(s \ {x}) \in Nat
         /\ Cardinality(s) = Cardinality(s \ {x}) + 1
<1>1. IsFiniteSet(s \ {x}) /\ Cardinality(s \ {x}) = Cardinality(s) - 1
  BY FS_RemoveElement
<1>2. Cardinality(s) \in Nat /\ Cardinality(s \ {x}) \in Nat
  BY <1>1, FS_CardinalityType
<1> QED
  BY <1>1, <1>2

LEMMA SomeIn == ASSUME NEW s, s # {} PROVE Some(s) \in s
BY DEF Some

\* There is a function that gives the sum of each subset: it is built for larger
\* and larger ones.
LEMMA SumsExist ==
  ASSUME NEW f, NEW T, IsFiniteSet(T)
  PROVE  \E sums : sums = [s \in SUBSET T |-> SumBy(f, sums, s)]
<1> DEFINE Upto(sums, n) ==
             /\ sums = [s \in SUBSET T |-> sums[s]]
             /\ \A s \in SUBSET T : Cardinality(s) <= n => sums[s] = SumBy(f, sums, s)
           Bad == {n \in Nat : ~ \E sums : Upto(sums, n)}
<1>0. \A s \in SUBSET T : IsFiniteSet(s) /\ Cardinality(s) \in Nat /\ Cardinality(s) <= Cardinality(T)
  BY FS_Subset, FS_CardinalityType
<1>1. 0 \notin Bad
  <2> DEFINE none == [s \in SUBSET T |-> 0]
  <2>1. ASSUME NEW s \in SUBSET T, Cardinality(s) <= 0 PROVE none[s] = SumBy(f, none, s)
    <3>1. Cardinality(s) = 0
      BY <1>0, <2>1
    <3>2. s = {}
      BY <1>0, <3>1, FS_EmptySet
    <3> QED
      BY <3>2 DEF SumBy
  <2>2. Upto(none, 0)
    BY <2>1
  <2> QED
    BY <2>2
<1>2. ASSUME NEW n \in Nat, n \notin Bad PROVE n + 1 \notin Bad
  <2>1. PICK sums : Upto(sums, n)
    BY <1>2
  <2> DEFINE more == [s \in SUBSET T |-> IF Cardinality(s) <= n THEN sums[s] ELSE SumBy(f, sums, s)]
  <2>2. ASSUME NEW s \in SUBSET T, Cardinality(s) <= n + 1 PROVE more[s] = SumBy(f, more, s)
    <3>1. more[s] = SumBy(f, sums, s)
      BY <2>1
    <3>2. CASE s = {}
      BY <3>1, <3>2 DEF SumBy
    <3>3. CASE s # {}
      <4> DEFINE rest == s \ {Some(s)}
      <4>1. Some(s) \in s
        BY <3>3, SomeIn
      <4>2. Cardinality(s) = Cardinality(rest) + 1 /\ Cardinality(rest) \in Nat
        BY <1>0, <4>1, Without
      <4>3. rest \in SUBSET T /\ Cardinality(rest) <= n
        BY <2>2, <4>2, <1>0
      <4>4. more[rest] = sums[rest]
        BY <4>3
      <4> QED
        BY <3>1, <3>3, <4>4 DEF SumBy
    <3> QED
      BY <3>2, <3>3
  <2>3. Upto(more, n + 1)
    BY <2>2
  <2> QED
    BY <2>3
<1> HIDE DEF Bad
<1>3. Bad = {}
  <2> SUFFICES ASSUME Bad # {} PROVE FALSE
    OBVIOUS
  <2>1. PICK n \in Bad : \A m \in Bad : n <= m
    <3>1. Bad \subseteq Nat
      BY DEF Bad
    <3> QED
      BY <3>1, HasLeast
  <2>2. n \in Nat /\ n # 0
    BY <1>1 DEF Bad
  <2>3. n - 1 \in Nat /\ n - 1 \notin Bad /\ (n - 1) + 1 = n
    BY <2>1, <2>2
  <2> QED
    BY <1>2, <2>3
<1>4. PICK sums : Upto(sums, Cardinality(T))
  <2>1. Cardinality(T) \in Nat
    BY <1>0
  <2> QED
    BY <1>3, <2>1 DEF Bad
<1>5. \A s \in SUBSET T : sums[s] = SumBy(f, sums, s)
  BY <1>0, <1>4
<1> QED
  BY <1>4, <1>5

LEMMA SumIs ==
  ASSUME NEW f, NEW T, IsFiniteSet(T)
  PROVE  \E sums : AreSums(f, sums, T) /\ SumFunctionOnSet(f, T) = sums[T]
<1> DEFINE It == CHOOSE sums : sums = [s \in SUBSET T |-> SumBy(f, sums, s)]
<1>1. SumFunctionOnSet(f, T) = It[T]
  BY DEF SumFunctionOnSet, FoldFunctionOnSet, MapThenFoldSet, SumBy, Some
<1>2. It = [s \in SUBSET T |-> SumBy(f, It, s)]
  BY SumsExist
<1> HIDE DEF It
<1>3. AreSums(f, It, T)
  <2> SUFFICES ASSUME NEW s \in SUBSET T PROVE It[s] = SumBy(f, It, s)
    BY DEF AreSums
  <2> QED
    BY <1>2
<1> QED
  BY <1>1, <1>3

\* Sums are of naturals, and do not depend on the order.
LEMMA SumsAdd ==
  ASSUME NEW T, IsFiniteSet(T), NEW f, \A y \in T : f[y] \in Nat, NEW sums, AreSums(f, sums, T)
  PROVE  \A s \in SUBSET T : sums[s] \in Nat /\ \A x \in s : sums[s] = f[x] + sums[s \ {x}]
<1> DEFINE Good(s) == sums[s] \in Nat /\ \A x \in s : sums[s] = f[x] + sums[s \ {x}]
           Bad == {n \in Nat : \E s \in SUBSET T : Cardinality(s) = n /\ ~Good(s)}
<1>0. \A s \in SUBSET T : IsFiniteSet(s) /\ Cardinality(s) \in Nat
  BY FS_Subset, FS_CardinalityType
<1> SUFFICES ASSUME Bad # {} PROVE FALSE
  BY <1>0
<1>1. PICK n \in Bad : \A m \in Bad : n <= m
  BY HasLeast
<1>2. PICK s \in SUBSET T : Cardinality(s) = n /\ ~Good(s)
  BY <1>1
<1>3. \A r \in SUBSET T : Cardinality(r) < n => Good(r)
  <2> SUFFICES ASSUME NEW r \in SUBSET T, Cardinality(r) < n, ~Good(r) PROVE FALSE
    OBVIOUS
  <2>1. Cardinality(r) \in Bad /\ n \in Nat /\ Cardinality(r) \in Nat
    BY <1>0, <1>1
  <2> QED
    BY <1>1, <2>1
<1> HIDE DEF Bad
<1>4. CASE s = {}
  <2>1. sums[s] = 0
    BY <1>4 DEF AreSums, SumBy
  <2> QED
    BY <1>2, <1>4, <2>1
<1>5. CASE s # {}
  <2> DEFINE y == Some(s)
  <2>1. y \in s
    BY <1>5, SomeIn
  <2>2. sums[s] = f[y] + sums[s \ {y}]
    BY <1>5 DEF AreSums, SumBy
  <2> HIDE DEF y
  <2>3. \A x \in s : Cardinality(s \ {x}) < n /\ IsFiniteSet(s \ {x})
    BY <1>0, <1>2, Without
  <2>4. \A x \in s : Good(s \ {x})
    BY <1>3, <2>3
  <2>5. sums[s] \in Nat
    <3>1. f[y] \in Nat /\ sums[s \ {y}] \in Nat
      BY <2>1, <2>4
    <3> QED
      BY <2>2, <3>1
  <2>6. ASSUME NEW x \in s, x # y PROVE sums[s] = f[x] + sums[s \ {x}]
    <3>1. x \in s \ {y} /\ y \in s \ {x} /\ (s \ {y}) \ {x} = (s \ {x}) \ {y}
      BY <2>1, <2>6
    <3> DEFINE r == (s \ {y}) \ {x}
    <3>2. sums[s \ {y}] = f[x] + sums[r] /\ sums[s \ {x}] = f[y] + sums[r]
      BY <3>1, <2>1, <2>4
    <3>3. Cardinality(r) < n
      <4>1. Cardinality(r) + 1 = Cardinality(s \ {y}) /\ Cardinality(r) \in Nat
        BY <3>1, <2>1, <2>3, Without
      <4>2. Cardinality(s \ {y}) < n /\ Cardinality(s \ {y}) \in Nat /\ n \in Nat
        BY <2>1, <2>3, <1>0, <1>2
      <4> QED
        BY <4>1, <4>2
    <3>4. sums[r] \in Nat
      BY <1>3, <3>3
    <3> HIDE DEF r
    <3>5. f[x] \in Nat /\ f[y] \in Nat
      BY <2>1
    <3> QED
      BY <2>2, <3>2, <3>4, <3>5
  <2>7. Good(s)
    BY <2>2, <2>5, <2>6
  <2> QED
    BY <1>2, <2>7
<1> QED
  BY <1>4, <1>5

\* The sums over the subsets of a larger set are the same.
LEMMA SumsAgree ==
  ASSUME NEW T, IsFiniteSet(T), NEW f, NEW sums, AreSums(f, sums, T),
         NEW U \in SUBSET T, NEW fewer, AreSums(f, fewer, U)
  PROVE  \A s \in SUBSET U : sums[s] = fewer[s]
<1> DEFINE Bad == {n \in Nat : \E s \in SUBSET U : Cardinality(s) = n /\ sums[s] # fewer[s]}
<1>0. \A s \in SUBSET U : IsFiniteSet(s) /\ Cardinality(s) \in Nat /\ s \in SUBSET T
  BY FS_Subset, FS_CardinalityType
<1> SUFFICES ASSUME Bad # {} PROVE FALSE
  BY <1>0
<1>1. PICK n \in Bad : \A m \in Bad : n <= m
  BY HasLeast
<1>2. PICK s \in SUBSET U : Cardinality(s) = n /\ sums[s] # fewer[s]
  BY <1>1
<1>3. CASE s = {}
  BY <1>0, <1>2, <1>3 DEF AreSums, SumBy
<1>4. CASE s # {}
  <2> DEFINE r == s \ {Some(s)}
  <2>1. r \in SUBSET U /\ Cardinality(s) = Cardinality(r) + 1 /\ Cardinality(r) \in Nat
    BY <1>0, <1>4, SomeIn, Without
  <2>2. sums[s] = f[Some(s)] + sums[r] /\ fewer[s] = f[Some(s)] + fewer[r]
    BY <1>0, <1>4 DEF AreSums, SumBy
  <2>3. Cardinality(r) \in Bad
    BY <1>2, <2>1, <2>2
  <2> QED
    <3>1. n <= Cardinality(r) /\ n = Cardinality(r) + 1
      BY <1>1, <1>2, <2>1, <2>3
    <3> QED
      BY <2>1, <3>1
<1> QED
  BY <1>3, <1>4

\* What the proofs below use: the empty sum, and a sum with one element more.
LEMMA SumOfNone == ASSUME NEW f PROVE SumFunctionOnSet(f, {}) = 0
BY SumIs, FS_EmptySet DEF AreSums, SumBy

LEMMA SumOfMore ==
  ASSUME NEW T, IsFiniteSet(T), NEW f, NEW x, x \notin T, \A y \in T \cup {x} : f[y] \in Nat
  PROVE  /\ SumFunctionOnSet(f, T) \in Nat
         /\ SumFunctionOnSet(f, T \cup {x}) = SumFunctionOnSet(f, T) + f[x]
<1> DEFINE more == T \cup {x}
<1>1. IsFiniteSet(more)
  BY FS_AddElement
<1>2. PICK sums : AreSums(f, sums, more) /\ SumFunctionOnSet(f, more) = sums[more]
  BY <1>1, SumIs
<1>3. PICK fewer : AreSums(f, fewer, T) /\ SumFunctionOnSet(f, T) = fewer[T]
  BY SumIs
<1>4. fewer[T] = sums[T]
  <2>1. T \in SUBSET more /\ T \in SUBSET T
    OBVIOUS
  <2> HIDE DEF more
  <2>2. \A s \in SUBSET T : sums[s] = fewer[s]
    BY <1>1, <1>2, <1>3, <2>1, SumsAgree
  <2> QED
    BY <2>1, <2>2
<1>5. more \ {x} = T
  OBVIOUS
<1>6. sums[T] \in Nat /\ sums[more] = f[x] + sums[T]
  <2>0. (\A y \in more : f[y] \in Nat) /\ T \in SUBSET more /\ more \in SUBSET more /\ x \in more
    OBVIOUS
  <2> HIDE DEF more
  <2>1. \A s \in SUBSET more : sums[s] \in Nat /\ \A y \in s : sums[s] = f[y] + sums[s \ {y}]
    BY <1>1, <1>2, <2>0, SumsAdd
  <2> QED
    BY <1>5, <2>0, <2>1
<1>7. f[x] \in Nat
  OBVIOUS
<1> QED
  BY <1>2, <1>3, <1>4, <1>6, <1>7

-----------------------------------------------------------------------------
(* The score is the sum of what the strongest finding of each rule_id is worth *)

FoundIds == {Id(findings[i]) : i \in DOMAIN findings}

WorthOf(id) == {Points[findings[i].severity] : i \in {j \in DOMAIN findings : Id(findings[j]) = id}}

\* What a rule_id is worth by its strongest finding.
Best == [id \in FoundIds |-> CHOOSE p \in WorthOf(id) : \A q \in WorthOf(id) : p >= q]

\* The total is the sum over the rule_ids that had their turn ...
TotalIsBest == total = SumFunctionOnSet(Best, scored)

\* ... and it is capped for the result.
ScoreIsTotal ==
  \A k \in DOMAIN result : result[k].score = IF total > max_score THEN max_score ELSE total

SumInv == Inv /\ IsFiniteSet(scored) /\ TotalIsBest /\ ScoreIsTotal

LEMMA PointsGrow ==
  \A s, t \in Severity : s <= t => Points[s] <= Points[t]
BY DEF Points, Severity, INFO, LOW, MEDIUM, HIGH

LEMMA FindingWorth ==
  ASSUME TypeOK, NEW i \in DOMAIN findings
  PROVE  findings[i].severity \in Severity /\ Points[findings[i].severity] \in Nat
<1>1. findings[i].severity \in Severity
  BY FindingFacts
<1>2. Points[findings[i].severity] \in 0 .. 35
  BY <1>1, PointsFacts
<1> QED
  BY <1>1, <1>2

\* A finding that no other one with its rule_id surpasses decides what that is worth.
LEMMA BestIs ==
  ASSUME TypeOK, NEW i \in DOMAIN findings,
         \A j \in DOMAIN findings : SameId(i, j) => findings[j].severity <= findings[i].severity
  PROVE  Id(findings[i]) \in FoundIds /\ Best[Id(findings[i])] = Points[findings[i].severity]
<1> DEFINE id == Id(findings[i])
           p == Points[findings[i].severity]
<1>1. \A j \in DOMAIN findings : /\ findings[j].severity \in Severity
                                 /\ Points[findings[j].severity] \in Int
  BY FindingWorth
<1>2. id \in FoundIds /\ p \in WorthOf(id) /\ p \in Int
  BY <1>1 DEF FoundIds, WorthOf
<1>3. \A q \in WorthOf(id) : q \in Int /\ p >= q
  BY <1>1, PointsGrow DEF WorthOf, SameId
<1> DEFINE best == CHOOSE q \in WorthOf(id) : \A r \in WorthOf(id) : q >= r
<1>4. Best[id] = best
  BY <1>2 DEF Best
<1>5. best \in WorthOf(id) /\ \A r \in WorthOf(id) : best >= r
  BY <1>2, <1>3
<1> HIDE DEF best, id, p
<1>6. best = p
  BY <1>2, <1>3, <1>5
<1> QED
  BY <1>2, <1>4, <1>6 DEF id, p

LEMMA SumInit == Init => SumInv
<1> SUFFICES ASSUME Init PROVE SumInv
  OBVIOUS
<1>1. scored = {} /\ total = 0 /\ result = <<>>
  BY DEF Init
<1> QED
  BY <1>1, InitInv, SumOfNone, FS_EmptySet DEF SumInv, TotalIsBest, ScoreIsTotal

\* While the rules run no rule_id had its turn.
LEMMA RulesSum == SumInv /\ (RunRule \/ RuleCrashes) => SumInv'
<1> SUFFICES ASSUME SumInv, RunRule \/ RuleCrashes PROVE SumInv'
  OBVIOUS
<1>1. at <= Len(RULES) /\ UNCHANGED <<points, scored, total, result>>
  BY DEF RunRule, RuleCrashes
<1>2. points = <<>> /\ scored = {}
  BY <1>1 DEF SumInv, Inv, TypeOK
<1>3. total = 0
  BY <1>2, SumOfNone DEF SumInv, TotalIsBest
<1>4. TotalIsBest'
  BY <1>1, <1>2, <1>3, SumOfNone DEF TotalIsBest
<1> QED
  BY <1>1, <1>4, RunRuleInv, RuleCrashesInv DEF SumInv, ScoreIsTotal

LEMMA ScoreFindingSum == SumInv /\ ScoreFinding => SumInv'
<1> SUFFICES ASSUME SumInv, ScoreFinding PROVE SumInv'
  OBVIOUS
<1>1. PICK i \in DOMAIN findings :
        /\ Ranked(i)
        /\ scored' = scored \union {Id(findings[i])}
        /\ total' = total + Worth(findings[i])
  BY DEF ScoreFinding
<1>2. /\ findings' = findings /\ result' = result /\ Best' = Best
      /\ \A k \in DOMAIN result : FALSE
  BY <1>1 DEF ScoreFinding, Best, FoundIds, WorthOf, SumInv, Inv, ResultIsFinal, Ranked
<1> DEFINE id == Id(findings[i])
<1>3. CASE id \in scored
  <2>1. Worth(findings[i]) = 0 /\ scored' = scored
    BY <1>1, <1>3 DEF Worth
  <2>2. total' = total
    BY <1>1, <2>1 DEF SumInv, Inv, TypeOK
  <2>3. TotalIsBest'
    BY <2>1, <2>2, <1>2 DEF SumInv, TotalIsBest
  <2> QED
    BY <2>1, <2>3, <1>2, ScoreFindingInv DEF SumInv, ScoreIsTotal
<1>4. CASE id \notin scored
  <2>1. Worth(findings[i]) = Points[findings[i].severity]
    BY <1>4 DEF Worth
  <2>2. ASSUME NEW j \in DOMAIN findings, SameId(i, j)
        PROVE  findings[j].severity <= findings[i].severity
    <3>1. j \in Left
      BY <2>2, <1>4 DEF SumInv, Inv, TypeOK, Left, SameId
    <3>2. findings[j].severity \in Int /\ findings[i].severity \in Int
      BY FindingFacts, PointsFacts DEF SumInv, Inv
    <3> QED
      BY <3>1, <3>2, <1>1 DEF Ranked
  <2>3. Best[id] = Points[findings[i].severity]
    BY <2>2, BestIs DEF SumInv, Inv
  <2>4. Points[findings[i].severity] \in Nat
    BY FindingWorth DEF SumInv, Inv
  <2>5. \A y \in scored : Best[y] \in Nat
    <3> SUFFICES ASSUME NEW h \in DOMAIN points PROVE Best[Id(findings[h])] \in Nat
      BY DEF SumInv, Inv, TypeOK
    <3>1. PICK j \in DOMAIN points :
            /\ SameId(h, j)
            /\ \A k \in DOMAIN findings : SameId(h, k) => findings[k].severity <= findings[j].severity
      BY DEF SumInv, Inv, StrongestCounts
    <3>2. j \in DOMAIN findings
      BY DEF SumInv, Inv, TypeOK
    <3>3. Best[Id(findings[j])] = Points[findings[j].severity]
      BY <3>1, <3>2, BestIs DEF SumInv, Inv, SameId
    <3>4. Points[findings[j].severity] \in Nat
      BY <3>2, FindingWorth DEF SumInv, Inv
    <3> QED
      BY <3>1, <3>3, <3>4 DEF SameId
  <2>6. SumFunctionOnSet(Best, scored \union {id}) = SumFunctionOnSet(Best, scored) + Best[id]
    <3> HIDE DEF id
    <3>1. \A y \in scored \union {id} : Best[y] \in Nat
      BY <2>3, <2>4, <2>5
    <3> QED
      BY <3>1, <1>4, SumOfMore DEF SumInv
  <2>7. TotalIsBest'
    BY <2>1, <2>3, <2>6, <1>1, <1>2 DEF SumInv, TotalIsBest
  <2>8. IsFiniteSet(scored')
    BY <1>1, FS_AddElement DEF SumInv
  <2> QED
    BY <2>7, <2>8, <1>2, ScoreFindingInv DEF SumInv, ScoreIsTotal
<1> QED
  BY <1>3, <1>4

LEMMA AssessSum == SumInv /\ Assess => SumInv'
<1> SUFFICES ASSUME SumInv, Assess PROVE SumInv'
  OBVIOUS
<1>1. UNCHANGED <<findings, scored, total>> /\ Best' = Best
  BY DEF Assess, Best, FoundIds, WorthOf
<1>2. TotalIsBest'
  BY <1>1 DEF SumInv, TotalIsBest
<1>3. ScoreIsTotal'
  <2> DEFINE score == IF total > max_score THEN max_score ELSE total
  <2>1. result' = <<[score |-> score, verdict |-> VerdictOf(score),
                     complete |-> errors = <<>>, alert |-> Alert(VerdictOf(score))]>>
    BY DEF Assess
  <2>2. DOMAIN result' = {1} /\ result'[1].score = score
    BY <2>1
  <2> QED
    BY <2>2, <1>1 DEF ScoreIsTotal
<1> QED
  BY <1>1, <1>2, <1>3, AssessInv DEF SumInv

LEMMA StutterSum == SumInv /\ UNCHANGED vars => SumInv'
<1> SUFFICES ASSUME SumInv, UNCHANGED vars PROVE SumInv'
  OBVIOUS
<1>1. Best' = Best
  BY DEF vars, Best, FoundIds, WorthOf
<1> QED
  BY <1>1, StutterInv DEF vars, SumInv, TotalIsBest, ScoreIsTotal

LEMMA NextSum == SumInv /\ [Next]_vars => SumInv'
  BY RulesSum, ScoreFindingSum, AssessSum, StutterSum DEF Next

LEMMA StrongestIsScore == SumInv => ScoreIsStrongest
<1> SUFFICES ASSUME SumInv, NEW k \in DOMAIN result PROVE
      result[k].score = IF SumFunction(Best) > max_score THEN max_score ELSE SumFunction(Best)
  BY DEF ScoreIsStrongest, Best, FoundIds, WorthOf
<1>1. scored = FoundIds
  BY DEF SumInv, Inv, TypeOK, ResultIsFinal, Left, FoundIds
<1>2. SumFunction(Best) = SumFunctionOnSet(Best, FoundIds)
  BY DEF SumFunction, Best
<1> QED
  BY <1>1, <1>2 DEF SumInv, TotalIsBest, ScoreIsTotal

\* The score does not depend on the order in which rules run or findings are taken up:
\* of every rule_id the strongest finding counts, once, whatever the rules find
\* (assess); so a rule that says the same thing twice adds nothing.
THEOREM ScoresAreStrongest == Spec => []ScoreIsStrongest
<1> QED
  BY SumInit, NextSum, StrongestIsScore, PTL DEF Spec

-----------------------------------------------------------------------------
(* The findings: what a rule reported is in the result *)

Own(r) == {i \in DOMAIN findings : findings[i].rule = r}
Crashed(r) == \E e \in DOMAIN errors : errors[e] = r

\* All that rule r reported stands together.
Reported_(r) ==
  \E start \in 0 .. Len(findings) :
    /\ Own(r) = start + 1 .. start + Len(Check(r, email))
    /\ \A i \in DOMAIN Check(r, email) : findings[start + i] = Check(r, email)[i]

\* Of each rule that had its turn all findings are there, or none if it crashed;
\* and nothing is there of a rule that had no turn.
RulesReported ==
  /\ \A n \in 1 .. at - 1 :
       IF Crashed(RULES[n]) THEN Own(RULES[n]) = {} ELSE Reported_(RULES[n])
  /\ \A i \in DOMAIN findings : \E n \in 1 .. at - 1 : findings[i].rule = RULES[n]
  /\ \A e \in DOMAIN errors : \E n \in 1 .. at - 1 : errors[e] = RULES[n]

\* The result says whether a rule crashed, and its alert is the one of its verdict.
ResultIsOfFindings ==
  \A k \in DOMAIN result :
    /\ result[k].complete <=> errors = <<>>
    /\ result[k].alert = Alert(result[k].verdict)

\* What has points has those of its severity.
PointsAreWorth ==
  \A i \in DOMAIN points : points[i] \in {0, Points[findings[i].severity]}

ReportInv == Inv /\ RulesReported /\ ResultIsOfFindings /\ PointsAreWorth

LEMMA ReportInit == Init => ReportInv
<1> SUFFICES ASSUME Init PROVE ReportInv
  OBVIOUS
<1>1. at = 1 /\ findings = <<>> /\ errors = <<>> /\ points = <<>> /\ result = <<>>
  BY DEF Init
<1> QED
  BY <1>1, InitInv DEF ReportInv, RulesReported, ResultIsOfFindings, PointsAreWorth

\* A rule that had no turn left nothing, and is none of those that had theirs.
LEMMA NextRule ==
  ASSUME ReportInv, at <= Len(RULES)
  PROVE  /\ at \in DOMAIN RULES /\ RULES[at] \in RuleId
         /\ \A n \in 1 .. at - 1 : RULES[n] # RULES[at]
         /\ Own(RULES[at]) = {} /\ ~Crashed(RULES[at])
         /\ \A k \in DOMAIN result : FALSE
<1>1. /\ at \in 1 .. Len(RULES) /\ Len(RULES) \in Nat /\ DOMAIN RULES = 1 .. Len(RULES)
      /\ RULES \in Seq(RuleId)
  BY RulesAssumption DEF ReportInv, Inv, TypeOK
<1>2. \A n \in 1 .. at - 1 : n \in DOMAIN RULES /\ n # at
  BY <1>1
<1>3. \A n \in 1 .. at - 1 : RULES[n] # RULES[at]
  BY <1>1, <1>2, RulesAssumption
<1>4. Own(RULES[at]) = {} /\ ~Crashed(RULES[at])
  BY <1>3 DEF ReportInv, RulesReported, Own, Crashed
<1>5. \A k \in DOMAIN result : FALSE
  BY <1>1 DEF ReportInv, Inv, ResultIsFinal
<1> QED
  BY <1>1, <1>3, <1>4, <1>5

LEMMA RunRuleReports == ReportInv /\ RunRule => ReportInv'
<1> SUFFICES ASSUME ReportInv, RunRule PROVE ReportInv'
  OBVIOUS
<1>0. PICK r : r = RULES[at]
  OBVIOUS
<1> DEFINE report == Check(r, email)
<1>1. /\ at \in DOMAIN RULES /\ r = RULES[at] /\ r \in RuleId
      /\ \A n \in 1 .. at - 1 : RULES[n] # r
      /\ Own(r) = {} /\ ~Crashed(r)
      /\ at' = at + 1 /\ findings' = findings \o report
      /\ errors' = errors /\ email' = email /\ result' = result
  BY <1>0, NextRule DEF RunRule
<1>2. /\ report \in Seq({f \in Finding : f.rule = r})
      /\ findings \in Seq(Finding) /\ at \in Nat /\ at >= 1
  <2>1. /\ email \in Message /\ findings \in Seq(Finding) /\ at \in 1 .. Len(RULES) + 1
        /\ Len(RULES) \in Nat
    BY RulesAssumption DEF ReportInv, Inv, TypeOK
  <2>2. report \in Seq({f \in Finding : f.rule = r})
    BY <2>1, <1>1, CheckAssumption
  <2> QED
    BY <2>1, <2>2
<1> HIDE DEF report
<1>3. /\ Len(report) \in Nat /\ DOMAIN report = 1 .. Len(report)
      /\ \A i \in DOMAIN report : report[i].rule = r
      /\ Len(findings) \in Nat /\ DOMAIN findings = 1 .. Len(findings)
  BY <1>2
<1>4. /\ DOMAIN findings' = 1 .. Len(findings) + Len(report)
      /\ Len(findings') = Len(findings) + Len(report)
      /\ \A i \in DOMAIN findings : i \in DOMAIN findings' /\ findings'[i] = findings[i]
      /\ \A i \in DOMAIN report : /\ Len(findings) + i \in DOMAIN findings'
                                /\ findings'[Len(findings) + i] = report[i]
  <2>1. report \in Seq(Finding)
    BY <1>2
  <2> QED
    BY <1>1, <1>2, <1>3, <2>1
<1>5. ASSUME NEW i \in DOMAIN findings'
      PROVE  \/ i \in DOMAIN findings /\ findings'[i] = findings[i]
             \/ i \in Len(findings) + 1 .. Len(findings) + Len(report) /\ findings'[i].rule = r
  <2>1. CASE i \in DOMAIN findings
    BY <2>1, <1>4
  <2>2. CASE i \notin DOMAIN findings
    <3>1. i - Len(findings) \in DOMAIN report /\ i = Len(findings) + (i - Len(findings))
      BY <2>2, <1>3, <1>4
    <3> QED
      BY <3>1, <1>3, <1>4
  <2> QED
    BY <2>1, <2>2
<1>6. \A q : q # r => Own(q)' = Own(q)
  BY <1>4, <1>5 DEF Own
<1>7. Own(r)' = Len(findings) + 1 .. Len(findings) + Len(report)
  <2>1. \A i \in DOMAIN findings : findings[i].rule # r
    BY <1>1 DEF Own
  <2>2. ASSUME NEW i \in Len(findings) + 1 .. Len(findings) + Len(report)
        PROVE  i \in DOMAIN findings' /\ findings'[i].rule = r
    <3>1. i - Len(findings) \in DOMAIN report /\ i = Len(findings) + (i - Len(findings))
      BY <1>3
    <3> QED
      BY <3>1, <1>3, <1>4
  <2>3. Own(r)' = {i \in DOMAIN findings' : findings'[i].rule = r}
    BY DEF Own
  <2>4. ASSUME NEW i \in Own(r)'
        PROVE  i \in Len(findings) + 1 .. Len(findings) + Len(report)
    BY <2>1, <2>3, <2>4, <1>5
  <2> QED
    BY <2>2, <2>3, <2>4
<1>8. ASSUME NEW n \in 1 .. at' - 1
      PROVE  (IF Crashed(RULES[n]) THEN Own(RULES[n]) = {} ELSE Reported_(RULES[n]))'
  <2>1. Crashed(RULES[n])' <=> Crashed(RULES[n])
    BY <1>1 DEF Crashed
  <2>2. CASE n = at
    <3>1. Len(findings) \in 0 .. Len(findings')
      BY <1>3, <1>4
    <3>2. Reported_(r)' <=>
            \E start \in 0 .. Len(findings') :
              /\ Own(r)' = start + 1 .. start + Len(report)
              /\ \A i \in DOMAIN report : findings'[start + i] = report[i]
      BY <1>1 DEF Reported_, report
    <3>3. Reported_(r)'
      BY <3>1, <3>2, <1>4, <1>7
    <3>4. Reported_(RULES[n])' /\ ~Crashed(RULES[n])'
      BY <3>3, <2>1, <2>2, <1>1
    <3> QED
      BY <3>4
  <2>3. CASE n # at
    <3>1. n \in 1 .. at - 1
      BY <2>3, <1>1, <1>2
    <3>2. Own(RULES[n])' = Own(RULES[n])
      BY <3>1, <1>1, <1>6
    <3>3. CASE Crashed(RULES[n])
      BY <3>1, <3>2, <3>3, <2>1 DEF ReportInv, RulesReported
    <3>4. CASE ~Crashed(RULES[n])
      <4> DEFINE old == Check(RULES[n], email)
      <4>1. PICK start \in 0 .. Len(findings) :
              /\ Own(RULES[n]) = start + 1 .. start + Len(old)
              /\ \A i \in DOMAIN old : findings[start + i] = old[i]
        BY <3>1, <3>4 DEF ReportInv, RulesReported, Reported_
      <4>2. Len(old) \in Nat /\ DOMAIN old = 1 .. Len(old)
        <5>1. RULES[n] \in RuleId /\ email \in Message
          BY <3>1, <1>1, RulesAssumption DEF ReportInv, Inv, TypeOK
        <5>2. old \in Seq({f \in Finding : f.rule = RULES[n]})
          BY <5>1, CheckAssumption
        <5> QED
          BY <5>2
      <4> HIDE DEF old
      <4>3. ASSUME NEW i \in DOMAIN old PROVE findings'[start + i] = old[i]
        <5>1. start + i \in Own(RULES[n])
          BY <4>1, <4>2
        <5> QED
          BY <5>1, <4>1, <1>4 DEF Own
      <4>4. start \in 0 .. Len(findings')
        BY <1>3, <1>4
      <4>5. Reported_(RULES[n])'
        BY <4>1, <4>3, <4>4, <3>2, <1>1 DEF Reported_, old
      <4> QED
        BY <4>5, <3>4, <2>1
    <3> QED
      BY <3>3, <3>4
  <2> QED
    BY <2>2, <2>3
<1>9. ASSUME NEW i \in DOMAIN findings'
      PROVE  \E n \in 1 .. at' - 1 : findings'[i].rule = RULES[n]
  <2>1. at \in 1 .. at' - 1 /\ \A n \in 1 .. at - 1 : n \in 1 .. at' - 1
    BY <1>1, <1>2
  <2>2. CASE i \in DOMAIN findings /\ findings'[i] = findings[i]
    <3>1. PICK n \in 1 .. at - 1 : findings[i].rule = RULES[n]
      BY <2>2 DEF ReportInv, RulesReported
    <3> QED
      BY <3>1, <2>1, <2>2
  <2>3. CASE findings'[i].rule = r
    BY <2>1, <2>3, <1>1
  <2> QED
    BY <2>2, <2>3, <1>5
<1>10. \A e \in DOMAIN errors' : \E n \in 1 .. at' - 1 : errors'[e] = RULES[n]
  <2>1. 1 .. at - 1 \subseteq 1 .. at' - 1
    BY <1>1, <1>2
  <2> QED
    BY <2>1, <1>1 DEF ReportInv, RulesReported
<1>11. RulesReported'
  BY <1>8, <1>9, <1>10 DEF RulesReported
<1>12. ResultIsOfFindings'
  BY NextRule DEF RunRule, ResultIsOfFindings
<1>13. PointsAreWorth'
  <2>1. points' = <<>>
    BY DEF RunRule, ReportInv, Inv, TypeOK
  <2> QED
    BY <2>1 DEF PointsAreWorth
<1> QED
  BY <1>11, <1>12, <1>13, RunRuleInv DEF ReportInv

LEMMA RuleCrashesReports == ReportInv /\ RuleCrashes => ReportInv'
<1> SUFFICES ASSUME ReportInv, RuleCrashes PROVE ReportInv'
  OBVIOUS
<1>1. /\ at \in DOMAIN RULES
      /\ \A n \in 1 .. at - 1 : RULES[n] # RULES[at]
      /\ Own(RULES[at]) = {} /\ ~Crashed(RULES[at])
      /\ at' = at + 1 /\ findings' = findings /\ errors' = Append(errors, RULES[at])
      /\ email' = email /\ result' = result /\ \A k \in DOMAIN result : FALSE
  BY NextRule DEF RuleCrashes
<1>2. errors \in Seq(RuleId) /\ RULES[at] \in RuleId /\ at \in Nat /\ at >= 1
  BY <1>1, RulesAssumption DEF ReportInv, Inv, TypeOK
<1>3. /\ DOMAIN errors' = DOMAIN errors \cup {Len(errors) + 1}
      /\ errors'[Len(errors) + 1] = RULES[at]
      /\ \A e \in DOMAIN errors : errors'[e] = errors[e]
  BY <1>1, <1>2
<1>4. \A q : Crashed(q)' <=> Crashed(q) \/ q = RULES[at]
  BY <1>3 DEF Crashed
<1>5. \A q : Own(q)' = Own(q) /\ (Reported_(q)' <=> Reported_(q))
  BY <1>1 DEF Own, Reported_
<1>6. \A n \in 1 .. at' - 1 : n \in 1 .. at - 1 \/ n = at
  BY <1>1, <1>2
<1>7. 1 .. at - 1 \subseteq 1 .. at' - 1 /\ at \in 1 .. at' - 1
  BY <1>1, <1>2
<1>8. RulesReported'
  <2>1. ASSUME NEW n \in 1 .. at' - 1
        PROVE  (IF Crashed(RULES[n]) THEN Own(RULES[n]) = {} ELSE Reported_(RULES[n]))'
    <3>1. CASE n = at
      BY <3>1, <1>1, <1>4, <1>5
    <3>2. CASE n \in 1 .. at - 1
      BY <3>2, <1>1, <1>4, <1>5 DEF ReportInv, RulesReported
    <3> QED
      BY <3>1, <3>2, <1>6
  <2>2. \A i \in DOMAIN findings' : \E n \in 1 .. at' - 1 : findings'[i].rule = RULES[n]
    BY <1>1, <1>7 DEF ReportInv, RulesReported
  <2>3. ASSUME NEW e \in DOMAIN errors' PROVE \E n \in 1 .. at' - 1 : errors'[e] = RULES[n]
    <3>1. CASE e \in DOMAIN errors
      <4>1. PICK n \in 1 .. at - 1 : errors[e] = RULES[n]
        BY <3>1 DEF ReportInv, RulesReported
      <4> QED
        BY <4>1, <3>1, <1>3, <1>7
    <3>2. CASE e = Len(errors) + 1
      BY <3>2, <1>3, <1>7
    <3> QED
      BY <3>1, <3>2, <1>3
  <2> QED
    BY <2>1, <2>2, <2>3 DEF RulesReported
<1>9. ResultIsOfFindings'
  BY <1>1 DEF ResultIsOfFindings
<1>10. PointsAreWorth'
  <2>1. points' = <<>>
    BY DEF RuleCrashes, ReportInv, Inv, TypeOK
  <2> QED
    BY <2>1 DEF PointsAreWorth
<1> QED
  BY <1>8, <1>9, <1>10, RuleCrashesInv DEF ReportInv

\* Scoring changes no findings, and what it does not change stays reported.
LEMMA StaysReported ==
  ASSUME RulesReported, UNCHANGED <<at, findings, errors, email>> PROVE RulesReported'
<1>1. \A q : /\ Own(q)' = Own(q) /\ (Crashed(q)' <=> Crashed(q))
             /\ (Reported_(q)' <=> Reported_(q))
  BY DEF Own, Crashed, Reported_
<1> QED
  BY <1>1 DEF RulesReported

LEMMA StaysOfFindings ==
  ASSUME ResultIsOfFindings, UNCHANGED <<findings, errors, points, result>>
  PROVE  ResultIsOfFindings'
<1>1. \A v : Alert(v)' = Alert(v)
  BY DEF Alert, Advice
<1> QED
  BY <1>1 DEF ResultIsOfFindings

LEMMA ScoreFindingReports == ReportInv /\ ScoreFinding => ReportInv'
<1> SUFFICES ASSUME ReportInv, ScoreFinding PROVE ReportInv'
  OBVIOUS
<1>1. RulesReported'
  BY StaysReported DEF ReportInv, ScoreFinding
<1>2. \A k \in DOMAIN result : FALSE
  BY DEF ReportInv, Inv, ResultIsFinal, ScoreFinding, Ranked
<1>3. ResultIsOfFindings'
  BY <1>2 DEF ResultIsOfFindings, ScoreFinding
<1>4. PointsAreWorth'
  <2>1. PICK i \in DOMAIN findings :
          points' = [j \in DOMAIN points \union {i} |->
                       IF j = i THEN Worth(findings[i]) ELSE points[j]]
    BY DEF ScoreFinding
  <2>2. findings' = findings /\ Worth(findings[i]) \in {0, Points[findings[i].severity]}
    BY DEF ScoreFinding, Worth
  <2> QED
    BY <2>1, <2>2 DEF ReportInv, PointsAreWorth
<1> QED
  BY <1>1, <1>3, <1>4, ScoreFindingInv DEF ReportInv

LEMMA AssessReports == ReportInv /\ Assess => ReportInv'
<1> SUFFICES ASSUME ReportInv, Assess PROVE ReportInv'
  OBVIOUS
<1>1. RulesReported'
  BY StaysReported DEF ReportInv, Assess
<1>2. \A v : Alert(v)' = Alert(v)
  BY DEF Alert, Advice, Assess
<1>3. ResultIsOfFindings'
  <2> DEFINE score == IF total > max_score THEN max_score ELSE total
             verdict == VerdictOf(score)
  <2>1. /\ result' = <<[score |-> score, verdict |-> verdict,
                         complete |-> errors = <<>>, alert |-> Alert(verdict)]>>
        /\ errors' = errors
    BY DEF Assess
  <2> HIDE DEF score, verdict
  <2>2. /\ DOMAIN result' = {1} /\ result'[1].verdict = verdict
        /\ result'[1].complete = (errors = <<>>) /\ result'[1].alert = Alert(verdict)
    BY <2>1
  <2> QED
    BY <2>1, <2>2, <1>2 DEF ResultIsOfFindings
<1>4. PointsAreWorth'
  BY DEF ReportInv, PointsAreWorth, Assess
<1> QED
  BY <1>1, <1>3, <1>4, AssessInv DEF ReportInv

LEMMA StutterReports == ReportInv /\ UNCHANGED vars => ReportInv'
  BY StutterInv, StaysReported, StaysOfFindings DEF ReportInv, PointsAreWorth, vars

LEMMA NextReports == ReportInv /\ [Next]_vars => ReportInv'
  BY RunRuleReports, RuleCrashesReports, ScoreFindingReports, AssessReports,
     StutterReports DEF Next

LEMMA NothingHidden == ReportInv => CrashHidesNothing
<1> SUFFICES ASSUME ReportInv, NEW k \in DOMAIN result, NEW n \in DOMAIN RULES
             PROVE  IF Crashed(RULES[n])
                    THEN Own(RULES[n]) = {} /\ ~result[k].complete
                    ELSE Reported_(RULES[n])
  BY DEF CrashHidesNothing, Crashed, Own, Reported_
<1>1. at > Len(RULES) /\ at \in Nat /\ n \in 1 .. Len(RULES) /\ Len(RULES) \in Nat
  BY RulesAssumption DEF ReportInv, Inv, TypeOK, ResultIsFinal
<1>2. n \in 1 .. at - 1
  BY <1>1
<1>3. Crashed(RULES[n]) => ~result[k].complete
  BY DEF ReportInv, ResultIsOfFindings, Crashed
<1> QED
  BY <1>2, <1>3 DEF ReportInv, RulesReported

\* The report of the n-th rule is not lost and says something worse than a note.
Warns(n) ==
  /\ ~Crashed(RULES[n])
  /\ \E i \in DOMAIN Check(RULES[n], email) : Check(RULES[n], email)[i].severity > INFO

\* A rule scored in the end exactly when it warns: a finding that scored is no note,
\* and a warning that did not score repeats a stronger one of the same rule.
LEMMA ScoredIffWarns ==
  ASSUME ReportInv, at > Len(RULES), Left = {}, NEW n \in DOMAIN RULES
  PROVE  Warns(n) <=> \E i \in DOMAIN points : points[i] > 0 /\ findings[i].rule = RULES[n]
<1> DEFINE r == RULES[n]
           report == Check(r, email)
<1>1. n \in 1 .. at - 1 /\ r \in RuleId /\ email \in Message
  BY RulesAssumption DEF ReportInv, Inv, TypeOK
<1>2. /\ Crashed(r) => Own(r) = {}
      /\ ~Crashed(r) => \E start \in 0 .. Len(findings) :
                          /\ Own(r) = start + 1 .. start + Len(report)
                          /\ \A i \in DOMAIN report : findings[start + i] = report[i]
  BY <1>1 DEF ReportInv, RulesReported, Reported_
<1>3. Len(report) \in Nat /\ DOMAIN report = 1 .. Len(report)
  <2>1. report \in Seq({f \in Finding : f.rule = r})
    BY <1>1, CheckAssumption
  <2> QED
    BY <2>1
<1>4. DOMAIN points = DOMAIN findings /\ Len(findings) \in Nat
  BY FindingFacts DEF ReportInv, Inv, TypeOK, Left
<1>5. \A i \in DOMAIN findings : /\ findings[i].severity \in 0 .. 3
                                 /\ findings[i].severity # INFO <=> findings[i].severity > INFO
  BY FindingFacts DEF ReportInv, Inv, Severity, INFO, HIGH
<1>6. Points[INFO] = 0 /\ INFO = 0 /\ \A s \in 0 .. 3 : s # INFO => Points[s] > 0
  BY PointsFacts DEF Points, Severity, INFO, LOW, MEDIUM, HIGH
<1> HIDE DEF report
<1>7. ASSUME NEW i \in DOMAIN points, points[i] > 0, findings[i].rule = r PROVE Warns(n)
  <2>1. i \in Own(r) /\ ~Crashed(r)
    BY <1>2, <1>4, <1>7 DEF Own
  <2>2. PICK start \in 0 .. Len(findings) :
          /\ Own(r) = start + 1 .. start + Len(report)
          /\ \A m \in DOMAIN report : findings[start + m] = report[m]
    BY <2>1, <1>2
  <2>3. i - start \in DOMAIN report /\ i = start + (i - start)
    BY <2>1, <2>2, <1>3
  <2>4. report[i - start] = findings[i]
    BY <2>2, <2>3
  <2>5. findings[i].severity > INFO
    <3>1. points[i] \in {0, Points[findings[i].severity]}
      BY DEF ReportInv, PointsAreWorth
    <3> QED
      BY <3>1, <1>4, <1>5, <1>6, <1>7
  <2> QED
    BY <2>1, <2>3, <2>4, <2>5 DEF Warns, report
<1>8. ASSUME Warns(n)
      PROVE  \E i \in DOMAIN points : points[i] > 0 /\ findings[i].rule = r
  <2>1. ~Crashed(r) /\ \E m \in DOMAIN report : report[m].severity > INFO
    BY <1>8 DEF Warns, report
  <2>2. PICK start \in 0 .. Len(findings) :
          /\ Own(r) = start + 1 .. start + Len(report)
          /\ \A m \in DOMAIN report : findings[start + m] = report[m]
    BY <2>1, <1>2
  <2>3. PICK m \in DOMAIN report : report[m].severity > INFO
    BY <2>1
  <2> DEFINE p == start + m
  <2>4. p \in Own(r) /\ findings[p].severity > INFO
    BY <2>2, <2>3, <1>3
  <2>5. p \in DOMAIN points /\ p \in DOMAIN findings /\ findings[p].rule = r
    BY <2>4, <1>4 DEF Own
  <2> HIDE DEF p
  <2>6. PICK j \in DOMAIN points :
          /\ SameId(p, j)
          /\ points[j] = Points[findings[j].severity]
          /\ \A k \in DOMAIN findings :
               SameId(p, k) => findings[k].severity <= findings[j].severity
    BY <2>5 DEF ReportInv, Inv, StrongestCounts
  <2>7. findings[p].severity <= findings[j].severity
    BY <2>5, <2>6 DEF SameId
  <2>8. points[j] > 0
    BY <2>4, <2>5, <2>6, <2>7, <1>4, <1>5, <1>6
  <2>9. findings[j].rule = r
    BY <2>5, <2>6 DEF SameId, Id
  <2> QED
    BY <2>8, <2>9
<1> QED
  BY <1>7, <1>8

LEMMA AdviceIsOfReports == ReportInv => AdviceFits
<1> SUFFICES ASSUME ReportInv, NEW k \in DOMAIN result, NEW a \in DOMAIN result[k].alert
             PROVE  result[k].alert[a].actions =
                      (IF result[k].verdict = "phishing"
                       THEN {"report_and_delete", "no_click_no_open", "dont_reply"}
                       ELSE {"report_and_delete"})
                      \union UNION {AdviceByRule(RULES[n]) : n \in {m \in DOMAIN RULES : Warns(m)}}
  BY DEF AdviceFits, Warns, Crashed
<1>1. at > Len(RULES) /\ Left = {} /\ at \in Nat /\ Len(RULES) \in Nat
  BY RulesAssumption DEF ReportInv, Inv, TypeOK, ResultIsFinal
<1>2. result[k].alert[a].actions = Advice(result[k].verdict)
  <2> DEFINE v == result[k].verdict
  <2>1. result[k].alert = Alert(v) /\ a \in DOMAIN Alert(v)
    BY DEF ReportInv, ResultIsOfFindings
  <2> HIDE DEF v
  <2>2. Alert(v)[a].actions = Advice(v)
    <3>1. CASE v = "clean"
      BY <3>1, <2>1 DEF Alert
    <3>2. CASE v # "clean"
      <4>1. Alert(v) = <<[severity |-> IF v = "phishing" THEN HIGH ELSE MEDIUM,
                          actions |-> Advice(v)]>>
        BY <3>2 DEF Alert
      <4>2. a = 1
        BY <4>1, <2>1
      <4> QED
        BY <4>1, <4>2
    <3> QED
      BY <3>1, <3>2
  <2> QED
    BY <2>1, <2>2 DEF v
<1> DEFINE counted == UNION {AdviceByRule(findings[i].rule) : i \in {j \in DOMAIN points : points[j] > 0}}
           warned  == UNION {AdviceByRule(RULES[n]) : n \in {m \in DOMAIN RULES : Warns(m)}}
<1>3. \A i \in DOMAIN points : \E n \in DOMAIN RULES : findings[i].rule = RULES[n]
  <2>1. \A i \in DOMAIN points : i \in DOMAIN findings
    BY DEF ReportInv, Inv, TypeOK
  <2>2. 1 .. at - 1 \subseteq DOMAIN RULES
    BY <1>1, RulesAssumption DEF ReportInv, Inv, TypeOK
  <2> QED
    BY <2>1, <2>2 DEF ReportInv, RulesReported
<1>4. counted = warned
  <2>1. ASSUME NEW i \in DOMAIN points, points[i] > 0
        PROVE  \E n \in DOMAIN RULES : Warns(n) /\ findings[i].rule = RULES[n]
    BY <2>1, <1>1, <1>3, ScoredIffWarns
  <2>2. ASSUME NEW n \in DOMAIN RULES, Warns(n)
        PROVE  \E i \in DOMAIN points : points[i] > 0 /\ findings[i].rule = RULES[n]
    BY <2>2, <1>1, ScoredIffWarns
  <2> QED
    BY <2>1, <2>2
<1> HIDE DEF counted, warned
<1>5. Advice(result[k].verdict) =
        {"report_and_delete"}
        \union (IF result[k].verdict = "phishing" THEN {"no_click_no_open", "dont_reply"} ELSE {})
        \union counted
  BY DEF Advice, counted
<1> QED
  BY <1>2, <1>4, <1>5 DEF warned

\* "One broken rule must not hide the others' findings" (run_rules): for any rules
\* and any of them crashing, all that a rule reported is in the result, as it
\* reported it, and a result that lacks some says it is not complete.
THEOREM NothingIsHidden == Spec => []CrashHidesNothing
<1> QED
  BY ReportInit, NextReports, NothingHidden, PTL DEF Spec

\* Whatever the rules find, in whatever order and however often, and whichever of them
\* crash: an alert recommends what its verdict and the rules that warned call for, and
\* nothing else (recommend_actions).
THEOREM AlertsAdvise == Spec => []AdviceFits
<1> QED
  BY ReportInit, NextReports, AdviceIsOfReports, PTL DEF Spec

-----------------------------------------------------------------------------
(* Sequences of sequences, one after the other *)

FlatBy(ss, flat, i) == IF i = 1 THEN ss[i] ELSE flat[i - 1] \o ss[i]

IsFlat(ss, flat) == flat = [i \in 1 .. Len(ss) |-> FlatBy(ss, flat, i)]

\* Such a function is built from the left.
LEMMA FlatExists ==
  ASSUME NEW T, NEW ss \in Seq(Seq(T)) PROVE \E flat : IsFlat(ss, flat)
<1> DEFINE n == Len(ss)
           Upto(flat, k) == /\ flat = [i \in 1 .. n |-> flat[i]]
                            /\ \A i \in 1 .. n : i <= k => flat[i] = FlatBy(ss, flat, i)
           Bad == {k \in Nat : ~ \E flat : Upto(flat, k)}
<1>0. n \in Nat
  OBVIOUS
<1>1. 0 \notin Bad
  <2>1. Upto([i \in 1 .. n |-> <<>>], 0)
    BY <1>0
  <2> QED
    BY <2>1
<1>2. ASSUME NEW k \in Nat, k \notin Bad PROVE k + 1 \notin Bad
  <2>1. PICK flat : Upto(flat, k)
    BY <1>2
  <2> DEFINE more == [i \in 1 .. n |-> IF i <= k THEN flat[i] ELSE FlatBy(ss, flat, i)]
  <2>2. ASSUME NEW i \in 1 .. n, i <= k + 1 PROVE more[i] = FlatBy(ss, more, i)
    <3>1. more[i] = FlatBy(ss, flat, i)
      BY <2>1
    <3>2. CASE i = 1
      BY <3>1, <3>2 DEF FlatBy
    <3>3. CASE i # 1
      <4>1. i - 1 \in 1 .. n /\ i - 1 <= k
        BY <1>0, <2>2, <3>3
      <4>2. more[i - 1] = flat[i - 1]
        BY <4>1
      <4> QED
        BY <3>1, <3>3, <4>2 DEF FlatBy
    <3> QED
      BY <3>2, <3>3
  <2>3. Upto(more, k + 1)
    BY <2>2
  <2> QED
    BY <2>3
<1> HIDE DEF Bad
<1>3. Bad = {}
  <2> SUFFICES ASSUME Bad # {} PROVE FALSE
    OBVIOUS
  <2>1. PICK k \in Bad : \A m \in Bad : k <= m
    <3>1. Bad \subseteq Nat
      BY DEF Bad
    <3> QED
      BY <3>1, HasLeast
  <2>2. k \in Nat /\ k # 0
    BY <1>1 DEF Bad
  <2>3. k - 1 \in Nat /\ k - 1 \notin Bad /\ (k - 1) + 1 = k
    BY <2>1, <2>2
  <2> QED
    BY <1>2, <2>3
<1>4. PICK flat : Upto(flat, n)
  BY <1>0, <1>3 DEF Bad
<1>5. \A i \in 1 .. n : flat[i] = FlatBy(ss, flat, i)
  BY <1>0, <1>4
<1> QED
  BY <1>4, <1>5 DEF IsFlat

LEMMA FlatOfNone == FlattenSeq(<<>>) = <<>>
BY DEF FlattenSeq

\* FlattenSeq picks that function.
LEMMA FlatIs ==
  ASSUME NEW T, NEW ss \in Seq(Seq(T)), Len(ss) # 0
  PROVE  \E flat : IsFlat(ss, flat) /\ FlattenSeq(ss) = flat[Len(ss)]
<1> DEFINE It == CHOOSE flat : IsFlat(ss, flat)
<1>1. FlattenSeq(ss) = It[Len(ss)]
  BY DEF FlattenSeq, IsFlat, FlatBy
<1>2. IsFlat(ss, It)
  BY FlatExists
<1> QED
  BY <1>1, <1>2

\* What the proofs use: appending a sequence puts it at the end.
LEMMA FlatAppend ==
  ASSUME NEW T, NEW ss \in Seq(Seq(T)), NEW x \in Seq(T)
  PROVE  FlattenSeq(Append(ss, x)) = FlattenSeq(ss) \o x
<1> DEFINE more == Append(ss, x)
           n == Len(ss)
<1>0. /\ more \in Seq(Seq(T)) /\ Len(more) = n + 1 /\ n \in Nat /\ more[n + 1] = x
      /\ \A i \in 1 .. n : more[i] = ss[i]
  OBVIOUS
<1> HIDE DEF more
<1>1. PICK far : IsFlat(more, far) /\ FlattenSeq(more) = far[n + 1]
  <2>1. Len(more) # 0 /\ more \in Seq(Seq(T))
    BY <1>0
  <2>2. \E far : IsFlat(more, far) /\ FlattenSeq(more) = far[Len(more)]
    BY <2>1, FlatIs
  <2> QED
    BY <1>0, <2>2
<1>f. \A i \in 1 .. n + 1 : far[i] = FlatBy(more, far, i)
  BY <1>0, <1>1 DEF IsFlat
<1>2. CASE n = 0
  <2>1. ss = <<>>
    BY <1>2
  <2>2. far[1] = x
    BY <1>0, <1>f, <1>2 DEF FlatBy
  <2> QED
    BY <1>1, <1>2, <2>1, <2>2, FlatOfNone DEF more
<1>3. CASE n # 0
  <2>1. PICK flat : IsFlat(ss, flat) /\ FlattenSeq(ss) = flat[n]
    BY <1>3, FlatIs
  <2>2. \A i \in 1 .. n : flat[i] = FlatBy(ss, flat, i)
    BY <2>1 DEF IsFlat
  <2> DEFINE Bad == {i \in 1 .. n : far[i] # flat[i]}
  <2>3. Bad = {}
    <3> SUFFICES ASSUME Bad # {} PROVE FALSE
      OBVIOUS
    <3>1. PICK i \in Bad : \A m \in Bad : i <= m
      <4>1. Bad \subseteq Nat
        BY <1>0
      <4> QED
        BY <4>1, HasLeast
    <3>2. i \in 1 .. n /\ i \in 1 .. n + 1 /\ far[i] # flat[i] /\ more[i] = ss[i]
      BY <1>0
    <3>3. CASE i = 1
      BY <3>2, <3>3, <1>f, <2>2 DEF FlatBy
    <3>4. CASE i # 1
      <4>1. i - 1 \in 1 .. n /\ i - 1 \notin Bad
        BY <1>0, <3>1, <3>2, <3>4
      <4>2. far[i - 1] = flat[i - 1]
        BY <4>1
      <4> QED
        BY <3>2, <3>4, <4>2, <1>f, <2>2 DEF FlatBy
    <3> QED
      BY <3>3, <3>4
  <2>4. far[n] = flat[n]
    <3>1. n \in 1 .. n
      BY <1>0, <1>3
    <3> QED
      BY <2>3, <3>1
  <2>5. far[n + 1] = far[n] \o x
    <3>1. n + 1 \in 1 .. n + 1 /\ n + 1 # 1 /\ (n + 1) - 1 = n
      BY <1>0, <1>3
    <3>2. far[n + 1] = FlatBy(more, far, n + 1)
      BY <1>f, <3>1
    <3> QED
      BY <1>0, <3>1, <3>2 DEF FlatBy
  <2> QED
    BY <1>1, <2>1, <2>4, <2>5 DEF more
<1> QED
  BY <1>2, <1>3

\* The first n sequences of e, one after the other.
Joined(e, n) == FlattenSeq([k \in 1 .. n |-> e[k]])

LEMMA JoinNone == ASSUME NEW e PROVE Joined(e, 0) = <<>>
<1>1. [k \in 1 .. 0 |-> e[k]] = <<>>
  OBVIOUS
<1> QED
  BY <1>1, FlatOfNone DEF Joined

\* Joined(e, n) is e[1] \o ... \o e[n].
LEMMA JoinStep ==
  ASSUME NEW T, NEW n \in Nat, NEW e, \A k \in 1 .. n + 1 : e[k] \in Seq(T)
  PROVE  Joined(e, n + 1) = Joined(e, n) \o e[n + 1]
<1> DEFINE ss == [k \in 1 .. n |-> e[k]]
           more == [k \in 1 .. n + 1 |-> e[k]]
<1>1. ss \in Seq(Seq(T)) /\ Len(ss) = n /\ e[n + 1] \in Seq(T)
  OBVIOUS
<1>2. more = Append(ss, e[n + 1])
  BY <1>1
<1> HIDE DEF ss, more
<1>3. FlattenSeq(more) = FlattenSeq(ss) \o e[n + 1]
  BY <1>1, <1>2, FlatAppend
<1> QED
  BY <1>3 DEF Joined, ss, more

\* It has the type of its parts, ...
LEMMA JoinType ==
  ASSUME NEW T, NEW m \in Nat, NEW e, \A k \in 1 .. m : e[k] \in Seq(T)
  PROVE  \A n \in 0 .. m : Joined(e, n) \in Seq(T)
<1> DEFINE Bad == {n \in 0 .. m : Joined(e, n) \notin Seq(T)}
<1> SUFFICES ASSUME Bad # {} PROVE FALSE
  OBVIOUS
<1>1. PICK n \in Bad : \A l \in Bad : n <= l
  <2>1. Bad \subseteq Nat
    OBVIOUS
  <2> HIDE DEF Bad
  <2> QED
    BY <2>1, HasLeast
<1>2. n # 0
  <2>1. <<>> \in Seq(T)
    OBVIOUS
  <2>2. Joined(e, 0) \in Seq(T)
    BY <2>1, JoinNone
  <2> QED
    BY <1>1, <2>2
<1>3. n - 1 \in 0 .. m /\ n - 1 \in Nat /\ n - 1 \notin Bad /\ (n - 1) + 1 = n
  BY <1>1, <1>2
<1>4. Joined(e, n - 1) \in Seq(T)
  BY <1>3
<1>5. e[n] \in Seq(T) /\ \A k \in 1 .. n : e[k] \in Seq(T)
  BY <1>2
<1>6. Joined(e, n) = Joined(e, n - 1) \o e[n]
  BY <1>3, <1>5, JoinStep
<1>7. Joined(e, n) \in Seq(T)
  BY <1>4, <1>5, <1>6
<1> QED
  BY <1>1, <1>7

\* The lemma that the proofs below use.
LEMMA JoinMore ==
  ASSUME NEW T, NEW m \in Nat, NEW e, \A k \in 1 .. m : e[k] \in Seq(T), NEW n \in 1 .. m
  PROVE  /\ Joined(e, n - 1) \in Seq(T)
         /\ Joined(e, n) \in Seq(T)
         /\ Joined(e, n) = Joined(e, n - 1) \o e[n]
<1>1. n - 1 \in Nat /\ (n - 1) + 1 = n /\ n - 1 \in 0 .. m /\ n \in 0 .. m
  OBVIOUS
<1>2. \A k \in 1 .. (n - 1) + 1 : e[k] \in Seq(T)
  BY <1>1
<1>3. Joined(e, (n - 1) + 1) = Joined(e, n - 1) \o e[(n - 1) + 1]
  BY <1>1, <1>2, JoinStep
<1> QED
  BY <1>1, <1>3, JoinType

\* Empty sequences make no difference.
LEMMA JoinPad ==
  ASSUME NEW T, NEW m \in Nat, NEW e, \A k \in 1 .. m : e[k] \in Seq(T),
         NEW a \in 0 .. m, NEW b \in a .. m, \A k \in a + 1 .. b : e[k] = <<>>
  PROVE  Joined(e, b) = Joined(e, a)
<1> DEFINE Bad == {n \in a .. b : Joined(e, n) # Joined(e, a)}
<1> SUFFICES ASSUME Bad # {} PROVE FALSE
  OBVIOUS
<1>1. PICK n \in Bad : \A l \in Bad : n <= l
  <2>1. Bad \subseteq Nat
    OBVIOUS
  <2> HIDE DEF Bad
  <2> QED
    BY <2>1, HasLeast
<1>2. n # a /\ n \in 1 .. m /\ n - 1 \in a .. b /\ n \in a + 1 .. b
  OBVIOUS
<1>3. Joined(e, n - 1) = Joined(e, a)
  BY <1>1, <1>2
<1>4. Joined(e, n) = Joined(e, n - 1) \o e[n] /\ Joined(e, n - 1) \in Seq(T)
  <2>1. n \in 1 .. m
    BY <1>2
  <2> HIDE DEF Bad
  <2> QED
    BY <2>1, JoinMore
<1>5. e[n] = <<>>
  BY <1>2
<1>6. Joined(e, n) = Joined(e, n - 1)
  BY <1>4, <1>5
<1> QED
  BY <1>3, <1>6

\* ... is the same for the same parts, ...
LEMMA JoinSame ==
  ASSUME NEW n \in Nat, NEW e, NEW f, \A k \in 1 .. n : e[k] = f[k]
  PROVE  Joined(e, n) = Joined(f, n)
<1>1. [k \in 1 .. n |-> e[k]] = [k \in 1 .. n |-> f[k]]
  OBVIOUS
<1> QED
  BY <1>1 DEF Joined

\* What two sequences are made of, in a row.
LEMMA RangeOfConcat ==
  ASSUME NEW T, NEW s \in Seq(T), NEW t \in Seq(T)
  PROVE  ToSet(s \o t) = ToSet(s) \cup ToSet(t)
<1> DEFINE st == s \o t
<1>0. Len(s) \in Nat /\ Len(t) \in Nat
  OBVIOUS
<1>1. /\ DOMAIN st = 1 .. Len(s) + Len(t) /\ DOMAIN s = 1 .. Len(s) /\ DOMAIN t = 1 .. Len(t)
      /\ \A i \in 1 .. Len(s) : st[i] = s[i]
      /\ \A i \in 1 .. Len(t) : st[Len(s) + i] = t[i]
  OBVIOUS
<1> HIDE DEF st
<1>2. ASSUME NEW i \in DOMAIN st PROVE st[i] \in ToSet(s) \cup ToSet(t)
  <2>1. CASE i \in 1 .. Len(s)
    BY <2>1, <1>1 DEF ToSet
  <2>2. CASE i \notin 1 .. Len(s)
    <3>1. i - Len(s) \in 1 .. Len(t) /\ Len(s) + (i - Len(s)) = i
      BY <1>0, <1>1, <2>2
    <3>2. st[i] = t[i - Len(s)]
      BY <1>1, <3>1
    <3> QED
      BY <3>1, <3>2, <1>1 DEF ToSet
  <2> QED
    BY <2>1, <2>2
<1>3. ASSUME NEW i \in DOMAIN s PROVE s[i] \in ToSet(st)
  <2>1. i \in DOMAIN st
    BY <1>0, <1>1
  <2> QED
    BY <1>1, <2>1 DEF ToSet
<1>4. ASSUME NEW i \in DOMAIN t PROVE t[i] \in ToSet(st)
  <2>1. Len(s) + i \in DOMAIN st
    BY <1>0, <1>1
  <2> QED
    BY <1>1, <2>1 DEF ToSet
<1> QED
  BY <1>2, <1>3, <1>4 DEF ToSet, st

\* ... and is made of what they are made of.
LEMMA JoinRange ==
  ASSUME NEW T, NEW m \in Nat, NEW e, \A k \in 1 .. m : e[k] \in Seq(T)
  PROVE  \A n \in 0 .. m : ToSet(Joined(e, n)) = UNION {ToSet(e[k]) : k \in 1 .. n}
<1> DEFINE All(n) == UNION {ToSet(e[k]) : k \in 1 .. n}
           Bad == {n \in 0 .. m : ToSet(Joined(e, n)) # All(n)}
<1> SUFFICES ASSUME Bad # {} PROVE FALSE
  OBVIOUS
<1>1. PICK n \in Bad : \A l \in Bad : n <= l
  <2>1. Bad \subseteq Nat
    OBVIOUS
  <2> HIDE DEF Bad
  <2> QED
    BY <2>1, HasLeast
<1>2. n # 0
  <2>1. ToSet(<<>>) = {}
    BY DEF ToSet
  <2>2. All(0) = {}
    OBVIOUS
  <2> QED
    BY <1>1, <2>1, <2>2, JoinNone
<1>3. n \in 1 .. m /\ n - 1 \in 0 .. m /\ n - 1 \notin Bad
  BY <1>1, <1>2
<1>4. ToSet(Joined(e, n - 1)) = All(n - 1)
  BY <1>3
<1>5. Joined(e, n) = Joined(e, n - 1) \o e[n] /\ Joined(e, n - 1) \in Seq(T) /\ e[n] \in Seq(T)
  <2>1. n \in 1 .. m /\ e[n] \in Seq(T)
    BY <1>3
  <2> HIDE DEF Bad, All
  <2> QED
    BY <2>1, JoinMore
<1>6. ToSet(Joined(e, n)) = All(n - 1) \cup ToSet(e[n])
  BY <1>4, <1>5, RangeOfConcat
<1>7. 1 .. n = (1 .. n - 1) \cup {n}
  BY <1>3
<1>8. All(n) = All(n - 1) \cup ToSet(e[n])
  BY <1>7
<1> QED
  BY <1>1, <1>6, <1>8

\* Empty parts add nothing.
LEMMA JoinSkip ==
  ASSUME NEW T, NEW m \in Nat, NEW e, \A k \in 1 .. m : e[k] \in Seq(T), NEW n \in 1 .. m,
         e[n] = <<>>
  PROVE  Joined(e, n) = Joined(e, n - 1)
<1>1. Joined(e, n) = Joined(e, n - 1) \o e[n] /\ Joined(e, n - 1) \in Seq(T)
  BY JoinMore
<1> QED
  BY <1>1

LEMMA JoinTail ==
  ASSUME NEW T, NEW m \in Nat, NEW e, \A k \in 1 .. m : e[k] \in Seq(T),
         NEW r \in 1 .. m + 1, \A k \in r .. m : e[k] = <<>>
  PROVE  Joined(e, m) = Joined(e, r - 1)
<1>1. PICK a \in 0 .. m : a = r - 1
  OBVIOUS
<1>2. m \in a .. m /\ \A k \in a + 1 .. m : e[k] = <<>>
  BY <1>1
<1>3. Joined(e, m) = Joined(e, a)
  BY <1>1, <1>2, JoinPad
<1> QED
  BY <1>1, <1>3

-----------------------------------------------------------------------------
(* The walk over the parts *)

\* What RawAssumption says of a message.
LEMMA MessageFacts ==
  ASSUME raw \in Raw
  PROVE  /\ Len(raw.parts) \in Nat /\ DOMAIN raw.parts = 1 .. Len(raw.parts)
         /\ raw.senders \in Seq(Seq(STRING)) /\ raw.received \in Seq(AnyWord)
         /\ \A k \in 1 .. Len(raw.parts) :
              /\ raw.parts[k].depth \in Nat
              /\ raw.parts[k].words \in Seq(AnyWord) /\ raw.parts[k].tokens \in Seq(AnyToken)
              /\ k < Len(raw.parts) /\ raw.parts[k + 1].depth > raw.parts[k].depth =>
                   raw.parts[k].type \in {"multipart", "message"}
<1>1. raw.parts \in Seq(ToSet(raw.parts))
  BY RawAssumption
<1>2. Len(raw.parts) \in Nat /\ DOMAIN raw.parts = 1 .. Len(raw.parts)
  BY <1>1
<1> QED
  BY <1>2, RawAssumption

OwnWords  == [k \in DOMAIN raw.parts |-> IF k \in OwnBody THEN raw.parts[k].words ELSE <<>>]
OwnTokens == [k \in DOMAIN raw.parts |-> IF k \in OwnBody THEN raw.parts[k].tokens ELSE <<>>]

\* The sender's own words and tokens are of their types.
LEMMA OwnTypes ==
  ASSUME raw \in Raw
  PROVE  \A k \in 1 .. Len(raw.parts) :
           OwnWords[k] \in Seq(AnyWord) /\ OwnTokens[k] \in Seq(AnyToken)
<1>1. <<>> \in Seq(AnyWord) /\ <<>> \in Seq(AnyToken)
  OBVIOUS
<1> QED
  BY <1>1, MessageFacts DEF OwnWords, OwnTokens

\* Within a part is only what is deeper, and the part after it is not.
LEMMA AfterIs ==
  ASSUME raw \in Raw, NEW k \in 1 .. Len(raw.parts)
  PROVE  /\ After(k) \in k + 1 .. Len(raw.parts) + 1
         /\ After(k) <= Len(raw.parts) => raw.parts[After(k)].depth <= raw.parts[k].depth
         /\ \A i \in k + 1 .. After(k) - 1 : raw.parts[i].depth > raw.parts[k].depth
<1> DEFINE len == Len(raw.parts)
           d(i) == raw.parts[i].depth
           Past == {n \in k + 1 .. len + 1 : n <= len => d(n) <= d(k)}
           P(n) == /\ n <= len => d(n) <= d(k)
                   /\ \A i \in k + 1 .. n - 1 : d(i) > d(k)
<1>0. len \in Nat /\ \A i \in 1 .. len : d(i) \in Nat
  BY MessageFacts
<1> HIDE DEF len, d
<1>1. len + 1 \in Past /\ Past \subseteq Nat
  BY <1>0 DEF len
<1>2. PICK n \in Past : \A m \in Past : n <= m
  <2> HIDE DEF Past
  <2> QED
    BY <1>1, HasLeast
<1>3. \A i \in k + 1 .. n - 1 : i \in 1 .. len /\ i \notin Past
  BY <1>0, <1>2 DEF len
<1>4. \A i \in k + 1 .. n - 1 : d(i) > d(k)
  BY <1>0, <1>3 DEF len
<1>5. n \in k + 1 .. len + 1 /\ P(n)
  BY <1>4
<1>6. After(k) = CHOOSE m \in k + 1 .. len + 1 : P(m)
  BY DEF After, len, d
<1> HIDE DEF P, Past
<1>7. After(k) \in k + 1 .. len + 1 /\ P(After(k))
  BY <1>5, <1>6
<1> QED
  BY <1>7 DEF P, len, d

\* What follows a part that is not walked into is the next part, unless the part is
\* a forwarded message: then all that is passed over is in that message.
LEMMA PassedOver ==
  ASSUME raw \in Raw, NEW k \in 1 .. Len(raw.parts), ~Container(k),
         NEW i \in k + 1 .. After(k) - 1
  PROVE  Forwarded(i)
<1>0. Len(raw.parts) \in Nat
  BY MessageFacts
<1>1. k + 1 \in k + 1 .. After(k) - 1 /\ k < Len(raw.parts)
  BY <1>0, AfterIs
<1>2. raw.parts[k + 1].depth > raw.parts[k].depth
  BY <1>1, AfterIs
<1>3. raw.parts[k].type = "message"
  BY <1>1, <1>2 DEF Container
<1>4. k \in 1 .. i - 1 /\ \A j \in k + 1 .. i : j \in k + 1 .. After(k) - 1
  BY <1>0, AfterIs
<1>5. \A j \in k + 1 .. i : raw.parts[j].depth > raw.parts[k].depth
  BY <1>4, AfterIs
<1> QED
  BY <1>3, <1>4, <1>5 DEF Forwarded

\* The part after one of the sender's own is his own, too.
LEMMA AfterIsOwn ==
  ASSUME raw \in Raw, NEW k \in 1 .. Len(raw.parts), ~Forwarded(k),
         After(k) <= Len(raw.parts)
  PROVE  ~Forwarded(After(k))
<1> DEFINE n == After(k)
           d(i) == raw.parts[i].depth
<1>0. /\ Len(raw.parts) \in Nat /\ n \in k + 1 .. Len(raw.parts) /\ d(n) <= d(k)
      /\ \A i \in k + 1 .. n - 1 : d(i) > d(k)
      /\ \A i \in 1 .. Len(raw.parts) : d(i) \in Nat
  BY MessageFacts, AfterIs
<1> HIDE DEF n, d
<1> SUFFICES ASSUME NEW m \in 1 .. n - 1, raw.parts[m].type = "message",
                    \A i \in m + 1 .. n : d(i) > d(m)
             PROVE  FALSE
  BY DEF Forwarded, n, d
<1>1. m \in 1 .. Len(raw.parts) /\ n \in m + 1 .. n /\ n \in 1 .. Len(raw.parts)
  BY <1>0
<1>2. d(n) > d(m) /\ d(n) \in Nat /\ d(m) \in Nat /\ d(k) \in Nat
  BY <1>0, <1>1
<1>3. CASE m > k
  BY <1>0, <1>2, <1>3
<1>4. CASE m = k
  BY <1>0, <1>2, <1>4
<1>5. CASE m < k
  <2>1. m \in 1 .. k - 1 /\ \A i \in m + 1 .. k : d(i) > d(m)
    BY <1>0, <1>1, <1>5
  <2> QED
    BY <2>1 DEF Forwarded, d
<1> QED
  BY <1>1, <1>3, <1>4, <1>5

\* A part that is walked into is no body, and its first part is the sender's own.
LEMMA IntoContainer ==
  ASSUME raw \in Raw, NEW k \in 1 .. Len(raw.parts), ~Forwarded(k), Container(k)
  PROVE  /\ k + 1 \in 1 .. Len(raw.parts) /\ ~Forwarded(k + 1)
         /\ k \notin OwnBody /\ k \notin OwnFiles
<1>1. raw.parts[k].type = "multipart" /\ k < Len(raw.parts)
  BY MessageFacts DEF Container
<1>2. k \notin OwnBody /\ k \notin OwnFiles
  BY <1>1 DEF OwnBody, OwnFiles, IsBody
<1>3. ASSUME Forwarded(k + 1) PROVE FALSE
  <2>1. PICK m \in 1 .. k : /\ raw.parts[m].type = "message"
                            /\ \A i \in m + 1 .. k + 1 : raw.parts[i].depth > raw.parts[m].depth
    BY <1>3 DEF Forwarded
  <2>2. m # k
    BY <1>1, <2>1
  <2>3. m \in 1 .. k - 1 /\ \A i \in m + 1 .. k : raw.parts[i].depth > raw.parts[m].depth
    BY <2>1, <2>2
  <2> QED
    BY <2>1, <2>3 DEF Forwarded
<1> QED
  BY <1>1, <1>2, <1>3, MessageFacts

\* What the walk has collected when it is at part n: the sender's own parts before it.
Walked(n) ==
  /\ body_text = Joined(OwnWords, n - 1)
  /\ body_html = Joined(OwnTokens, n - 1)
  /\ attachments \in Seq(ToSet(raw.parts))
  /\ ToSet(attachments) = {raw.parts[k] : k \in {j \in OwnFiles : j < n}}

WalkInv ==
  /\ raw \in Raw
  /\ phase = "leaves" => /\ pos \in 1 .. Len(raw.parts) + 1
                         /\ pos <= Len(raw.parts) => ~Forwarded(pos)
                         /\ Walked(pos)
  /\ phase # "leaves" => /\ body_text = Text /\ body_html = Html
                         /\ attachments \in Seq(ToSet(raw.parts))
                         /\ ToSet(attachments) = {raw.parts[k] : k \in OwnFiles}

\* The message stays what it is.
LEMMA SameMessage ==
  ASSUME raw' = raw
  PROVE  /\ Text' = Text /\ Html' = Html /\ OwnFiles' = OwnFiles /\ OwnBody' = OwnBody
         /\ OwnWords' = OwnWords /\ OwnTokens' = OwnTokens
         /\ \A k : Forwarded(k)' = Forwarded(k)
<1>1. \A k : Forwarded(k)' = Forwarded(k)
  BY DEF Forwarded
<1>2. \A k : Container(k)' = Container(k)
  BY DEF Container
<1>3. OwnFiles' = OwnFiles /\ OwnBody' = OwnBody
  BY <1>1, <1>2 DEF OwnFiles, OwnBody
<1>4. OwnWords' = OwnWords /\ OwnTokens' = OwnTokens
  BY <1>3 DEF OwnWords, OwnTokens
<1>5. Text' = Text /\ Html' = Html
  BY <1>4 DEF Text, Html, OwnWords, OwnTokens
<1> QED
  BY <1>1, <1>3, <1>4, <1>5

LEMMA WalkInit == ExtractionInit => WalkInv
<1> SUFFICES ASSUME ExtractionInit PROVE WalkInv
  OBVIOUS
<1>1. raw \in Raw /\ phase = "leaves" /\ pos = 1 /\ Len(raw.parts) \in Nat
  BY MessageFacts DEF ExtractionInit
<1>2. ~Forwarded(1)
  BY DEF Forwarded
<1>3. Joined(OwnWords, 0) = <<>> /\ Joined(OwnTokens, 0) = <<>>
  BY JoinNone
<1>4. {j \in OwnFiles : j < 1} = {}
  BY <1>1, MessageFacts DEF OwnFiles
<1>5. attachments \in Seq(ToSet(raw.parts)) /\ ToSet(attachments) = {}
  BY DEF ExtractionInit, ToSet
<1>6. Walked(1)
  BY <1>3, <1>4, <1>5 DEF Walked, ExtractionInit
<1> QED
  BY <1>1, <1>2, <1>6 DEF WalkInv
LEMMA DescendWalks == WalkInv /\ Descend => WalkInv'
<1> SUFFICES ASSUME WalkInv, Descend PROVE WalkInv'
  OBVIOUS
<1> DEFINE n == pos + 1
<1>1. /\ raw \in Raw /\ phase = "leaves" /\ pos \in 1 .. Len(raw.parts) /\ Container(pos)
      /\ ~Forwarded(pos) /\ Walked(pos) /\ Len(raw.parts) \in Nat
  BY MessageFacts DEF WalkInv, Descend
<1>2. /\ n \in 1 .. Len(raw.parts) /\ ~Forwarded(n) /\ pos \notin OwnBody /\ pos \notin OwnFiles
  BY <1>1, IntoContainer
<1>3. /\ Joined(OwnWords, pos) = Joined(OwnWords, pos - 1)
      /\ Joined(OwnTokens, pos) = Joined(OwnTokens, pos - 1)
  <2>1. OwnWords[pos] = <<>> /\ OwnTokens[pos] = <<>>
    BY <1>1, <1>2, MessageFacts DEF OwnWords, OwnTokens
  <2> QED
    BY <2>1, <1>1, OwnTypes, JoinSkip
<1>4. {j \in OwnFiles : j < n} = {j \in OwnFiles : j < pos}
  <2>1. \A j \in OwnFiles : j \in Nat /\ j # pos
    BY MessageFacts, <1>1, <1>2 DEF OwnFiles
  <2>2. \A j \in OwnFiles : j < n <=> j < pos
    BY <2>1, <1>1
  <2> QED
    BY <2>2
<1>5. Walked(n)
  BY <1>1, <1>3, <1>4 DEF Walked
<1>6. /\ raw' = raw /\ phase' = phase /\ pos' = n /\ body_text' = body_text
      /\ body_html' = body_html /\ attachments' = attachments
  BY DEF Descend, parsed
<1>7. Walked(pos)'
  BY <1>5, <1>6, SameMessage DEF Walked
<1> QED
  BY <1>1, <1>2, <1>6, <1>7, SameMessage DEF WalkInv
LEMMA AppendedRange ==
  ASSUME NEW T, NEW s \in Seq(T), NEW x \in T
  PROVE  Append(s, x) \in Seq(T) /\ ToSet(Append(s, x)) = ToSet(s) \cup {x}
<1> DEFINE more == Append(s, x)
<1>1. /\ Len(s) \in Nat /\ DOMAIN s = 1 .. Len(s) /\ DOMAIN more = 1 .. Len(s) + 1
      /\ more[Len(s) + 1] = x /\ \A k \in 1 .. Len(s) : more[k] = s[k]
  OBVIOUS
<1>2. more \in Seq(T)
  OBVIOUS
<1> HIDE DEF more
<1>3. 1 .. Len(s) + 1 = (1 .. Len(s)) \cup {Len(s) + 1}
  BY <1>1
<1>4. ToSet(more) = ToSet(s) \cup {x}
  BY <1>1, <1>3 DEF ToSet
<1> QED
  BY <1>2, <1>4 DEF more

\* A leaf is the sender's own, as a body or a file, and so is the part after it.
LEMMA LeafWalks == WalkInv /\ Leaf => WalkInv'
<1> SUFFICES ASSUME WalkInv, Leaf PROVE WalkInv'
  OBVIOUS
<1> DEFINE n == After(pos)
           p == raw.parts[pos]
           len == Len(raw.parts)
<1>1. /\ raw \in Raw /\ phase = "leaves" /\ pos \in 1 .. len /\ ~Container(pos)
      /\ ~Forwarded(pos) /\ Walked(pos) /\ len \in Nat
  BY MessageFacts DEF WalkInv, Leaf
<1>2. n \in pos + 1 .. len + 1 /\ (n <= len => ~Forwarded(n))
  BY <1>1, AfterIs, AfterIsOwn
<1>3. \A i \in pos + 1 .. n - 1 : i \in 1 .. len /\ Forwarded(i)
  <2>1. \A i \in pos + 1 .. n - 1 : Forwarded(i)
    BY <1>1, PassedOver
  <2> HIDE DEF n
  <2> QED
    BY <2>1, <1>1, <1>2
<1>4. /\ raw' = raw /\ phase' = phase /\ pos' = n
      /\ body_text' = IF IsBody(p) THEN body_text \o p.words ELSE body_text
      /\ body_html' = IF IsBody(p) THEN body_html \o p.tokens ELSE body_html
      /\ attachments' = IF IsBody(p) THEN attachments ELSE Append(attachments, p)
  BY DEF Leaf
<1> HIDE DEF n
<1>5. \A i \in pos + 1 .. n - 1 : OwnWords[i] = <<>> /\ OwnTokens[i] = <<>>
  BY <1>1, <1>3, MessageFacts DEF OwnWords, OwnTokens, OwnBody
<1>6. pos \in 0 .. len /\ n - 1 \in pos .. len
  BY <1>1, <1>2
<1>7. /\ Joined(OwnWords, n - 1) = Joined(OwnWords, pos)
      /\ Joined(OwnTokens, n - 1) = Joined(OwnTokens, pos)
  <2> HIDE DEF len
  <2>1. /\ \A k \in 1 .. len : OwnWords[k] \in Seq(AnyWord)
        /\ \A k \in 1 .. len : OwnTokens[k] \in Seq(AnyToken)
    BY <1>1, OwnTypes DEF len
  <2>2. Joined(OwnWords, n - 1) = Joined(OwnWords, pos)
    <3>1. /\ \A k \in 1 .. len : OwnWords[k] \in Seq(AnyWord)
          /\ \A i \in pos + 1 .. n - 1 : OwnWords[i] = <<>>
      BY <2>1, <1>5
    <3>2. len \in Nat /\ pos \in 0 .. len /\ n - 1 \in pos .. len
      BY <1>1, <1>6
    <3> HIDE DEF len
    <3> QED
      BY ONLY <3>1, <3>2, JoinPad
  <2>3. Joined(OwnTokens, n - 1) = Joined(OwnTokens, pos)
    <3>1. /\ \A k \in 1 .. len : OwnTokens[k] \in Seq(AnyToken)
          /\ \A i \in pos + 1 .. n - 1 : OwnTokens[i] = <<>>
      BY <2>1, <1>5
    <3>2. len \in Nat /\ pos \in 0 .. len /\ n - 1 \in pos .. len
      BY <1>1, <1>6
    <3> HIDE DEF len
    <3> QED
      BY ONLY <3>1, <3>2, JoinPad
  <2> QED
    BY <2>2, <2>3
<1>8. \A j \in OwnFiles : j < n <=> j < pos \/ j = pos
  <2>1. \A j \in OwnFiles : j \in 1 .. len /\ ~Forwarded(j)
    BY <1>1, MessageFacts DEF OwnFiles
  <2>2. \A j \in OwnFiles : j \notin pos + 1 .. n - 1
    BY <2>1, <1>3
  <2> QED
    BY <2>1, <2>2, <1>1, <1>2
<1>9. /\ body_text' = Joined(OwnWords, n - 1) /\ body_html' = Joined(OwnTokens, n - 1)
  <2>1. CASE IsBody(p)
    <3>1. OwnWords[pos] = p.words /\ OwnTokens[pos] = p.tokens
      BY <2>1, <1>1, MessageFacts DEF OwnWords, OwnTokens, OwnBody
    <3>2. /\ Joined(OwnWords, pos) = Joined(OwnWords, pos - 1) \o p.words
          /\ Joined(OwnTokens, pos) = Joined(OwnTokens, pos - 1) \o p.tokens
      <4>1. /\ \A k \in 1 .. len : OwnWords[k] \in Seq(AnyWord)
            /\ \A k \in 1 .. len : OwnTokens[k] \in Seq(AnyToken)
        BY <1>1, OwnTypes
      <4> HIDE DEF len
      <4>m. len \in Nat /\ pos \in 1 .. len
        BY <1>1
      <4>w. \A k \in 1 .. len : OwnWords[k] \in Seq(AnyWord)
        BY <4>1
      <4>t. \A k \in 1 .. len : OwnTokens[k] \in Seq(AnyToken)
        BY <4>1
      <4>2. Joined(OwnWords, pos) = Joined(OwnWords, pos - 1) \o OwnWords[pos]
        BY ONLY <4>m, <4>w, JoinMore
      <4>3. Joined(OwnTokens, pos) = Joined(OwnTokens, pos - 1) \o OwnTokens[pos]
        BY ONLY <4>m, <4>t, JoinMore
      <4> QED
        BY <3>1, <4>2, <4>3
    <3> QED
      BY <3>2, <2>1, <1>1, <1>4, <1>7 DEF Walked
  <2>2. CASE ~IsBody(p)
    <3>1. OwnWords[pos] = <<>> /\ OwnTokens[pos] = <<>>
      BY <2>2, <1>1, MessageFacts DEF OwnWords, OwnTokens, OwnBody
    <3>2. /\ Joined(OwnWords, pos) = Joined(OwnWords, pos - 1)
          /\ Joined(OwnTokens, pos) = Joined(OwnTokens, pos - 1)
      BY <3>1, <1>1, OwnTypes, JoinSkip
    <3> QED
      BY <3>2, <2>2, <1>1, <1>4, <1>7 DEF Walked
  <2> QED
    BY <2>1, <2>2
<1>10. /\ attachments' \in Seq(ToSet(raw.parts))
       /\ ToSet(attachments') = {raw.parts[k] : k \in {j \in OwnFiles : j < n}}
  <2>1. CASE IsBody(p)
    <3>1. pos \notin OwnFiles
      BY <2>1 DEF OwnFiles
    <3>2. {j \in OwnFiles : j < n} = {j \in OwnFiles : j < pos}
      BY <3>1, <1>8
    <3> QED
      BY <3>2, <2>1, <1>1, <1>4 DEF Walked
  <2>2. CASE ~IsBody(p)
    <3>1. pos \in OwnFiles /\ p \in ToSet(raw.parts)
      BY <2>2, <1>1, MessageFacts DEF OwnFiles, ToSet
    <3>2. {j \in OwnFiles : j < n} = {j \in OwnFiles : j < pos} \cup {pos}
      BY <3>1, <1>8
    <3>3. /\ attachments' \in Seq(ToSet(raw.parts))
          /\ ToSet(attachments') = ToSet(attachments) \cup {p}
      BY <3>1, <2>2, <1>1, <1>4, AppendedRange DEF Walked
    <3> QED
      BY <3>2, <3>3, <1>1 DEF Walked
  <2> QED
    BY <2>1, <2>2
<1>11. Walked(pos)'
  BY <1>4, <1>9, <1>10, SameMessage DEF Walked
<1>12. pos' \in 1 .. len + 1
  BY <1>1, <1>2, <1>4
<1> QED
  BY <1>1, <1>2, <1>4, <1>11, <1>12, SameMessage DEF WalkInv

\* Past the last part, all of the sender's own was read.
LEMMA EndOfPartsWalks == WalkInv /\ EndOfParts => WalkInv'
<1> SUFFICES ASSUME WalkInv, EndOfParts PROVE WalkInv'
  OBVIOUS
<1>1. /\ raw \in Raw /\ pos = Len(raw.parts) + 1 /\ Walked(pos) /\ Len(raw.parts) \in Nat
  BY MessageFacts DEF WalkInv, EndOfParts
<1>2. /\ raw' = raw /\ phase' = "html" /\ attachments' = attachments
      /\ body_text' = Capped(body_text, MAX_BODY_CHARS)
      /\ body_html' = Capped(body_html, MAX_BODY_CHARS)
  BY DEF EndOfParts
<1>3. body_text' = Text /\ body_html' = Html
  <2>1. pos - 1 = Len(raw.parts) /\ DOMAIN raw.parts = 1 .. Len(raw.parts)
    BY <1>1, MessageFacts
  <2>2. /\ Text = Capped(Joined(OwnWords, Len(raw.parts)), MAX_BODY_CHARS)
        /\ Html = Capped(Joined(OwnTokens, Len(raw.parts)), MAX_BODY_CHARS)
    <3>1. /\ [k \in 1 .. Len(raw.parts) |-> OwnWords[k]] = OwnWords
          /\ [k \in 1 .. Len(raw.parts) |-> OwnTokens[k]] = OwnTokens
      BY <2>1 DEF OwnWords, OwnTokens
    <3> QED
      BY <3>1 DEF Text, Html, Joined, OwnWords, OwnTokens
  <2> QED
    BY <2>1, <2>2, <1>1, <1>2 DEF Walked
<1>4. {j \in OwnFiles : j < pos} = OwnFiles
  BY <1>1, MessageFacts DEF OwnFiles
<1>5. attachments \in Seq(ToSet(raw.parts)) /\ ToSet(attachments) = {raw.parts[k] : k \in OwnFiles}
  BY <1>1, <1>4 DEF Walked
<1> QED
  BY <1>1, <1>2, <1>3, <1>5, SameMessage DEF WalkInv

\* Later nothing of this changes.
LEMMA LaterWalks ==
  ASSUME WalkInv, UNCHANGED <<raw, parsed>>,
         \/ phase # "leaves" /\ phase' # "leaves"
         \/ UNCHANGED <<phase, pos>>
  PROVE  WalkInv'
<1>1. UNCHANGED <<raw, body_text, body_html, attachments>>
  BY DEF parsed
<1> QED
  BY <1>1, SameMessage DEF WalkInv, Walked

HtmlStep ==
  \/ InScript \/ StartAnchor \/ EndAnchor \/ OtherLink \/ StartScript \/ EndScript
  \/ Data \/ GivesUp \/ EndOfHtml

NoteStep == AddUrl \/ NoteHost \/ NoteIp \/ NoteDomain \/ NoteHash \/ NextPhase

LEMMA NextWalks == WalkInv /\ [ExtractionNext]_extraction => WalkInv'
<1> SUFFICES ASSUME WalkInv, [ExtractionNext]_extraction PROVE WalkInv'
  OBVIOUS
<1>1. CASE HtmlStep
  BY <1>1, LaterWalks
     DEF HtmlStep, InScript, StartAnchor, EndAnchor, OtherLink, StartScript, EndScript, Data,
         GivesUp, EndOfHtml, Reading
<1>2. CASE NoteStep
  <2>1. UNCHANGED <<raw, parsed>>
    BY <1>2 DEF NoteStep, AddUrl, NoteHost, NoteIp, NoteDomain, NoteHash, NextPhase
  <2>2. phase # "leaves" /\ phase' # "leaves"
    BY <1>2 DEF NoteStep, AddUrl, NoteHost, NoteIp, NoteDomain, NoteHash, NextPhase, Noting, Order
  <2> QED
    BY <2>1, <2>2, LaterWalks
<1>3. CASE UNCHANGED extraction
  BY <1>3, LaterWalks DEF extraction
<1> QED
  BY <1>1, <1>2, <1>3, DescendWalks, LeafWalks, EndOfPartsWalks
     DEF ExtractionNext, HtmlStep, NoteStep

-----------------------------------------------------------------------------
(* The links of the HTML *)

LEMMA CappedType ==
  ASSUME NEW T, NEW s \in Seq(T), NEW n \in Nat
  PROVE  Capped(s, n) \in Seq(T)
<1>1. Len(s) \in Nat
  OBVIOUS
<1>2. CASE Len(s) > n
  <2>1. Capped(s, n) = SubSeq(s, 1, n)
    BY <1>2 DEF Capped
  <2>2. \A i \in 1 .. n : s[i] \in T
    BY <1>1, <1>2
  <2>3. SubSeq(s, 1, n) = [i \in 1 .. n |-> s[i]]
    BY <1>1, <1>2
  <2> QED
    BY <2>1, <2>2, <2>3
<1>3. CASE Len(s) <= n
  <2>1. Capped(s, n) = SubSeq(s, 1, Len(s))
    BY <1>1, <1>3 DEF Capped
  <2> QED
    BY <2>1, <1>1
<1> QED
  BY <1>1, <1>2, <1>3

\* The text and the HTML, read at once, are of their types.
LEMMA BodyTypes ==
  ASSUME raw \in Raw PROVE Text \in Seq(AnyWord) /\ Html \in Seq(AnyToken)
<1> DEFINE len == Len(raw.parts)
<1>1. len \in Nat /\ DOMAIN raw.parts = 1 .. len
  BY MessageFacts
<1>2. /\ Text = Capped(Joined(OwnWords, len), MAX_BODY_CHARS)
      /\ Html = Capped(Joined(OwnTokens, len), MAX_BODY_CHARS)
  <2>1. /\ [k \in 1 .. len |-> OwnWords[k]] = OwnWords
        /\ [k \in 1 .. len |-> OwnTokens[k]] = OwnTokens
    BY <1>1 DEF OwnWords, OwnTokens
  <2> QED
    BY <2>1 DEF Text, Html, Joined, OwnWords, OwnTokens
<1> HIDE DEF len
<1>3. \A k \in 1 .. len : OwnWords[k] \in Seq(AnyWord)
  BY OwnTypes DEF len
<1>4. \A k \in 1 .. len : OwnTokens[k] \in Seq(AnyToken)
  BY OwnTypes DEF len
<1>5. len \in 0 .. len
  BY <1>1
<1>6. Joined(OwnWords, len) \in Seq(AnyWord)
  BY ONLY <1>1, <1>3, <1>5, JoinType
<1>7. Joined(OwnTokens, len) \in Seq(AnyToken)
  BY ONLY <1>1, <1>4, <1>5, JoinType
<1> QED
  BY <1>2, <1>6, <1>7, CappedType, ExtractionAssumption

LEMMA AtMostOne ==
  ASSUME NEW T, NEW t \in Seq(T), Len(t) <= 1 PROVE t = <<>> \/ t = <<t[1]>>
<1>1. Len(t) = 0 \/ Len(t) = 1
  <2>1. PICK n \in Nat : n = Len(t)
    OBVIOUS
  <2>2. n <= 1
    BY <2>1
  <2> QED
    BY <2>1, <2>2
<1>2. CASE Len(t) = 0
  BY <1>2
<1>3. CASE Len(t) = 1
  BY <1>3
<1> QED
  BY <1>1, <1>2, <1>3

\* What AnyToken says of the HTML's tokens.
LEMMA TokenFacts ==
  ASSUME raw \in Raw
  PROVE  /\ Len(Html) \in Nat /\ DOMAIN Html = 1 .. Len(Html)
         /\ \A k \in 1 .. Len(Html) :
              /\ Html[k].tag \in {"a", "/a", "script", "/script", "src", "broken", "data"}
              /\ Html[k].words \in Seq(AnyWord)
              /\ Html[k].target = <<>> \/ Html[k].target = <<Html[k].target[1]>>
<1>1. Html \in Seq(AnyToken)
  BY BodyTypes
<1>2. ASSUME NEW k \in 1 .. Len(Html)
      PROVE  /\ Html[k].tag \in {"a", "/a", "script", "/script", "src", "broken", "data"}
             /\ Html[k].words \in Seq(AnyWord)
             /\ Html[k].target = <<>> \/ Html[k].target = <<Html[k].target[1]>>
  <2>1. Html[k] \in AnyToken
    BY <1>1
  <2> DEFINE t == Html[k].target
  <2>2. t \in Seq(AnyWord) /\ Len(t) <= 1
    BY <2>1 DEF AnyToken
  <2> HIDE DEF t
  <2>3. t = <<>> \/ t = <<t[1]>>
    BY <2>2, AtMostOne
  <2> QED
    BY <2>1, <2>3 DEF AnyToken, t
<1> QED
  BY <1>1, <1>2

\* Script begins and ends with its tags.
LEMMA ScriptedStep ==
  ASSUME raw \in Raw, NEW k \in 1 .. Len(Html)
  PROVE  /\ Html[k].tag = "script" => Scripted(k + 1)
         /\ Html[k].tag = "/script" => ~Scripted(k + 1)
         /\ Html[k].tag \notin {"script", "/script"} => (Scripted(k + 1) <=> Scripted(k))
<1>1. k \in 1 .. k /\ k + 1 - 1 = k /\ k + 1 .. k = {} /\ Len(Html) \in Nat
  BY TokenFacts
<1>2. ASSUME Html[k].tag = "script" PROVE Scripted(k + 1)
  BY <1>1, <1>2 DEF Scripted
<1>3. ASSUME Html[k].tag = "/script", Scripted(k + 1) PROVE FALSE
  <2>1. PICK s \in 1 .. k : /\ Html[s].tag = "script"
                            /\ \A i \in s + 1 .. k : Html[i].tag # "/script"
    BY <1>1, <1>3 DEF Scripted
  <2>2. s # k
    BY <2>1, <1>3
  <2>3. k \in s + 1 .. k
    BY <2>1, <2>2
  <2> QED
    BY <2>1, <2>3, <1>3
<1>4. ASSUME Html[k].tag \notin {"script", "/script"}, Scripted(k + 1) PROVE Scripted(k)
  <2>1. PICK s \in 1 .. k : /\ Html[s].tag = "script"
                            /\ \A i \in s + 1 .. k : Html[i].tag # "/script"
    BY <1>1, <1>4 DEF Scripted
  <2>2. s \in 1 .. k - 1 /\ \A i \in s + 1 .. k - 1 : i \in s + 1 .. k
    BY <2>1, <1>4
  <2> QED
    BY <2>1, <2>2 DEF Scripted
<1>5. ASSUME Html[k].tag \notin {"script", "/script"}, Scripted(k) PROVE Scripted(k + 1)
  <2>1. PICK s \in 1 .. k - 1 : /\ Html[s].tag = "script"
                                /\ \A i \in s + 1 .. k - 1 : Html[i].tag # "/script"
    BY <1>5 DEF Scripted
  <2>2. s \in 1 .. k + 1 - 1 /\ \A i \in s + 1 .. k + 1 - 1 : i \in s + 1 .. k - 1 \/ i = k
    BY <2>1
  <2> QED
    BY <2>1, <2>2, <1>5 DEF Scripted
<1> QED
  BY <1>2, <1>3, <1>4, <1>5

EndsAnchor(j) == j \in Readable /\ Html[j].tag \in {"a", "/a"}

\* The anchors before r, and those of them that are ended there; the other links.
Before(r) == {k \in Anchors : k < r}
Closed(r) == {k \in Anchors : \E j \in k + 1 .. r - 1 : EndsAnchor(j)}
Past(r)   == {k \in Others : k < r}

\* What each token adds to the text of anchor k, and to the visible text.
Says(k) ==
  [i \in DOMAIN Html |->
     IF /\ i \in Readable /\ i > k /\ Html[i].tag = "data"
        /\ \A j \in k + 1 .. i : j \in Readable => Html[j].tag \notin {"a", "/a"}
     THEN Html[i].words ELSE <<>>]
Shows ==
  [i \in DOMAIN Html |-> IF i \in Readable /\ Html[i].tag = "data" THEN Html[i].words ELSE <<>>]

Shown(k) == [url |-> Html[k].target[1], text |-> TextOf(k)]
Other(k) == [url |-> Html[k].target[1], text |-> <<>>]

\* ls lists the anchors of C and the other links of O, each once.
Listed(C, O, ls) ==
  /\ ls \in Seq({Shown(k) : k \in Anchors} \cup {Other(k) : k \in Others})
  /\ ToSet(ls) = {Shown(k) : k \in C} \cup {Other(k) : k \in O}
  /\ IsFiniteSet(C) /\ IsFiniteSet(O)
  /\ Len(ls) = Cardinality(C) + Cardinality(O)

\* The anchor that is open where the tokens before r are read, with its text.
AnchorAt(r, open, text) ==
  \/ open = <<>> /\ Closed(r) = Before(r)
  \/ \E k \in Before(r) : /\ open = <<Html[k].target[1]>>
                          /\ text = Joined(Says(k), r - 1)
                          /\ \A j \in k + 1 .. r - 1 : ~EndsAnchor(j)

CollectedAt(r, open, text, visible, ls) ==
  /\ visible = Joined(Shows, r - 1)
  /\ Listed(Closed(r), Past(r), ls)
  /\ AnchorAt(r, open, text)

\* What is said in an anchor, and shown, is joined token by token.
LEMMA TextIs ==
  ASSUME raw \in Raw
  PROVE  /\ \A k : TextOf(k) = Capped(Joined(Says(k), Len(Html)), MAX_LINK_TEXT)
         /\ WordsOf({i \in Readable : Html[i].tag = "data"}) = Joined(Shows, Len(Html))
<1>0. DOMAIN Html = 1 .. Len(Html)
  BY TokenFacts
<1>1. ASSUME NEW k PROVE TextOf(k) = Capped(Joined(Says(k), Len(Html)), MAX_LINK_TEXT)
  <2> DEFINE said == {i \in Readable :
                       /\ i > k /\ Html[i].tag = "data"
                       /\ \A j \in k + 1 .. i : j \in Readable => Html[j].tag \notin {"a", "/a"}}
  <2>1. [i \in DOMAIN Html |-> IF i \in said THEN Html[i].words ELSE <<>>] = Says(k)
    BY DEF Says
  <2>2. [i \in 1 .. Len(Html) |-> Says(k)[i]] = Says(k)
    BY <1>0 DEF Says
  <2>3. WordsOf(said) = FlattenSeq(Says(k))
    BY <2>1 DEF WordsOf
  <2>4. TextOf(k) = Capped(WordsOf(said), MAX_LINK_TEXT)
    BY DEF TextOf
  <2> QED
    BY <2>2, <2>3, <2>4 DEF Joined
<1>2. WordsOf({i \in Readable : Html[i].tag = "data"}) = Joined(Shows, Len(Html))
  <2> DEFINE shown == {i \in Readable : Html[i].tag = "data"}
  <2>1. [i \in DOMAIN Html |-> IF i \in shown THEN Html[i].words ELSE <<>>] = Shows
    BY DEF Shows
  <2>2. [i \in 1 .. Len(Html) |-> Shows[i]] = Shows
    BY <1>0 DEF Shows
  <2>3. WordsOf(shown) = FlattenSeq(Shows)
    BY <2>1 DEF WordsOf
  <2> QED
    BY <2>2, <2>3 DEF Joined
<1> QED
  BY <1>1, <1>2

LEMMA WordsTypes ==
  ASSUME raw \in Raw
  PROVE  /\ \A i \in 1 .. Len(Html) : Shows[i] \in Seq(AnyWord)
         /\ \A k : \A i \in 1 .. Len(Html) : Says(k)[i] \in Seq(AnyWord)
<1>1. <<>> \in Seq(AnyWord)
  OBVIOUS
<1> QED
  BY <1>1, TokenFacts DEF Says, Shows

\* What tokens add to the words.
LEMMA ShowsMore ==
  ASSUME raw \in Raw, NEW r \in 1 .. Len(Html)
  PROVE  /\ Joined(Shows, r - 1) \in Seq(AnyWord)
         /\ Joined(Shows, r) = Joined(Shows, r - 1) \o Shows[r]
         /\ Shows[r] = <<>> => Joined(Shows, r) = Joined(Shows, r - 1)
<1>1. Len(Html) \in Nat
  BY TokenFacts
<1>2. \A i \in 1 .. Len(Html) : Shows[i] \in Seq(AnyWord)
  BY WordsTypes
<1>3. Joined(Shows, r - 1) \in Seq(AnyWord) /\ Joined(Shows, r) = Joined(Shows, r - 1) \o Shows[r]
  BY ONLY <1>1, <1>2, r \in 1 .. Len(Html), JoinMore
<1>4. ASSUME Shows[r] = <<>> PROVE Joined(Shows, r) = Joined(Shows, r - 1)
  BY ONLY <1>1, <1>2, <1>4, r \in 1 .. Len(Html), JoinSkip
<1> QED
  BY <1>3, <1>4

\* One token more.
LEMMA SaysMore ==
  ASSUME raw \in Raw, NEW r \in 1 .. Len(Html), NEW k
  PROVE  /\ Joined(Says(k), r - 1) \in Seq(AnyWord)
         /\ Joined(Says(k), r) = Joined(Says(k), r - 1) \o Says(k)[r]
         /\ Says(k)[r] = <<>> => Joined(Says(k), r) = Joined(Says(k), r - 1)
<1>1. Len(Html) \in Nat
  BY TokenFacts
<1>2. \A i \in 1 .. Len(Html) : Says(k)[i] \in Seq(AnyWord)
  BY WordsTypes
<1>3. /\ Joined(Says(k), r - 1) \in Seq(AnyWord)
      /\ Joined(Says(k), r) = Joined(Says(k), r - 1) \o Says(k)[r]
  BY ONLY <1>1, <1>2, r \in 1 .. Len(Html), JoinMore
<1>4. ASSUME Says(k)[r] = <<>> PROVE Joined(Says(k), r) = Joined(Says(k), r - 1)
  BY ONLY <1>1, <1>2, <1>4, r \in 1 .. Len(Html), JoinSkip
<1> QED
  BY <1>3, <1>4

\* Readable tokens and links are tokens; they are finitely many.
LEMMA SetFacts ==
  ASSUME raw \in Raw
  PROVE  /\ Readable \subseteq 1 .. Len(Html) /\ Anchors \subseteq Readable /\ Others \subseteq Readable
         /\ IsFiniteSet(Anchors) /\ IsFiniteSet(Others)
         /\ \A r : /\ Closed(r) \subseteq Anchors /\ Before(r) \subseteq Anchors
                   /\ Past(r) \subseteq Others
                   /\ IsFiniteSet(Closed(r)) /\ IsFiniteSet(Before(r)) /\ IsFiniteSet(Past(r))
<1>1. /\ Readable \subseteq 1 .. Len(Html) /\ Anchors \subseteq Readable /\ Others \subseteq Readable
      /\ \A r : /\ Closed(r) \subseteq Anchors /\ Before(r) \subseteq Anchors
                /\ Past(r) \subseteq Others
  BY TokenFacts DEF Readable, Anchors, Others, Closed, Before, Past
<1>2. IsFiniteSet(1 .. Len(Html))
  BY TokenFacts, FS_Interval
<1> QED
  BY <1>1, <1>2, FS_Subset

\* A link is listed.
LEMMA ListedAnchor ==
  ASSUME NEW C, NEW O, NEW ls, Listed(C, O, ls), NEW k \in Anchors \ C
  PROVE  Listed(C \cup {k}, O, Append(ls, Shown(k)))
<1> DEFINE T == {Shown(i) : i \in Anchors} \cup {Other(i) : i \in Others}
<1>1. ls \in Seq(T) /\ Shown(k) \in T
  BY DEF Listed
<1>2. ToSet(ls) = {Shown(i) : i \in C} \cup {Other(i) : i \in O}
  BY DEF Listed
<1>3. /\ IsFiniteSet(C) /\ IsFiniteSet(O) /\ k \notin C
      /\ Len(ls) = Cardinality(C) + Cardinality(O)
  BY DEF Listed
<1> HIDE DEF T
<1>4. /\ Append(ls, Shown(k)) \in Seq(T) /\ Len(Append(ls, Shown(k))) = Len(ls) + 1
      /\ ToSet(Append(ls, Shown(k))) = ToSet(ls) \cup {Shown(k)}
  BY <1>1, AppendedRange
<1>5. IsFiniteSet(C \cup {k}) /\ Cardinality(C \cup {k}) = Cardinality(C) + 1
  BY <1>3, FS_AddElement
<1>6. Cardinality(C) \in Nat /\ Cardinality(O) \in Nat
  BY <1>3, FS_CardinalityType
<1>7. Len(Append(ls, Shown(k))) = Cardinality(C \cup {k}) + Cardinality(O)
  BY <1>3, <1>4, <1>5, <1>6
<1>8. ToSet(Append(ls, Shown(k))) = {Shown(i) : i \in C \cup {k}} \cup {Other(i) : i \in O}
  BY <1>2, <1>4
<1> QED
  BY <1>3, <1>4, <1>5, <1>7, <1>8 DEF Listed, T

\* A link that is not an anchor, listed.
LEMMA ListedOther ==
  ASSUME NEW C, NEW O, NEW ls, Listed(C, O, ls), NEW k \in Others \ O
  PROVE  Listed(C, O \cup {k}, Append(ls, Other(k)))
<1> DEFINE T == {Shown(i) : i \in Anchors} \cup {Other(i) : i \in Others}
<1>1. ls \in Seq(T) /\ Other(k) \in T
  BY DEF Listed
<1>2. ToSet(ls) = {Shown(i) : i \in C} \cup {Other(i) : i \in O}
  BY DEF Listed
<1>3. /\ IsFiniteSet(C) /\ IsFiniteSet(O) /\ k \notin O
      /\ Len(ls) = Cardinality(C) + Cardinality(O)
  BY DEF Listed
<1> HIDE DEF T
<1>4. /\ Append(ls, Other(k)) \in Seq(T) /\ Len(Append(ls, Other(k))) = Len(ls) + 1
      /\ ToSet(Append(ls, Other(k))) = ToSet(ls) \cup {Other(k)}
  BY <1>1, AppendedRange
<1>5. IsFiniteSet(O \cup {k}) /\ Cardinality(O \cup {k}) = Cardinality(O) + 1
  BY <1>3, FS_AddElement
<1>6. Cardinality(C) \in Nat /\ Cardinality(O) \in Nat
  BY <1>3, FS_CardinalityType
<1>7. Len(Append(ls, Other(k))) = Cardinality(C) + Cardinality(O \cup {k})
  BY <1>3, <1>4, <1>5, <1>6
<1>8. ToSet(Append(ls, Other(k))) = {Shown(i) : i \in C} \cup {Other(i) : i \in O \cup {k}}
  BY <1>2, <1>4
<1> QED
  BY <1>3, <1>4, <1>5, <1>7, <1>8 DEF Listed, T

\* Where one token more is read: which anchors it ends, which links it is.
LEMMA OneMore ==
  ASSUME raw \in Raw, NEW r \in 1 .. Len(Html)
  PROVE  /\ Before(r + 1) = Before(r) \cup ({r} \cap Anchors)
         /\ Past(r + 1) = Past(r) \cup ({r} \cap Others)
         /\ r \notin Before(r) /\ r \notin Past(r) /\ r \notin Closed(r)
         /\ EndsAnchor(r) => Closed(r + 1) = Before(r)
         /\ ~EndsAnchor(r) => Closed(r + 1) = Closed(r) /\ r \notin Anchors
<1>0. /\ Len(Html) \in Nat /\ r \in Nat
      /\ \A k \in Anchors : k \in Nat
      /\ \A k \in Others : k \in Nat
  BY TokenFacts, SetFacts
<1>1. Before(r + 1) = Before(r) \cup ({r} \cap Anchors)
  <2>1. \A k \in Anchors : k < r + 1 <=> k < r \/ k = r
    BY <1>0
  <2> QED
    BY <2>1 DEF Before
<1>2. Past(r + 1) = Past(r) \cup ({r} \cap Others)
  <2>1. \A k \in Others : k < r + 1 <=> k < r \/ k = r
    BY <1>0
  <2> QED
    BY <2>1 DEF Past
<1>3. r \notin Before(r) /\ r \notin Past(r)
  BY <1>0 DEF Before, Past
<1>4. r \notin Closed(r)
  <2>1. r + 1 .. r - 1 = {}
    BY <1>0
  <2> QED
    BY <2>1 DEF Closed
<1>5. ASSUME EndsAnchor(r) PROVE Closed(r + 1) = Before(r)
  <2>1. ASSUME NEW k \in Anchors
        PROVE  (\E j \in k + 1 .. r + 1 - 1 : EndsAnchor(j)) <=> k < r
    <3>1. k \in Nat
      BY <1>0
    <3>2. ASSUME k < r PROVE r \in k + 1 .. r + 1 - 1
      BY <1>0, <3>1, <3>2
    <3>3. ASSUME NEW j \in k + 1 .. r + 1 - 1 PROVE k < r
      BY <1>0, <3>1
    <3> QED
      BY <3>2, <3>3, <1>5
  <2> QED
    BY <2>1 DEF Closed, Before
<1>6. ASSUME ~EndsAnchor(r) PROVE Closed(r + 1) = Closed(r) /\ r \notin Anchors
  <2>1. ASSUME NEW k \in Anchors
        PROVE  \A j : j \in k + 1 .. r + 1 - 1 <=> j \in k + 1 .. r - 1 \/ (j = r /\ k < r)
    BY <1>0
  <2>2. Closed(r + 1) = Closed(r)
    BY <2>1, <1>6 DEF Closed
  <2>3. r \notin Anchors
    BY <1>6 DEF EndsAnchor, Anchors
  <2> QED
    BY <2>2, <2>3
<1> QED
  BY <1>1, <1>2, <1>3, <1>4, <1>5, <1>6

\* An anchor that is open is the last one.
LEMMA OpenIsLast ==
  ASSUME raw \in Raw, NEW r \in 1 .. Len(Html) + 1, NEW k \in Before(r),
         \A j \in k + 1 .. r - 1 : ~EndsAnchor(j)
  PROVE  Before(r) = Closed(r) \cup {k} /\ k \in Anchors \ Closed(r)
<1>0. /\ Len(Html) \in Nat /\ r \in Nat /\ k \in Anchors /\ k < r
      /\ \A i \in Anchors : i \in Nat
  BY TokenFacts, SetFacts DEF Before
<1>1. \A i \in Anchors : EndsAnchor(i)
  BY DEF Anchors, EndsAnchor
<1>2. k \notin Closed(r)
  BY DEF Closed
<1>3. ASSUME NEW i \in Anchors, i < r, i # k PROVE i \in Closed(r)
  <2>1. CASE i < k
    <3>1. k \in i + 1 .. r - 1
      BY <2>1, <1>0
    <3> QED
      BY <3>1, <1>0, <1>1 DEF Closed
  <2>2. CASE i > k
    <3>1. i \in k + 1 .. r - 1
      BY <2>2, <1>0, <1>3
    <3> QED
      BY <3>1, <1>1
  <2> QED
    BY <2>1, <2>2, <1>0, <1>3
<1>4. ASSUME NEW i \in Closed(r) PROVE i \in Anchors /\ i < r
  <2>1. i \in Anchors /\ i \in Nat /\ \E j \in i + 1 .. r - 1 : EndsAnchor(j)
    BY <1>0 DEF Closed
  <2> QED
    BY <2>1, <1>0
<1>5. Before(r) \subseteq Closed(r) \cup {k}
  BY <1>3 DEF Before
<1>6. Closed(r) \cup {k} \subseteq Before(r)
  BY <1>0, <1>4 DEF Before
<1> QED
  BY <1>0, <1>2, <1>5, <1>6

\* Where nothing more is said, the text is complete.
LEMMA SaysNoMore ==
  ASSUME raw \in Raw, NEW r \in 1 .. Len(Html) + 1, NEW k,
         \A i \in r .. Len(Html) : Says(k)[i] = <<>>
  PROVE  Joined(Says(k), Len(Html)) = Joined(Says(k), r - 1)
<1> DEFINE len == Len(Html)
<1>1. len \in Nat
  BY TokenFacts
<1>2. \A i \in 1 .. len : Says(k)[i] \in Seq(AnyWord)
  BY WordsTypes
<1>3. r \in 1 .. len + 1 /\ \A i \in r .. len : Says(k)[i] = <<>>
  OBVIOUS
<1> HIDE DEF len
<1>5. Joined(Says(k), len) = Joined(Says(k), r - 1)
  BY ONLY <1>1, <1>2, <1>3, JoinTail
<1> QED
  BY <1>5 DEF len

LEMMA ShowsNoMore ==
  ASSUME raw \in Raw, NEW r \in 1 .. Len(Html) + 1, \A i \in r .. Len(Html) : Shows[i] = <<>>
  PROVE  Joined(Shows, Len(Html)) = Joined(Shows, r - 1)
<1> DEFINE len == Len(Html)
<1>1. len \in Nat /\ r \in 1 .. len + 1
  BY TokenFacts
<1>2. \A i \in 1 .. len : Shows[i] \in Seq(AnyWord)
  BY WordsTypes
<1>3. \A i \in r .. len : Shows[i] = <<>>
  OBVIOUS
<1> HIDE DEF len
<1>4. Joined(Shows, len) = Joined(Shows, r - 1)
  BY ONLY <1>1, <1>2, <1>3, JoinTail
<1> QED
  BY <1>4 DEF len

\* Finishing the anchor, where nothing more is said in it.
LEMMA Finished ==
  ASSUME raw \in Raw, NEW r \in 1 .. Len(Html) + 1,
         CollectedAt(r, anchor, anchor_text, visible_text, links),
         \A k \in Before(r) : \A i \in r .. Len(Html) : Says(k)[i] = <<>>
  PROVE  Listed(Before(r), Past(r), FinishAnchor)
<1>1. Listed(Closed(r), Past(r), links) /\ AnchorAt(r, anchor, anchor_text)
  BY DEF CollectedAt
<1>2. CASE anchor = <<>> /\ Closed(r) = Before(r)
  BY <1>1, <1>2 DEF FinishAnchor
<1>3. ASSUME NEW k \in Before(r), anchor = <<Html[k].target[1]>>,
             anchor_text = Joined(Says(k), r - 1), \A j \in k + 1 .. r - 1 : ~EndsAnchor(j)
      PROVE  Listed(Before(r), Past(r), FinishAnchor)
  <2>1. Capped(anchor_text, MAX_LINK_TEXT) = TextOf(k)
    BY <1>3, SaysNoMore, TextIs
  <2>2. anchor # <<>> /\ anchor[1] = Html[k].target[1]
    BY <1>3
  <2>3. FinishAnchor = Append(links, Shown(k))
    BY <2>1, <2>2 DEF FinishAnchor, Shown
  <2>4. Before(r) = Closed(r) \cup {k} /\ k \in Anchors \ Closed(r)
    BY <1>3, OpenIsLast
  <2> QED
    BY <1>1, <2>3, <2>4, ListedAnchor
<1> QED
  BY <1>1, <1>2, <1>3 DEF AnchorAt

\* An anchor that a token does not end stays open, with what the token says in it.
LEMMA StillOpen ==
  ASSUME raw \in Raw, NEW r \in 1 .. Len(Html), ~EndsAnchor(r),
         NEW open, NEW text, AnchorAt(r, open, text), NEW more,
         \A k \in Before(r) : /\ open # <<>> /\ text = Joined(Says(k), r - 1)
                              /\ \A j \in k + 1 .. r - 1 : ~EndsAnchor(j)
                              => more = Joined(Says(k), r)
  PROVE  AnchorAt(r + 1, open, more)
<1>1. Before(r + 1) = Before(r) /\ Closed(r + 1) = Closed(r)
  <2>1. Closed(r + 1) = Closed(r) /\ r \notin Anchors
    BY OneMore
  <2>2. {r} \cap Anchors = {}
    BY <2>1
  <2>3. Before(r + 1) = Before(r) \cup ({r} \cap Anchors)
    BY OneMore
  <2> QED
    BY <2>1, <2>2, <2>3
<1>2. CASE open = <<>> /\ Closed(r) = Before(r)
  BY <1>1, <1>2 DEF AnchorAt
<1>3. ASSUME NEW k \in Before(r), open = <<Html[k].target[1]>>,
             text = Joined(Says(k), r - 1), \A j \in k + 1 .. r - 1 : ~EndsAnchor(j)
      PROVE  AnchorAt(r + 1, open, more)
  <2>1. k \in Nat /\ Len(Html) \in Nat /\ (r + 1) - 1 = r
    BY TokenFacts, SetFacts
  <2>2. \A j \in k + 1 .. (r + 1) - 1 : j \in k + 1 .. r - 1 \/ j = r
    BY <2>1
  <2>3. \A j \in k + 1 .. (r + 1) - 1 : ~EndsAnchor(j)
    BY <2>2, <1>3
  <2>4. open # <<>>
    BY <1>3
  <2>5. more = Joined(Says(k), (r + 1) - 1)
    BY <2>1, <2>4, <1>3
  <2> QED
    BY <2>3, <2>5, <1>1, <1>3 DEF AnchorAt
<1> QED
  BY <1>2, <1>3 DEF AnchorAt

\* A token that shows and links nothing.
LEMMA Skipped ==
  ASSUME raw \in Raw, NEW r \in 1 .. Len(Html), NEW open, NEW text, NEW visible, NEW ls,
         CollectedAt(r, open, text, visible, ls),
         r \notin Readable \/ Html[r].tag \in {"script", "/script"}
  PROVE  CollectedAt(r + 1, open, text, visible, ls)
<1>0. Len(Html) \in Nat /\ r \in DOMAIN Html /\ (r + 1) - 1 = r
  BY TokenFacts
<1>1. ~EndsAnchor(r) /\ r \notin Others
  BY DEF EndsAnchor, Others
<1>2. Closed(r + 1) = Closed(r) /\ Before(r + 1) = Before(r) /\ Past(r + 1) = Past(r)
  <2>1. Closed(r + 1) = Closed(r) /\ r \notin Anchors
    BY <1>1, OneMore
  <2>2. {r} \cap Anchors = {} /\ {r} \cap Others = {}
    BY <1>1, <2>1
  <2>3. /\ Before(r + 1) = Before(r) \cup ({r} \cap Anchors)
        /\ Past(r + 1) = Past(r) \cup ({r} \cap Others)
    BY OneMore
  <2> QED
    BY <2>1, <2>2, <2>3
<1>3. Shows[r] = <<>> /\ \A k : Says(k)[r] = <<>>
  BY <1>0 DEF Shows, Says
<1>4. Joined(Shows, r) = Joined(Shows, r - 1)
  BY <1>3, ShowsMore
<1>5. \A k : Joined(Says(k), r) = Joined(Says(k), r - 1)
  BY <1>3, SaysMore
<1>7. AnchorAt(r + 1, open, text)
  BY <1>1, <1>5, StillOpen DEF CollectedAt
<1> QED
  BY <1>0, <1>2, <1>4, <1>7 DEF CollectedAt
\* <a> and </a> end the anchor before them; <a> may start one.
LEMMA Ended ==
  ASSUME raw \in Raw, NEW r \in 1 .. Len(Html), EndsAnchor(r),
         CollectedAt(r, anchor, anchor_text, visible_text, links),
         NEW open, open = IF Html[r].tag = "a" THEN Html[r].target ELSE <<>>
  PROVE  CollectedAt(r + 1, open, <<>>, visible_text, FinishAnchor)
<1>0. Len(Html) \in Nat /\ r \in DOMAIN Html /\ (r + 1) - 1 = r /\ r \in 1 .. Len(Html) + 1
  BY TokenFacts
<1>1. /\ r \in Readable /\ Html[r].tag \in {"a", "/a"} /\ r \notin Others
  BY DEF EndsAnchor, Others
<1>2. ASSUME NEW k \in Before(r), NEW i \in r .. Len(Html) PROVE Says(k)[i] = <<>>
  <2>1. k \in Nat /\ k < r /\ i \in DOMAIN Html
    BY <1>0, TokenFacts, SetFacts DEF Before
  <2>2. r \in k + 1 .. i
    BY <1>0, <2>1
  <2> QED
    BY <1>1, <2>1, <2>2 DEF Says
<1>3. Listed(Before(r), Past(r), FinishAnchor)
  BY <1>0, <1>2, Finished
<1>4. Closed(r + 1) = Before(r) /\ Past(r + 1) = Past(r)
  <2>1. {r} \cap Others = {}
    BY <1>1
  <2>2. /\ Closed(r + 1) = Before(r)
        /\ Past(r + 1) = Past(r) \cup ({r} \cap Others)
    BY OneMore
  <2> QED
    BY <2>1, <2>2
<1>5. Shows[r] = <<>>
  BY <1>0, <1>1 DEF Shows
<1>6. visible_text = Joined(Shows, r)
  BY <1>5, ShowsMore DEF CollectedAt
<1>7. AnchorAt(r + 1, open, <<>>)
  <2>1. CASE open = <<>>
    <3>1. r \notin Anchors
      BY <2>1, <1>1 DEF Anchors
    <3>2. {r} \cap Anchors = {}
      BY <3>1
    <3>3. Before(r + 1) = Before(r) \cup ({r} \cap Anchors)
      BY OneMore
    <3>4. Before(r + 1) = Closed(r + 1)
      BY <3>2, <3>3, <1>4
    <3> QED
      BY <3>4, <2>1 DEF AnchorAt
  <2>2. CASE open # <<>>
    <3>1. Html[r].tag = "a" /\ open = Html[r].target /\ r \in Anchors
      BY <2>2, <1>1 DEF Anchors
    <3>2. r \in Before(r + 1)
      BY <3>1, <1>0 DEF Before
    <3>3. open = <<Html[r].target[1]>>
      BY <3>1, <2>2, TokenFacts
    <3>4. Joined(Says(r), r) = <<>>
      <4> DEFINE len == Len(Html)
      <4>1. \A i \in 1 .. len : Says(r)[i] \in Seq(AnyWord)
        BY WordsTypes
      <4>2. \A i \in 0 + 1 .. r : Says(r)[i] = <<>>
        BY <1>0, TokenFacts DEF Says
      <4>3. len \in Nat /\ 0 \in 0 .. len /\ r \in 0 .. len
        BY <1>0
      <4> HIDE DEF len
      <4>4. Joined(Says(r), r) = Joined(Says(r), 0)
        BY ONLY <4>1, <4>2, <4>3, JoinPad
      <4> QED
        BY <4>4, JoinNone
    <3>5. r + 1 .. (r + 1) - 1 = {}
      BY <1>0
    <3> QED
      BY <3>2, <3>3, <3>4, <3>5, <1>0 DEF AnchorAt
  <2> QED
    BY <2>1, <2>2
<1> QED
  BY <1>0, <1>3, <1>4, <1>6, <1>7 DEF CollectedAt

\* Any other tag with a link.
LEMMA Linked ==
  ASSUME raw \in Raw, NEW r \in 1 .. Len(Html), r \in Readable, Html[r].tag = "src",
         NEW open, NEW text, NEW visible, NEW ls, CollectedAt(r, open, text, visible, ls)
  PROVE  CollectedAt(r + 1, open, text, visible,
                     ls \o [k \in DOMAIN Html[r].target |->
                              [url |-> Html[r].target[k], text |-> <<>>]])
<1> DEFINE more == ls \o [k \in DOMAIN Html[r].target |->
                            [url |-> Html[r].target[k], text |-> <<>>]]
<1>0. Len(Html) \in Nat /\ r \in DOMAIN Html /\ (r + 1) - 1 = r
  BY TokenFacts
<1>1. ~EndsAnchor(r)
  BY DEF EndsAnchor
<1>2. /\ Closed(r + 1) = Closed(r) /\ Before(r + 1) = Before(r)
      /\ Past(r + 1) = Past(r) \cup ({r} \cap Others) /\ r \notin Past(r)
  <2>1. Closed(r + 1) = Closed(r) /\ r \notin Anchors
    BY <1>1, OneMore
  <2>2. {r} \cap Anchors = {}
    BY <2>1
  <2>3. /\ Before(r + 1) = Before(r) \cup ({r} \cap Anchors)
        /\ Past(r + 1) = Past(r) \cup ({r} \cap Others) /\ r \notin Past(r)
    BY OneMore
  <2> QED
    BY <2>1, <2>2, <2>3
<1>3. Listed(Closed(r), Past(r), ls)
  BY DEF CollectedAt
<1>4. Listed(Closed(r), Past(r + 1), more)
  <2>1. CASE Html[r].target = <<>>
    <3>1. r \notin Others
      BY <2>1 DEF Others
    <3>2. {r} \cap Others = {}
      BY <3>1
    <3>3. more = ls
      <4> DEFINE T == {Shown(k) : k \in Anchors} \cup {Other(k) : k \in Others}
      <4>1. [k \in DOMAIN Html[r].target |-> [url |-> Html[r].target[k], text |-> <<>>]] = <<>>
        BY <2>1
      <4>2. ls \in Seq(T)
        BY <1>3 DEF Listed
      <4>3. more = ls \o <<>>
        BY <4>1
      <4> HIDE DEF T, more
      <4> QED
        BY <4>2, <4>3
    <3> QED
      BY <3>2, <3>3, <1>2, <1>3
  <2>2. CASE Html[r].target # <<>>
    <3>1. r \in Others \ Past(r) /\ Html[r].target = <<Html[r].target[1]>>
      BY <2>2, <1>2, TokenFacts DEF Others
    <3>2. {r} \cap Others = {r}
      BY <3>1
    <3>3. more = Append(ls, Other(r))
      <4>1. [k \in DOMAIN Html[r].target |-> [url |-> Html[r].target[k], text |-> <<>>]]
              = <<Other(r)>>
        BY <3>1 DEF Other
      <4> DEFINE T == {Shown(k) : k \in Anchors} \cup {Other(k) : k \in Others}
      <4>2. ls \in Seq(T)
        BY <1>3 DEF Listed
      <4>3. more = ls \o <<Other(r)>>
        BY <4>1
      <4>4. Other(r) \in T
        BY <3>1
      <4> HIDE DEF T, more
      <4> QED
        BY <4>2, <4>3, <4>4
    <3> HIDE DEF more
    <3>4. Past(r + 1) = Past(r) \cup {r}
      BY <3>2, <1>2
    <3>5. Listed(Closed(r), Past(r) \cup {r}, Append(ls, Other(r)))
      BY <3>1, <1>3, ListedOther
    <3> QED
      BY <3>3, <3>4, <3>5
  <2> QED
    BY <2>1, <2>2
<1>5. Shows[r] = <<>> /\ \A k : Says(k)[r] = <<>>
  BY <1>0 DEF Shows, Says
<1>6. Joined(Shows, r) = Joined(Shows, r - 1)
  BY <1>5, ShowsMore
<1>7. \A k : Joined(Says(k), r) = Joined(Says(k), r - 1)
  BY <1>5, SaysMore
<1>8. AnchorAt(r + 1, open, text)
  BY <1>1, <1>7, StillOpen DEF CollectedAt
<1> HIDE DEF more
<1>9. CollectedAt(r + 1, open, text, visible, more)
  BY <1>0, <1>2, <1>4, <1>6, <1>8 DEF CollectedAt
<1> QED
  BY <1>9 DEF more
\* Text is shown, and said in the anchor that is open.
LEMMA Told ==
  ASSUME raw \in Raw, NEW r \in 1 .. Len(Html), r \in Readable, Html[r].tag = "data",
         NEW open, NEW text, NEW visible, NEW ls, CollectedAt(r, open, text, visible, ls)
  PROVE  CollectedAt(r + 1, open, IF open = <<>> THEN <<>> ELSE text \o Html[r].words,
                     visible \o Html[r].words, ls)
<1> DEFINE more == IF open = <<>> THEN <<>> ELSE text \o Html[r].words
<1>0. Len(Html) \in Nat /\ r \in DOMAIN Html /\ (r + 1) - 1 = r
  BY TokenFacts
<1>1. ~EndsAnchor(r) /\ r \notin Others
  BY DEF EndsAnchor, Others
<1>2. Closed(r + 1) = Closed(r) /\ Past(r + 1) = Past(r)
  <2>1. {r} \cap Others = {}
    BY <1>1
  <2>2. Closed(r + 1) = Closed(r)
    BY <1>1, OneMore
  <2>3. Past(r + 1) = Past(r) \cup ({r} \cap Others)
    BY OneMore
  <2> QED
    BY <2>1, <2>2, <2>3
<1>3. Shows[r] = Html[r].words
  BY <1>0 DEF Shows
<1>4. visible \o Html[r].words = Joined(Shows, r)
  BY <1>3, ShowsMore DEF CollectedAt
<1>5. ASSUME NEW k \in Before(r), open # <<>>, text = Joined(Says(k), r - 1),
             \A j \in k + 1 .. r - 1 : ~EndsAnchor(j)
      PROVE  more = Joined(Says(k), r)
  <2>1. k \in Nat /\ k < r
    BY SetFacts, <1>0 DEF Before
  <2>2. \A j \in k + 1 .. r : j \in k + 1 .. r - 1 \/ j = r
    BY <1>0, <2>1
  <2>3. \A j \in k + 1 .. r : ~EndsAnchor(j)
    BY <2>2, <1>1, <1>5
  <2>4. Says(k)[r] = Html[r].words
    BY <1>0, <2>1, <2>3 DEF Says, EndsAnchor
  <2>5. Joined(Says(k), r) = Joined(Says(k), r - 1) \o Says(k)[r]
    BY SaysMore
  <2> QED
    BY <2>4, <2>5, <1>5
<1> HIDE DEF more
<1>6. AnchorAt(r + 1, open, more)
  BY <1>1, <1>5, StillOpen DEF CollectedAt
<1>7. CollectedAt(r + 1, open, more, visible \o Html[r].words, ls)
  BY <1>0, <1>2, <1>4, <1>6 DEF CollectedAt
<1> QED
  BY <1>7 DEF more

\* The collector's state where all tokens before pos were read ...
Reads ==
  /\ \A i \in 1 .. pos - 1 : Html[i].tag = "broken" => Scripted(i)
  /\ skip_depth = IF Scripted(pos) THEN 1 ELSE 0
  /\ CollectedAt(pos, anchor, anchor_text, visible_text, links)

\* ... and where HTMLParser gave up at token r.
GaveUp ==
  /\ pos = Len(Html) + 1
  /\ \E r \in 1 .. Len(Html) : /\ \A k \in Readable : k < r
                               /\ CollectedAt(r, anchor, anchor_text, visible_text, links)

CollectInv ==
  /\ WalkInv
  /\ phase = "leaves" => /\ skip_depth = 0 /\ anchor = <<>>
                         /\ visible_text = <<>> /\ links = <<>>
  /\ phase = "html" => pos \in 1 .. Len(Html) + 1 /\ (Reads \/ GaveUp)
  /\ phase \notin {"leaves", "html"} => /\ visible_text = Joined(Shows, Len(Html))
                                        /\ Listed(Anchors, Others, links)

\* None of this depends on anything but the message.
LEMMA SameHtml ==
  ASSUME raw' = raw
  PROVE  /\ Html' = Html /\ Readable' = Readable /\ Anchors' = Anchors /\ Others' = Others
         /\ Shows' = Shows
         /\ \A k : Scripted(k)' = Scripted(k)
         /\ \A k : /\ Says(k)' = Says(k) /\ TextOf(k)' = TextOf(k)
                   /\ Closed(k)' = Closed(k) /\ Before(k)' = Before(k) /\ Past(k)' = Past(k)
         /\ \A k : Shown(k)' = Shown(k) /\ Other(k)' = Other(k)
<1>1. Html' = Html
  BY SameMessage
<1>2. \A k : Scripted(k)' = Scripted(k)
  BY <1>1 DEF Scripted
<1>3. Readable' = Readable
  BY <1>1, <1>2 DEF Readable
<1>4. Anchors' = Anchors /\ Others' = Others
  BY <1>1, <1>3 DEF Anchors, Others
<1>5. Shows' = Shows /\ \A k : Says(k)' = Says(k)
  BY <1>1, <1>3 DEF Shows, Says
<1>6. \A k : TextOf(k)' = TextOf(k)
  BY <1>1, <1>3 DEF TextOf, WordsOf
<1>7. \A j : EndsAnchor(j)' = EndsAnchor(j)
  BY <1>1, <1>3 DEF EndsAnchor
<1>8. \A k : Closed(k)' = Closed(k) /\ Before(k)' = Before(k) /\ Past(k)' = Past(k)
  BY <1>4, <1>7 DEF Closed, Before, Past
<1>9. \A k : Shown(k)' = Shown(k) /\ Other(k)' = Other(k)
  BY <1>1, <1>6 DEF Shown, Other
<1> QED
  BY <1>1, <1>2, <1>3, <1>4, <1>5, <1>6, <1>8, <1>9

LEMMA SameCollected ==
  ASSUME raw' = raw
  PROVE  /\ CollectedAt(pos', anchor', anchor_text', visible_text', links') =>
              CollectedAt(pos, anchor, anchor_text, visible_text, links)'
         /\ \A r : CollectedAt(r, anchor', anchor_text', visible_text', links') =>
              CollectedAt(r, anchor, anchor_text, visible_text, links)'
         /\ Listed(Anchors, Others, links') => Listed(Anchors, Others, links)'
<1>1. \A j : EndsAnchor(j)' = EndsAnchor(j)
  BY SameHtml DEF EndsAnchor
<1>2. Closed(pos)' = Closed(pos') /\ Past(pos)' = Past(pos') /\ Before(pos)' = Before(pos')
  BY <1>1, SameHtml DEF Closed, Past, Before
<1>3. /\ {Shown(k) : k \in Anchors}' = {Shown(k) : k \in Anchors}
      /\ {Other(k) : k \in Others}' = {Other(k) : k \in Others}
  BY SameHtml
<1>4. ASSUME Listed(Anchors, Others, links') PROVE Listed(Anchors, Others, links)'
  BY <1>3, <1>4, SameHtml DEF Listed
<1>5. ASSUME CollectedAt(pos', anchor', anchor_text', visible_text', links')
      PROVE  CollectedAt(pos, anchor, anchor_text, visible_text, links)'
  <2>1. Listed(Closed(pos), Past(pos), links)'
    <3>1. /\ {Shown(k) : k \in Closed(pos)}' = {Shown(k) : k \in Closed(pos')}
          /\ {Other(k) : k \in Past(pos)}' = {Other(k) : k \in Past(pos')}
      BY <1>2, SameHtml
    <3> QED
      BY <3>1, <1>2, <1>3, <1>5 DEF CollectedAt, Listed
  <2>2. AnchorAt(pos, anchor, anchor_text)'
    BY <1>1, <1>2, <1>5, SameHtml DEF CollectedAt, AnchorAt
  <2>3. visible_text' = Joined(Shows, pos - 1)'
    BY <1>5, SameHtml DEF CollectedAt
  <2> QED
    BY <2>1, <2>2, <2>3 DEF CollectedAt
<1>6. ASSUME NEW r, CollectedAt(r, anchor', anchor_text', visible_text', links')
      PROVE  CollectedAt(r, anchor, anchor_text, visible_text, links)'
  <2>1. Listed(Closed(r), Past(r), links)'
    <3>1. /\ {Shown(k) : k \in Closed(r)}' = {Shown(k) : k \in Closed(r)}
          /\ {Other(k) : k \in Past(r)}' = {Other(k) : k \in Past(r)}
      BY SameHtml
    <3> QED
      BY <3>1, <1>3, <1>6, SameHtml DEF CollectedAt, Listed
  <2>2. AnchorAt(r, anchor, anchor_text)'
    BY <1>1, <1>6, SameHtml DEF CollectedAt, AnchorAt
  <2>3. visible_text' = Joined(Shows, r - 1)'
    BY <1>6, SameHtml DEF CollectedAt
  <2> QED
    BY <2>1, <2>2, <2>3 DEF CollectedAt
<1> QED
  BY <1>4, <1>5, <1>6

\* Reading on: one token more.
LEMMA ReadOn ==
  ASSUME CollectInv, WalkInv', phase = "html", Reads, pos \in 1 .. Len(Html),
         raw' = raw, phase' = phase, pos' = pos + 1,
         Html[pos].tag = "broken" => Scripted(pos),
         skip_depth' = IF Scripted(pos + 1) THEN 1 ELSE 0,
         CollectedAt(pos + 1, anchor', anchor_text', visible_text', links')
  PROVE  CollectInv'
<1>1. Len(Html) \in Nat /\ raw \in Raw
  BY TokenFacts DEF CollectInv, WalkInv
<1>2. \A i \in 1 .. pos' - 1 : Html[i].tag = "broken" => Scripted(i)
  <2>1. \A i \in 1 .. pos' - 1 : i \in 1 .. pos - 1 \/ i = pos
    BY <1>1
  <2> QED
    BY <2>1 DEF Reads
<1>3. CollectedAt(pos, anchor, anchor_text, visible_text, links)'
  BY SameCollected
<1>4. Scripted(pos)' = Scripted(pos + 1)
  BY SameHtml DEF Scripted
<1>5. Reads'
  BY <1>2, <1>3, <1>4, SameHtml DEF Reads
<1>6. pos' \in 1 .. Len(Html) + 1
  BY <1>1
<1> QED
  BY <1>5, <1>6, SameHtml DEF CollectInv

\* A token is read only where HTMLParser has not given up, and counts unless it is in
\* a script or broken.
LEMMA TokenRead ==
  ASSUME CollectInv, phase = "html", pos <= Len(body_html)
  PROVE  /\ raw \in Raw /\ body_html = Html /\ pos \in 1 .. Len(Html) /\ Reads
         /\ skip_depth = 0 <=> ~Scripted(pos)
         /\ Scripted(pos) => pos \notin Readable /\ skip_depth = 1
         /\ ~Scripted(pos) /\ Html[pos].tag # "broken" => pos \in Readable
         /\ CollectedAt(pos, anchor, anchor_text, visible_text, links)
<1>1. raw \in Raw /\ body_html = Html
  BY DEF CollectInv, WalkInv
<1>2. Len(Html) \in Nat /\ DOMAIN Html = 1 .. Len(Html)
  BY <1>1, TokenFacts
<1>3. pos \in 1 .. Len(Html) /\ Reads
  BY <1>1, <1>2 DEF CollectInv, GaveUp
<1>4. (skip_depth = 0 <=> ~Scripted(pos)) /\ (Scripted(pos) => pos \notin Readable /\ skip_depth = 1)
  BY <1>3 DEF Reads, Readable
<1>5. ASSUME ~Scripted(pos), Html[pos].tag # "broken" PROVE pos \in Readable
  <2>1. \A i \in 1 .. pos : i \in 1 .. pos - 1 \/ i = pos
    BY <1>2, <1>3
  <2>2. \A i \in 1 .. pos : Html[i].tag = "broken" => Scripted(i)
    BY <2>1, <1>3, <1>5 DEF Reads
  <2> QED
    BY <2>2, <1>2, <1>3, <1>5 DEF Readable
<1> QED
  BY <1>1, <1>3, <1>4, <1>5 DEF Reads

\* A token within a script is not readable.
LEMMA InScriptCollects == CollectInv /\ WalkInv' /\ InScript => CollectInv'
<1> SUFFICES ASSUME CollectInv, WalkInv', InScript PROVE CollectInv'
  OBVIOUS
<1>1. /\ phase = "html" /\ pos <= Len(body_html) /\ skip_depth > 0
      /\ body_html[pos].tag # "/script" /\ pos' = pos + 1 /\ raw' = raw /\ phase' = phase
      /\ UNCHANGED <<skip_depth, anchor, anchor_text, visible_text, links>>
  BY DEF InScript, collector
<1>2. /\ raw \in Raw /\ body_html = Html /\ pos \in 1 .. Len(Html) /\ Reads
      /\ Scripted(pos) /\ pos \notin Readable /\ skip_depth = 1
      /\ CollectedAt(pos, anchor, anchor_text, visible_text, links)
  BY <1>1, TokenRead
<1>3. CollectedAt(pos + 1, anchor, anchor_text, visible_text, links)
  BY <1>2, Skipped
<1>4. Scripted(pos + 1)
  BY <1>1, <1>2, ScriptedStep
<1> QED
  BY <1>1, <1>2, <1>3, <1>4, ReadOn

\* A script's tags begin and end what is not readable.
LEMMA ScriptTagCollects ==
  CollectInv /\ WalkInv' /\ (StartScript \/ EndScript) => CollectInv'
<1> SUFFICES ASSUME CollectInv, WalkInv', StartScript \/ EndScript PROVE CollectInv'
  OBVIOUS
<1>1. /\ phase = "html" /\ pos <= Len(body_html)
      /\ pos' = pos + 1 /\ raw' = raw /\ phase' = phase
      /\ UNCHANGED <<anchor, anchor_text, visible_text, links>>
      /\ \/ body_html[pos].tag = "script" /\ skip_depth = 0 /\ skip_depth' = skip_depth + 1
         \/ /\ body_html[pos].tag = "/script"
            /\ skip_depth' = IF skip_depth > 0 THEN skip_depth - 1 ELSE 0
  BY DEF StartScript, EndScript, Reading
<1>2. /\ raw \in Raw /\ body_html = Html /\ pos \in 1 .. Len(Html) /\ Reads
      /\ skip_depth \in {0, 1}
      /\ CollectedAt(pos, anchor, anchor_text, visible_text, links)
  BY <1>1, TokenRead
<1>3. CollectedAt(pos + 1, anchor, anchor_text, visible_text, links)
  BY <1>1, <1>2, Skipped
<1>4. skip_depth' = IF Scripted(pos + 1) THEN 1 ELSE 0
  BY <1>1, <1>2, ScriptedStep
<1> QED
  BY <1>1, <1>2, <1>3, <1>4, ReadOn

\* <a> and </a> finish the open anchor; <a> may open another.
LEMMA AnchorTagCollects ==
  CollectInv /\ WalkInv' /\ (StartAnchor \/ EndAnchor) => CollectInv'
<1> SUFFICES ASSUME CollectInv, WalkInv', StartAnchor \/ EndAnchor PROVE CollectInv'
  OBVIOUS
<1>1. /\ phase = "html" /\ pos <= Len(body_html) /\ skip_depth = 0
      /\ pos' = pos + 1 /\ raw' = raw /\ phase' = phase
      /\ UNCHANGED <<skip_depth, visible_text>>
      /\ links' = FinishAnchor /\ anchor_text' = <<>>
      /\ body_html[pos].tag \in {"a", "/a"}
      /\ anchor' = IF body_html[pos].tag = "a" THEN body_html[pos].target ELSE <<>>
  BY DEF StartAnchor, EndAnchor, Reading
<1>2. /\ raw \in Raw /\ body_html = Html /\ pos \in 1 .. Len(Html) /\ Reads
      /\ ~Scripted(pos) /\ EndsAnchor(pos)
      /\ CollectedAt(pos, anchor, anchor_text, visible_text, links)
  BY <1>1, TokenRead DEF EndsAnchor
<1>3. CollectedAt(pos + 1, anchor', anchor_text', visible_text', links')
  BY <1>1, <1>2, Ended
<1>4. ~Scripted(pos + 1)
  BY <1>1, <1>2, ScriptedStep
<1> QED
  BY <1>1, <1>2, <1>3, <1>4, ReadOn

LEMMA OtherLinkCollects == CollectInv /\ WalkInv' /\ OtherLink => CollectInv'
<1> SUFFICES ASSUME CollectInv, WalkInv', OtherLink PROVE CollectInv'
  OBVIOUS
<1>1. /\ phase = "html" /\ pos <= Len(body_html) /\ skip_depth = 0
      /\ pos' = pos + 1 /\ raw' = raw /\ phase' = phase
      /\ UNCHANGED <<skip_depth, anchor, anchor_text, visible_text>>
      /\ links' = links \o [k \in DOMAIN body_html[pos].target |->
                              [url |-> body_html[pos].target[k], text |-> <<>>]]
      /\ body_html[pos].tag = "src"
  BY DEF OtherLink, Reading
<1>2. /\ raw \in Raw /\ body_html = Html /\ pos \in 1 .. Len(Html) /\ Reads
      /\ ~Scripted(pos) /\ pos \in Readable
      /\ CollectedAt(pos, anchor, anchor_text, visible_text, links)
  BY <1>1, TokenRead
<1>3. CollectedAt(pos + 1, anchor, anchor_text, visible_text, links')
  BY <1>1, <1>2, Linked
<1>4. ~Scripted(pos + 1)
  BY <1>1, <1>2, ScriptedStep
<1> QED
  BY <1>1, <1>2, <1>3, <1>4, ReadOn

\* What is said goes to the open anchor.
LEMMA DataCollects == CollectInv /\ WalkInv' /\ Data => CollectInv'
<1> SUFFICES ASSUME CollectInv, WalkInv', Data PROVE CollectInv'
  OBVIOUS
<1>1. /\ phase = "html" /\ pos <= Len(body_html) /\ skip_depth = 0
      /\ pos' = pos + 1 /\ raw' = raw /\ phase' = phase
      /\ UNCHANGED <<skip_depth, anchor, links>>
      /\ visible_text' = visible_text \o body_html[pos].words
      /\ anchor_text' = IF anchor = <<>> THEN <<>> ELSE anchor_text \o body_html[pos].words
      /\ body_html[pos].tag = "data"
  BY DEF Data, Reading
<1>2. /\ raw \in Raw /\ body_html = Html /\ pos \in 1 .. Len(Html) /\ Reads
      /\ ~Scripted(pos) /\ pos \in Readable
      /\ CollectedAt(pos, anchor, anchor_text, visible_text, links)
  BY <1>1, TokenRead
<1>3. CollectedAt(pos + 1, anchor, anchor_text', visible_text', links)
  BY <1>1, <1>2, Told
<1>4. ~Scripted(pos + 1)
  BY <1>1, <1>2, ScriptedStep
<1> QED
  BY <1>1, <1>2, <1>3, <1>4, ReadOn

\* Past what is broken nothing is readable.
LEMMA GivesUpCollects == CollectInv /\ WalkInv' /\ GivesUp => CollectInv'
<1> SUFFICES ASSUME CollectInv, WalkInv', GivesUp PROVE CollectInv'
  OBVIOUS
<1>1. /\ phase = "html" /\ pos <= Len(body_html) /\ skip_depth = 0
      /\ pos' = Len(body_html) + 1 /\ raw' = raw /\ phase' = phase
      /\ UNCHANGED <<anchor, anchor_text, visible_text, links>>
      /\ body_html[pos].tag = "broken"
  BY DEF GivesUp, Reading, collector
<1>2. /\ raw \in Raw /\ body_html = Html /\ pos \in 1 .. Len(Html)
      /\ ~Scripted(pos)
      /\ CollectedAt(pos, anchor, anchor_text, visible_text, links)
  BY <1>1, TokenRead
<1>3. Len(Html) \in Nat /\ Readable \subseteq 1 .. Len(Html)
  BY <1>2, TokenFacts, SetFacts
<1>4. ASSUME NEW k \in Readable PROVE k < pos
  <2>1. k \in Nat /\ \A i \in 1 .. k : Html[i].tag = "broken" => Scripted(i)
    BY <1>3 DEF Readable
  <2>2. pos \notin 1 .. k
    BY <2>1, <1>1, <1>2
  <2> QED
    BY <2>1, <2>2, <1>2
<1>5. PICK r \in 1 .. Len(Html) : r = pos
  BY <1>2
<1>6. CollectedAt(r, anchor, anchor_text, visible_text, links)'
  <2>1. CollectedAt(r, anchor', anchor_text', visible_text', links')
    BY <1>1, <1>2, <1>5
  <2> QED
    BY <2>1, <1>1, SameCollected
<1>7. GaveUp'
  BY <1>1, <1>2, <1>4, <1>5, <1>6, SameHtml DEF GaveUp
<1>8. pos' \in 1 .. Len(Html') + 1
  BY <1>1, <1>2, <1>3, SameHtml
<1> QED
  BY <1>1, <1>7, <1>8 DEF CollectInv

\* What was collected before the end of the HTML, or where HTMLParser gave up, is all.
LEMMA EndOfHtmlCollects == CollectInv /\ WalkInv' /\ EndOfHtml => CollectInv'
<1> SUFFICES ASSUME CollectInv, WalkInv', EndOfHtml PROVE CollectInv'
  OBVIOUS
<1> DEFINE len == Len(Html)
<1>1. /\ phase = "html" /\ pos > Len(body_html) /\ raw' = raw /\ phase' = "urls"
      /\ links' = FinishAnchor /\ visible_text' = visible_text
  BY DEF EndOfHtml
<1>2. raw \in Raw /\ body_html = Html /\ pos \in 1 .. len + 1 /\ (Reads \/ GaveUp)
  BY <1>1 DEF CollectInv, WalkInv
<1>3. len \in Nat /\ Readable \subseteq 1 .. len /\ DOMAIN Html = 1 .. len
  BY <1>2, TokenFacts, SetFacts
<1>4. PICK r \in 1 .. len + 1 :
        /\ \A k \in Readable : k < r
        /\ CollectedAt(r, anchor, anchor_text, visible_text, links)
  <2>1. CASE Reads
    <3>1. pos = len + 1 /\ pos \in 1 .. len + 1
      BY <1>1, <1>2, <1>3
    <3>2. \A k \in Readable : k < pos
      BY <1>3, <3>1
    <3> QED
      BY <2>1, <3>1, <3>2 DEF Reads
  <2>2. CASE GaveUp
    <3>1. 1 .. len \subseteq 1 .. len + 1
      BY <1>3
    <3> QED
      BY <2>2, <3>1 DEF GaveUp
  <2> QED
    BY <2>1, <2>2, <1>2
<1>5. Before(r) = Anchors /\ Past(r) = Others
  BY <1>2, <1>4, SetFacts DEF Before, Past
<1>6. \A i \in r .. len : i \in DOMAIN Html /\ i \notin Readable
  BY <1>3, <1>4
<1>7. \A i \in r .. len : Shows[i] = <<>> /\ \A k : Says(k)[i] = <<>>
  BY <1>6 DEF Shows, Says
<1>8. Listed(Anchors, Others, FinishAnchor)
  <2>1. Listed(Before(r), Past(r), FinishAnchor)
    BY <1>2, <1>4, <1>7, Finished
  <2> QED
    BY <2>1, <1>5
<1>9. visible_text = Joined(Shows, len)
  BY <1>2, <1>4, <1>7, ShowsNoMore DEF CollectedAt
<1>10. Listed(Anchors, Others, links)'
  BY <1>1, <1>8, SameCollected
<1>11. visible_text' = Joined(Shows, Len(Html))'
  BY <1>1, <1>9, SameHtml
<1> QED
  BY <1>1, <1>10, <1>11 DEF CollectInv

LEMMA NothingListed == raw \in Raw => Listed({}, {}, <<>>)
<1>1. ToSet(<<>>) = {} /\ Len(<<>>) = 0
  BY DEF ToSet
<1>2. IsFiniteSet({}) /\ Cardinality({}) = 0
  BY FS_EmptySet
<1> QED
  BY <1>1, <1>2 DEF Listed

\* Before the first token nothing is collected.
LEMMA EndOfPartsCollects == CollectInv /\ WalkInv' /\ EndOfParts => CollectInv'
<1> SUFFICES ASSUME CollectInv, WalkInv', EndOfParts PROVE CollectInv'
  OBVIOUS
<1>1. /\ raw \in Raw /\ skip_depth = 0 /\ anchor = <<>> /\ visible_text = <<>> /\ links = <<>>
  BY DEF CollectInv, WalkInv, EndOfParts
<1>2. /\ raw' = raw /\ phase' = "html" /\ pos' = 1
      /\ UNCHANGED <<skip_depth, anchor, anchor_text, visible_text, links>>
  BY DEF EndOfParts, collector
<1>3. /\ Len(Html) \in Nat /\ \A k \in Anchors : k \in 1 .. Len(Html)
      /\ \A k \in Others : k \in 1 .. Len(Html)
  BY <1>1, TokenFacts, SetFacts
<1>4. Closed(1) = {} /\ Before(1) = {} /\ Past(1) = {}
  <2>1. \A k \in 1 .. Len(Html) : k + 1 .. 1 - 1 = {} /\ ~(k < 1)
    BY <1>3
  <2> QED
    BY <2>1, <1>3 DEF Closed, Before, Past
<1>5. CollectedAt(1, anchor, anchor_text, visible_text, links)
  <2>1. Joined(Shows, 1 - 1) = <<>>
    BY JoinNone
  <2> QED
    BY <2>1, <1>1, <1>4, NothingListed DEF CollectedAt, AnchorAt
<1>6. CollectedAt(pos, anchor, anchor_text, visible_text, links)'
  BY <1>2, <1>5, SameCollected
<1>7. ~Scripted(1)
  BY DEF Scripted
<1>8. Reads'
  <2>1. ~Scripted(pos)'
    BY <1>2, <1>7, SameHtml DEF Scripted
  <2>2. 1 .. pos' - 1 = {}
    BY <1>2
  <2> QED
    BY <2>1, <2>2, <1>1, <1>2, <1>6 DEF Reads
<1>9. pos' \in 1 .. Len(Html') + 1
  BY <1>2, <1>3, SameHtml
<1> QED
  BY <1>2, <1>8, <1>9 DEF CollectInv

\* Steps that leave the collector alone.
LEMMA StillCollected ==
  ASSUME CollectInv, WalkInv', UNCHANGED <<raw, collector>>,
         \/ phase = "leaves" /\ phase' = "leaves"
         \/ phase \notin {"leaves", "html"} /\ phase' \notin {"leaves", "html"}
         \/ UNCHANGED <<phase, pos>>
  PROVE  CollectInv'
<1>1. UNCHANGED <<skip_depth, anchor, anchor_text, visible_text, links>>
  BY DEF collector
<1>2. CASE phase = "leaves" /\ phase' = "leaves"
  BY <1>1, <1>2 DEF CollectInv
<1>3. CASE phase \notin {"leaves", "html"} /\ phase' \notin {"leaves", "html"}
  <2>1. Listed(Anchors, Others, links)'
    BY <1>1, <1>3, SameCollected DEF CollectInv
  <2> QED
    BY <2>1, <1>1, <1>3, SameHtml DEF CollectInv
<1>4. CASE UNCHANGED <<phase, pos>> /\ phase = "html"
  <2>1. ASSUME Reads PROVE Reads'
    <3>1. CollectedAt(pos, anchor, anchor_text, visible_text, links)'
      BY <1>1, <1>4, <2>1, SameCollected DEF Reads
    <3>2. Scripted(pos)' = Scripted(pos)
      BY <1>4, SameHtml DEF Scripted
    <3> QED
      BY <3>1, <3>2, <2>1, <1>1, <1>4, SameHtml DEF Reads
  <2>2. ASSUME GaveUp PROVE GaveUp'
    <3>1. PICK r \in 1 .. Len(Html) :
            /\ \A k \in Readable : k < r
            /\ CollectedAt(r, anchor, anchor_text, visible_text, links)
      BY <2>2 DEF GaveUp
    <3>2. CollectedAt(r, anchor, anchor_text, visible_text, links)'
      BY <3>1, <1>1, SameCollected
    <3> QED
      BY <3>1, <3>2, <2>2, <1>4, SameHtml DEF GaveUp
  <2> QED
    BY <2>1, <2>2, <1>4, SameHtml DEF CollectInv
<1> QED
  BY <1>2, <1>3, <1>4

LEMMA NextCollects == CollectInv /\ [ExtractionNext]_extraction => CollectInv'
<1> SUFFICES ASSUME CollectInv, [ExtractionNext]_extraction PROVE CollectInv'
  OBVIOUS
<1>0. WalkInv'
  BY NextWalks DEF CollectInv
<1>1. CASE Descend \/ Leaf
  <2>1. UNCHANGED <<raw, collector>> /\ phase = "leaves" /\ phase' = "leaves"
    BY <1>1 DEF Descend, Leaf
  <2> QED
    BY <2>1, <1>0, StillCollected
<1>2. CASE NoteStep
  <2>1. UNCHANGED <<raw, collector>>
    BY <1>2 DEF NoteStep, AddUrl, NoteHost, NoteIp, NoteDomain, NoteHash, NextPhase
  <2>2. phase \notin {"leaves", "html"} /\ phase' \notin {"leaves", "html"}
    BY <1>2 DEF NoteStep, AddUrl, NoteHost, NoteIp, NoteDomain, NoteHash, NextPhase, Noting, Order
  <2> QED
    BY <2>1, <2>2, <1>0, StillCollected
<1>3. CASE UNCHANGED extraction
  BY <1>3, <1>0, StillCollected DEF extraction
<1> QED
  BY <1>0, <1>1, <1>2, <1>3, InScriptCollects, ScriptTagCollects, AnchorTagCollects,
     OtherLinkCollects, DataCollects, GivesUpCollects, EndOfHtmlCollects, EndOfPartsCollects
     DEF ExtractionNext, NoteStep

LEMMA CollectInit == ExtractionInit => CollectInv
<1> SUFFICES ASSUME ExtractionInit PROVE CollectInv
  OBVIOUS
<1>1. WalkInv
  BY WalkInit
<1> QED
  BY <1>1 DEF ExtractionInit, CollectInv

LEMMA AllCollected == CollectInv => CollectedExactly
<1> SUFFICES ASSUME CollectInv, phase = "urls"
             PROVE  /\ ToSet(links) = ShownLinks \cup OtherLinks
                    /\ Len(links) = Cardinality(Anchors) + Cardinality(Others)
  BY DEF CollectedExactly
<1>1. Listed(Anchors, Others, links)
  BY DEF CollectInv
<1> QED
  BY <1>1 DEF Listed, ShownLinks, OtherLinks, Shown, Other

-----------------------------------------------------------------------------
(* What sequences are made of *)

\* What a flattened sequence is made of.
LEMMA FlatRange ==
  ASSUME NEW T, NEW m \in Nat, NEW t, t = [k \in 1 .. m |-> t[k]],
         \A k \in 1 .. m : t[k] \in Seq(T)
  PROVE  FlattenSeq(t) \in Seq(T) /\ ToSet(FlattenSeq(t)) = UNION {ToSet(t[k]) : k \in 1 .. m}
<1>1. FlattenSeq(t) = Joined(t, m)
  BY DEF Joined
<1>2. m \in 0 .. m
  OBVIOUS
<1>3. Joined(t, m) \in Seq(T)
  BY <1>2, JoinType
<1>4. ToSet(Joined(t, m)) = UNION {ToSet(t[k]) : k \in 1 .. m}
  BY <1>2, JoinRange
<1> QED
  BY <1>1, <1>3, <1>4

LEMMA OwnRange ==
  ASSUME NEW T, NEW s \in Seq(T) PROVE s \in Seq(ToSet(s))
<1> DEFINE S == ToSet(s)
           n == Len(s)
<1>1. n \in Nat /\ DOMAIN s = 1 .. n /\ s = [k \in 1 .. n |-> s[k]]
  OBVIOUS
<1>2. \A k \in 1 .. n : s[k] \in S
  BY <1>1 DEF ToSet
<1> HIDE DEF S, n
<1>3. [k \in 1 .. n |-> s[k]] \in Seq(S)
  BY <1>1, <1>2
<1>4. s \in Seq(S)
  BY <1>1, <1>3
<1> QED
  BY <1>4 DEF S

\* Filtering by membership of G: t is what Filtered flattens.
LEMMA FilteredRange ==
  ASSUME NEW T, NEW s \in Seq(T), NEW G,
         NEW t, t = [k \in DOMAIN s |-> IF s[k] \in G THEN <<s[k]>> ELSE <<>>]
  PROVE  FlattenSeq(t) \in Seq(T) /\ ToSet(FlattenSeq(t)) = ToSet(s) \cap G
<1> DEFINE m == Len(s)
<1>1. m \in Nat /\ DOMAIN s = 1 .. m /\ \A k \in 1 .. m : s[k] \in T
  OBVIOUS
<1> HIDE DEF m
<1>2. t = [k \in 1 .. m |-> t[k]]
  BY <1>1
<1>3. ASSUME NEW k \in 1 .. m PROVE t[k] \in Seq(T) /\ ToSet(t[k]) = {s[k]} \cap G
  <2>1. CASE s[k] \in G
    <3>1. t[k] = <<s[k]>>
      BY <1>1, <2>1
    <3>2. ToSet(<<s[k]>>) = {s[k]}
      BY DEF ToSet
    <3> QED
      BY <1>1, <2>1, <3>1, <3>2
  <2>2. CASE s[k] \notin G
    <3>1. t[k] = <<>>
      BY <1>1, <2>2
    <3>2. ToSet(<<>>) = {} /\ <<>> \in Seq(T)
      BY DEF ToSet
    <3>3. {s[k]} \cap G = {}
      BY <2>2
    <3> QED
      BY <3>1, <3>2, <3>3
  <2> QED
    BY <2>1, <2>2
<1>4. \A k \in 1 .. m : t[k] \in Seq(T)
  BY <1>3
<1>5. FlattenSeq(t) \in Seq(T) /\ ToSet(FlattenSeq(t)) = UNION {ToSet(t[k]) : k \in 1 .. m}
  BY ONLY <1>1, <1>2, <1>4, FlatRange
<1>6. UNION {ToSet(t[k]) : k \in 1 .. m} = UNION {{s[k]} \cap G : k \in 1 .. m}
  BY <1>3
<1>7. UNION {{s[k]} \cap G : k \in 1 .. m} = ToSet(s) \cap G
  BY <1>1 DEF ToSet
<1> QED
  BY <1>5, <1>6, <1>7

\* A sequence made of each element of another.
LEMMA MappedRange ==
  ASSUME NEW T, NEW s \in Seq(T), NEW U, NEW g, NEW t,
         t = [k \in DOMAIN s |-> t[k]], \A k \in DOMAIN s : t[k] = g[s[k]],
         \A x \in T : g[x] \in U
  PROVE  t \in Seq(U) /\ ToSet(t) = {g[x] : x \in ToSet(s)}
<1>1. Len(s) \in Nat /\ DOMAIN s = 1 .. Len(s) /\ \A k \in 1 .. Len(s) : s[k] \in T
  OBVIOUS
<1>2. t \in Seq(U)
  BY <1>1
<1>3. ToSet(t) = {g[s[k]] : k \in DOMAIN s}
  BY DEF ToSet
<1> QED
  BY <1>2, <1>3 DEF ToSet

\* The words of one kind, and the addresses that are written.
LEMMA KindRange ==
  ASSUME NEW words \in Seq(AnyWord), NEW kind
  PROVE  /\ OfKind(words, kind) \in Seq(AnyWord)
         /\ ToSet(OfKind(words, kind)) = {w \in ToSet(words) : w.kind = kind}
<1> DEFINE G == {w \in AnyWord : w.kind = kind}
           t == [k \in DOMAIN words |-> IF words[k].kind = kind THEN <<words[k]>> ELSE <<>>]
<1>1. \A k \in DOMAIN words : words[k] \in AnyWord
  OBVIOUS
<1>2. t = [k \in DOMAIN words |-> IF words[k] \in G THEN <<words[k]>> ELSE <<>>]
  BY <1>1
<1>3. OfKind(words, kind) = FlattenSeq(t)
  BY DEF OfKind, Filtered
<1>4. ToSet(words) \cap G = {w \in ToSet(words) : w.kind = kind}
  BY <1>1 DEF ToSet
<1> HIDE DEF G, t
<1>5. FlattenSeq(t) \in Seq(AnyWord) /\ ToSet(FlattenSeq(t)) = ToSet(words) \cap G
  BY <1>2, FilteredRange
<1> QED
  BY <1>3, <1>4, <1>5
LEMMA IpsRange ==
  ASSUME NEW words \in Seq(AnyWord)
  PROVE  /\ IpsIn(words) \in Seq({Address(w.host.parts) : w \in AnyWord})
         /\ ToSet(IpsIn(words)) = {Address(w.host.parts) :
              w \in {v \in ToSet(words) : v.kind \in {"ip", "url"} /\ Dotted(v.host.parts)}}
<1> DEFINE G == {w \in AnyWord : w.kind \in {"ip", "url"} /\ Dotted(w.host.parts)}
           t == [k \in DOMAIN words |->
                  IF words[k].kind \in {"ip", "url"} /\ Dotted(words[k].host.parts)
                  THEN <<words[k]>> ELSE <<>>]
           found == FlattenSeq(t)
           g == [w \in AnyWord |-> Address(w.host.parts)]
           U == {Address(w.host.parts) : w \in AnyWord}
<1>1. \A k \in DOMAIN words : words[k] \in AnyWord
  OBVIOUS
<1>2. t = [k \in DOMAIN words |-> IF words[k] \in G THEN <<words[k]>> ELSE <<>>]
  BY <1>1
<1>3. IpsIn(words) = [k \in DOMAIN found |-> Address(found[k].host.parts)]
  BY DEF IpsIn, Filtered
<1>4. ToSet(words) \cap G =
        {v \in ToSet(words) : v.kind \in {"ip", "url"} /\ Dotted(v.host.parts)}
  BY <1>1 DEF ToSet
<1>g. \A w \in AnyWord : g[w] = Address(w.host.parts) /\ g[w] \in U
  OBVIOUS
<1> HIDE DEF G, t, g, U
<1>5. found \in Seq(AnyWord) /\ ToSet(found) = ToSet(words) \cap G
  BY <1>2, FilteredRange
<1> HIDE DEF found
<1>6. IpsIn(words) = [k \in DOMAIN found |-> g[found[k]]]
  <2>1. \A k \in DOMAIN found : found[k] \in AnyWord
    BY <1>5
  <2> QED
    BY <2>1, <1>3, <1>g
<1>7. IpsIn(words) \in Seq(U) /\ ToSet(IpsIn(words)) = {g[x] : x \in ToSet(found)}
  <2>1. \A x \in AnyWord : g[x] \in U
    BY <1>g
  <2> DEFINE ips_ == IpsIn(words)
  <2>2. ips_ = [k \in DOMAIN found |-> ips_[k]] /\ \A k \in DOMAIN found : ips_[k] = g[found[k]]
    BY <1>6
  <2>3. found \in Seq(AnyWord)
    BY <1>5
  <2> HIDE DEF ips_
  <2>4. ips_ \in Seq(U) /\ ToSet(ips_) = {g[x] : x \in ToSet(found)}
    BY ONLY <2>1, <2>2, <2>3, MappedRange
  <2> QED
    BY <2>4 DEF ips_
<1>8. {g[x] : x \in ToSet(found)} = {Address(w.host.parts) : w \in ToSet(found)}
  <2>1. \A x \in ToSet(found) : x \in AnyWord
    BY <1>5 DEF ToSet
  <2> QED
    BY <2>1, <1>g
<1> QED
  BY <1>4, <1>5, <1>7, <1>8 DEF U

\* A sequence of sequences of keys of two kinds.
LEMMA TwoRange ==
  ASSUME NEW T, NEW s \in Seq(T), NEW t \in Seq(T)
  PROVE  s \o t \in Seq(T) /\ ToSet(s \o t) = ToSet(s) \cup ToSet(t)
<1>1. s \o t \in Seq(T)
  OBVIOUS
<1> QED
  BY <1>1, RangeOfConcat

\* What is noted is there once each item was: read once the message is.
LEMMA ReadTypes ==
  ASSUME CollectInv, phase \notin {"leaves", "html"}
  PROVE  /\ raw \in Raw /\ body_text = Text /\ body_text \in Seq(AnyWord)
         /\ visible_text \in Seq(AnyWord)
         /\ Written = body_text \o visible_text
         /\ ToSet(Written) = ToSet(body_text) \cup ToSet(visible_text)
<1>1. raw \in Raw /\ body_text = Text
  BY DEF CollectInv, WalkInv
<1>2. visible_text = Joined(Shows, Len(Html))
  BY DEF CollectInv
<1>3. Text \in Seq(AnyWord)
  BY <1>1, BodyTypes
<1>4. visible_text \in Seq(AnyWord)
  <2> DEFINE len == Len(Html)
  <2>1. len \in Nat /\ len \in 0 .. len
    BY <1>1, TokenFacts
  <2>2. \A i \in 1 .. len : Shows[i] \in Seq(AnyWord)
    BY <1>1, WordsTypes
  <2> HIDE DEF len
  <2>3. Joined(Shows, len) \in Seq(AnyWord)
    BY ONLY <2>1, <2>2, JoinType
  <2> QED
    BY <2>3, <1>2 DEF len
<1>5. Written = body_text \o visible_text
  BY <1>1, <1>2, TextIs DEF Written
<1> QED
  BY <1>1, <1>3, <1>4, <1>5, TwoRange

\* Written, as a set.
LEMMA WrittenIs ==
  ASSUME NEW kinds
  PROVE  WrittenAs(kinds) = {w \in ToSet(Written) : w.kind \in kinds}
BY DEF WrittenAs, ToSet

\* What is written of a kind, body first.
LEMMA WrittenOf ==
  ASSUME CollectInv, phase \notin {"leaves", "html"}, NEW kind
  PROVE  /\ OfKind(body_text, kind) \o OfKind(visible_text, kind) \in Seq(AnyWord)
         /\ ToSet(OfKind(body_text, kind) \o OfKind(visible_text, kind)) = WrittenAs({kind})
<1> DEFINE a == OfKind(body_text, kind)
           b == OfKind(visible_text, kind)
<1>1. /\ body_text \in Seq(AnyWord) /\ visible_text \in Seq(AnyWord)
      /\ ToSet(Written) = ToSet(body_text) \cup ToSet(visible_text)
  BY ReadTypes
<1>2. a \in Seq(AnyWord) /\ ToSet(a) = {w \in ToSet(body_text) : w.kind = kind}
  BY <1>1, KindRange
<1>3. b \in Seq(AnyWord) /\ ToSet(b) = {w \in ToSet(visible_text) : w.kind = kind}
  BY <1>1, KindRange
<1>4. WrittenAs({kind}) = {w \in ToSet(body_text) : w.kind = kind}
                            \cup {w \in ToSet(visible_text) : w.kind = kind}
  BY <1>1, WrittenIs
<1> HIDE DEF a, b
<1>5. a \o b \in Seq(AnyWord) /\ ToSet(a \o b) = ToSet(a) \cup ToSet(b)
  BY <1>2, <1>3, TwoRange
<1> QED
  BY <1>2, <1>3, <1>4, <1>5 DEF a, b

UrlItem(w) == [url |-> w, text |-> <<>>]
AllUrlItems == {UrlItem(w) : w \in WrittenAs({"url"})} \cup ShownLinks \cup OtherLinks

\* The items of each kind are those of the message, read at once.
LEMMA UrlItemsRange ==
  ASSUME CollectInv, phase \notin {"leaves", "html"}
  PROVE  UrlItems \in Seq(AllUrlItems) /\ ToSet(UrlItems) = AllUrlItems
<1> DEFINE shown == OfKind(body_text, "url") \o OfKind(visible_text, "url")
           g == [w \in AnyWord |-> UrlItem(w)]
           t == [k \in DOMAIN shown |-> [url |-> shown[k], text |-> <<>>]]
           S == ShownLinks \cup OtherLinks
           U == {UrlItem(w) : w \in AnyWord}
<1>1. /\ body_text \in Seq(AnyWord) /\ visible_text \in Seq(AnyWord)
      /\ ToSet(Written) = ToSet(body_text) \cup ToSet(visible_text)
  BY ReadTypes
<1>2. UrlItems = t \o links
  BY DEF UrlItems
<1>3. links \in Seq(S) /\ ToSet(links) = S
  BY DEF CollectInv, Listed, ShownLinks, OtherLinks, Shown, Other
<1>4. shown \in Seq(AnyWord) /\ ToSet(shown) = WrittenAs({"url"})
  BY WrittenOf
<1> HIDE DEF shown
<1>5. /\ t = [k \in DOMAIN shown |-> t[k]] /\ \A k \in DOMAIN shown : t[k] = g[shown[k]]
      /\ \A w \in AnyWord : g[w] \in U
  BY <1>4 DEF UrlItem
<1>g. \A w \in AnyWord : g[w] = UrlItem(w)
  OBVIOUS
<1> HIDE DEF t, g, U, S
<1>6. t \in Seq(U) /\ ToSet(t) = {g[x] : x \in ToSet(shown)}
  <2>1. \A w \in AnyWord : g[w] \in U
    BY <1>5
  <2>2. t = [k \in DOMAIN shown |-> t[k]] /\ \A k \in DOMAIN shown : t[k] = g[shown[k]]
    BY <1>5
  <2>3. shown \in Seq(AnyWord)
    BY <1>4
  <2> QED
    BY ONLY <2>1, <2>2, <2>3, MappedRange
<1>7. ToSet(t) = {UrlItem(w) : w \in WrittenAs({"url"})}
  <2>1. \A x \in ToSet(shown) : x \in AnyWord
    BY <1>4 DEF ToSet
  <2> QED
    BY <2>1, <1>4, <1>6, <1>g
<1>8. t \o links \in Seq(U \cup S) /\ ToSet(t \o links) = ToSet(t) \cup ToSet(links)
  <2>1. t \in Seq(U \cup S) /\ links \in Seq(U \cup S)
    BY <1>3, <1>6
  <2> QED
    BY <2>1, TwoRange
<1>9. ToSet(UrlItems) = AllUrlItems
  BY <1>2, <1>3, <1>7, <1>8 DEF AllUrlItems, S
<1> QED
  <2>1. UrlItems \in Seq(U \cup S)
    BY <1>2, <1>8
  <2>2. UrlItems \in Seq(ToSet(UrlItems))
    BY ONLY <2>1, OwnRange
  <2> QED
    BY <2>2, <1>9

LEMMA IpItemsRange ==
  ASSUME CollectInv, phase \notin {"leaves", "html"}
  PROVE  /\ IpItems \in Seq(ToSet(IpItems))
         /\ ToSet(IpItems) = {Address(w.host.parts) :
              w \in {v \in ToSet(Written) \cup ToSet(raw.received) :
                       v.kind \in {"ip", "url"} /\ Dotted(v.host.parts)}}
<1> DEFINE U == {Address(w.host.parts) : w \in AnyWord}
           P(v) == v.kind \in {"ip", "url"} /\ Dotted(v.host.parts)
           a == IpsIn(body_text)
           b == IpsIn(visible_text)
           c == IpsIn(raw.received)
<1>1. /\ body_text \in Seq(AnyWord) /\ visible_text \in Seq(AnyWord) /\ raw.received \in Seq(AnyWord)
      /\ ToSet(Written) = ToSet(body_text) \cup ToSet(visible_text)
  BY ReadTypes, MessageFacts
<1>2. a \in Seq(U) /\ ToSet(a) = {Address(w.host.parts) : w \in {v \in ToSet(body_text) : P(v)}}
  BY <1>1, IpsRange
<1>3. b \in Seq(U) /\ ToSet(b) = {Address(w.host.parts) : w \in {v \in ToSet(visible_text) : P(v)}}
  BY <1>1, IpsRange
<1>4. c \in Seq(U) /\ ToSet(c) = {Address(w.host.parts) : w \in {v \in ToSet(raw.received) : P(v)}}
  BY <1>1, IpsRange
<1>5. IpItems = a \o b \o c
  BY DEF IpItems
<1> HIDE DEF a, b, c, U, P
<1>6. a \o b \in Seq(U) /\ ToSet(a \o b) = ToSet(a) \cup ToSet(b)
  BY <1>2, <1>3, TwoRange
<1>7. (a \o b) \o c \in Seq(U) /\ ToSet((a \o b) \o c) = ToSet(a \o b) \cup ToSet(c)
  <2> DEFINE ab == a \o b
  <2>1. ab \in Seq(U) /\ c \in Seq(U)
    BY <1>4, <1>6
  <2> HIDE DEF ab
  <2>2. ab \o c \in Seq(U) /\ ToSet(ab \o c) = ToSet(ab) \cup ToSet(c)
    BY <2>1, TwoRange
  <2> QED
    BY <2>2 DEF ab
<1>8. ToSet(IpItems) = ToSet(a) \cup ToSet(b) \cup ToSet(c)
  BY <1>5, <1>6, <1>7
<1>9. {v \in ToSet(Written) \cup ToSet(raw.received) : P(v)}
        = {v \in ToSet(body_text) : P(v)} \cup {v \in ToSet(visible_text) : P(v)}
            \cup {v \in ToSet(raw.received) : P(v)}
  BY <1>1
<1>10. ToSet(IpItems) = {Address(w.host.parts) :
                           w \in {v \in ToSet(Written) \cup ToSet(raw.received) : P(v)}}
  BY <1>2, <1>3, <1>4, <1>8, <1>9
<1>11. IpItems \in Seq(ToSet(IpItems))
  <2>1. IpItems \in Seq(U)
    BY <1>5, <1>7
  <2> QED
    BY ONLY <2>1, OwnRange
<1> QED
  BY <1>10, <1>11 DEF P
LEMMA DomainItemsRange ==
  ASSUME CollectInv, phase \notin {"leaves", "html"}
  PROVE  /\ DomainItems \in Seq(ToSet(DomainItems))
         /\ ToSet(DomainItems) =
              {d \in ToSet(raw.senders) \cup {w.host.labels : w \in WrittenAs({"mail"})} :
                 IsDomain(d)}
<1> DEFINE mails == OfKind(body_text, "mail") \o OfKind(visible_text, "mail")
           labels == [k \in DOMAIN mails |-> mails[k].host.labels]
           U == Seq(STRING)
           g == [w \in AnyWord |-> w.host.labels]
           s == raw.senders \o labels
           G == {d \in U : IsDomain(d)}
           t == [k \in DOMAIN s |-> IF IsDomain(s[k]) THEN <<s[k]>> ELSE <<>>]
<1>1. raw.senders \in Seq(U)
  BY ReadTypes, MessageFacts
<1>2. mails \in Seq(AnyWord) /\ ToSet(mails) = WrittenAs({"mail"})
  BY WrittenOf
<1>3. DomainItems = FlattenSeq(t)
  BY DEF DomainItems, Filtered
<1>4. \A w \in AnyWord : g[w] = w.host.labels /\ g[w] \in U
  BY DEF AnyWord
<1> HIDE DEF mails
<1>5. labels = [k \in DOMAIN mails |-> labels[k]] /\ \A k \in DOMAIN mails : labels[k] = g[mails[k]]
  <2>1. \A k \in DOMAIN mails : mails[k] \in AnyWord
    BY <1>2
  <2> QED
    BY <2>1
<1> HIDE DEF labels, g, U
<1>6. labels \in Seq(U) /\ ToSet(labels) = {g[x] : x \in ToSet(mails)}
  <2>1. \A w \in AnyWord : g[w] \in U
    BY <1>4
  <2>2. mails \in Seq(AnyWord)
    BY <1>2
  <2> QED
    BY ONLY <2>1, <2>2, <1>5, MappedRange
<1>7. ToSet(labels) = {w.host.labels : w \in WrittenAs({"mail"})}
  <2>1. \A x \in ToSet(mails) : x \in AnyWord
    BY <1>2 DEF ToSet
  <2> QED
    BY <2>1, <1>2, <1>4, <1>6
<1>8. s \in Seq(U) /\ ToSet(s) = ToSet(raw.senders) \cup ToSet(labels)
  BY <1>1, <1>6, TwoRange
<1> HIDE DEF s
<1>9. t = [k \in DOMAIN s |-> IF s[k] \in G THEN <<s[k]>> ELSE <<>>]
  <2>1. \A k \in DOMAIN s : s[k] \in U
    BY <1>8
  <2> QED
    BY <2>1
<1>10. ToSet(s) \cap G = {d \in ToSet(s) : IsDomain(d)}
  <2>1. ToSet(s) \subseteq U
    BY <1>8 DEF ToSet
  <2> QED
    BY <2>1
<1> HIDE DEF t, G
<1>11. FlattenSeq(t) \in Seq(U) /\ ToSet(FlattenSeq(t)) = ToSet(s) \cap G
  <2>1. s \in Seq(U)
    BY <1>8
  <2> QED
    BY ONLY <2>1, <1>9, FilteredRange
<1>12. DomainItems \in Seq(ToSet(DomainItems))
  <2>1. DomainItems \in Seq(U)
    BY <1>3, <1>11
  <2> QED
    BY ONLY <2>1, OwnRange
<1> QED
  BY <1>3, <1>7, <1>8, <1>10, <1>11, <1>12

LEMMA HashItemsRange ==
  ASSUME CollectInv, phase \notin {"leaves", "html"}
  PROVE  HashItems \in Seq(ToSet(HashItems)) /\ ToSet(HashItems) = FoundHashes
<1> DEFINE written == OfKind(body_text, "hash") \o OfKind(visible_text, "hash")
           P == ToSet(raw.parts)
           G == {p \in P : p.digest # ""}
           u == [k \in DOMAIN attachments |->
                   IF attachments[k].digest # "" THEN <<attachments[k]>> ELSE <<>>]
           files == FlattenSeq(u)
           a == [k \in DOMAIN written |-> written[k].path]
           b == [k \in DOMAIN files |-> files[k].digest]
           g == [w \in AnyWord |-> w.path]
           h == [p \in P |-> p.digest]
           U == {w.path : w \in AnyWord} \cup {p.digest : p \in P}
<1>1. written \in Seq(AnyWord) /\ ToSet(written) = WrittenAs({"hash"})
  BY WrittenOf
<1>2. attachments \in Seq(P) /\ ToSet(attachments) = {raw.parts[k] : k \in OwnFiles}
  BY DEF CollectInv, WalkInv
<1>3. HashItems = a \o b
  BY DEF HashItems, Filtered
<1>4. \A w \in AnyWord : g[w] = w.path /\ g[w] \in U
  OBVIOUS
<1>5. \A p \in P : h[p] = p.digest /\ h[p] \in U
  OBVIOUS
<1>6. u = [k \in DOMAIN attachments |-> IF attachments[k] \in G THEN <<attachments[k]>> ELSE <<>>]
  <2>1. \A k \in DOMAIN attachments : attachments[k] \in P
    BY <1>2
  <2> QED
    BY <2>1
<1>7. ToSet(attachments) \cap G = {p \in ToSet(attachments) : p.digest # ""}
  <2>1. ToSet(attachments) \subseteq P
    BY <1>2 DEF ToSet
  <2> QED
    BY <2>1
<1> HIDE DEF u, G, written, g, h, U
<1>8. files \in Seq(P) /\ ToSet(files) = ToSet(attachments) \cap G
  <2> HIDE DEF P
  <2> QED
    BY <1>2, <1>6, FilteredRange
<1> HIDE DEF files
<1>9. a = [k \in DOMAIN written |-> a[k]] /\ \A k \in DOMAIN written : a[k] = g[written[k]]
  <2>1. \A k \in DOMAIN written : written[k] \in AnyWord
    BY <1>1
  <2> QED
    BY <2>1, <1>4
<1>10. b = [k \in DOMAIN files |-> b[k]] /\ \A k \in DOMAIN files : b[k] = h[files[k]]
  <2>1. \A k \in DOMAIN files : files[k] \in P
    BY <1>8
  <2> QED
    BY <2>1, <1>5
<1> HIDE DEF a, b, P
<1>11. a \in Seq(U) /\ ToSet(a) = {g[x] : x \in ToSet(written)}
  <2>1. \A w \in AnyWord : g[w] \in U
    BY <1>4
  <2>2. written \in Seq(AnyWord)
    BY <1>1
  <2>3. a = [k \in DOMAIN written |-> a[k]]
    BY <1>9
  <2>4. \A k \in DOMAIN written : a[k] = g[written[k]]
    BY <1>9
  <2> QED
    BY ONLY <2>1, <2>2, <2>3, <2>4, MappedRange
<1>12. b \in Seq(U) /\ ToSet(b) = {h[x] : x \in ToSet(files)}
  <2>1. \A p \in P : h[p] \in U
    BY <1>5
  <2>2. files \in Seq(P)
    BY <1>8
  <2> QED
    BY ONLY <2>1, <2>2, <1>10, MappedRange
<1>13. ToSet(a) = {w.path : w \in WrittenAs({"hash"})}
  <2>1. \A x \in ToSet(written) : x \in AnyWord
    BY <1>1 DEF ToSet
  <2> QED
    BY <2>1, <1>1, <1>4, <1>11
<1>14. ToSet(b) = {raw.parts[k].digest : k \in OwnFiles} \ {""}
  <2>1. \A x \in ToSet(files) : x \in P
    BY <1>8 DEF ToSet
  <2>2. ToSet(b) = {p.digest : p \in ToSet(files)}
    BY <2>1, <1>5, <1>12
  <2>3. ToSet(files) = {p \in {raw.parts[k] : k \in OwnFiles} : p.digest # ""}
    BY <1>2, <1>7, <1>8
  <2>4. \A x : x \in ToSet(b) <=> \E k \in OwnFiles : x = raw.parts[k].digest /\ x # ""
    BY <2>2, <2>3
  <2> QED
    BY <2>4
<1>15. a \o b \in Seq(U) /\ ToSet(a \o b) = ToSet(a) \cup ToSet(b)
  BY <1>11, <1>12, TwoRange
<1>16. ToSet(HashItems) = FoundHashes
  BY <1>3, <1>13, <1>14, <1>15 DEF FoundHashes
<1>17. HashItems \in Seq(ToSet(HashItems))
  <2>1. HashItems \in Seq(U)
    BY <1>3, <1>15
  <2> QED
    BY ONLY <2>1, OwnRange
<1> QED
  BY <1>16, <1>17

-----------------------------------------------------------------------------
(* What the buckets hold *)

\* Bucket b holds of the keys K as many as it may: all, or one more than it reports.
Holds(b, K) ==
  /\ IsBucket(b)
  /\ \A i, j \in 1 .. Len(b) : b[i] = b[j] => i = j
  /\ {b[k] : k \in 1 .. Len(b)} \subseteq K
  /\ Len(b) <= MAX_PER_KIND => {b[k] : k \in 1 .. Len(b)} = K

LEMMA HoldsNothing == Holds(<<>>, {})
BY EmptyBucket DEF Holds

\* One key more, which is in K, or was not noted yet.
LEMMA HoldsMore ==
  ASSUME NEW b, NEW K, Holds(b, K), NEW key, \A k \in 1 .. Len(b) : b[k] # key
  PROVE  Holds(Append(b, key), K \cup {key})
<1> DEFINE more == Append(b, key)
           n == Len(b)
<1>1. /\ IsBucket(more) /\ n \in Nat /\ Len(more) = n + 1
      /\ \A k \in 1 .. n : more[k] = b[k]
      /\ more[n + 1] = key
  BY Appended DEF Holds
<1>2. /\ \A i, j \in 1 .. n : b[i] = b[j] => i = j
      /\ {b[k] : k \in 1 .. n} \subseteq K
      /\ n <= MAX_PER_KIND => {b[k] : k \in 1 .. n} = K
  BY DEF Holds
<1> HIDE DEF more, n
<1>3. 1 .. Len(more) = (1 .. n) \cup {n + 1} /\ n + 1 \notin 1 .. n
  BY <1>1
<1>4. \A k \in 1 .. n : more[k] # key
  BY <1>1 DEF n
<1>5. \A i, j \in 1 .. Len(more) : more[i] = more[j] => i = j
  BY <1>1, <1>2, <1>3, <1>4
<1>6. {more[k] : k \in 1 .. Len(more)} = {b[k] : k \in 1 .. n} \cup {key}
  BY <1>1, <1>3
<1>7. Len(more) <= MAX_PER_KIND => n <= MAX_PER_KIND
  BY <1>1, ExtractionAssumption
<1> QED
  BY <1>1, <1>2, <1>5, <1>6, <1>7 DEF Holds, more

\* A key that is known, or one more than there is room for.
LEMMA HoldsKnown ==
  ASSUME NEW b, NEW K, Holds(b, K), NEW key,
         (\E k \in 1 .. Len(b) : b[k] = key) \/ Len(b) > MAX_PER_KIND
  PROVE  Holds(b, K \cup {key})
<1>1. Len(b) \in Nat /\ MAX_PER_KIND \in Nat
  BY Noted, ExtractionAssumption DEF Holds
<1> QED
  BY <1>1 DEF Holds

\* _note keeps what the bucket promises.
LEMMA HoldsNoted ==
  ASSUME NEW b, NEW K, Holds(b, K), NEW key
  PROVE  /\ Holds(Note(b, key), K \cup {key})
         /\ Len(Note(b, key)) <= MAX_PER_KIND =>
              /\ Len(b) <= MAX_PER_KIND
              /\ \E k \in DOMAIN Note(b, key) : Note(b, key)[k] = key
<1>1. Len(b) \in Nat /\ DOMAIN b = 1 .. Len(b) /\ MAX_PER_KIND \in Nat
  BY ExtractionAssumption DEF Holds, IsBucket
<1>2. CASE (\E k \in DOMAIN b : b[k] = key) \/ Len(b) > MAX_PER_KIND
  <2>1. Note(b, key) = b
    BY <1>2 DEF Note
  <2>2. Holds(b, K \cup {key})
    BY <1>1, <1>2, HoldsKnown
  <2> QED
    BY <2>1, <2>2, <1>1, <1>2
<1>3. CASE ~((\E k \in DOMAIN b : b[k] = key) \/ Len(b) > MAX_PER_KIND)
  <2>1. Note(b, key) = Append(b, key)
    BY <1>3 DEF Note
  <2>2. Holds(Append(b, key), K \cup {key})
    BY <1>1, <1>3, HoldsMore
  <2>3. Len(Append(b, key)) = Len(b) + 1 /\ Append(b, key)[Len(b) + 1] = key
    BY Appended DEF Holds
  <2>4. DOMAIN Append(b, key) = 1 .. Len(b) + 1
    <3>1. IsBucket(Append(b, key))
      BY <2>2 DEF Holds
    <3> DEFINE more == Append(b, key)
    <3> HIDE DEF more
    <3>2. IsBucket(more) => DOMAIN more = 1 .. Len(more)
      BY DEF IsBucket
    <3> QED
      BY <2>3, <3>1, <3>2 DEF more
  <2> QED
    BY <2>1, <2>2, <2>3, <2>4, <1>1, <1>3
<1> QED
  BY <1>2, <1>3

\* What is reported of a bucket: all, unless it overflowed; then something is missing.
LEMMA ReportedIs ==
  ASSUME NEW b, NEW K, Holds(b, K)
  PROVE  /\ Reported(b) \subseteq K
         /\ Len(b) <= MAX_PER_KIND => Reported(b) = K
         /\ Len(b) > MAX_PER_KIND => \E key \in K : key \notin Reported(b)
<1>1. Len(b) \in Nat /\ DOMAIN b = 1 .. Len(b) /\ MAX_PER_KIND \in Nat
  BY ExtractionAssumption DEF Holds, IsBucket
<1>2. Reported(b) \subseteq K
  BY <1>1 DEF Reported, Holds
<1>3. ASSUME Len(b) <= MAX_PER_KIND PROVE Reported(b) = K
  <2>1. {i \in DOMAIN b : i <= MAX_PER_KIND} = 1 .. Len(b)
    BY <1>1, <1>3
  <2> QED
    BY <2>1, <1>3 DEF Reported, Holds
<1>4. ASSUME Len(b) > MAX_PER_KIND PROVE \E key \in K : key \notin Reported(b)
  <2>1. MAX_PER_KIND + 1 \in 1 .. Len(b)
    BY <1>1, <1>4
  <2>2. b[MAX_PER_KIND + 1] \in K
    BY <2>1 DEF Holds
  <2>3. ASSUME NEW i \in DOMAIN b, i <= MAX_PER_KIND PROVE b[i] # b[MAX_PER_KIND + 1]
    <3>1. i \in 1 .. Len(b) /\ i # MAX_PER_KIND + 1
      BY <1>1, <2>3
    <3> QED
      BY <2>1, <3>1 DEF Holds
  <2> QED
    BY <2>2, <2>3 DEF Reported
<1> QED
  BY <1>2, <1>3, <1>4

-----------------------------------------------------------------------------
(* What was noted, and is to be noted *)

\* Whose turn it is to be noted: URLs, hosts, IPs, domains, hashes; then none's.
Turn ==
  CASE phase = "urls" -> 1 [] phase = "hosts" -> 2 [] phase = "ips" -> 3
    [] phase = "domains" -> 4 [] phase = "hashes" -> 5 [] phase \in {"done", "rules"} -> 6
    [] OTHER -> 0

\* The items s of turn n that were noted by position p of turn t.
Seen(t, p, n, s) == {s[i] : i \in {j \in DOMAIN s : t > n \/ (t = n /\ j \in 1 .. p - 1)}}

UrlsSeen    == Seen(Turn, pos, 1, UrlItems)
HostsSeen   == Seen(Turn, pos, 2, urls)
IpsSeen     == Seen(Turn, pos, 3, IpItems)
DomainsSeen == Seen(Turn, pos, 4, DomainItems)
HashesSeen  == Seen(Turn, pos, 5, HashItems)

UrlsOf(items) == {i.url : i \in items}
TextsOf(items) == {<<i.url, i.text>> : i \in {j \in items : j.text # <<>>}}
IpsOf(hosts) == {Address(u.host.parts) : u \in {v \in hosts : LooseIPv4(v.host.parts)}}
DomainsOf(hosts) ==
  {u.host.labels : u \in {v \in hosts : ~LooseIPv4(v.host.parts) /\ IsDomain(v.host.labels)}}

\* Each bucket holds what was noted by now; so do the texts of the links, unless URLs
\* were dropped.
Buckets(items, hosts, addresses, names, digests) ==
  /\ Holds(urls, UrlsOf(items))
  /\ Len(urls) <= MAX_PER_KIND => link_texts = TextsOf(items)
  /\ Holds(ips, IpsOf(hosts) \cup addresses)
  /\ Holds(domains, DomainsOf(hosts) \cup names)
  /\ Holds(hashes, digests)

BucketInv ==
  /\ CollectInv
  /\ pos \in Nat \ {0}
  /\ phase \in {"leaves", "html", "urls", "hosts", "ips", "domains", "hashes", "done", "rules"}
  /\ Buckets(UrlsSeen, HostsSeen, IpsSeen, DomainsSeen, HashesSeen)

\* Before its turn nothing of the items was seen, after it all; in it, one by one.
LEMMA SeenBefore ==
  ASSUME NEW t \in Nat, NEW p, NEW n \in Nat, t < n, NEW s PROVE Seen(t, p, n, s) = {}
BY DEF Seen

LEMMA SeenAfter ==
  ASSUME NEW t \in Nat, NEW p, NEW n \in Nat, t > n, NEW s PROVE Seen(t, p, n, s) = ToSet(s)
BY DEF Seen, ToSet

LEMMA SeenFirst ==
  ASSUME NEW n \in Nat, NEW s PROVE Seen(n, 1, n, s) = {}
BY DEF Seen

LEMMA SeenLast ==
  ASSUME NEW n \in Nat, NEW s, DOMAIN s = 1 .. Len(s), Len(s) \in Nat, NEW p \in Nat, p > Len(s)
  PROVE  Seen(n, p, n, s) = ToSet(s)
BY DEF Seen, ToSet

LEMMA SeenMore ==
  ASSUME NEW n \in Nat, NEW s, DOMAIN s = 1 .. Len(s), Len(s) \in Nat, NEW p \in 1 .. Len(s)
  PROVE  Seen(n, p + 1, n, s) = Seen(n, p, n, s) \cup {s[p]}
<1>1. {j \in DOMAIN s : n > n \/ (n = n /\ j \in 1 .. p + 1 - 1)}
        = {j \in DOMAIN s : n > n \/ (n = n /\ j \in 1 .. p - 1)} \cup {p}
  OBVIOUS
<1> QED
  BY <1>1 DEF Seen

\* The turn of others adds nothing.
LEMMA SeenElse ==
  ASSUME NEW t \in Nat, NEW n \in Nat, t # n, NEW p, NEW q, NEW s
  PROVE  Seen(t, p, n, s) = Seen(t, q, n, s)
BY DEF Seen

\* Buckets and items are sequences.
LEMMA SequencesNoted ==
  ASSUME BucketInv
  PROVE  /\ \A s \in {urls, ips, domains, hashes} : Len(s) \in Nat /\ DOMAIN s = 1 .. Len(s)
         /\ Turn >= 1 => \A s \in {UrlItems, IpItems, DomainItems, HashItems} :
                           Len(s) \in Nat /\ DOMAIN s = 1 .. Len(s)
<1>1. \A s \in {urls, ips, domains, hashes} : Len(s) \in Nat /\ DOMAIN s = 1 .. Len(s)
  BY DEF BucketInv, Buckets, Holds, IsBucket
<1>2. ASSUME Turn >= 1
      PROVE  \A s \in {UrlItems, IpItems, DomainItems, HashItems} :
               Len(s) \in Nat /\ DOMAIN s = 1 .. Len(s)
  <2>1. CollectInv /\ phase \notin {"leaves", "html"}
    BY <1>2 DEF BucketInv, Turn
  <2>2. UrlItems \in Seq(AllUrlItems) /\ IpItems \in Seq(ToSet(IpItems))
    BY <2>1, UrlItemsRange, IpItemsRange
  <2>3. DomainItems \in Seq(ToSet(DomainItems)) /\ HashItems \in Seq(ToSet(HashItems))
    BY <2>1, DomainItemsRange, HashItemsRange
  <2>4. \A S, s : s \in Seq(S) => Len(s) \in Nat /\ DOMAIN s = 1 .. Len(s)
    OBVIOUS
  <2> QED
    BY <2>2, <2>3, <2>4
<1> QED
  BY <1>1, <1>2

\* What is to be noted stays as it is, once the message is read.
LEMMA SameItems ==
  ASSUME UNCHANGED <<raw, parsed, collector>>
  PROVE  /\ UrlItems' = UrlItems /\ IpItems' = IpItems
         /\ DomainItems' = DomainItems /\ HashItems' = HashItems
<1>1. UNCHANGED <<raw, body_text, attachments, visible_text, links>>
  BY DEF parsed, collector
<1>2. UrlItems' = UrlItems
  BY <1>1 DEF UrlItems
<1>3. IpItems' = IpItems
  BY <1>1 DEF IpItems
<1>4. DomainItems' = DomainItems
  BY <1>1 DEF DomainItems
<1>5. HashItems' = HashItems
  BY <1>1 DEF HashItems, Filtered
<1> QED
  BY <1>2, <1>3, <1>4, <1>5

\* Nothing was noted, and nothing is.
LEMMA SeenAgain ==
  ASSUME BucketInv, CollectInv', UNCHANGED buckets, pos' \in Nat \ {0},
         phase' \in {"leaves", "html", "urls", "hosts", "ips", "domains", "hashes", "done", "rules"},
         UrlsSeen' = UrlsSeen, HostsSeen' = HostsSeen, IpsSeen' = IpsSeen,
         DomainsSeen' = DomainsSeen, HashesSeen' = HashesSeen
  PROVE  BucketInv'
BY DEF BucketInv, buckets, Buckets, Holds, IsBucket

\* While the message is read nothing is noted.
LEMMA ReadingBuckets ==
  ASSUME BucketInv, CollectInv', UNCHANGED buckets, pos' \in Nat \ {0},
         phase \in {"leaves", "html"},
         phase' \in {"leaves", "html"} \/ (phase' = "urls" /\ pos' = 1)
  PROVE  BucketInv'
<1>1. Turn = 0 /\ (Turn' = 0 \/ (Turn' = 1 /\ pos' = 1)) /\ urls' = urls
  BY DEF Turn, buckets
<1>2. /\ UrlsSeen = {} /\ HostsSeen = {} /\ IpsSeen = {} /\ DomainsSeen = {} /\ HashesSeen = {}
  BY <1>1, SeenBefore DEF UrlsSeen, HostsSeen, IpsSeen, DomainsSeen, HashesSeen
<1>3. /\ HostsSeen' = {} /\ IpsSeen' = {} /\ DomainsSeen' = {} /\ HashesSeen' = {}
  BY <1>1, SeenBefore DEF HostsSeen, IpsSeen, DomainsSeen, HashesSeen
<1>4. UrlsSeen' = {}
  <2>1. CASE Turn' = 0
    BY <2>1, SeenBefore DEF UrlsSeen
  <2>2. CASE Turn' = 1 /\ pos' = 1
    BY <2>2, SeenFirst DEF UrlsSeen
  <2> QED
    BY <1>1, <2>1, <2>2
<1> QED
  BY <1>2, <1>3, <1>4, SeenAgain

LEMMA TurnAgain == phase' = phase => Turn' = Turn
BY DEF Turn

\* A turn ends when all its items were noted, and the next one begins with none.
LEMMA SeenOnward ==
  ASSUME NEW t \in Nat, NEW p \in Nat, NEW n \in Nat, NEW s,
         t = n => DOMAIN s = 1 .. Len(s) /\ Len(s) \in Nat /\ p > Len(s)
  PROVE  Seen(t + 1, 1, n, s) = Seen(t, p, n, s)
<1>1. CASE t < n
  BY <1>1 DEF Seen
<1>2. CASE t = n
  <2>1. Seen(n, p, n, s) = ToSet(s)
    BY <1>2, SeenLast
  <2>2. Seen(n + 1, 1, n, s) = ToSet(s)
    BY SeenAfter
  <2> QED
    BY <2>1, <2>2, <1>2
<1>3. CASE t > n
  <2>1. t + 1 > n /\ t + 1 \in Nat
    BY <1>3
  <2> QED
    BY <1>3, <2>1, SeenAfter
<1> QED
  BY <1>1, <1>2, <1>3

LEMMA NextPhaseBuckets ==
  ASSUME BucketInv, CollectInv', NextPhase PROVE BucketInv'
<1>1. /\ UNCHANGED <<raw, parsed, collector, buckets>> /\ urls' = urls /\ pos' = 1
      /\ pos > Len(Items)
  BY DEF NextPhase, buckets
<1>2. \/ phase = "urls" /\ phase' = "hosts"
      \/ phase = "hosts" /\ phase' = "ips"
      \/ phase = "ips" /\ phase' = "domains"
      \/ phase = "domains" /\ phase' = "hashes"
      \/ phase = "hashes" /\ phase' = "done"
  <2>1. PICK k \in 1 .. Len(Order) - 1 : phase = Order[k] /\ phase' = Order[k + 1]
    BY DEF NextPhase
  <2>2. k \in {1, 2, 3, 4, 5}
    BY <2>1 DEF Order
  <2> QED
    BY <2>1, <2>2 DEF Order
<1>3. Turn \in 1 .. 5 /\ Turn' = Turn + 1
  BY <1>2 DEF Turn
<1>4. /\ UrlItems' = UrlItems /\ IpItems' = IpItems
      /\ DomainItems' = DomainItems /\ HashItems' = HashItems
  BY <1>1, SameItems
<1>5. /\ \A s \in {urls, UrlItems, IpItems, DomainItems, HashItems} :
           Len(s) \in Nat /\ DOMAIN s = 1 .. Len(s)
      /\ pos \in Nat
  BY <1>3, SequencesNoted DEF BucketInv
<1>6. /\ Turn = 1 => Items = UrlItems
      /\ Turn = 2 => Items = urls
      /\ Turn = 3 => Items = IpItems
      /\ Turn = 4 => Items = DomainItems
      /\ Turn = 5 => Items = HashItems
  BY <1>2 DEF Turn, Items
<1> DEFINE t == Turn
           p == pos
<1>t. t \in Nat /\ p \in Nat /\ t \in 1 .. 5 /\ Turn' = t + 1
  BY <1>3, <1>5
<1>7. UrlsSeen' = UrlsSeen
  <2> DEFINE s == UrlItems
  <2>1. t = 1 => DOMAIN s = 1 .. Len(s) /\ Len(s) \in Nat /\ p > Len(s)
    BY <1>1, <1>5, <1>6
  <2>2. UrlsSeen = Seen(t, p, 1, s) /\ UrlsSeen' = Seen(t + 1, 1, 1, s)
    BY <1>1, <1>3, <1>4 DEF UrlsSeen
  <2> HIDE DEF t, p, s
  <2>3. Seen(t + 1, 1, 1, s) = Seen(t, p, 1, s)
    BY <1>t, <2>1, SeenOnward
  <2> QED
    BY <2>2, <2>3
<1>8. HostsSeen' = HostsSeen
  <2> DEFINE s == urls
  <2>1. t = 2 => DOMAIN s = 1 .. Len(s) /\ Len(s) \in Nat /\ p > Len(s)
    BY <1>1, <1>5, <1>6
  <2>2. HostsSeen = Seen(t, p, 2, s) /\ HostsSeen' = Seen(t + 1, 1, 2, s)
    BY <1>1, <1>3, <1>4 DEF HostsSeen
  <2> HIDE DEF t, p, s
  <2>3. Seen(t + 1, 1, 2, s) = Seen(t, p, 2, s)
    BY <1>t, <2>1, SeenOnward
  <2> QED
    BY <2>2, <2>3
<1>9. IpsSeen' = IpsSeen
  <2> DEFINE s == IpItems
  <2>1. t = 3 => DOMAIN s = 1 .. Len(s) /\ Len(s) \in Nat /\ p > Len(s)
    BY <1>1, <1>5, <1>6
  <2>2. IpsSeen = Seen(t, p, 3, s) /\ IpsSeen' = Seen(t + 1, 1, 3, s)
    BY <1>1, <1>3, <1>4 DEF IpsSeen
  <2> HIDE DEF t, p, s
  <2>3. Seen(t + 1, 1, 3, s) = Seen(t, p, 3, s)
    BY <1>t, <2>1, SeenOnward
  <2> QED
    BY <2>2, <2>3
<1>10. DomainsSeen' = DomainsSeen
  <2> DEFINE s == DomainItems
  <2>1. t = 4 => DOMAIN s = 1 .. Len(s) /\ Len(s) \in Nat /\ p > Len(s)
    BY <1>1, <1>5, <1>6
  <2>2. DomainsSeen = Seen(t, p, 4, s) /\ DomainsSeen' = Seen(t + 1, 1, 4, s)
    BY <1>1, <1>3, <1>4 DEF DomainsSeen
  <2> HIDE DEF t, p, s
  <2>3. Seen(t + 1, 1, 4, s) = Seen(t, p, 4, s)
    BY <1>t, <2>1, SeenOnward
  <2> QED
    BY <2>2, <2>3
<1>11. HashesSeen' = HashesSeen
  <2> DEFINE s == HashItems
  <2>1. t = 5 => DOMAIN s = 1 .. Len(s) /\ Len(s) \in Nat /\ p > Len(s)
    BY <1>1, <1>5, <1>6
  <2>2. HashesSeen = Seen(t, p, 5, s) /\ HashesSeen' = Seen(t + 1, 1, 5, s)
    BY <1>1, <1>3, <1>4 DEF HashesSeen
  <2> HIDE DEF t, p, s
  <2>3. Seen(t + 1, 1, 5, s) = Seen(t, p, 5, s)
    BY <1>t, <2>1, SeenOnward
  <2> QED
    BY <2>2, <2>3
<1> QED
  BY <1>1, <1>2, <1>7, <1>8, <1>9, <1>10, <1>11, SeenAgain

\* A step in a turn sees one item of that turn.
LEMMA SeenStep ==
  ASSUME NEW t \in Nat, NEW p \in Nat, p > 0, NEW n \in Nat, NEW s,
         t = n => DOMAIN s = 1 .. Len(s) /\ Len(s) \in Nat /\ p <= Len(s)
  PROVE  /\ t = n => Seen(t, p + 1, n, s) = Seen(t, p, n, s) \cup {s[p]}
         /\ t # n => Seen(t, p + 1, n, s) = Seen(t, p, n, s)
<1>1. CASE t = n
  <2>1. p \in 1 .. Len(s)
    BY <1>1
  <2> QED
    BY <1>1, <2>1, SeenMore
<1> QED
  BY <1>1, SeenElse

\* An item is noted in its turn: it is seen, and of the other turns nothing changes.
LEMMA NotingSees ==
  ASSUME BucketInv, Turn \in 1 .. 5, UNCHANGED <<raw, phase, parsed, collector>>,
         pos' = pos + 1, pos > 0, pos <= Len(Items), Turn = 1 \/ urls' = urls
  PROVE  /\ UrlsSeen'    = IF Turn = 1 THEN UrlsSeen \cup {UrlItems[pos]} ELSE UrlsSeen
         /\ HostsSeen'   = IF Turn = 2 THEN HostsSeen \cup {urls[pos]} ELSE HostsSeen
         /\ IpsSeen'     = IF Turn = 3 THEN IpsSeen \cup {IpItems[pos]} ELSE IpsSeen
         /\ DomainsSeen' = IF Turn = 4 THEN DomainsSeen \cup {DomainItems[pos]} ELSE DomainsSeen
         /\ HashesSeen'  = IF Turn = 5 THEN HashesSeen \cup {HashItems[pos]} ELSE HashesSeen
<1>1. /\ \A s \in {urls, UrlItems, IpItems, DomainItems, HashItems} :
           Len(s) \in Nat /\ DOMAIN s = 1 .. Len(s)
      /\ pos \in Nat
  BY SequencesNoted DEF BucketInv
<1>2. /\ UrlItems' = UrlItems /\ IpItems' = IpItems
      /\ DomainItems' = DomainItems /\ HashItems' = HashItems
  BY SameItems
<1>3. /\ Turn = 1 => Items = UrlItems
      /\ Turn = 2 => Items = urls
      /\ Turn = 3 => Items = IpItems
      /\ Turn = 4 => Items = DomainItems
      /\ Turn = 5 => Items = HashItems
  BY DEF Turn, Items
<1>4. Turn' = Turn /\ Turn \in Nat
  BY TurnAgain
<1> DEFINE t == Turn
           p == pos
<1>t. t \in Nat /\ p \in Nat /\ p > 0
  BY <1>1
<1>5. UrlsSeen' = IF Turn = 1 THEN UrlsSeen \cup {UrlItems[pos]} ELSE UrlsSeen
  <2> DEFINE s == UrlItems
  <2>1. t = 1 => DOMAIN s = 1 .. Len(s) /\ Len(s) \in Nat /\ p <= Len(s)
    BY <1>1, <1>3
  <2>2. UrlsSeen = Seen(t, p, 1, s)
    BY DEF UrlsSeen
  <2>3. UrlsSeen' = Seen(t, p + 1, 1, s)
    BY <1>2, <1>4 DEF UrlsSeen
  <2> HIDE DEF t, p, s
  <2>4. /\ t = 1 => Seen(t, p + 1, 1, s) = Seen(t, p, 1, s) \cup {s[p]}
        /\ t # 1 => Seen(t, p + 1, 1, s) = Seen(t, p, 1, s)
    BY ONLY <1>t, <2>1, SeenStep
  <2> QED
    BY <2>2, <2>3, <2>4 DEF t, p, s
<1>6. HostsSeen' = IF Turn = 2 THEN HostsSeen \cup {urls[pos]} ELSE HostsSeen
  <2> DEFINE s == urls
  <2>1. t = 2 => DOMAIN s = 1 .. Len(s) /\ Len(s) \in Nat /\ p <= Len(s)
    BY <1>1, <1>3
  <2>2. HostsSeen = Seen(t, p, 2, s)
    BY DEF HostsSeen
  <2>3. HostsSeen' = Seen(t, p + 1, 2, s)
    <3>1. CASE Turn = 1
      <4>1. HostsSeen' = {}
        <5>1. Turn' = 1
          BY <1>4, <3>1
        <5> QED
          BY <5>1 DEF HostsSeen, Seen
      <4>2. Seen(t, p + 1, 2, s) = {}
        BY <3>1 DEF Seen
      <4> QED
        BY <4>1, <4>2
    <3>2. CASE urls' = urls
      BY <1>4, <3>2 DEF HostsSeen
    <3> QED
      BY <3>1, <3>2
  <2> HIDE DEF t, p, s
  <2>4. /\ t = 2 => Seen(t, p + 1, 2, s) = Seen(t, p, 2, s) \cup {s[p]}
        /\ t # 2 => Seen(t, p + 1, 2, s) = Seen(t, p, 2, s)
    BY ONLY <1>t, <2>1, SeenStep
  <2> QED
    BY <2>2, <2>3, <2>4 DEF t, p, s
<1>7. IpsSeen' = IF Turn = 3 THEN IpsSeen \cup {IpItems[pos]} ELSE IpsSeen
  <2> DEFINE s == IpItems
  <2>1. t = 3 => DOMAIN s = 1 .. Len(s) /\ Len(s) \in Nat /\ p <= Len(s)
    BY <1>1, <1>3
  <2>2. IpsSeen = Seen(t, p, 3, s)
    BY DEF IpsSeen
  <2>3. IpsSeen' = Seen(t, p + 1, 3, s)
    BY <1>2, <1>4 DEF IpsSeen
  <2> HIDE DEF t, p, s
  <2>4. /\ t = 3 => Seen(t, p + 1, 3, s) = Seen(t, p, 3, s) \cup {s[p]}
        /\ t # 3 => Seen(t, p + 1, 3, s) = Seen(t, p, 3, s)
    BY ONLY <1>t, <2>1, SeenStep
  <2> QED
    BY <2>2, <2>3, <2>4 DEF t, p, s
<1>8. DomainsSeen' = IF Turn = 4 THEN DomainsSeen \cup {DomainItems[pos]} ELSE DomainsSeen
  <2> DEFINE s == DomainItems
  <2>1. t = 4 => DOMAIN s = 1 .. Len(s) /\ Len(s) \in Nat /\ p <= Len(s)
    BY <1>1, <1>3
  <2>2. DomainsSeen = Seen(t, p, 4, s)
    BY DEF DomainsSeen
  <2>3. DomainsSeen' = Seen(t, p + 1, 4, s)
    BY <1>2, <1>4 DEF DomainsSeen
  <2> HIDE DEF t, p, s
  <2>4. /\ t = 4 => Seen(t, p + 1, 4, s) = Seen(t, p, 4, s) \cup {s[p]}
        /\ t # 4 => Seen(t, p + 1, 4, s) = Seen(t, p, 4, s)
    BY ONLY <1>t, <2>1, SeenStep
  <2> QED
    BY <2>2, <2>3, <2>4 DEF t, p, s
<1>9. HashesSeen' = IF Turn = 5 THEN HashesSeen \cup {HashItems[pos]} ELSE HashesSeen
  <2> DEFINE s == HashItems
  <2>1. t = 5 => DOMAIN s = 1 .. Len(s) /\ Len(s) \in Nat /\ p <= Len(s)
    BY <1>1, <1>3
  <2>2. HashesSeen = Seen(t, p, 5, s)
    BY DEF HashesSeen
  <2>3. HashesSeen' = Seen(t, p + 1, 5, s)
    BY <1>2, <1>4 DEF HashesSeen
  <2> HIDE DEF t, p, s
  <2>4. /\ t = 5 => Seen(t, p + 1, 5, s) = Seen(t, p, 5, s) \cup {s[p]}
        /\ t # 5 => Seen(t, p + 1, 5, s) = Seen(t, p, 5, s)
    BY ONLY <1>t, <2>1, SeenStep
  <2> QED
    BY <2>2, <2>3, <2>4 DEF t, p, s
<1> QED
  BY <1>5, <1>6, <1>7, <1>8, <1>9

NotePhases == {"urls", "hosts", "ips", "domains", "hashes"}

\* What a step that notes an item has in common.
LEMMA NotingIs ==
  ASSUME BucketInv, CollectInv', phase \in NotePhases, Noting(phase),
         UNCHANGED <<raw, phase, parsed, collector>>
  PROVE  /\ pos' \in Nat \ {0} /\ phase' \in NotePhases
         /\ pos > 0 /\ pos <= Len(Items) /\ pos' = pos + 1
         /\ Turn \in 1 .. 5
<1>1. pos \in Nat \ {0} /\ pos' = pos + 1 /\ pos <= Len(Items)
  BY DEF BucketInv, Noting
<1> QED
  BY <1>1 DEF NotePhases, Turn

\* What a step that notes an item has to show.
LEMMA BucketsMade ==
  ASSUME NEW I, NEW H, NEW A, NEW N, NEW D, CollectInv',
         pos' \in Nat \ {0}, phase' \in NotePhases,
         UrlsSeen' = I, HostsSeen' = H, IpsSeen' = A, DomainsSeen' = N, HashesSeen' = D,
         Holds(urls', UrlsOf(I)), Len(urls') <= MAX_PER_KIND => link_texts' = TextsOf(I),
         Holds(ips', IpsOf(H) \cup A), Holds(domains', DomainsOf(H) \cup N), Holds(hashes', D)
  PROVE  BucketInv'
BY DEF BucketInv, Buckets, Holds, IsBucket, NotePhases

\* A URL, and the text of its link; a URL that was dropped has none.
LEMMA AddUrlBuckets ==
  ASSUME BucketInv, CollectInv', AddUrl PROVE BucketInv'
<1> DEFINE item == UrlItems[pos]
           more == UrlsSeen \cup {item}
<1>1. /\ phase = "urls" /\ Noting(phase) /\ UNCHANGED <<raw, phase, parsed, collector>>
      /\ ips' = ips /\ domains' = domains /\ hashes' = hashes
      /\ Items = UrlItems
  BY DEF AddUrl, Noting, Items
<1>2. /\ urls' = Note(urls, item.url)
      /\ link_texts' = IF item.text # <<>> /\ \E k \in DOMAIN urls' : urls'[k] = item.url
                       THEN link_texts \cup {<<item.url, item.text>>} ELSE link_texts
  BY <1>1 DEF AddUrl
<1>3. Turn = 1 /\ pos > 0 /\ pos <= Len(Items) /\ pos' = pos + 1 /\ pos' \in Nat \ {0}
      /\ phase' \in NotePhases
  BY <1>1, NotingIs DEF Turn, NotePhases
<1>4. /\ UrlsSeen' = more /\ HostsSeen' = HostsSeen /\ IpsSeen' = IpsSeen
      /\ DomainsSeen' = DomainsSeen /\ HashesSeen' = HashesSeen
  BY <1>1, <1>3, NotingSees
<1>5. UrlsOf(more) = UrlsOf(UrlsSeen) \cup {item.url}
  BY DEF UrlsOf
<1>6. TextsOf(more) = IF item.text # <<>> THEN TextsOf(UrlsSeen) \cup {<<item.url, item.text>>}
                      ELSE TextsOf(UrlsSeen)
  BY DEF TextsOf
<1>b. /\ Holds(urls, UrlsOf(UrlsSeen))
      /\ Len(urls) <= MAX_PER_KIND => link_texts = TextsOf(UrlsSeen)
      /\ Holds(ips, IpsOf(HostsSeen) \cup IpsSeen)
      /\ Holds(domains, DomainsOf(HostsSeen) \cup DomainsSeen) /\ Holds(hashes, HashesSeen)
  BY DEF BucketInv, Buckets
<1> HIDE DEF item, more
<1>7. /\ Holds(urls', UrlsOf(more))
      /\ Len(urls') <= MAX_PER_KIND =>
           Len(urls) <= MAX_PER_KIND /\ \E k \in DOMAIN urls' : urls'[k] = item.url
  BY <1>2, <1>5, <1>b, HoldsNoted
<1>8. Len(urls') <= MAX_PER_KIND => link_texts' = TextsOf(more)
  BY <1>2, <1>6, <1>7, <1>b
<1> QED
  BY <1>1, <1>3, <1>4, <1>7, <1>8, <1>b, BucketsMade

\* A host is an address or a domain, or neither.
LEMMA NoteHostBuckets ==
  ASSUME BucketInv, CollectInv', NoteHost PROVE BucketInv'
<1> DEFINE url == urls[pos]
           host == url.host
           more == HostsSeen \cup {url}
           loose == LooseIPv4(host.parts)
           domain == IsDomain(host.labels)
           address == Address(host.parts)
           labels == host.labels
<1>1. /\ phase = "hosts" /\ Noting(phase) /\ UNCHANGED <<raw, phase, parsed, collector>>
      /\ urls' = urls /\ link_texts' = link_texts /\ hashes' = hashes
      /\ Items = urls
  BY DEF NoteHost, Noting, Items
<1>2. /\ ips' = IF loose THEN Note(ips, address) ELSE ips
      /\ domains' = IF ~loose /\ domain THEN Note(domains, labels) ELSE domains
  BY DEF NoteHost
<1>3. Turn = 2 /\ pos > 0 /\ pos <= Len(Items) /\ pos' = pos + 1 /\ pos' \in Nat \ {0}
      /\ phase' \in NotePhases
  BY <1>1, NotingIs DEF Turn, NotePhases
<1>4. /\ UrlsSeen' = UrlsSeen /\ HostsSeen' = more /\ IpsSeen' = IpsSeen
      /\ DomainsSeen' = DomainsSeen /\ HashesSeen' = HashesSeen
  BY <1>1, <1>3, NotingSees
<1>5. IpsOf(more) = IF loose THEN IpsOf(HostsSeen) \cup {address} ELSE IpsOf(HostsSeen)
  BY DEF IpsOf
<1>6. DomainsOf(more) = IF ~loose /\ domain THEN DomainsOf(HostsSeen) \cup {labels}
                        ELSE DomainsOf(HostsSeen)
  BY DEF DomainsOf
<1>b. /\ Holds(urls, UrlsOf(UrlsSeen))
      /\ Len(urls) <= MAX_PER_KIND => link_texts = TextsOf(UrlsSeen)
      /\ Holds(ips, IpsOf(HostsSeen) \cup IpsSeen)
      /\ Holds(domains, DomainsOf(HostsSeen) \cup DomainsSeen) /\ Holds(hashes, HashesSeen)
  BY DEF BucketInv, Buckets
<1> HIDE DEF url, host, more, loose, domain, address, labels
<1>7. Holds(ips', IpsOf(more) \cup IpsSeen)
  <2>1. CASE loose
    <3>1. Holds(Note(ips, address), (IpsOf(HostsSeen) \cup IpsSeen) \cup {address})
      BY <1>b, HoldsNoted
    <3>2. IpsOf(more) \cup IpsSeen = (IpsOf(HostsSeen) \cup IpsSeen) \cup {address}
      BY <1>5, <2>1
    <3> QED
      BY <3>1, <3>2, <1>2, <2>1
  <2>2. CASE ~loose
    BY <2>2, <1>2, <1>5, <1>b
  <2> QED
    BY <2>1, <2>2
<1>8. Holds(domains', DomainsOf(more) \cup DomainsSeen)
  <2>1. CASE ~loose /\ domain
    <3>1. Holds(Note(domains, labels), (DomainsOf(HostsSeen) \cup DomainsSeen) \cup {labels})
      BY <1>b, HoldsNoted
    <3>2. DomainsOf(more) \cup DomainsSeen = (DomainsOf(HostsSeen) \cup DomainsSeen) \cup {labels}
      BY <1>6, <2>1
    <3> QED
      BY <3>1, <3>2, <1>2, <2>1
  <2>2. CASE ~(~loose /\ domain)
    BY <2>2, <1>2, <1>6, <1>b
  <2> QED
    BY <2>1, <2>2
<1> QED
  BY <1>1, <1>3, <1>4, <1>7, <1>8, <1>b, BucketsMade

LEMMA NoteIpBuckets ==
  ASSUME BucketInv, CollectInv', NoteIp PROVE BucketInv'
<1> DEFINE key == IpItems[pos]
<1>1. /\ phase = "ips" /\ Noting(phase) /\ UNCHANGED <<raw, phase, parsed, collector>>
      /\ urls' = urls /\ link_texts' = link_texts /\ domains' = domains /\ hashes' = hashes
      /\ Items = IpItems
  BY DEF NoteIp, Noting, Items
<1>2. ips' = Note(ips, key)
  BY <1>1 DEF NoteIp
<1>3. Turn = 3 /\ pos > 0 /\ pos <= Len(Items) /\ pos' = pos + 1 /\ pos' \in Nat \ {0}
      /\ phase' \in NotePhases
  BY <1>1, NotingIs DEF Turn, NotePhases
<1>4. /\ UrlsSeen' = UrlsSeen /\ HostsSeen' = HostsSeen /\ IpsSeen' = IpsSeen \cup {key}
      /\ DomainsSeen' = DomainsSeen /\ HashesSeen' = HashesSeen
  BY <1>1, <1>3, NotingSees
<1>b. /\ Holds(urls, UrlsOf(UrlsSeen))
      /\ Len(urls) <= MAX_PER_KIND => link_texts = TextsOf(UrlsSeen)
      /\ Holds(ips, IpsOf(HostsSeen) \cup IpsSeen)
      /\ Holds(domains, DomainsOf(HostsSeen) \cup DomainsSeen) /\ Holds(hashes, HashesSeen)
  BY DEF BucketInv, Buckets
<1> HIDE DEF key
<1>5. Holds(ips', IpsOf(HostsSeen) \cup (IpsSeen \cup {key}))
  <2>1. Holds(Note(ips, key), (IpsOf(HostsSeen) \cup IpsSeen) \cup {key})
    BY <1>b, HoldsNoted
  <2>2. (IpsOf(HostsSeen) \cup IpsSeen) \cup {key} = IpsOf(HostsSeen) \cup (IpsSeen \cup {key})
    OBVIOUS
  <2> QED
    BY <2>1, <2>2, <1>2
<1> QED
  BY <1>1, <1>3, <1>4, <1>5, <1>b, BucketsMade

LEMMA NoteDomainBuckets ==
  ASSUME BucketInv, CollectInv', NoteDomain PROVE BucketInv'
<1> DEFINE key == DomainItems[pos]
<1>1. /\ phase = "domains" /\ Noting(phase) /\ UNCHANGED <<raw, phase, parsed, collector>>
      /\ urls' = urls /\ link_texts' = link_texts /\ ips' = ips /\ hashes' = hashes
      /\ Items = DomainItems
  BY DEF NoteDomain, Noting, Items
<1>2. domains' = Note(domains, key)
  BY <1>1 DEF NoteDomain
<1>3. Turn = 4 /\ pos > 0 /\ pos <= Len(Items) /\ pos' = pos + 1 /\ pos' \in Nat \ {0}
      /\ phase' \in NotePhases
  BY <1>1, NotingIs DEF Turn, NotePhases
<1>4. /\ UrlsSeen' = UrlsSeen /\ HostsSeen' = HostsSeen /\ IpsSeen' = IpsSeen
      /\ DomainsSeen' = DomainsSeen \cup {key} /\ HashesSeen' = HashesSeen
  BY <1>1, <1>3, NotingSees
<1>b. /\ Holds(urls, UrlsOf(UrlsSeen))
      /\ Len(urls) <= MAX_PER_KIND => link_texts = TextsOf(UrlsSeen)
      /\ Holds(ips, IpsOf(HostsSeen) \cup IpsSeen)
      /\ Holds(domains, DomainsOf(HostsSeen) \cup DomainsSeen) /\ Holds(hashes, HashesSeen)
  BY DEF BucketInv, Buckets
<1> HIDE DEF key
<1>5. Holds(domains', DomainsOf(HostsSeen) \cup (DomainsSeen \cup {key}))
  <2>1. Holds(Note(domains, key), (DomainsOf(HostsSeen) \cup DomainsSeen) \cup {key})
    BY <1>b, HoldsNoted
  <2>2. (DomainsOf(HostsSeen) \cup DomainsSeen) \cup {key}
          = DomainsOf(HostsSeen) \cup (DomainsSeen \cup {key})
    OBVIOUS
  <2> QED
    BY <2>1, <2>2, <1>2
<1> QED
  BY <1>1, <1>3, <1>4, <1>5, <1>b, BucketsMade

LEMMA NoteHashBuckets ==
  ASSUME BucketInv, CollectInv', NoteHash PROVE BucketInv'
<1> DEFINE key == HashItems[pos]
<1>1. /\ phase = "hashes" /\ Noting(phase) /\ UNCHANGED <<raw, phase, parsed, collector>>
      /\ urls' = urls /\ link_texts' = link_texts /\ ips' = ips /\ domains' = domains
      /\ Items = HashItems
  BY DEF NoteHash, Noting, Items
<1>2. hashes' = IF \E k \in DOMAIN hashes : hashes[k] = key THEN hashes ELSE Append(hashes, key)
  BY <1>1 DEF NoteHash
<1>3. Turn = 5 /\ pos > 0 /\ pos <= Len(Items) /\ pos' = pos + 1 /\ pos' \in Nat \ {0}
      /\ phase' \in NotePhases
  BY <1>1, NotingIs DEF Turn, NotePhases
<1>4. /\ UrlsSeen' = UrlsSeen /\ HostsSeen' = HostsSeen /\ IpsSeen' = IpsSeen
      /\ DomainsSeen' = DomainsSeen /\ HashesSeen' = HashesSeen \cup {key}
  BY <1>1, <1>3, NotingSees
<1>b. /\ Holds(urls, UrlsOf(UrlsSeen))
      /\ Len(urls) <= MAX_PER_KIND => link_texts = TextsOf(UrlsSeen)
      /\ Holds(ips, IpsOf(HostsSeen) \cup IpsSeen)
      /\ Holds(domains, DomainsOf(HostsSeen) \cup DomainsSeen) /\ Holds(hashes, HashesSeen)
  BY DEF BucketInv, Buckets
<1> HIDE DEF key
<1>5. DOMAIN hashes = 1 .. Len(hashes)
  BY SequencesNoted
<1>6. Holds(hashes', HashesSeen \cup {key})
  <2>1. CASE \E k \in DOMAIN hashes : hashes[k] = key
    BY <2>1, <1>2, <1>5, <1>b, HoldsKnown
  <2>2. CASE ~\E k \in DOMAIN hashes : hashes[k] = key
    BY <2>2, <1>2, <1>5, <1>b, HoldsMore
  <2> QED
    BY <2>1, <2>2
<1> QED
  BY <1>1, <1>3, <1>4, <1>6, <1>b, BucketsMade

\* Where the buckets stay as they are, and so does the turn.
LEMMA SameBuckets ==
  ASSUME BucketInv, CollectInv', UNCHANGED <<raw, pos, parsed, collector, buckets>>,
         phase' = phase \/ (phase = "done" /\ phase' = "rules")
  PROVE  BucketInv'
<1>1. Turn' = Turn /\ urls' = urls /\ pos' = pos /\ pos' \in Nat \ {0}
  BY DEF Turn, buckets, BucketInv
<1>2. /\ UrlItems' = UrlItems /\ IpItems' = IpItems
      /\ DomainItems' = DomainItems /\ HashItems' = HashItems
  BY SameItems
<1>3. /\ UrlsSeen' = UrlsSeen /\ HostsSeen' = HostsSeen /\ IpsSeen' = IpsSeen
      /\ DomainsSeen' = DomainsSeen /\ HashesSeen' = HashesSeen
  BY <1>1, <1>2 DEF UrlsSeen, HostsSeen, IpsSeen, DomainsSeen, HashesSeen
<1>4. phase' \in {"leaves", "html", "urls", "hosts", "ips", "domains", "hashes", "done", "rules"}
  BY DEF BucketInv
<1> QED
  BY <1>1, <1>3, <1>4, SeenAgain

LEMMA NextBuckets == BucketInv /\ [ExtractionNext]_extraction => BucketInv'
<1> SUFFICES ASSUME BucketInv, [ExtractionNext]_extraction PROVE BucketInv'
  OBVIOUS
<1>0. CollectInv'
  BY NextCollects DEF BucketInv
<1>1. CASE Descend \/ Leaf \/ EndOfParts \/ HtmlStep
  <2>1. /\ UNCHANGED buckets /\ phase \in {"leaves", "html"}
        /\ phase' \in {"leaves", "html"} \/ (phase' = "urls" /\ pos' = 1)
    BY <1>1 DEF Descend, Leaf, EndOfParts, HtmlStep, InScript, StartAnchor, EndAnchor, OtherLink,
         StartScript, EndScript, Data, GivesUp, EndOfHtml, Reading
  <2>2. pos' \in Nat \ {0}
    <3>1. phase' = "leaves" => pos' \in 1 .. Len(raw'.parts) + 1
      BY <1>0 DEF CollectInv, WalkInv
    <3>2. phase' = "html" => pos' \in 1 .. Len(Html') + 1
      BY <1>0 DEF CollectInv
    <3> QED
      BY <2>1, <3>1, <3>2
  <2> QED
    BY <1>0, <2>1, <2>2, ReadingBuckets
<1>2. CASE UNCHANGED extraction
  BY <1>0, <1>2, SameBuckets DEF extraction
<1> QED
  BY <1>0, <1>1, <1>2, AddUrlBuckets, NoteHostBuckets, NoteIpBuckets, NoteDomainBuckets,
     NoteHashBuckets, NextPhaseBuckets DEF ExtractionNext, HtmlStep

LEMMA BucketInit == ExtractionInit => BucketInv
<1> SUFFICES ASSUME ExtractionInit PROVE BucketInv
  OBVIOUS
<1>1. /\ phase = "leaves" /\ pos = 1 /\ urls = <<>> /\ link_texts = {} /\ ips = <<>>
      /\ domains = <<>> /\ hashes = <<>> /\ CollectInv
  BY CollectInit DEF ExtractionInit
<1>2. /\ UrlsSeen = {} /\ HostsSeen = {} /\ IpsSeen = {} /\ DomainsSeen = {} /\ HashesSeen = {}
  <2>1. Turn = 0
    BY <1>1 DEF Turn
  <2> QED
    BY <2>1, SeenBefore DEF UrlsSeen, HostsSeen, IpsSeen, DomainsSeen, HashesSeen
<1>3. /\ UrlsOf({}) = {} /\ TextsOf({}) = {} /\ IpsOf({}) = {} /\ DomainsOf({}) = {}
  BY DEF UrlsOf, TextsOf, IpsOf, DomainsOf
<1>4. Buckets({}, {}, {}, {}, {})
  BY <1>1, <1>3, HoldsNothing DEF Buckets
<1> QED
  BY <1>1, <1>2, <1>4 DEF BucketInv

\* Once all turns are over.
LEMMA AllSeen ==
  ASSUME BucketInv, phase \in {"done", "rules"}
  PROVE  /\ Holds(urls, FoundUrls)
         /\ Len(urls) <= MAX_PER_KIND => link_texts = TextsOf(AllUrlItems)
         /\ \E K : /\ Holds(ips, K) /\ K \subseteq FoundIps
                   /\ Len(urls) <= MAX_PER_KIND => K = FoundIps
         /\ \E K : /\ Holds(domains, K) /\ K \subseteq {d \in FoundDomains : IsDomain(d)}
                   /\ Len(urls) <= MAX_PER_KIND => K = {d \in FoundDomains : IsDomain(d)}
         /\ Holds(hashes, FoundHashes)
<1>1. CollectInv /\ phase \notin {"leaves", "html"} /\ Turn = 6
  BY DEF BucketInv, Turn
<1>2. /\ UrlsSeen = AllUrlItems /\ HostsSeen = ToSet(urls) /\ IpsSeen = ToSet(IpItems)
      /\ DomainsSeen = ToSet(DomainItems) /\ HashesSeen = FoundHashes
  <2>1. /\ ToSet(UrlItems) = AllUrlItems /\ ToSet(HashItems) = FoundHashes
    BY <1>1, UrlItemsRange, HashItemsRange
  <2> QED
    BY <1>1, <2>1, SeenAfter DEF UrlsSeen, HostsSeen, IpsSeen, DomainsSeen, HashesSeen
<1>3. UrlsOf(AllUrlItems) = FoundUrls
  <2>1. UrlsOf({UrlItem(w) : w \in WrittenAs({"url"})}) = WrittenAs({"url"})
    <3> DEFINE W == WrittenAs({"url"})
    <3>1. \A w : UrlItem(w).url = w
      BY DEF UrlItem
    <3> HIDE DEF W
    <3>2. {i.url : i \in {UrlItem(w) : w \in W}} = W
      BY <3>1
    <3> QED
      BY <3>2 DEF UrlsOf, W
  <2> QED
    BY <2>1 DEF UrlsOf, AllUrlItems, FoundUrls
<1>4. Buckets(AllUrlItems, ToSet(urls), ToSet(IpItems), ToSet(DomainItems), FoundHashes)
  BY <1>2 DEF BucketInv
<1>5. /\ ToSet(urls) \subseteq FoundUrls
      /\ Len(urls) <= MAX_PER_KIND => ToSet(urls) = FoundUrls
  <2>1. Holds(urls, FoundUrls)
    BY <1>3, <1>4 DEF Buckets
  <2>2. ToSet(urls) = {urls[k] : k \in 1 .. Len(urls)}
    BY SequencesNoted DEF ToSet
  <2> QED
    BY <2>1, <2>2 DEF Holds
<1>6. ASSUME NEW K, K = IpsOf(ToSet(urls)) \cup ToSet(IpItems)
      PROVE  K \subseteq FoundIps /\ (Len(urls) <= MAX_PER_KIND => K = FoundIps)
  <2>1. FoundIps = IpsOf(FoundUrls) \cup ToSet(IpItems)
    BY <1>1, IpItemsRange DEF FoundIps, IpsOf
  <2>2. IpsOf(ToSet(urls)) \subseteq IpsOf(FoundUrls)
    BY <1>5 DEF IpsOf
  <2> QED
    BY <2>1, <2>2, <1>5, <1>6
<1>7. ASSUME NEW K, K = DomainsOf(ToSet(urls)) \cup ToSet(DomainItems)
      PROVE  /\ K \subseteq {d \in FoundDomains : IsDomain(d)}
             /\ Len(urls) <= MAX_PER_KIND => K = {d \in FoundDomains : IsDomain(d)}
  <2>1. {d \in FoundDomains : IsDomain(d)} = DomainsOf(FoundUrls) \cup ToSet(DomainItems)
    <3> DEFINE loose == {v \in FoundUrls : ~LooseIPv4(v.host.parts)}
               a == {u.host.labels : u \in loose}
               b == {u.host.labels : u \in WrittenAs({"mail"})}
               c == ToSet(raw.senders)
    <3>1. FoundDomains = a \cup b \cup c
      BY DEF FoundDomains
    <3>2. {d \in a : IsDomain(d)} = DomainsOf(FoundUrls)
      BY DEF DomainsOf
    <3>3. {d \in c \cup b : IsDomain(d)} = ToSet(DomainItems)
      BY <1>1, DomainItemsRange
    <3> HIDE DEF a, b, c
    <3> QED
      BY <3>1, <3>2, <3>3
  <2>2. DomainsOf(ToSet(urls)) \subseteq DomainsOf(FoundUrls)
    BY <1>5 DEF DomainsOf
  <2> QED
    BY <2>1, <2>2, <1>5, <1>7
<1> QED
  BY <1>3, <1>4, <1>6, <1>7 DEF Buckets

\* What is kept is all there is, if nothing was dropped; else it is not.
LEMMA NothingDropped == BucketInv => TruncatedIffDropped
<1> SUFFICES ASSUME BucketInv, phase = "done" PROVE TruncatedIffDropped
  BY DEF TruncatedIffDropped
<1> DEFINE Domains == {d \in FoundDomains : IsDomain(d)}
           kept == <<Reported(urls), Reported(ips), Reported(domains), Reported(hashes)>>
           all  == <<FoundUrls, FoundIps, Domains, FoundHashes>>
<1>1. Holds(urls, FoundUrls) /\ Holds(hashes, FoundHashes)
  BY AllSeen
<1>2. PICK I : Holds(ips, I) /\ I \subseteq FoundIps /\ (Len(urls) <= MAX_PER_KIND => I = FoundIps)
  BY AllSeen
<1>3. PICK D : Holds(domains, D) /\ D \subseteq Domains /\ (Len(urls) <= MAX_PER_KIND => D = Domains)
  BY AllSeen
<1>4. /\ Len(urls) \in Nat /\ Len(ips) \in Nat /\ Len(domains) \in Nat /\ Len(hashes) \in Nat
      /\ MAX_PER_KIND \in Nat
  BY SequencesNoted, ExtractionAssumption
<1> HIDE DEF Domains
<1>5. /\ Reported(urls) \subseteq FoundUrls
      /\ Len(urls) <= MAX_PER_KIND => Reported(urls) = FoundUrls
      /\ Len(urls) > MAX_PER_KIND => Reported(urls) # FoundUrls
  BY <1>1, ReportedIs
<1>6. /\ Reported(hashes) \subseteq FoundHashes
      /\ Len(hashes) <= MAX_PER_KIND => Reported(hashes) = FoundHashes
      /\ Len(hashes) > MAX_PER_KIND => Reported(hashes) # FoundHashes
  BY <1>1, ReportedIs
<1>7. /\ Reported(ips) \subseteq FoundIps
      /\ Len(ips) <= MAX_PER_KIND /\ Len(urls) <= MAX_PER_KIND => Reported(ips) = FoundIps
      /\ Len(ips) > MAX_PER_KIND => Reported(ips) # FoundIps
  BY <1>2, ReportedIs
<1>8. /\ Reported(domains) \subseteq Domains
      /\ Len(domains) <= MAX_PER_KIND /\ Len(urls) <= MAX_PER_KIND => Reported(domains) = Domains
      /\ Len(domains) > MAX_PER_KIND => Reported(domains) # Domains
  BY <1>3, ReportedIs
<1>9. \A k \in 1 .. 4 : kept[k] \subseteq all[k]
  <2> SUFFICES ASSUME NEW k \in 1 .. 4 PROVE kept[k] \subseteq all[k]
    OBVIOUS
  <2>1. k \in {1, 2, 3, 4}
    OBVIOUS
  <2> QED
    BY <2>1, <1>5, <1>6, <1>7, <1>8
<1>10. (\E k \in 1 .. 4 : kept[k] # all[k]) <=>
         \/ Reported(urls) # FoundUrls \/ Reported(ips) # FoundIps
         \/ Reported(domains) # Domains \/ Reported(hashes) # FoundHashes
  <2>1. 1 .. 4 = {1, 2, 3, 4}
    OBVIOUS
  <2>2. /\ kept[1] = Reported(urls) /\ all[1] = FoundUrls
        /\ kept[2] = Reported(ips) /\ all[2] = FoundIps
        /\ kept[3] = Reported(domains) /\ all[3] = Domains
        /\ kept[4] = Reported(hashes) /\ all[4] = FoundHashes
    OBVIOUS
  <2> HIDE DEF kept, all
  <2> QED
    BY <2>1, <2>2
<1>11. Truncated <=> \E k \in 1 .. 4 : kept[k] # all[k]
  <2> HIDE DEF kept, all
  <2> QED
    BY <1>4, <1>5, <1>6, <1>7, <1>8, <1>10 DEF Truncated
<1> QED
  BY <1>9, <1>11 DEF TruncatedIffDropped, Domains

LEMMA PipelineBuckets ==
  BucketInv /\ [PipelineNext]_<<extraction, vars>> => BucketInv'
<1> SUFFICES ASSUME BucketInv, [PipelineNext]_<<extraction, vars>> PROVE BucketInv'
  OBVIOUS
<1>1. CASE ExtractionNext \/ UNCHANGED extraction
  BY <1>1, NextBuckets
<1>2. CASE Handoff
  <2>1. /\ UNCHANGED <<raw, pos, parsed, collector, buckets>>
        /\ phase = "done" /\ phase' = "rules"
    BY <1>2 DEF Handoff
  <2>2. CollectInv /\ WalkInv
    BY DEF BucketInv, CollectInv
  <2>3. WalkInv'
    BY <2>1, <2>2, LaterWalks
  <2>4. CollectInv'
    BY <2>1, <2>2, <2>3, StillCollected
  <2> QED
    BY <2>1, <2>4, SameBuckets
<1> QED
  BY <1>1, <1>2 DEF PipelineNext

\* _HtmlCollector, for every message and every limit, whatever its parts are and in
\* whatever order its tags come: each link of the HTML is collected exactly once, with
\* the words that stand between its <a> and the next <a> or </a>.
THEOREM LinksAreCollected == PipelineSpec => []CollectedExactly
<1>1. PipelineInit => BucketInv
  BY BucketInit DEF PipelineInit
<1>2. BucketInv => CollectedExactly
  BY AllCollected DEF BucketInv
<1> QED
  BY <1>1, <1>2, PipelineBuckets, PTL DEF PipelineSpec

\* "truncated: some kind hit MAX_PER_KIND and the rest was dropped" (Iocs): for every
\* message and every limit, what is reported is in the sender's own parts of it, and
\* all of it is reported unless truncated says otherwise; then something is missing.
THEOREM TruncatedTellsAll == PipelineSpec => []TruncatedIffDropped
<1>1. PipelineInit => BucketInv
  BY BucketInit DEF PipelineInit
<1> QED
  BY <1>1, NothingDropped, PipelineBuckets, PTL DEF PipelineSpec

-----------------------------------------------------------------------------
(* The whole of analyze *)

\* The rules wait for the indicators.
NotYet ==
  phase # "rules" =>
    at = 1 /\ findings = <<>> /\ errors = <<>> /\ points = <<>> /\ result = <<>>

LEMMA HandoffReports ==
  ReportInv /\ SumInv /\ NotYet /\ Handoff /\ email' \in Message => ReportInv' /\ SumInv'
<1> SUFFICES ASSUME ReportInv, SumInv, NotYet, Handoff, email' \in Message
             PROVE  ReportInv' /\ SumInv'
  OBVIOUS
<1>1. /\ at = 1 /\ findings = <<>> /\ errors = <<>> /\ result = <<>>
      /\ UNCHANGED <<at, findings, errors, points, scored, total, result>>
  BY DEF NotYet, Handoff
<1>2. Inv'
  BY <1>1 DEF ReportInv, Inv, TypeOK, InOrder, ScoresOnce, StrongestCounts,
     OneIdIsLittle, ResultIsFinal, Positive, SameId, Left, Id
<1>3. RulesReported' /\ ResultIsOfFindings' /\ PointsAreWorth'
  BY <1>1 DEF ReportInv, RulesReported, ResultIsOfFindings, PointsAreWorth
<1>4. Best' = Best
  BY <1>1 DEF Best, FoundIds, WorthOf
<1>5. TotalIsBest' /\ ScoreIsTotal' /\ IsFiniteSet(scored')
  BY <1>1, <1>4 DEF SumInv, TotalIsBest, ScoreIsTotal
<1> QED
  BY <1>2, <1>3, <1>5 DEF ReportInv, SumInv

AnalyzeInv == ReportInv /\ SumInv /\ NotYet

LEMMA AnalyzeInit == PipelineInit /\ email \in Message => AnalyzeInv
<1> SUFFICES ASSUME PipelineInit, email \in Message PROVE AnalyzeInv
  OBVIOUS
<1>1. Init
  BY DEF PipelineInit, Init
<1>2. NotYet
  BY DEF PipelineInit, NotYet
<1> QED
  BY <1>1, <1>2, ReportInit, SumInit DEF AnalyzeInv

\* Every step of analyze is one of the extraction, the handing over, or one of the rules.
LEMMA AnalyzeNext ==
  AnalyzeInv /\ [PipelineNext]_<<extraction, vars>> /\ (email \in Message)' => AnalyzeInv'
<1> SUFFICES ASSUME AnalyzeInv, [PipelineNext]_<<extraction, vars>>, email' \in Message
             PROVE  AnalyzeInv'
  OBVIOUS
<1>1. CASE UNCHANGED vars /\ (ExtractionNext \/ UNCHANGED extraction)
  <2>1. ReportInv' /\ SumInv'
    BY <1>1, StutterReports, StutterSum DEF AnalyzeInv
  <2>2. phase' # "rules" => phase # "rules"
    BY <1>1, ReadsBeforeRules DEF extraction
  <2> QED
    BY <2>1, <2>2, <1>1 DEF AnalyzeInv, NotYet, vars
<1>2. CASE Handoff
  BY <1>2, HandoffReports DEF AnalyzeInv, NotYet, Handoff
<1>3. CASE phase = "rules" /\ Next /\ UNCHANGED extraction
  <2>1. ReportInv' /\ SumInv' /\ phase' = "rules"
    BY <1>3, NextReports, NextSum DEF AnalyzeInv, extraction
  <2> QED
    BY <2>1 DEF AnalyzeInv, NotYet
<1> QED
  BY <1>1, <1>2, <1>3 DEF PipelineNext

\* The same of analyze, where the rules look at what was extracted: for any bytes,
\* limits and rules, given that what the rules are handed is one of the messages
\* they are made for.
THEOREM AnalysisIsSound ==
  PipelineSpec /\ [](email \in Message) =>
    [](TypeOK /\ NoSingleSignal /\ ScoreIsStrongest /\ CrashHidesNothing /\ AdviceFits)
<1>1. AnalyzeInv => /\ TypeOK /\ NoSingleSignal /\ ScoreIsStrongest /\ CrashHidesNothing
                   /\ AdviceFits
  BY NothingHidden, AdviceIsOfReports, PhishingTakesTwo, StrongestIsScore DEF AnalyzeInv, ReportInv, Inv
<1> QED
  BY AnalyzeInit, AnalyzeNext, <1>1, PTL DEF PipelineSpec

-----------------------------------------------------------------------------
(* From the links to the link rule's finding *)

CONSTANT MaxAttachments  \* of Rules: the limit of another rule
R == INSTANCE Rules

\* The facts about links that the rules are handed.
HandedInv ==
  /\ BucketInv
  /\ phase # "rules" => email = Facts(raw)
  /\ phase = "rules" => email.links = LinkFacts
  /\ result = <<>> \/ \E r : result = <<r>>

\* Nothing but Handoff changes what the rules are handed.
LEMMA PipelineHanded == HandedInv /\ [PipelineNext]_<<extraction, vars>> => HandedInv'
<1> SUFFICES ASSUME HandedInv, [PipelineNext]_<<extraction, vars>> PROVE HandedInv'
  OBVIOUS
<1>0. BucketInv'
  BY PipelineBuckets DEF HandedInv
<1>r. result' = <<>> \/ \E r : result' = <<r>>
  <2>1. result' = result \/ \E r : result' = <<r>>
    BY DEF PipelineNext, Handoff, Next, RunRule, RuleCrashes, ScoreFinding, Assess, vars
  <2> QED
    BY <2>1 DEF HandedInv
<1>1. CASE ExtractionNext /\ UNCHANGED vars
  <2>1. phase # "rules" /\ raw' = raw /\ email' = email
    BY <1>1, ReadsBeforeRules
       DEF vars, ExtractionNext, Descend, Leaf, EndOfParts, InScript, StartAnchor, EndAnchor,
           OtherLink, StartScript, EndScript, Data, GivesUp, EndOfHtml, AddUrl, NoteHost, NoteIp,
           NoteDomain, NoteHash, NextPhase
  <2>2. phase' # "rules"
    BY <1>1, <2>1
       DEF ExtractionNext, Descend, Leaf, EndOfParts, InScript, StartAnchor, EndAnchor,
           OtherLink, StartScript, EndScript, Data, GivesUp, EndOfHtml, AddUrl, NoteHost, NoteIp,
           NoteDomain, NoteHash, NextPhase, Order, Noting
  <2> QED
    BY <1>0, <1>r, <2>1, <2>2 DEF HandedInv
<1>2. CASE Handoff
  <2>1. /\ raw \in Raw /\ email = Facts(raw) /\ phase' = "rules"
        /\ link_texts' = link_texts /\ urls' = urls
    BY <1>2 DEF Handoff, HandedInv, BucketInv, CollectInv, WalkInv, buckets
  <2>2. "links" \in DOMAIN email
    BY <2>1, FactsAssumption
  <2>3. email' = [email EXCEPT !.links = LinkFacts,
                     !.attachments = [k \in DOMAIN attachments |-> attachments[k].file]]
    BY <1>2 DEF Handoff
  <2>4. email'.links = LinkFacts
    BY <2>2, <2>3
  <2>5. LinkFacts' = LinkFacts
    BY <2>1 DEF LinkFacts, Reported
  <2> QED
    BY <1>0, <1>r, <2>1, <2>4, <2>5 DEF HandedInv
<1>3. CASE UNCHANGED extraction /\ email' = email
  <2>1. UNCHANGED <<raw, phase, urls, link_texts>>
    BY <1>3 DEF extraction, buckets
  <2>2. LinkFacts' = LinkFacts
    BY <2>1 DEF LinkFacts, Reported
  <2> QED
    BY <1>0, <1>r, <1>3, <2>1, <2>2 DEF HandedInv
<1>4. CASE phase = "rules" /\ Next /\ UNCHANGED extraction
  <2>1. email' = email
    BY <1>4 DEF Next, RunRule, RuleCrashes, ScoreFinding, Assess
  <2> QED
    BY <1>3, <1>4, <2>1
<1> QED
  BY <1>1, <1>2, <1>3, <1>4 DEF PipelineNext, vars

\* A link without text shows no other site.
LEMMA PlainLinkIsHonest == ASSUME NEW url PROVE Judge(url, <<>>) = "honest"
<1> DEFINE none == OfKind(<<>>, "url")
<1>1. <<>> \in Seq(AnyWord) /\ ToSet(<<>>) = {}
  BY DEF ToSet
<1>2. none \in Seq(AnyWord) /\ ToSet(none) = {}
  BY <1>1, KindRange
<1>3. none = <<>>
  <2> HIDE DEF none
  <2>1. Len(none) \in Nat /\ DOMAIN none = 1 .. Len(none)
    BY <1>2
  <2>2. ~(1 \in DOMAIN none)
    BY <1>2 DEF ToSet
  <2>3. Len(none) = 0
    BY <2>1, <2>2
  <2> QED
    BY <1>2, <2>3
<1>4. ShownHost(<<>>) = <<>>
  BY <1>3 DEF ShownHost
<1> QED
  BY <1>4 DEF Judge

\* Unless URLs were dropped, the rule is handed what every link of the HTML shows.
LEMMA AllJudged ==
  ASSUME HandedInv, phase = "rules", ~Truncated
  PROVE  email.links \ {"honest"} = {Judge(l.url, l.text) : l \in ShownLinks} \ {"honest"}
<1>1. Len(urls) <= MAX_PER_KIND
  BY SequencesNoted, ExtractionAssumption DEF Truncated, HandedInv
<1>2. Holds(urls, FoundUrls) /\ link_texts = TextsOf(AllUrlItems)
  BY <1>1, AllSeen DEF HandedInv
<1>3. Reported(urls) = FoundUrls
  BY <1>1, <1>2, ReportedIs
<1>4. email.links = {Judge(p[1], p[2]) : p \in TextsOf(AllUrlItems)}
  <2>1. \A q \in TextsOf(AllUrlItems) : q[1] \in FoundUrls
    BY DEF TextsOf, AllUrlItems, UrlItem, FoundUrls
  <2> QED
    BY <1>2, <1>3, <2>1 DEF HandedInv, LinkFacts
<1>5. ASSUME NEW l \in ShownLinks, l.text = <<>> PROVE Judge(l.url, l.text) = "honest"
  BY <1>5, PlainLinkIsHonest
<1>6. ASSUME NEW j, j # "honest"
      PROVE  j \in email.links <=> j \in {Judge(l.url, l.text) : l \in ShownLinks}
  <2>1. ASSUME j \in email.links PROVE \E l \in ShownLinks : j = Judge(l.url, l.text)
    <3>1. PICK i \in AllUrlItems : i.text # <<>> /\ j = Judge(i.url, i.text)
      BY <1>4, <2>1 DEF TextsOf
    <3>2. i \in ShownLinks
      BY <3>1 DEF AllUrlItems, UrlItem, OtherLinks
    <3> QED
      BY <3>1, <3>2
  <2>2. ASSUME NEW l \in ShownLinks, j = Judge(l.url, l.text) PROVE j \in email.links
    <3>1. l.text # <<>> /\ l \in AllUrlItems
      BY <1>5, <1>6, <2>2 DEF AllUrlItems
    <3>2. <<l.url, l.text>> \in TextsOf(AllUrlItems)
      BY <3>1 DEF TextsOf
    <3> DEFINE q == <<l.url, l.text>>
    <3>3. j = Judge(q[1], q[2])
      BY <2>2
    <3> QED
      BY <1>4, <3>2, <3>3
  <2> QED
    BY <2>1, <2>2
<1> QED
  BY <1>6

\* The link rule is one of those that run, and it is the one of Rules.
LinkRuleRuns ==
  /\ \E n \in DOMAIN RULES : RULES[n] = "link"
  /\ \A m \in Message : Check("link", m) = R!LinkText(m)

\* The link rule's findings stand together, none or one, as it reported them.
LEMMA LinkFindings ==
  LinkRuleRuns /\ AnalyzeInv /\ HandedInv => LinksJudged
<1> SUFFICES ASSUME LinkRuleRuns, AnalyzeInv, HandedInv, result # <<>>, ~Crashed("link"), ~Truncated
             PROVE  LET judged == {Judge(l.url, l.text) : l \in ShownLinks} \ {"honest"}
                    IN  {findings[i].severity : i \in Own("link")}
                          = IF judged = {} THEN {} ELSE {IF "dangerous" \in judged THEN HIGH ELSE MEDIUM}
  BY DEF LinksJudged, Crashed, Own
<1> DEFINE judged == {Judge(l.url, l.text) : l \in ShownLinks} \ {"honest"}
           worst == IF "dangerous" \in judged THEN HIGH ELSE MEDIUM
           report == Check("link", email)
<1>1. phase = "rules"
  BY DEF AnalyzeInv, NotYet
<1>2. email.links \ {"honest"} = judged
  BY <1>1, AllJudged
<1>3. report = IF judged = {} THEN <<>>
               ELSE <<[rule |-> "link", kind |-> "text_mismatch", severity |-> worst]>>
  <2>1. report = R!LinkText(email)
    BY DEF LinkRuleRuns, AnalyzeInv, ReportInv, Inv, TypeOK
  <2>2. "dangerous" \in email.links <=> "dangerous" \in judged
    BY <1>2
  <2> HIDE DEF judged, report
  <2> QED
    BY <2>1, <2>2, <1>2 DEF R!LinkText, R!FoundIf, R!Finding, R!HIGH, R!MEDIUM, HIGH, MEDIUM
<1>4. Reported_("link")
  <2>1. PICK n \in DOMAIN RULES : RULES[n] = "link"
    BY DEF LinkRuleRuns
  <2>2. at > Len(RULES) /\ at \in Nat /\ n \in 1 .. Len(RULES) /\ Len(RULES) \in Nat
    <3>1. 1 \in DOMAIN result
      <4>1. PICK r : result = <<r>>
        BY DEF HandedInv
      <4> QED
        BY <4>1
    <3> QED
      BY <2>1, <3>1, RulesAssumption DEF AnalyzeInv, ReportInv, Inv, TypeOK, ResultIsFinal
  <2> QED
    BY <2>1, <2>2 DEF AnalyzeInv, ReportInv, RulesReported
<1>5. PICK start \in 0 .. Len(findings) :
        /\ Own("link") = start + 1 .. start + Len(report)
        /\ \A i \in DOMAIN report : findings[start + i] = report[i]
  BY <1>4 DEF Reported_
<1>6. CASE judged = {}
  <2>1. Len(report) = 0
    BY <1>3, <1>6
  <2>2. Own("link") = {}
    BY <1>5, <2>1
  <2> QED
    BY <1>6, <2>2
<1>7. CASE judged # {}
  <2> HIDE DEF judged, worst
  <2>1. Len(report) = 1 /\ DOMAIN report = {1} /\ report[1].severity = worst
    BY <1>3, <1>7
  <2>2. Own("link") = {start + 1} /\ findings[start + 1].severity = worst
    BY <1>5, <2>1
  <2> QED
    BY <1>7, <2>2 DEF judged, worst
<1> QED
  BY <1>6, <1>7

\* From the HTML to the finding, for every message, every limit and any other rules: a
\* link that shows another site than the one it goes to makes a finding, as severe as
\* the worst of them, and only such a link does; given that the link rule is registered,
\* did not crash and was handed one of the messages the rules are made for.
THEOREM LinksAreJudged ==
  ASSUME LinkRuleRuns
  PROVE  PipelineSpec /\ [](email \in Message) => []LinksJudged
<1>1. PipelineInit => HandedInv
  <2>1. ASSUME PipelineInit PROVE phase = "leaves" /\ email = Facts(raw) /\ result = <<>>
    BY <2>1 DEF PipelineInit, ExtractionInit
  <2> QED
    BY <2>1, BucketInit DEF PipelineInit, HandedInv
<1>2. AnalyzeInv /\ HandedInv => LinksJudged
  BY LinkFindings
<1> QED
  BY <1>1, <1>2, AnalyzeInit, AnalyzeNext, PipelineHanded, PTL DEF PipelineSpec
=============================================================================
