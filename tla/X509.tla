-------------------------------- MODULE X509 --------------------------------
(***************************************************************************)
(* src/.src/x509.rs, x509/validity.rs and x509/revocation.rs: a chain a    *)
(* peer sent is walked to a trust anchor, at a time, for a usage, against  *)
(* the revocation lists held; then its alternative signatures are; its     *)
(* leaf must name what was claimed; and what was proved is kept for as     *)
(* long as the path says it holds.                                         *)
(*                                                                         *)
(* Names, keys and serials are abstract. The walk itself is webpki's       *)
(* (external): from the leaf to an anchor by name and signature through    *)
(* the certificates sent, of which it takes so many and no more, each      *)
(* inside its validity window, for the usage, and not revoked. To it an    *)
(* anchor is a name and a key: that is what webpki's                       *)
(* anchor_from_trusted_cert makes of a certificate. What is sent or        *)
(* configured as a certificate or a list may not read as one.              *)
(***************************************************************************)
EXTENDS Integers, Mint, Names

CONSTANTS
  Minted,       \* what authorities issued: their line, the root first; the
                \* chain the last of them issued; and the Option of the user
                \* principal name it was issued for
  Received,     \* what else peers send as a chain
  AnchorSets,   \* the anchors a node may be configured with: sequences
  ListSets,     \* the lists a node may be configured with: Options of sequences
  MAX_SUB_CA_COUNT,   \* how many intermediates webpki takes (six)
  MaxI64,       \* i64::MAX, which no window ends after
  MinTime,      \* the first and the last instant of a run
  MaxTime

ASSUME X509Assumption ==
  /\ MAX_SUB_CA_COUNT \in Nat
  /\ MinTime \in Int /\ MaxTime \in Int /\ MaxI64 \in Int
  /\ MinTime <= MaxTime /\ MaxTime <= MaxI64

VARIABLES
  now,          \* the clock a technology verifies by
  anchors,      \* Anchors.certificates
  revocation,   \* the lists held: Option(Revocation)
  proved        \* what a technology keeps of a verified chain, if anything

vars == <<now, anchors, revocation, proved>>

Sent   == Received \union {m.chain : m \in Minted}
Usage  == {"ClientAuth", "Any"}

\* Every certificate and every list there is, that reads or does not.
Certificate == UNION {ToSet(held) : held \in Sent \union AnchorSets}
List        == UNION {ToSet(lists) : lists \in UNION ListSets}

\* They come in sequences; a window is of whole seconds; an extension may be
\* there any number of times, and alternative names in any number; an
\* alternative signature is what AltSignature says it is.
ASSUME WireAssumption ==
  /\ \A held \in Sent \union AnchorSets : held \in Seq(Certificate)
  /\ \A lists \in UNION ListSets : lists \in Seq(List)
  /\ \A c \in Certificate :
       /\ c.not_before \in Int /\ c.not_after \in Int /\ c.not_after <= MaxI64
       /\ c.alt_key \in Seq(ToSet(c.alt_key))
       /\ c.alt_algorithm \in Seq(ToSet(c.alt_algorithm))
       /\ c.alt_value \in Seq(ToSet(c.alt_value))
       /\ \A v \in ToSet(c.alt_value) :
            v = [bits |-> v.bits, by |-> v.by, over |-> v.over]
       /\ \A san \in c.san : san \in Seq(ToSet(san))

\* What was minted is what the mint's functions make, under fresh serials.
ASSUME MintedAssumption ==
  \A m \in Minted : LET c == m.chain[1] IN
    /\ IsLine(m.line)
    /\ \/ /\ m.principal = {}
          /\ m.chain = issue(Last(m.line), c.subject, c.not_before, c.not_after,
                             c.serial)
       \/ \E principal \in m.principal :
            /\ m.principal = {principal}
            /\ m.chain = issue_for_user(Last(m.line), c.subject, principal,
                                        c.not_before, c.not_after, c.serial)
    /\ \A i, j \in DOMAIN m.chain :
         m.chain[i].serial = m.chain[j].serial => i = j

\* Chain::from_pem and from_der refuse a chain of no certificate.
from_der(certificates) == {chain \in {certificates} : chain # <<>>}

\* Faulty variant: the certificate sent last.
leafSentLast(chain) == Last(chain)

leaf(chain) == Head(chain)
intermediates(chain) == Tail(chain)

-----------------------------------------------------------------------------
(* What webpki checks of each certificate below the anchor.                *)

\* Usage::validate: the extended key usage, where there is one.
validate(usage, c) ==
  usage = "Any" \/ \A purposes \in c.eku : "clientAuth" \in purposes

InsideItsWindow(c, time) == c.not_before <= time /\ time <= c.not_after

\* The list that speaks for a certificate: the first of its issuer's.
ListOf(lists, c) ==
  {lists[i] : i \in {i \in DOMAIN lists :
     /\ lists[i].issuer = c.issuer
     /\ \A j \in DOMAIN lists : j < i => lists[j].issuer # c.issuer}}

Clean(c, list) == list.signed_by = c.signed_by /\ c.serial \notin list.serials

\* Faulty variant: a certificate no list covers passes.
NotRevokedOrUnknown(c, lists) == \A list \in ListOf(lists, c) : Clean(c, list)

\* The policy of Revocation::options: a certificate no list covers is refused.
NotRevoked(c, lists) == \E list \in ListOf(lists, c) : Clean(c, list)

\* Revocation::parsed: every list reads, and Revocation::options: one is held.
Usable(lists) == lists # <<>> /\ \A list \in ToSet(lists) : list.reads

\* Faulty variant: RevocationCheckDepth::EndEntity.
CheckedEndEntity(below) == {below[1]}

\* RevocationCheckDepth::Chain: every certificate below the anchor.
Checked(below) == ToSet(below)

Issued(c, by) == c.issuer = by.subject /\ c.signed_by = by.key

\* The walks webpki may answer with: the certificates below the anchor, and
\* the anchor's name and key. One that does not read is no issuer, an
\* authority is no leaf, and a path has so many intermediates at most.
Walks(chain, held, usage, lists, time) ==
  LET Below == {<<leaf(chain)>> \o above :
                  above \in SetToAllKPermutations(
                    {c \in ToSet(intermediates(chain)) : c.reads})}
      Roots == {[subject |-> a.subject, key |-> a.key] : a \in ToSet(held)}
  IN  {w \in [below : Below, reached : Roots] :
         /\ Len(w.below) <= 1 + MAX_SUB_CA_COUNT
         /\ ~w.below[1].is_ca
         /\ Issued(Last(w.below), w.reached)
         /\ \A i \in 2 .. Len(w.below) :
              Issued(w.below[i - 1], w.below[i]) /\ w.below[i].is_ca
         /\ \A c \in ToSet(w.below) :
              InsideItsWindow(c, time) /\ validate(usage, c)
         /\ \A l \in lists, c \in Checked(w.below) : NotRevoked(c, l)}

-----------------------------------------------------------------------------
(* x509::verify.                                                           *)

\* now.max(0).unsigned_abs()
since_unix_epoch(t) == IF t < 0 THEN 0 ELSE t

\* Faulty variant: the first anchor, whichever was reached.
findAny(held, key) == {held[1]}

\* anchors.certificates.iter().find(..): the first anchor with the key.
find(held, key) ==
  {held[i] : i \in {i \in DOMAIN held :
     held[i].key = key /\ \A j \in DOMAIN held : j < i => held[j].key # key}}

\* The paths verify may answer with, leaf first and anchor last; none where
\* it refuses. One anchor, or one list, that does not read refuses all.
verify(chain, held, usage, lists, time) ==
  IF \/ held = <<>>
     \/ \E c \in ToSet(held) \union {leaf(chain)} : ~c.reads
     \/ \E l \in lists : ~Usable(l)
    THEN {}
  ELSE UNION {{Append(w.below, anchor) : anchor \in find(held, w.reached.key)} :
                w \in Walks(chain, held, usage, lists, since_unix_epoch(time))}

\* Faulty variant: the end of the leaf alone.
not_afterOfTheLeaf(path) == path[1].not_after

\* Path::not_after, a fold of min from i64::MAX.
not_after(path) == Min({MaxI64} \union {c.not_after : c \in ToSet(path)})

\* alt::is_hybrid, of the leaf and before any policy. A Result.
is_hybrid(chain) == {own.signature # {} : own \in carried(leaf(chain))}

-----------------------------------------------------------------------------
Init ==
  /\ now = MinTime
  /\ anchors \in AnchorSets
  /\ revocation \in ListSets
  /\ proved = {}

\* What a technology may keep of what it was sent: its leaf names the claim,
\* a walk proved a path, and the alternative signatures along it verify.
Proofs(sent, claim, usage, hybrid) ==
  {[chain |-> sent, claim |-> claim, usage |-> usage, hybrid |-> hybrid,
    path |-> path] : path \in
     UNION {{path \in verify(chain, anchors, usage, revocation, now) :
               verify_alt(path, hybrid)} :
              chain \in {chain \in from_der(sent) :
                           names(leaf(chain), claim) = {TRUE}}}}

Verify(sent, claim, usage, hybrid) ==
  /\ \E proof \in Proofs(sent, claim, usage, hybrid) : proved' = {proof}
  /\ UNCHANGED <<now, anchors, revocation>>

\* What is refused changes nothing.
Refuse(sent, claim, usage, hybrid) ==
  /\ Proofs(sent, claim, usage, hybrid) = {}
  /\ UNCHANGED vars

\* Time passes, and what is kept is let go past the end of its path.
Tick ==
  /\ now < MaxTime
  /\ now' = now + 1
  /\ proved' = {p \in proved : now' <= not_after(p.path)}
  /\ UNCHANGED <<anchors, revocation>>

Next ==
  \/ \E sent \in Sent, claim \in Text, usage \in Usage, hybrid \in Hybrid :
       \/ Verify(sent, claim, usage, hybrid)
       \/ Refuse(sent, claim, usage, hybrid)
  \/ Tick

Spec == Init /\ [][Next]_vars

-----------------------------------------------------------------------------
(* Properties.                                                             *)

\* Types, and what verify makes a Path of: the leaf sent, certificates sent, and
\* one the node holds as an anchor, which a walk never takes from the peer.
TypeOK ==
  /\ now \in MinTime .. MaxTime
  /\ anchors \in AnchorSets
  /\ revocation \in ListSets
  /\ \A p \in proved :
       /\ proved = {p}
       /\ p.chain \in Sent /\ p.claim \in Text
       /\ p.usage \in Usage /\ p.hybrid \in Hybrid
       /\ p.path[1] = p.chain[1]
       /\ ToSet(Front(p.path)) \subseteq ToSet(p.chain)
       /\ Last(p.path) \in ToSet(anchors)

\* Path::not_after: "nothing that holds it is kept past the moment a fresh
\* walk would refuse it". Whatever is kept until the end its path gives, a
\* walk of the same chain would still prove, an instant before the epoch and
\* the last second of a window included.
KeptWhileAWalkWouldProveIt ==
  \A p \in proved :
    p.path \in verify(p.chain, anchors, p.usage, revocation, now)

\* A path is a path: each certificate bears the signature of the next one's
\* key, up to an anchor of the node, and where alternative signatures are
\* required ("quantum-safe end to end") also that of its alternative key,
\* the anchor that of its own.
EachVouchesForTheOneBelow ==
  \A p \in proved : LET path == p.path IN
    /\ \A i \in 2 .. Len(path) : path[i - 1].signed_by = path[i].key
    /\ p.hybrid = "Required" =>
         /\ \A i \in 2 .. Len(path) : \E s \in ToSet(path[i - 1].alt_value) :
              s.by \in ToSet(path[i].alt_key)
         /\ \E s \in ToSet(Last(path).alt_value) :
              s.by \in ToSet(Last(path).alt_key)

\* A stricter policy on alternative signatures only ever takes less: a path
\* taken under one is taken under the laxer ones, so a node may tighten its
\* policy step by step and never lets anything new in.
TighteningTakesLess ==
  \A chain \in Sent \ {<<>>}, usage \in Usage :
    \A path \in verify(chain, anchors, usage, revocation, now) :
      /\ verify_alt(path, "Required") => verify_alt(path, "WherePresent")
      /\ verify_alt(path, "WherePresent") => verify_alt(path, "Ignored")

\* Under no policy but Ignored is an alternative signature that is forged,
\* half there, there twice, of an algorithm not its key's or unreadable taken
\* for an absent one: whatever trace of one a certificate bears, the one
\* above made it, of this certificate; and is_hybrid told of the leaf's.
ForgedIsNotAbsent ==
  \A p \in proved : p.hybrid # "Ignored" =>
    /\ \A i \in DOMAIN p.path :
         LET c     == p.path[i]
             above == IF i = Len(p.path) THEN c ELSE p.path[i + 1]
         IN  c.alt_algorithm \o c.alt_value # <<>> =>
               \E key \in ToSet(above.alt_key) :
                 /\ above.alt_key = <<key>>
                 /\ c.alt_algorithm = <<key.set>>
                 /\ c.alt_value = <<[bits |-> "whole", by |-> key,
                                    over |-> pre_tbs(c)]>>
    /\ is_hybrid(p.chain) = {p.path[1].alt_value # <<>>}

\* "Where an operator configured revocation at all, silence is not a pass":
\* every certificate kept, intermediates included, is one a list of its own
\* issuer, signed by that issuer, speaks for.
SilenceIsNotAPass ==
  \A p \in proved, lists \in revocation : \A c \in ToSet(Front(p.path)) :
    \E i \in DOMAIN lists :
      lists[i].issuer = c.issuer /\ lists[i].signed_by = c.signed_by

\* "A certificate on any of them is refused", an intermediate too, where no
\* issuer has two lists: nothing on a list of its issuer's is kept.
ListedIsRefused ==
  \A p \in proved, lists \in revocation :
    (\A i, j \in DOMAIN lists : lists[i].issuer = lists[j].issuer => i = j)
    => \A c \in ToSet(Front(p.path)), list \in ToSet(lists) :
         list.issuer = c.issuer => c.serial \notin list.serials

\* A certificate that carries a user principal name is that account's alone:
\* whatever else its alternative names spell, a second principal name or a
\* DNS name that reads as one, it is kept for no other account, but where
\* the claim is its very subject.
OneAccountPerCertificate ==
  \A p \in proved : LET c == p.path[1] IN
    \A san \in c.san : \A i \in DOMAIN san :
      /\ Principal(san[i]) # {}
      /\ \A j \in 1 .. i - 1 : Principal(san[j]) = {}
      /\ PrincipalOf[p.claim] # {} /\ NameOf[p.claim] # c.subject
      => PrincipalOf[p.claim] = Principal(san[i])

\* The claims a certificate an authority issued is good for: its subject in
\* any order, its user in any spelling, and its common name as a DNS name in
\* any case, where that is not read as another user.
IssuedFor(m, claim) ==
  LET user == UNION {PrincipalOf[text] : text \in m.principal} IN
  \/ NameOf[claim] = m.chain[1].subject
  \/ user # {} /\ PrincipalOf[claim] = user
  \/ /\ user = {} \/ PrincipalOf[claim] = {}
     /\ Lower[Trimmed[claim]] = Lower[m.chain[1].subject]

\* What an authority issued, with as many intermediates below its root as
\* webpki takes, the node that holds the root takes while it is valid, for
\* whatever it was issued for and nothing else; and where all of them are
\* hybrid, under every policy: what hybrid::sign signs in its two passes is
\* what pre_tbs finds again. No two anchors have a name or a key in common,
\* and no two certificates of the chain a name: webpki then has one path to
\* try, well inside the number of signatures it is ready to verify.
MintedIsTaken ==
  \A m \in Minted :
    /\ Len(m.line) <= 1 + MAX_SUB_CA_COUNT
    /\ m.line[1].certificate \in ToSet(anchors)
    /\ \A i, j \in DOMAIN anchors :
         \/ anchors[i].key = anchors[j].key
         \/ anchors[i].subject = anchors[j].subject
         => i = j
    /\ \A i, j \in DOMAIN m.chain :
         m.chain[i].subject = m.chain[j].subject => i = j
    /\ \A c \in ToSet(anchors) : c.reads
    /\ revocation = {}
    /\ \A c \in ToSet(m.chain) : InsideItsWindow(c, since_unix_epoch(now))
    => LET hybrid == IF \A authority \in ToSet(m.line) : authority.alt # {}
                       THEN "Required" ELSE "WherePresent"
       IN  \A claim \in Text :
             IssuedFor(m, claim)
               <=> Proofs(m.chain, claim, "ClientAuth", hybrid) # {}

-----------------------------------------------------------------------------
(* What the documentation of x509.rs and revocation.rs says, and the code  *)
(* does not do.                                                            *)

\* "Every certificate on it is inside its validity window now."
EveryCertificateInsideItsWindow ==
  \A p \in proved : \A c \in ToSet(p.path) : InsideItsWindow(c, now)

\* A Path ends in "the anchor it reached": the issuer the certificate below
\* it names.
PathEndsInTheAnchorReached ==
  \A p \in proved :
    LET path == p.path IN path[Len(path) - 1].issuer = Last(path).subject

\* "A certificate on any of them is refused."
OnAnyListIsRefused ==
  \A p \in proved, lists \in revocation :
    \A c \in ToSet(Front(p.path)), list \in ToSet(lists) :
      list.issuer = c.issuer /\ list.signed_by = c.signed_by
        => c.serial \notin list.serials
=============================================================================
