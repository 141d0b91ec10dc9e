----------------------------- MODULE MintProofs -----------------------------
(***************************************************************************)
(* That what authorities issue is taken: for a line of authorities as long *)
(* as webpki takes one, whatever that is, classical and hybrid in any      *)
(* order, and any claim.                                                   *)
(***************************************************************************)
EXTENDS X509Proofs

-----------------------------------------------------------------------------
(* What the mint makes of one certificate.                                 *)

CertificateFields ==
  {"subject", "serial", "is_ca", "eku", "not_before", "not_after", "san",
   "alt_key", "alt_algorithm", "alt_value", "key", "issuer", "signed_by", "reads"}

\* A certificate without any alternative extension.
Plain(c) == c.alt_key = <<>> /\ c.alt_algorithm = <<>> /\ c.alt_value = <<>>

\* One with an alternative key of its own and the alternative signature of
\* another, of this certificate.
Hybridized(c, signer) ==
  /\ c.alt_key = <<AltKey(c.serial)>>
  /\ c.alt_algorithm = <<"ML-DSA-65">>
  /\ c.alt_value = <<[bits |-> "whole", by |-> signer, over |-> pre_tbs(c)]>>

\* What hybrid::sign signs in its first pass is what pre_tbs finds in the
\* certificate of its second; the rest of the parameters it leaves alone.
LEMMA SignIsFoundAgain ==
  ASSUME NEW params, DOMAIN params = CertificateFields,
         NEW issuer, NEW signed_by, NEW signer
  PROVE  LET c == sign(params, issuer, signed_by, signer) IN
         /\ Hybridized(c, signer)
         /\ c.issuer = issuer /\ c.signed_by = signed_by
         /\ \A field \in {"subject", "serial", "is_ca", "eku", "not_before",
                          "not_after", "san", "key", "reads"} :
              c[field] = params[field]
<1> DEFINE first == [params EXCEPT !.alt_key = <<AltKey(params.serial)>>,
                                   !.alt_algorithm = <<"ML-DSA-65">>]
           draft == signed(first, issuer, signed_by)
           value == [bits |-> "whole", by |-> signer, over |-> pre_tbs(draft)]
           c     == signed([first EXCEPT !.alt_value = <<value>>], issuer, signed_by)
<1>1. sign(params, issuer, signed_by, signer) = c
    BY DEF sign
<1>2. pre_tbs(c) = pre_tbs(draft)
    BY DEF pre_tbs, signed, CertificateFields
<1>3. c.alt_value = <<value>>
  <2> HIDE DEF value
  <2> QED
      BY DEF signed, CertificateFields
<1>4. /\ c.issuer = issuer /\ c.signed_by = signed_by
      /\ c.alt_algorithm = <<"ML-DSA-65">>
  <2> HIDE DEF value
  <2> QED
      BY DEF signed, CertificateFields
<1>5. \A field \in {"subject", "serial", "is_ca", "eku", "not_before",
                    "not_after", "san", "key", "reads"} :
        c[field] = params[field]
  <2> HIDE DEF value
  <2> QED
      BY DEF signed, CertificateFields
<1>6. c.alt_key = <<AltKey(c.serial)>>
  <2>1. c.alt_key = <<AltKey(params.serial)>>
    <3> HIDE DEF value
    <3> QED
        BY DEF signed, CertificateFields
  <2>2. c.serial = params.serial
      BY <1>5
  <2> QED
      BY <2>1, <2>2
<1> HIDE DEF c
<1> QED
    BY <1>1, <1>2, <1>3, <1>4, <1>5, <1>6 DEF Hybridized

\* rcgen's own signature changes the two fields that are about it.
LEMMA SignedLeavesTheRest ==
  ASSUME NEW params, DOMAIN params = CertificateFields, NEW issuer, NEW signed_by
  PROVE  LET c == signed(params, issuer, signed_by) IN
         /\ c.issuer = issuer /\ c.signed_by = signed_by
         /\ \A field \in CertificateFields \ {"issuer", "signed_by"} :
              c[field] = params[field]
BY DEF signed, CertificateFields

-----------------------------------------------------------------------------
(* What it makes of an authority, and of a leaf below one.                 *)

\* A certificate another vouches for: by its name and its key, and, where
\* there is an alternative signature, by its alternative key.
Vouched(c, by) ==
  /\ c.reads
  /\ Issued(c, by)
  /\ \/ Plain(c)
     \/ Hybridized(c, AltKey(by.serial)) /\ by.alt_key = <<AltKey(by.serial)>>

\* An authority below a certificate: it has an alternative key to sign with
\* exactly where its certificate is hybrid.
Sound(authority, by) ==
  LET c == authority.certificate IN
  /\ Vouched(c, by)
  /\ c.is_ca /\ c.eku = {} /\ c.key = c.serial
  /\ \/ authority.alt = {} /\ Plain(c)
     \/ authority.alt = {AltKey(c.serial)} /\ Hybridized(c, AltKey(by.serial))

\* A root is sound below itself.
LEMMA RootIsSound ==
  ASSUME NEW authority, IsRoot(authority)
  PROVE  Sound(authority, authority.certificate) /\ authority.root
<1> DEFINE c == authority.certificate
           params == authority_params(c.subject, c.serial)
<1>1. /\ DOMAIN params = CertificateFields
      /\ params.serial = c.serial /\ params.key = c.serial
      /\ params.is_ca /\ params.eku = {} /\ params.reads /\ Plain(params)
    BY DEF authority_params, CertificateParams, CertificateFields, Plain
<1> HIDE DEF params
<1>2. CASE authority = root(c.subject, c.serial)
  <2>1. c = signed(params, c.subject, c.serial) /\ authority.alt = {} /\ authority.root
      BY <1>2 DEF root, params
  <2>2. /\ c.issuer = c.subject /\ c.signed_by = c.serial
        /\ c.key = c.serial /\ c.is_ca /\ c.eku = {} /\ c.reads /\ Plain(c)
    <3>1. \A field \in {"key", "is_ca", "eku", "reads", "alt_key", "alt_algorithm",
                        "alt_value"} : c[field] = params[field]
        BY <1>1, <2>1, SignedLeavesTheRest DEF CertificateFields
    <3> QED
        BY <1>1, <2>1, <3>1, SignedLeavesTheRest DEF Plain
  <2> QED
      BY <2>1, <2>2 DEF Sound, Vouched, Issued
<1>3. CASE authority = hybrid_root(c.subject, c.serial)
  <2>1. /\ c = sign(params, c.subject, c.serial, AltKey(c.serial))
        /\ authority.alt = {AltKey(c.serial)} /\ authority.root
      BY <1>3 DEF hybrid_root, params
  <2>2. /\ c.issuer = c.subject /\ c.signed_by = c.serial
        /\ c.key = c.serial /\ c.is_ca /\ c.eku = {} /\ c.reads
        /\ Hybridized(c, AltKey(c.serial))
      BY <1>1, <2>1, SignIsFoundAgain
  <2> QED
      BY <2>1, <2>2 DEF Sound, Vouched, Issued, Hybridized
<1> QED
    BY <1>2, <1>3 DEF IsRoot

\* An intermediate of a sound authority is sound below it.
LEMMA IntermediateIsSound ==
  ASSUME NEW above, NEW by, Sound(above, by),
         NEW authority, IsIntermediate(authority, above)
  PROVE  /\ Sound(authority, above.certificate)
         /\ ~authority.root /\ authority.above = Above(above)
<1> DEFINE c == authority.certificate
           d == above.certificate
<1>0. d.key = d.serial
    BY DEF Sound
<1>1. CASE authority = intermediate_ending(above, c.subject, c.not_after, c.serial)
  <2> DEFINE params == [authority_params(c.subject, c.serial) EXCEPT
                          !.not_after = c.not_after]
  <2>1. /\ DOMAIN params = CertificateFields
        /\ params.serial = c.serial /\ params.key = c.serial
        /\ params.is_ca /\ params.eku = {} /\ params.reads /\ Plain(params)
      BY DEF authority_params, CertificateParams, CertificateFields, Plain
  <2>2. /\ c = signed(params, d.subject, d.key)
        /\ authority.alt = {} /\ ~authority.root /\ authority.above = Above(above)
      BY <1>1 DEF intermediate_ending, intermediate_with
  <2> HIDE DEF params
  <2>3. \A field \in {"key", "is_ca", "eku", "reads", "alt_key", "alt_algorithm",
                      "alt_value"} : c[field] = params[field]
      BY <2>1, <2>2, SignedLeavesTheRest DEF CertificateFields
  <2>4. /\ c.issuer = d.subject /\ c.signed_by = d.key
        /\ c.key = c.serial /\ c.is_ca /\ c.eku = {} /\ c.reads /\ Plain(c)
      BY <2>1, <2>2, <2>3, SignedLeavesTheRest DEF Plain
  <2> QED
      BY <2>2, <2>4 DEF Sound, Vouched, Issued
<1>2. CASE /\ above.alt # {}
           /\ authority = hybrid_intermediate(above, c.subject, c.serial)
  <2> DEFINE params == authority_params(c.subject, c.serial)
  <2>1. /\ DOMAIN params = CertificateFields
        /\ params.serial = c.serial /\ params.key = c.serial
        /\ params.is_ca /\ params.eku = {} /\ params.reads
      BY DEF authority_params, CertificateParams, CertificateFields, Plain
  <2>2. above.alt = {AltKey(d.serial)} /\ d.alt_key = <<AltKey(d.serial)>>
      BY <1>2 DEF Sound, Hybridized
  <2>3. (CHOOSE signer \in above.alt : TRUE) = AltKey(d.serial)
      BY <2>2
  <2>4. /\ c = sign(params, d.subject, d.key, AltKey(d.serial))
        /\ authority.alt = {AltKey(c.serial)}
        /\ ~authority.root /\ authority.above = Above(above)
    <3>1. authority = [certificate |-> sign(params, d.subject, d.key, AltKey(d.serial)),
                       root |-> FALSE, above |-> Above(above),
                       alt |-> {AltKey(c.serial)}]
        BY <1>2, <2>3 DEF hybrid_intermediate
    <3> HIDE DEF params, d
    <3> QED
        BY <3>1
  <2> HIDE DEF params
  <2>5. /\ c.issuer = d.subject /\ c.signed_by = d.key
        /\ c.key = c.serial /\ c.is_ca /\ c.eku = {} /\ c.reads
        /\ Hybridized(c, AltKey(d.serial))
      BY <2>1, <2>4, SignIsFoundAgain
  <2> QED
      BY <2>2, <2>4, <2>5 DEF Sound, Vouched, Issued
<1> QED
    BY <1>1, <1>2 DEF IsIntermediate

\* A leaf a sound authority signs is vouched for by its certificate, and is
\* hybrid where the authority is; the rest of its parameters it keeps.
LEMMA LeafIsVouched ==
  ASSUME NEW authority, NEW by, Sound(authority, by),
         NEW params, DOMAIN params = CertificateFields, params.reads, Plain(params)
  PROVE  LET c == sign_leaf(authority, params, authority.alt)
             d == authority.certificate
         IN  /\ Vouched(c, d)
             /\ authority.alt # {} => Hybridized(c, AltKey(d.serial))
             /\ c.subject = params.subject /\ c.san = params.san
             /\ c.eku = params.eku /\ c.is_ca = params.is_ca
<1> DEFINE c == sign_leaf(authority, params, authority.alt)
           d == authority.certificate
<1>1. CASE authority.alt = {}
  <2>1. c = signed(params, d.subject, d.key)
      BY <1>1 DEF sign_leaf
  <2> HIDE DEF c
  <2>2. \A field \in {"subject", "san", "eku", "is_ca", "reads", "alt_key",
                      "alt_algorithm", "alt_value"} : c[field] = params[field]
      BY <2>1, SignedLeavesTheRest DEF CertificateFields
  <2>3. c.issuer = d.subject /\ c.signed_by = d.key
      BY <2>1, SignedLeavesTheRest
  <2>4. c.reads /\ Plain(c) /\ c.subject = params.subject /\ c.san = params.san
        /\ c.eku = params.eku /\ c.is_ca = params.is_ca
      BY <2>2 DEF Plain
  <2> QED
      BY <1>1, <2>3, <2>4 DEF Vouched, Issued, c
<1>2. CASE authority.alt # {}
  <2>1. authority.alt = {AltKey(d.serial)} /\ d.alt_key = <<AltKey(d.serial)>>
      BY <1>2 DEF Sound, Hybridized
  <2>2. (CHOOSE signer \in authority.alt : TRUE) = AltKey(d.serial)
      BY <2>1
  <2>3. c = sign(params, d.subject, d.key, AltKey(d.serial))
      BY <1>2, <2>2 DEF sign_leaf
  <2> HIDE DEF c
  <2>4. /\ c.issuer = d.subject /\ c.signed_by = d.key
        /\ c.reads /\ c.subject = params.subject /\ c.san = params.san
        /\ c.eku = params.eku /\ c.is_ca = params.is_ca
        /\ Hybridized(c, AltKey(d.serial))
      BY <2>3, SignIsFoundAgain
  <2> QED
      BY <2>1, <2>4 DEF Vouched, Issued, c
<1> QED
    BY <1>1, <1>2

-----------------------------------------------------------------------------
(* Lines and chains.                                                       *)

\* The certificates of a line up to a place, the lowest first and without
\* the root's.
Upwards(line, k) == [j \in 1 .. k - 1 |-> line[k + 1 - j].certificate]

\* The same with a certificate below them.
Over(c, line, k) ==
  [j \in 1 .. k |-> IF j = 1 THEN c ELSE line[k + 2 - j].certificate]

\* That is what is sent of one.
LEMMA OneMoreBelow ==
  ASSUME NEW line, NEW k \in Nat \ {0}, NEW c
  PROVE  <<c>> \o Upwards(line, k) = Over(c, line, k)
<1> DEFINE up == Upwards(line, k)
           g  == [j \in 1 .. k |-> IF j = 1 THEN c ELSE line[k + 2 - j].certificate]
           S  == {c} \union {line[i].certificate : i \in Nat}
<1>1. up \in Seq(S) /\ Len(up) = k - 1
  <2>1. \A j \in 1 .. k - 1 : k + 1 - j \in Nat
      OBVIOUS
  <2>2. up \in [1 .. k - 1 -> S] /\ k - 1 \in Nat
      BY <2>1 DEF Upwards
  <2> QED
      BY <2>2
<1>2. \A j \in 1 .. k - 1 : up[j] = line[k + 1 - j].certificate
    BY DEF Upwards
<1>3. g \in Seq(S) /\ Len(g) = k
  <2>1. \A j \in 1 .. k : k + 2 - j \in Nat
      OBVIOUS
  <2>2. g \in [1 .. k -> S] /\ k \in Nat
      BY <2>1
  <2> QED
      BY <2>2
<1>4. <<c>> \in Seq(S) /\ Len(<<c>>) = 1 /\ <<c>>[1] = c
    OBVIOUS
<1> HIDE DEF up, S
<1>5. /\ <<c>> \o up \in Seq(S) /\ Len(<<c>> \o up) = 1 + (k - 1)
      /\ \A i \in 1 .. 1 + (k - 1) :
           (<<c>> \o up)[i] = IF i <= 1 THEN <<c>>[i] ELSE up[i - 1]
    BY <1>1, <1>4, ConcatProperties
<1>6. \A i \in 1 .. k : (<<c>> \o up)[i] = g[i]
  <2> SUFFICES ASSUME NEW i \in 1 .. k PROVE (<<c>> \o up)[i] = g[i]
      OBVIOUS
  <2>1. CASE i = 1
      BY <1>4, <1>5, <2>1
  <2>2. CASE i # 1
    <3>1. i - 1 \in 1 .. k - 1 /\ k + 1 - (i - 1) = k + 2 - i
        BY <2>2
    <3>2. up[i - 1] = line[k + 2 - i].certificate
        BY <1>2, <3>1
    <3> QED
        BY <1>5, <2>2, <3>2
  <2> QED
      BY <2>1, <2>2
<1>7. Len(<<c>> \o up) = k
    BY <1>5
<1>8. <<c>> \o up = g
  <2> HIDE DEF g
  <2> QED
      BY <1>3, <1>5, <1>6, <1>7, SeqEqual
<1> QED
    BY <1>8 DEF up, Over

\* Every authority of a line is sound below the one before it, and what is
\* sent after a certificate of its is the line up to it.
LEMMA LineIsSound ==
  ASSUME NEW line, IsLine(line)
  PROVE  /\ Len(line) \in Nat \ {0}
         /\ Sound(line[1], line[1].certificate)
         /\ \A k \in 2 .. Len(line) : Sound(line[k], line[k - 1].certificate)
         /\ \A k \in 1 .. Len(line) : Above(line[k]) = Upwards(line, k)
<1> DEFINE N == Len(line) - 1
<1>1. Len(line) \in Nat \ {0} /\ N \in Nat
    BY EmptySeq, LenProperties DEF IsLine
<1>2. Sound(line[1], line[1].certificate) /\ line[1].root
    BY RootIsSound DEF IsLine
<1> DEFINE P == {n \in 0 .. N : /\ \E by : Sound(line[n + 1], by)
                                /\ Above(line[n + 1]) = Upwards(line, n + 1)}
<1>3. 0 \in P
  <2>1. Upwards(line, 1) = <<>>
      BY DEF Upwards
  <2>2. Above(line[1]) = <<>>
      BY <1>2 DEF Above
  <2> QED
      BY <1>1, <1>2, <2>1, <2>2
<1>4. ASSUME NEW k \in 2 .. Len(line), NEW by, Sound(line[k - 1], by)
      PROVE  /\ Sound(line[k], line[k - 1].certificate)
             /\ Above(line[k]) = <<line[k].certificate>> \o Above(line[k - 1])
  <2>1. IsIntermediate(line[k], line[k - 1])
      BY DEF IsLine
  <2>2. /\ Sound(line[k], line[k - 1].certificate)
        /\ ~line[k].root /\ line[k].above = Above(line[k - 1])
      BY <1>4, <2>1, IntermediateIsSound
  <2> QED
      BY <2>2 DEF Above
<1>5. \A n \in 1 .. N : n - 1 \in P => n \in P
  <2> SUFFICES ASSUME NEW n \in 1 .. N, n - 1 \in P PROVE n \in P
      OBVIOUS
  <2>1. n + 1 \in 2 .. Len(line) /\ n \in 0 .. N /\ n \in Nat \ {0}
        /\ (n - 1) + 1 = n /\ (n + 1) - 1 = n
      BY <1>1
  <2>2. PICK by : Sound(line[n], by) /\ Above(line[n]) = Upwards(line, n)
      BY <2>1
  <2>3. /\ Sound(line[n + 1], line[n].certificate)
        /\ Above(line[n + 1]) = <<line[n + 1].certificate>> \o Upwards(line, n)
      BY <1>4, <2>1, <2>2
  <2>4. <<line[n + 1].certificate>> \o Upwards(line, n) = Upwards(line, n + 1)
    <3> DEFINE c == line[n + 1].certificate
    <3>1. <<c>> \o Upwards(line, n) = Over(c, line, n)
        BY <2>1, OneMoreBelow
    <3>2. \A j \in 1 .. n : line[(n + 1) + 1 - j].certificate
            = IF j = 1 THEN c ELSE line[n + 2 - j].certificate
      <4>1. \A j \in 1 .. n : (n + 1) + 1 - j = n + 2 - j
          BY <2>1
      <4>2. n + 2 - 1 = n + 1
          BY <2>1
      <4> QED
          BY <4>1, <4>2
    <3> HIDE DEF c
    <3> QED
        BY <2>1, <3>1, <3>2 DEF Upwards, Over
  <2> QED
      BY <2>1, <2>3, <2>4
<1>6. \A n \in 0 .. N : n \in P
  <2> HIDE DEF P, N
  <2> QED
      BY <1>1, <1>3, <1>5, EveryTurn
<1>7. ASSUME NEW k \in 1 .. Len(line)
      PROVE  (\E by : Sound(line[k], by)) /\ Above(line[k]) = Upwards(line, k)
  <2>1. k - 1 \in 0 .. N /\ (k - 1) + 1 = k
      BY <1>1
  <2>2. k - 1 \in P
      BY <1>6, <2>1
  <2> QED
      BY <2>1, <2>2
<1>8. ASSUME NEW k \in 2 .. Len(line) PROVE Sound(line[k], line[k - 1].certificate)
  <2>1. k - 1 \in 1 .. Len(line)
      BY <1>1
  <2> QED
      BY <1>4, <1>7, <2>1
<1> QED
    BY <1>1, <1>2, <1>7, <1>8

\* The alternative names of a leaf: its common name as a DNS name, and the
\* user principal name it was issued for, if it was.
NamedFor(san, common_name, principal) ==
  /\ san[1] = [kind |-> "dns", value |-> {common_name}]
  /\ \/ principal = {} /\ DOMAIN san = 1 .. 1
     \/ \E user \in principal :
          /\ principal = {user} /\ DOMAIN san = 1 .. 2
          /\ san[2] = [kind |-> "upn", value |-> {user}]

\* What the mint makes a leaf from.
LEMMA LeafParams ==
  ASSUME NEW name, NEW start, NEW end, NEW serial
  PROVE  LET params == leaf_params(name, start, end, serial) IN
         /\ DOMAIN params = CertificateFields
         /\ params.reads /\ Plain(params)
         /\ params.subject = name /\ params.eku = {{"clientAuth"}} /\ ~params.is_ca
         /\ params.san = {<<[kind |-> "dns", value |-> {name}]>>}
<1> DEFINE san == [i \in DOMAIN <<name>> |-> [kind |-> "dns", value |-> {<<name>>[i]}]]
<1>1. san = <<[kind |-> "dns", value |-> {name}]>>
    OBVIOUS
<1> HIDE DEF san
<1>2. leaf_params(name, start, end, serial).san = {san}
    BY DEF leaf_params, CertificateParams, san
<1>3. LET params == leaf_params(name, start, end, serial) IN
      /\ DOMAIN params = CertificateFields
      /\ params.reads /\ Plain(params)
      /\ params.subject = name /\ params.eku = {{"clientAuth"}} /\ ~params.is_ca
    BY DEF leaf_params, CertificateParams, CertificateFields, Plain
<1> QED
    BY <1>1, <1>2, <1>3

\* One appended to one is two.
LEMMA TwoOfThem ==
  ASSUME NEW a, NEW b
  PROVE  Append(<<a>>, b) = <<a, b>>
<1> DEFINE S == {a, b}
<1>1. <<a>> \in Seq(S) /\ Len(<<a>>) = 1 /\ <<a>>[1] = a /\ b \in S
    OBVIOUS
<1>2. /\ <<a, b>> \in Seq(S) /\ Len(<<a, b>>) = 2
      /\ <<a, b>>[1] = a /\ <<a, b>>[2] = b
    OBVIOUS
<1>3. /\ Append(<<a>>, b) \in Seq(S) /\ Len(Append(<<a>>, b)) = 2
      /\ Append(<<a>>, b)[1] = a /\ Append(<<a>>, b)[2] = b
  <2> HIDE DEF S
  <2>1. /\ Append(<<a>>, b) \in Seq(S)
        /\ Len(Append(<<a>>, b)) = Len(<<a>>) + 1
        /\ \A i \in 1 .. Len(<<a>>) : Append(<<a>>, b)[i] = <<a>>[i]
        /\ Append(<<a>>, b)[Len(<<a>>) + 1] = b
      BY <1>1, AppendProperties
  <2> QED
      BY <1>1, <2>1
<1>4. \A i \in 1 .. 2 : Append(<<a>>, b)[i] = <<a, b>>[i]
    BY <1>2, <1>3
<1> HIDE DEF S
<1> QED
    BY <1>2, <1>3, <1>4, SeqEqual

\* What was minted, by its parts: the leaf, over the line of authorities.
LEMMA MintedForm ==
  ASSUME NEW m \in Minted
  PROVE  LET c == m.chain[1]
             top == m.line[Len(m.line)]
         IN  /\ m.chain = Over(c, m.line, Len(m.line))
             /\ Vouched(c, top.certificate)
             /\ top.alt # {} => Hybridized(c, AltKey(top.certificate.serial))
             /\ c.eku = {{"clientAuth"}} /\ ~c.is_ca
             /\ \E san : c.san = {san} /\ NamedFor(san, c.subject, m.principal)
<1> DEFINE line == m.line
           n == Len(line)
           c == m.chain[1]
           top == line[n]
           params == leaf_params(c.subject, c.not_before, c.not_after, c.serial)
           dns == [kind |-> "dns", value |-> {c.subject}]
<1>1. IsLine(line)
    BY MintedAssumption
<1>2. n \in Nat \ {0} /\ Last(line) = top /\ Above(top) = Upwards(line, n)
    BY <1>1, LineIsSound DEF Last
<1>3. PICK by : Sound(top, by)
  <2>1. n = 1 \/ n \in 2 .. n
    <3>1. n \in Nat \ {0}
        BY <1>2
    <3> HIDE DEF n
    <3> QED
        BY <3>1
  <2> QED
      BY <1>1, <2>1, LineIsSound
<1>4. /\ DOMAIN params = CertificateFields /\ params.reads /\ Plain(params)
      /\ params.subject = c.subject /\ params.eku = {{"clientAuth"}}
      /\ params.san = {<<dns>>} /\ ~params.is_ca
    BY LeafParams
<1> HIDE DEF params, n, top, line
<1>5. ASSUME NEW own, DOMAIN own = CertificateFields, own.reads, Plain(own),
             own.eku = {{"clientAuth"}}, ~own.is_ca,
             m.chain = <<sign_leaf(top, own, top.alt)>> \o Above(top)
      PROVE  /\ m.chain = Over(c, line, n)
             /\ Vouched(c, top.certificate)
             /\ top.alt # {} => Hybridized(c, AltKey(top.certificate.serial))
             /\ c.eku = {{"clientAuth"}} /\ c.san = own.san /\ ~c.is_ca
  <2> DEFINE d == sign_leaf(top, own, top.alt)
  <2>1. m.chain = Over(d, line, n)
      BY <1>2, <1>5, OneMoreBelow
  <2>2. c = d
      BY <1>2, <2>1 DEF Over
  <2>3. /\ Vouched(d, top.certificate)
        /\ top.alt # {} => Hybridized(d, AltKey(top.certificate.serial))
        /\ d.eku = own.eku /\ d.san = own.san /\ d.is_ca = own.is_ca
      BY <1>3, <1>5, LeafIsVouched
  <2> HIDE DEF d, c
  <2> QED
      BY <1>5, <2>1, <2>2, <2>3
<1>6. CASE /\ m.principal = {}
           /\ m.chain = issue(top, c.subject, c.not_before, c.not_after, c.serial)
  <2>1. m.chain = <<sign_leaf(top, params, top.alt)>> \o Above(top)
      BY <1>6 DEF issue, params
  <2>2. NamedFor(<<dns>>, c.subject, m.principal)
      BY <1>6 DEF NamedFor
  <2> HIDE DEF c, dns
  <2> QED
      BY <1>4, <1>5, <2>1, <2>2 DEF c, n, top, line
<1>7. ASSUME NEW user \in m.principal, m.principal = {user},
             m.chain = issue_for_user(top, c.subject, user, c.not_before,
                                      c.not_after, c.serial)
      PROVE  /\ m.chain = Over(c, line, n)
             /\ Vouched(c, top.certificate)
             /\ top.alt # {} => Hybridized(c, AltKey(top.certificate.serial))
             /\ c.eku = {{"clientAuth"}} /\ ~c.is_ca
             /\ \E san : c.san = {san} /\ NamedFor(san, c.subject, m.principal)
  <2> DEFINE upn == [kind |-> "upn", value |-> {user}]
             own == [params EXCEPT !.san = {Append(san, upn) : san \in @}]
  <2>1. m.chain = <<sign_leaf(top, own, top.alt)>> \o Above(top)
      BY <1>7 DEF issue_for_user, params
  <2>2. own.san = {<<dns, upn>>}
    <3>1. Append(<<dns>>, upn) = <<dns, upn>>
        BY TwoOfThem
    <3> HIDE DEF dns, upn
    <3> QED
        BY <1>4, <3>1 DEF CertificateFields
  <2>3. /\ DOMAIN own = CertificateFields /\ own.reads /\ Plain(own)
        /\ own.eku = {{"clientAuth"}} /\ ~own.is_ca
      BY <1>4 DEF CertificateFields, Plain
  <2>4. NamedFor(<<dns, upn>>, c.subject, m.principal)
      BY <1>7 DEF NamedFor
  <2> HIDE DEF c, dns, upn, own
  <2> QED
      BY <1>5, <2>1, <2>2, <2>3, <2>4
<1> QED
    BY <1>2, <1>6, <1>7, MintedAssumption DEF line, n, top

-----------------------------------------------------------------------------
(* Names.                                                                  *)

\* What was minted names what it was issued for, and nothing else.
LEMMA MintedNames ==
  ASSUME NEW m \in Minted, NEW claim \in Text
  PROVE  IssuedFor(m, claim) <=> names(m.chain[1], claim) = {TRUE}
<1> DEFINE c == m.chain[1]
           user == UNION {PrincipalOf[text] : text \in m.principal}
<1>1. c.reads
    BY MintedForm DEF Vouched
<1>2. PICK san : c.san = {san} /\ NamedFor(san, c.subject, m.principal)
    BY MintedForm
<1> HIDE DEF c
<1>3. subject_of(c) = {c.subject} /\ subject_alternative_name(c) = {san}
    BY <1>1, <1>2 DEF subject_of, subject_alternative_name
<1>4. Principal(san[1]) = {}
    BY <1>2 DEF NamedFor, Principal
<1>5. user_principal_of(c) = {user}
  <2> DEFINE Firsts == {i \in DOMAIN san :
                          \A j \in 1 .. i - 1 : Principal(san[j]) = {}}
  <2>1. user_principal_of(c) = {UNION {Principal(san[i]) : i \in Firsts}}
      BY <1>3 DEF user_principal_of
  <2>2. CASE m.principal = {} /\ DOMAIN san = 1 .. 1
    <3>1. Firsts = {1}
        BY <2>2
    <3> HIDE DEF Firsts
    <3> QED
        BY <1>4, <2>1, <2>2, <3>1
  <2>3. ASSUME NEW u \in m.principal, m.principal = {u}, DOMAIN san = 1 .. 2,
               san[2] = [kind |-> "upn", value |-> {u}]
        PROVE  user_principal_of(c) = {user}
    <3>1. Firsts = {1, 2}
        BY <1>4, <2>3
    <3>2. Principal(san[2]) = PrincipalOf[u]
        BY <2>3 DEF Principal, utf8_within
    <3>3. user = PrincipalOf[u]
        BY <2>3
    <3> HIDE DEF Firsts, user
    <3>4. {Principal(san[i]) : i \in Firsts} = {{}, user}
        BY <1>4, <3>1, <3>2, <3>3
    <3>5. UNION {{}, user} = user
        OBVIOUS
    <3> QED
        BY <2>1, <3>4, <3>5
  <2> QED
      BY <1>2, <2>2, <2>3 DEF NamedFor
<1>6. dns_names_of(c) = {{c.subject}}
  <2> DEFINE Dns == {g \in ToSet(san) : g.kind = "dns"}
  <2>1. dns_names_of(c) = {UNION {general.value : general \in Dns}}
      BY <1>3 DEF dns_names_of
  <2>2. Dns = {san[1]}
    <3>1. san[1].kind = "dns"
        BY <1>2 DEF NamedFor
    <3>2. CASE DOMAIN san = 1 .. 1
        BY <3>1, <3>2 DEF ToSet
    <3>3. CASE DOMAIN san = 1 .. 2 /\ san[2].kind = "upn"
      <4>1. ToSet(san) = {san[1], san[2]}
          BY <3>3 DEF ToSet
      <4> QED
          BY <3>1, <3>3, <4>1
    <3> HIDE DEF Dns
    <3>4. \/ DOMAIN san = 1 .. 1
          \/ DOMAIN san = 1 .. 2 /\ san[2].kind = "upn"
      <4>1. \A x : [kind |-> "upn", value |-> {x}].kind = "upn"
          OBVIOUS
      <4> QED
          BY <1>2, <4>1 DEF NamedFor
    <3> QED
        BY <3>2, <3>3, <3>4
  <2>3. san[1].value = {c.subject}
      BY <1>2 DEF NamedFor
  <2> HIDE DEF Dns
  <2> QED
      BY <2>1, <2>2, <2>3
<1>7. NamesDns(c, claim) = {Lower[c.subject] = Lower[Trimmed[claim]]}
  <2> DEFINE Named(all) == \E dns \in all : Lower[dns] = Lower[Trimmed[claim]]
  <2>1. NamesDns(c, claim) = {Named(all) : all \in dns_names_of(c)}
      BY DEF NamesDns
  <2>2. Named({c.subject}) = (Lower[c.subject] = Lower[Trimmed[claim]])
      OBVIOUS
  <2> HIDE DEF Named
  <2>3. {Named(all) : all \in {{c.subject}}} = {Named({c.subject})}
      OBVIOUS
  <2> QED
      BY <1>6, <2>1, <2>2, <2>3
<1>8. IssuedFor(m, claim) <=>
        \/ NameOf[claim] = c.subject
        \/ user # {} /\ PrincipalOf[claim] = user
        \/ /\ user = {} \/ PrincipalOf[claim] = {}
           /\ Lower[Trimmed[claim]] = Lower[c.subject]
    BY DEF IssuedFor, c
<1> HIDE DEF user
<1>9. CASE NameOf[claim] = c.subject
    BY <1>3, <1>8, <1>9 DEF names, c
<1>10. CASE /\ NameOf[claim] # c.subject
            /\ PrincipalOf[claim] # {} /\ user # {}
  <2>1. names(c, claim) = {user = PrincipalOf[claim]}
    <3>1. subject_of(c) # {} /\ subject_of(c) # {NameOf[claim]}
        BY <1>3, <1>10
    <3>2. PrincipalOf[claim] # {} /\ user_principal_of(c) # {{}}
        BY <1>5, <1>10
    <3>3. names(c, claim)
            = {account = PrincipalOf[claim] : account \in user_principal_of(c)}
        BY <3>1, <3>2 DEF names
    <3> QED
        BY <1>5, <3>3
  <2> QED
      BY <1>8, <1>10, <2>1 DEF c
<1>11. CASE /\ NameOf[claim] # c.subject
            /\ ~(PrincipalOf[claim] # {} /\ user # {})
  <2>1. names(c, claim) = {Lower[c.subject] = Lower[Trimmed[claim]]}
    <3>1. subject_of(c) # {} /\ subject_of(c) # {NameOf[claim]}
        BY <1>3, <1>11
    <3>2. ~(PrincipalOf[claim] # {} /\ user_principal_of(c) # {{}})
        BY <1>5, <1>11
    <3>3. names(c, claim) = NamesDns(c, claim)
        BY <3>1, <3>2 DEF names
    <3> QED
        BY <1>7, <3>3
  <2> QED
      BY <1>8, <1>11, <2>1 DEF c
<1> QED
    BY <1>9, <1>10, <1>11

-----------------------------------------------------------------------------
(* Alternative signatures.                                                 *)

\* carried reads both kinds of certificate the mint makes.
LEMMA MintedIsCarried ==
  ASSUME NEW c, c.reads
  PROVE  /\ Plain(c) => [public_key |-> {}, signature |-> {}] \in carried(c)
         /\ \A signer : Hybridized(c, signer) =>
              [public_key |-> {AltKey(c.serial)},
               signature |-> {[algorithm |-> "ML-DSA-65", value |->
                 [bits |-> "whole", by |-> signer, over |-> pre_tbs(c)]]}]
                \in carried(c)
<1> DEFINE Twice == \E occurrences \in {Len(c.alt_key), Len(c.alt_algorithm),
                                       Len(c.alt_value)} : occurrences > 1
           Signatures ==
             {{[algorithm |-> algorithm, value |-> value]} :
                algorithm \in UNION {named(a) : a \in ToSet(c.alt_algorithm)},
                value \in {v \in ToSet(c.alt_value) : v.bits = "whole"}}
           Result == IF ~c.reads \/ Twice THEN {}
                     ELSE IF c.alt_algorithm = <<>> /\ c.alt_value = <<>> THEN {{}}
                     ELSE Signatures
<1>0. carried(c) = {[public_key |-> ToSet(c.alt_key), signature |-> signature] :
                      signature \in Result}
    BY DEF carried
<1>1. ASSUME Plain(c)
      PROVE  [public_key |-> {}, signature |-> {}] \in carried(c)
  <2>1. ToSet(c.alt_key) = {} /\ Len(c.alt_key) = 0 /\ Len(c.alt_algorithm) = 0
        /\ Len(c.alt_value) = 0
      BY <1>1 DEF Plain, ToSet
  <2>2. ~Twice
      BY <2>1
  <2> HIDE DEF Twice, Signatures
  <2>3. {} \in Result
      BY <1>1, <2>2 DEF Plain
  <2> HIDE DEF Result
  <2> QED
      BY <1>0, <2>1, <2>3
<1>2. ASSUME NEW signer, Hybridized(c, signer)
      PROVE  [public_key |-> {AltKey(c.serial)},
              signature |-> {[algorithm |-> "ML-DSA-65", value |->
                [bits |-> "whole", by |-> signer, over |-> pre_tbs(c)]]}]
               \in carried(c)
  <2> DEFINE value == [bits |-> "whole", by |-> signer, over |-> pre_tbs(c)]
             own   == {[algorithm |-> "ML-DSA-65", value |-> value]}
  <2>1. value.bits = "whole"
      OBVIOUS
  <2> HIDE DEF value
  <2>2. /\ c.alt_key = <<AltKey(c.serial)>> /\ c.alt_algorithm = <<"ML-DSA-65">>
        /\ c.alt_value = <<value>>
      BY <1>2 DEF Hybridized, value
  <2>3. /\ ToSet(c.alt_key) = {AltKey(c.serial)}
        /\ ToSet(c.alt_algorithm) = {"ML-DSA-65"}
        /\ ToSet(c.alt_value) = {value}
        /\ Len(c.alt_key) = 1 /\ Len(c.alt_algorithm) = 1 /\ Len(c.alt_value) = 1
    <3>1. \A x : ToSet(<<x>>) = {x} /\ Len(<<x>>) = 1
        BY DEF ToSet
    <3> QED
        BY <2>2, <3>1
  <2>4. own \in Signatures
    <3>1. "ML-DSA-65" \in named("ML-DSA-65")
        BY DEF named, MlDsa
    <3> QED
        BY <2>1, <2>3, <3>1
  <2>5. ~Twice /\ c.alt_value # <<>>
      BY <2>3
  <2> HIDE DEF Twice, Signatures, own
  <2>6. own \in Result
      BY <2>4, <2>5
  <2> HIDE DEF Result
  <2>7. [public_key |-> ToSet(c.alt_key), signature |-> own] \in carried(c)
      BY <1>0, <2>6
  <2> QED
      BY <2>3, <2>7 DEF own, value
<1> QED
    BY <1>1, <1>2

\* So where one certificate vouches for another, verify_alt finds it does.
LEMMA VouchedVerifies ==
  ASSUME NEW c, NEW by, Vouched(c, by), by.reads,
         Plain(by) \/ \E signer : Hybridized(by, signer),
         NEW hybrid, hybrid = "Required" => Hybridized(c, AltKey(by.serial))
                                              /\ by.alt_key = <<AltKey(by.serial)>>
  PROVE  \E own \in carried(c), issuer \in carried(by) :
           \/ own.signature = {} /\ hybrid # "Required"
           \/ \E signature \in own.signature, public_key \in issuer.public_key :
                Verifies(signature, public_key, pre_tbs(c))
<1> DEFINE key == AltKey(by.serial)
<1>1. PICK issuer \in carried(by) :
        by.alt_key = <<key>> => issuer.public_key = {key}
  <2>1. CASE Plain(by)
    <3>1. by.alt_key # <<key>>
        BY <2>1 DEF Plain
    <3> QED
        BY <2>1, <3>1, MintedIsCarried
  <2>2. ASSUME NEW signer, Hybridized(by, signer)
        PROVE  \E issuer \in carried(by) :
                 by.alt_key = <<key>> => issuer.public_key = {key}
    <3> DEFINE mine == [public_key |-> {key},
                        signature |-> {[algorithm |-> "ML-DSA-65", value |->
                          [bits |-> "whole", by |-> signer, over |-> pre_tbs(by)]]}]
    <3>1. mine \in carried(by) /\ mine.public_key = {key}
        BY <2>2, MintedIsCarried
    <3> HIDE DEF mine
    <3> QED
        BY <3>1
  <2> QED
      BY <2>1, <2>2
<1>2. CASE Hybridized(c, key) /\ by.alt_key = <<key>>
  <2> DEFINE value == [bits |-> "whole", by |-> key, over |-> pre_tbs(c)]
             signature == [algorithm |-> "ML-DSA-65", value |-> value]
             own == [public_key |-> {AltKey(c.serial)}, signature |-> {signature}]
  <2>1. own \in carried(c)
      BY <1>2, MintedIsCarried DEF Vouched
  <2>2. Verifies(signature, key, pre_tbs(c))
      BY DEF Verifies, AltKey
  <2>3. own.signature = {signature} /\ issuer.public_key = {key}
      BY <1>1, <1>2
  <2> HIDE DEF signature, own, key
  <2> QED
      BY <1>1, <2>1, <2>2, <2>3
<1>3. CASE hybrid # "Required" /\ Plain(c)
  <2>1. [public_key |-> {}, signature |-> {}] \in carried(c)
      BY <1>3, MintedIsCarried DEF Vouched
  <2> QED
      BY <1>1, <1>3, <2>1
<1> QED
    BY <1>2, <1>3 DEF Vouched

-----------------------------------------------------------------------------
(* The path: what was sent, and the root.                                  *)

\* Its certificates by their places, the leaf first and the root last.
Place(m, j) ==
  IF j = 1 THEN m.chain[1] ELSE m.line[Len(m.line) + 2 - j].certificate

\* Whether every authority of the line is hybrid.
AllHybrid(m) == \A authority \in ToSet(m.line) : authority.alt # {}

\* One certificate, by the one above it.
Holds(m, c, by) ==
  /\ Vouched(c, by)
  /\ by.reads /\ by.is_ca /\ by.eku = {}
  /\ Plain(by) \/ \E signer : Hybridized(by, signer)
  /\ AllHybrid(m) => /\ Hybridized(c, AltKey(by.serial))
                     /\ by.alt_key = <<AltKey(by.serial)>>

\* A sound authority as the one above.
LEMMA SoundHolds ==
  ASSUME NEW m, NEW authority \in ToSet(m.line), NEW by, Sound(authority, by),
         NEW c, Vouched(c, authority.certificate),
         AllHybrid(m) => Hybridized(c, AltKey(authority.certificate.serial))
  PROVE  Holds(m, c, authority.certificate)
<1> DEFINE d == authority.certificate
<1>1. d.reads /\ d.is_ca /\ d.eku = {} /\ (Plain(d) \/ \E signer : Hybridized(d, signer))
    BY DEF Sound, Vouched
<1>2. ASSUME AllHybrid(m)
      PROVE  Hybridized(c, AltKey(d.serial)) /\ d.alt_key = <<AltKey(d.serial)>>
  <2>1. authority.alt # {}
      BY <1>2 DEF AllHybrid
  <2> QED
      BY <1>2, <2>1 DEF Sound, Hybridized
<1> QED
    BY <1>1, <1>2 DEF Holds

\* Each certificate of what was minted holds by the one above it, and the
\* root by itself.
LEMMA PlacesHold ==
  ASSUME NEW m \in Minted
  PROVE  LET n == Len(m.line) IN
         /\ n \in Nat \ {0}
         /\ m.chain \in Seq(Certificate) /\ Len(m.chain) = n
         /\ \A j \in 1 .. n : m.chain[j] = Place(m, j)
         /\ Place(m, n + 1) = m.line[1].certificate
         /\ \A j \in 1 .. n : Holds(m, Place(m, j), Place(m, j + 1))
         /\ Holds(m, Place(m, n + 1), Place(m, n + 1))
<1> DEFINE line == m.line
           n == Len(line)
<1>1. IsLine(line)
    BY MintedAssumption
<1>2. /\ n \in Nat \ {0} /\ Sound(line[1], line[1].certificate)
      /\ \A k \in 2 .. n : Sound(line[k], line[k - 1].certificate)
    BY <1>1, LineIsSound
<1>3. \A k \in 1 .. n : line[k] \in ToSet(line)
  <2>1. DOMAIN line = 1 .. n
      BY <1>1, LenProperties DEF IsLine
  <2> QED
      BY <2>1 DEF ToSet
<1>4. m.chain \in Seq(Certificate)
    BY WireAssumption DEF Sent
<1>5. m.chain = Over(m.chain[1], line, n)
    BY MintedForm
<1>6. DOMAIN m.chain = 1 .. n /\ \A j \in 1 .. n : m.chain[j] = Place(m, j)
  <2> DEFINE c == m.chain[1]
  <2>1. m.chain = [j \in 1 .. n |-> IF j = 1 THEN c ELSE line[n + 2 - j].certificate]
      BY <1>5 DEF Over
  <2>2. \A j \in 1 .. n : Place(m, j) = IF j = 1 THEN c ELSE line[n + 2 - j].certificate
      BY DEF Place
  <2> HIDE DEF c, n, line
  <2> QED
      BY <2>1, <2>2
<1>7. Len(m.chain) = n
  <2>1. Len(m.chain) \in Nat /\ DOMAIN m.chain = 1 .. Len(m.chain)
      BY <1>4, LenProperties
  <2> HIDE DEF n
  <2> QED
      BY <1>2, <1>6, <2>1
<1>8. \A j \in 2 .. n + 1 : Place(m, j) = line[n + 2 - j].certificate
    BY <1>2 DEF Place
<1>9. Place(m, n + 1) = line[1].certificate
  <2>1. n + 1 \in 2 .. n + 1 /\ n + 2 - (n + 1) = 1
      BY <1>2
  <2> HIDE DEF n, line
  <2> QED
      BY <1>8, <2>1
<1>10. ASSUME NEW k \in 1 .. n, NEW c, Vouched(c, line[k].certificate),
              AllHybrid(m) => Hybridized(c, AltKey(line[k].certificate.serial))
       PROVE  Holds(m, c, line[k].certificate)
  <2>1. line[k] \in ToSet(m.line)
      BY <1>3
  <2>2. CASE k = 1
      BY <1>2, <1>10, <2>1, <2>2, SoundHolds
  <2>3. CASE k # 1
    <3>1. k \in 2 .. n
        BY <1>2, <2>3
    <3>2. Sound(line[k], line[k - 1].certificate)
        BY <1>2, <3>1
    <3> QED
        BY <1>10, <2>1, <3>2, SoundHolds
  <2> QED
      BY <2>2, <2>3
<1>11. ASSUME NEW k \in 2 .. n
       PROVE  Holds(m, line[k].certificate, line[k - 1].certificate)
  <2>1. k - 1 \in 1 .. n
      BY <1>2
  <2>2. Sound(line[k], line[k - 1].certificate)
      BY <1>2
  <2>3. Vouched(line[k].certificate, line[k - 1].certificate)
      BY <2>2 DEF Sound
  <2>4. ASSUME AllHybrid(m)
        PROVE  Hybridized(line[k].certificate, AltKey(line[k - 1].certificate.serial))
    <3>1. k \in 1 .. n
        BY <1>2
    <3>2. line[k].alt # {}
        BY <1>3, <2>4, <3>1 DEF AllHybrid
    <3> QED
        BY <2>2, <3>2 DEF Sound
  <2> QED
      BY <1>10, <2>1, <2>3, <2>4
<1>12. Holds(m, line[1].certificate, line[1].certificate)
  <2>1. 1 \in 1 .. n
      BY <1>2
  <2>2. Vouched(line[1].certificate, line[1].certificate)
      BY <1>2 DEF Sound
  <2>3. ASSUME AllHybrid(m)
        PROVE  Hybridized(line[1].certificate, AltKey(line[1].certificate.serial))
    <3>1. line[1].alt # {}
        BY <1>3, <2>1, <2>3 DEF AllHybrid
    <3> QED
        BY <1>2, <3>1 DEF Sound
  <2> QED
      BY <1>10, <2>1, <2>2, <2>3
<1>13. Holds(m, m.chain[1], line[n].certificate)
  <2>1. n \in 1 .. n
      BY <1>2
  <2>2. /\ Vouched(m.chain[1], line[n].certificate)
        /\ line[n].alt # {} => Hybridized(m.chain[1], AltKey(line[n].certificate.serial))
      BY MintedForm
  <2>3. AllHybrid(m) => line[n].alt # {}
      BY <1>3, <2>1 DEF AllHybrid
  <2> QED
      BY <1>10, <2>1, <2>2, <2>3
<1>14. ASSUME NEW j \in 1 .. n PROVE Holds(m, Place(m, j), Place(m, j + 1))
  <2>0. n \in Nat \ {0} /\ j \in 1 .. n
      BY <1>2, <1>14
  <2>1. Place(m, j + 1) = line[n + 1 - j].certificate
    <3>1. j + 1 \in 2 .. n + 1 /\ n + 2 - (j + 1) = n + 1 - j
      <4> HIDE DEF n
      <4> QED
          BY <2>0
    <3> HIDE DEF n, line
    <3> QED
        BY <1>8, <3>1
  <2>2. CASE j = 1
    <3>1. Place(m, j) = m.chain[1]
        BY <2>2 DEF Place
    <3>2. n + 1 - j = n
      <4> HIDE DEF n
      <4> QED
          BY <2>0, <2>2
    <3> HIDE DEF n, line
    <3> QED
        BY <1>13, <2>1, <3>1, <3>2
  <2>3. CASE j # 1
    <3> DEFINE k == n + 2 - j
    <3>1. k \in 2 .. n /\ k - 1 = n + 1 - j /\ j \in 2 .. n + 1
      <4> HIDE DEF n
      <4> QED
          BY <2>0, <2>3
    <3>2. Place(m, j) = line[k].certificate
        BY <1>8, <3>1
    <3> HIDE DEF n, line, k
    <3> QED
        BY <1>11, <2>1, <3>1, <3>2
  <2> QED
      BY <2>2, <2>3
<1> HIDE DEF n
<1> QED
    BY <1>2, <1>4, <1>6, <1>7, <1>9, <1>12, <1>14 DEF n

\* A sequence without repetition is a permutation of its elements.
LEMMA OwnPermutation ==
  ASSUME NEW S, NEW s \in Seq(S),
         \A i, j \in 1 .. Len(s) : s[i] = s[j] => i = j
  PROVE  s \in SetToAllKPermutations(ToSet(s))
<1> DEFINE n == Len(s)
           T == ToSet(s)
<1>1. n \in Nat /\ DOMAIN s = 1 .. n /\ s \in [1 .. n -> S]
    BY LenProperties
<1>2. s \in [1 .. n -> T] /\ \A t \in T : \E i \in 1 .. n : s[i] = t
    BY <1>1 DEF ToSet
<1> HIDE DEF n, T
<1>3. s \in Bijection(1 .. n, T)
    BY <1>1, <1>2 DEF Bijection, Injection, Surjection, IsInjective, n
<1>4. Cardinality(T) = n
  <2>1. ExistsBijection(1 .. n, T)
      BY <1>3 DEF ExistsBijection
  <2> QED
      BY <1>1, <2>1, FS_CountingElements
<1>5. s \in SetToSeqs(T)
    BY <1>2, <1>4 DEF SetToSeqs, n
<1> QED
    BY <1>5 DEF SetToAllKPermutations, T

\* webpki may take the chain as it was sent, whole and in order, to the root,
\* if it is no longer than it takes any.
LEMMA MintedWalk ==
  ASSUME NEW m \in Minted, Len(m.line) <= 1 + MAX_SUB_CA_COUNT,
         NEW held, m.line[1].certificate \in ToSet(held),
         NEW time, \A c \in ToSet(m.chain) : InsideItsWindow(c, time)
  PROVE  \E w \in Walks(m.chain, held, "ClientAuth", {}, time) :
           w.below = m.chain /\ w.reached.key = m.line[1].certificate.key
<1> DEFINE chain == m.chain
           n == Len(m.line)
           top == m.line[1].certificate
           above == Tail(chain)
           Issuers == {c \in ToSet(above) : c.reads}
           reached == [subject |-> top.subject, key |-> top.key]
           Below == {<<leaf(chain)>> \o s : s \in SetToAllKPermutations(Issuers)}
           Roots == {[subject |-> a.subject, key |-> a.key] : a \in ToSet(held)}
           w == [below |-> chain, reached |-> reached]
<1>1. /\ n \in Nat \ {0}
      /\ chain \in Seq(Certificate) /\ Len(chain) = n
      /\ \A j \in 1 .. n : chain[j] = Place(m, j)
      /\ Place(m, n + 1) = top
      /\ \A j \in 1 .. n : Holds(m, Place(m, j), Place(m, j + 1))
    BY PlacesHold
<1>2. /\ DOMAIN chain = 1 .. n /\ chain # <<>>
    BY <1>1, EmptySeq, LenProperties
<1> HIDE DEF n, chain, top
<1>3. ASSUME NEW i \in 2 .. n
      PROVE  /\ Issued(chain[i - 1], chain[i])
             /\ chain[i].is_ca /\ chain[i].reads /\ chain[i].eku = {}
  <2>1. i - 1 \in 1 .. n /\ i \in 1 .. n /\ (i - 1) + 1 = i
      BY <1>1
  <2>2. Holds(m, chain[i - 1], chain[i])
      BY <1>1, <2>1
  <2> QED
      BY <2>2 DEF Holds, Vouched
<1>4. Issued(Last(chain), top)
  <2>1. n \in 1 .. n
      BY <1>1
  <2>2. Holds(m, chain[n], top)
      BY <1>1, <2>1
  <2> QED
      BY <1>1, <2>2 DEF Holds, Vouched, Last
<1>5. \A c \in ToSet(chain) : validate("ClientAuth", c)
  <2>1. chain[1].eku = {{"clientAuth"}}
      BY MintedForm DEF chain
  <2>2. ASSUME NEW i \in 1 .. n PROVE validate("ClientAuth", chain[i])
    <3>1. CASE i = 1
        BY <2>1, <3>1 DEF validate
    <3>2. CASE i # 1
      <4>1. i \in 2 .. n
          BY <1>1, <3>2
      <4> QED
          BY <1>3, <4>1 DEF validate
    <3> QED
        BY <3>1, <3>2
  <2> QED
      BY <1>2, <2>2 DEF ToSet
<1>6. /\ Head(chain) = chain[1] /\ Head(chain) \in Certificate
      /\ above \in Seq(Certificate) /\ Len(above) = n - 1
      /\ \A i \in 1 .. n - 1 : above[i] = chain[i + 1]
    BY <1>1, <1>2, HeadTailProperties
<1> HIDE DEF above
<1>7. DOMAIN above = 1 .. n - 1
    BY <1>6, LenProperties
<1>8. Issuers = ToSet(above)
  <2>1. ASSUME NEW i \in 1 .. n - 1 PROVE above[i].reads
    <3>1. i + 1 \in 2 .. n
        BY <1>1
    <3> QED
        BY <1>3, <1>6, <3>1
  <2> QED
      BY <1>7, <2>1 DEF ToSet
<1>9. above \in SetToAllKPermutations(Issuers)
  <2>1. ASSUME NEW i \in 1 .. n - 1, NEW j \in 1 .. n - 1, above[i] = above[j]
        PROVE  i = j
    <3>1. i + 1 \in 1 .. n /\ j + 1 \in 1 .. n
        BY <1>1
    <3>2. chain[i + 1].serial = chain[j + 1].serial
        BY <1>6, <2>1
    <3>3. i + 1 = j + 1
        BY <1>2, <3>1, <3>2, MintedAssumption DEF chain
    <3> QED
        BY <3>3
  <2>2. above \in SetToAllKPermutations(ToSet(above))
      BY <1>6, <2>1, OwnPermutation
  <2> QED
      BY <1>8, <2>2
<1>10. <<leaf(chain)>> \o above = chain
  <2> DEFINE joined == <<leaf(chain)>> \o above
  <2>1. /\ <<leaf(chain)>> \in Seq(Certificate) /\ Len(<<leaf(chain)>>) = 1
        /\ <<leaf(chain)>>[1] = chain[1]
      BY <1>6 DEF leaf
  <2>2. /\ joined \in Seq(Certificate) /\ Len(joined) = 1 + (n - 1)
        /\ \A i \in 1 .. 1 + (n - 1) :
             joined[i] = IF i <= 1 THEN <<leaf(chain)>>[i] ELSE above[i - 1]
      BY <1>6, <2>1, ConcatProperties
  <2> HIDE DEF joined
  <2>3. \A i \in 1 .. n : joined[i] = chain[i]
    <3> SUFFICES ASSUME NEW i \in 1 .. n PROVE joined[i] = chain[i]
        OBVIOUS
    <3>1. CASE i = 1
        BY <1>1, <2>1, <2>2, <3>1
    <3>2. CASE i # 1
      <4>1. i - 1 \in 1 .. n - 1 /\ (i - 1) + 1 = i /\ i \in 1 .. 1 + (n - 1)
            /\ ~(i <= 1)
          BY <1>1, <3>2
      <4>2. joined[i] = above[i - 1]
          BY <2>2, <4>1
      <4> QED
          BY <1>6, <4>1, <4>2
    <3> QED
        BY <3>1, <3>2
  <2>4. Len(joined) = n
      BY <1>1, <2>2
  <2> QED
      BY <1>1, <2>2, <2>3, <2>4, SeqEqual DEF joined
<1> HIDE DEF Issuers
<1>11. chain \in Below
    BY <1>9, <1>10
<1>12. reached \in Roots
    BY DEF top
<1>13. Issued(Last(chain), reached) /\ reached.key = top.key
    BY <1>4 DEF Issued
<1>14. w.below = chain /\ w.reached = reached
    OBVIOUS
<1> HIDE DEF reached, Below, Roots
<1>15. w \in [below : Below, reached : Roots]
    BY <1>11, <1>12
<1> HIDE DEF w
<1>16. Walks(chain, held, "ClientAuth", {}, time) =
         {v \in [below : Below, reached : Roots] :
            /\ Len(v.below) <= 1 + MAX_SUB_CA_COUNT
            /\ ~v.below[1].is_ca
            /\ Issued(Last(v.below), v.reached)
            /\ \A i \in 2 .. Len(v.below) :
                 Issued(v.below[i - 1], v.below[i]) /\ v.below[i].is_ca
            /\ \A c \in ToSet(v.below) :
                 InsideItsWindow(c, time) /\ validate("ClientAuth", c)
            /\ \A l \in {}, c \in Checked(v.below) : NotRevoked(c, l)}
    BY DEF Walks, intermediates, Below, Roots, Issuers, above
<1>17. w \in Walks(chain, held, "ClientAuth", {}, time)
  <2>1. \A c \in ToSet(chain) : InsideItsWindow(c, time)
      BY DEF chain
  <2>2. Len(chain) <= 1 + MAX_SUB_CA_COUNT
      BY <1>1 DEF n
  <2>3. ~chain[1].is_ca
      BY MintedForm DEF chain
  <2> QED
      BY <1>1, <1>3, <1>5, <1>13, <1>14, <1>15, <1>16, <2>1, <2>2, <2>3
<1> QED
    BY <1>13, <1>14, <1>17 DEF chain, top

\* Along the path every alternative signature there is verifies.
LEMMA MintedVerifiesAlt ==
  ASSUME NEW m \in Minted, NEW path \in Seq(Certificate \union {m.line[1].certificate}),
         Len(path) = Len(m.line) + 1,
         \A j \in 1 .. Len(m.line) + 1 : path[j] = Place(m, j)
  PROVE  verify_alt(path, IF AllHybrid(m) THEN "Required" ELSE "WherePresent")
<1> DEFINE n == Len(m.line)
           hybrid == IF AllHybrid(m) THEN "Required" ELSE "WherePresent"
<1>1. /\ n \in Nat \ {0}
      /\ \A j \in 1 .. n : Holds(m, Place(m, j), Place(m, j + 1))
      /\ Holds(m, Place(m, n + 1), Place(m, n + 1))
    BY PlacesHold
<1>2. DOMAIN path = 1 .. n + 1
    BY LenProperties
<1>3. hybrid = "Required" => AllHybrid(m)
    OBVIOUS
<1> HIDE DEF n, hybrid
<1>4. ASSUME NEW i \in DOMAIN path
      PROVE  \E own \in carried(path[i]), issuer \in carried(issuer_of(path, i)) :
               \/ own.signature = {} /\ hybrid # "Required"
               \/ \E signature \in own.signature, public_key \in issuer.public_key :
                    Verifies(signature, public_key, pre_tbs(path[i]))
  <2>1. Holds(m, path[i], issuer_of(path, i))
    <3>1. issuer_of(path, i) = IF i = n + 1 THEN path[i] ELSE path[i + 1]
        BY IssuerAbove DEF n
    <3>2. CASE i = n + 1
        BY <1>1, <1>2, <3>1, <3>2 DEF n
    <3>3. CASE i # n + 1
      <4>1. i \in 1 .. n /\ i \in 1 .. n + 1 /\ i + 1 \in 1 .. n + 1
          BY <1>1, <1>2, <3>3
      <4> QED
          BY <1>1, <3>1, <3>3, <4>1 DEF n
    <3> QED
        BY <3>2, <3>3
  <2> DEFINE by == issuer_of(path, i)
  <2>2. /\ Vouched(path[i], by) /\ by.reads
        /\ Plain(by) \/ \E signer : Hybridized(by, signer)
        /\ hybrid = "Required" => /\ Hybridized(path[i], AltKey(by.serial))
                                  /\ by.alt_key = <<AltKey(by.serial)>>
      BY <1>3, <2>1 DEF Holds
  <2> HIDE DEF by
  <2> QED
      BY <2>2, VouchedVerifies DEF by
<1> QED
    BY <1>4 DEF verify_alt, hybrid

\* What was minted is sent in a chain that is taken, from its leaf to the
\* root, where the root is the one anchor with its key.
LEMMA MintedPath ==
  ASSUME NEW m \in Minted, Len(m.line) <= 1 + MAX_SUB_CA_COUNT,
         NEW held \in AnchorSets,
         m.line[1].certificate \in ToSet(held),
         \A i, j \in DOMAIN held : held[i].key = held[j].key => i = j,
         \A c \in ToSet(held) : c.reads,
         NEW time, \A c \in ToSet(m.chain) : InsideItsWindow(c, since_unix_epoch(time))
  PROVE  \E path \in verify(m.chain, held, "ClientAuth", {}, time) :
           verify_alt(path, IF AllHybrid(m) THEN "Required" ELSE "WherePresent")
<1> DEFINE chain == m.chain
           n == Len(m.line)
           top == m.line[1].certificate
           path == Append(chain, top)
<1>1. PICK w \in Walks(chain, held, "ClientAuth", {}, since_unix_epoch(time)) :
        w.below = chain /\ w.reached.key = top.key
    BY MintedWalk
<1>2. top \in find(held, w.reached.key)
  <2>1. PICK i \in DOMAIN held : held[i] = top
      BY DEF ToSet
  <2>2. held \in Seq(Certificate)
      BY WireAssumption
  <2>3. DOMAIN held = 1 .. Len(held) /\ Len(held) \in Nat
      BY <2>2, LenProperties
  <2>4. \A j \in DOMAIN held : j < i => held[j].key # w.reached.key
      BY <1>1, <2>1, <2>3
  <2> HIDE DEF top
  <2> QED
      BY <1>1, <2>1, <2>4 DEF find
<1>3. held # <<>> /\ chain # <<>> /\ leaf(chain).reads
  <2>1. n \in Nat \ {0} /\ chain \in Seq(Certificate) /\ Len(chain) = n
      BY PlacesHold
  <2>2. chain # <<>>
      BY <2>1, EmptySeq
  <2>3. Head(chain) = chain[1]
      BY <2>1, <2>2, HeadTailProperties
  <2>4. chain[1].reads
      BY MintedForm DEF Vouched
  <2>5. held # <<>>
      BY DEF ToSet
  <2> QED
      BY <2>2, <2>3, <2>4, <2>5 DEF leaf
<1>4. path \in verify(chain, held, "ClientAuth", {}, time)
  <2> HIDE DEF chain, top
  <2> DEFINE Ends(v) == {Append(v.below, anchor) : anchor \in find(held, v.reached.key)}
             All == Walks(chain, held, "ClientAuth", {}, since_unix_epoch(time))
  <2>1. verify(chain, held, "ClientAuth", {}, time) = UNION {Ends(v) : v \in All}
      BY <1>3 DEF verify
  <2>2. path \in Ends(w) /\ w \in All
      BY <1>1, <1>2
  <2> HIDE DEF Ends, All, path
  <2> QED
      BY <2>1, <2>2
<1>5. verify_alt(path, IF AllHybrid(m) THEN "Required" ELSE "WherePresent")
  <2> DEFINE S == Certificate \union {top}
  <2>1. /\ n \in Nat \ {0}
        /\ chain \in Seq(Certificate) /\ Len(chain) = n
        /\ \A j \in 1 .. n : chain[j] = Place(m, j)
        /\ Place(m, n + 1) = top
      BY PlacesHold
  <2>2. chain \in Seq(S) /\ top \in S
      BY <2>1, SeqMonotonic
  <2>3. /\ path \in Seq(S) /\ Len(path) = n + 1
        /\ \A i \in 1 .. n : path[i] = chain[i]
        /\ path[n + 1] = top
      BY <2>1, <2>2, AppendProperties
  <2>4. \A j \in 1 .. n + 1 : path[j] = Place(m, j)
    <3> HIDE DEF path, n, chain, top
    <3> SUFFICES ASSUME NEW j \in 1 .. n + 1 PROVE path[j] = Place(m, j)
        OBVIOUS
    <3>1. j \in 1 .. n \/ j = n + 1
        BY <2>1
    <3> QED
        BY <2>1, <2>3, <3>1
  <2> HIDE DEF path, chain
  <2> QED
      BY <2>3, <2>4, MintedVerifiesAlt
<1> HIDE DEF path, chain
<1> QED
    BY <1>4, <1>5 DEF chain

\* MintedIsTaken, for every line of authorities up to the longest webpki
\* takes, every node and every claim: what authorities issue is taken while
\* it is valid, for what it was issued for and nothing else, under the
\* strictest policy all of them keep to.
THEOREM WhatIsMintedIsTaken == Spec => []MintedIsTaken
<1>1. StillProves => MintedIsTaken
  <2> SUFFICES
        ASSUME StillProves, NEW m \in Minted,
               Len(m.line) <= 1 + MAX_SUB_CA_COUNT,
               m.line[1].certificate \in ToSet(anchors),
               \A i, j \in DOMAIN anchors : anchors[i].key = anchors[j].key => i = j,
               \A c \in ToSet(anchors) : c.reads,
               revocation = {},
               \A c \in ToSet(m.chain) : InsideItsWindow(c, since_unix_epoch(now)),
               NEW claim \in Text
        PROVE  IssuedFor(m, claim) <=>
                 Proofs(m.chain, claim, "ClientAuth",
                        IF AllHybrid(m) THEN "Required" ELSE "WherePresent") # {}
      BY DEF MintedIsTaken, AllHybrid
  <2> DEFINE hybrid == IF AllHybrid(m) THEN "Required" ELSE "WherePresent"
             chain == m.chain
             Named == {c \in from_der(chain) : names(leaf(c), claim) = {TRUE}}
             Taken(c) == {path \in verify(c, anchors, "ClientAuth", revocation, now) :
                            verify_alt(path, hybrid)}
             Proof(path) == [chain |-> chain, claim |-> claim, usage |-> "ClientAuth",
                             hybrid |-> hybrid, path |-> path]
  <2>1. Proofs(chain, claim, "ClientAuth", hybrid)
          = {Proof(path) : path \in UNION {Taken(c) : c \in Named}}
      BY DEF Proofs
  <2>2. chain # <<>> /\ leaf(chain) = chain[1]
    <3>1. /\ Len(m.line) \in Nat \ {0} /\ chain \in Seq(Certificate)
          /\ Len(chain) = Len(m.line)
        BY PlacesHold
    <3>2. chain # <<>>
        BY <3>1, EmptySeq
    <3> QED
        BY <3>1, <3>2, HeadTailProperties DEF leaf
  <2>3. IssuedFor(m, claim) <=> names(leaf(chain), claim) = {TRUE}
      BY <2>2, MintedNames
  <2>4. \A c \in Named : c = chain /\ names(leaf(chain), claim) = {TRUE}
      BY DEF from_der
  <2>5. names(leaf(chain), claim) = {TRUE} => chain \in Named
      BY <2>2 DEF from_der
  <2>6. \E path : path \in Taken(chain)
      BY MintedPath DEF StillProves
  <2> HIDE DEF Named, Taken, Proof, hybrid, chain
  <2>7. names(leaf(chain), claim) = {TRUE}
          <=> \E path : path \in UNION {Taken(c) : c \in Named}
      BY <2>4, <2>5, <2>6
  <2>8. Proofs(chain, claim, "ClientAuth", hybrid) # {}
          <=> \E path : path \in UNION {Taken(c) : c \in Named}
      BY <2>1
  <2> QED
      BY <2>3, <2>7, <2>8 DEF hybrid, chain
<1> QED
    BY <1>1, Invariant, PTL

=============================================================================
