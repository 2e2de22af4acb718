----------------------------- MODULE MC_HostKeys -----------------------------
EXTENDS HostKeys, TLC

MCKey(t, n) == [type |-> t, n |-> n]
MCKeys == {MCKey("ed25519", 1), MCKey("ed25519", 2), MCKey("rsa", 1)}
MCPlain(k) == [key |-> k, ca |-> NoCA]
MCCA == MCKey("ed25519", 9)
MCCert(k) == [key |-> k, ca |-> MCCA]
MCCAs == {MCCA}

\* The host with two types of keys, another one with a new key, the host with
\* a certificate besides, and one that has nothing but a certificate.
MCServers ==
  {{MCPlain(MCKey("ed25519", 1)), MCPlain(MCKey("rsa", 1))},
   {MCPlain(MCKey("ed25519", 2))},
   {MCPlain(MCKey("rsa", 1)), MCCert(MCKey("rsa", 1))},
   {MCCert(MCKey("ed25519", 2))}}

\* Hand-written lines: none, a CA, a revoked CA, a revoked key.
MCMarkers ==
  {[cas |-> {}, revoked |-> {}], [cas |-> MCCAs, revoked |-> {}],
   [cas |-> {}, revoked |-> MCCAs], [cas |-> {}, revoked |-> {MCKey("ed25519", 1)}]}

\* The user's own file: empty, or with the first host's keys of both types.
MCUserFiles ==
  {[keys |-> {}, cas |-> {}, revoked |-> {}],
   [keys |-> {MCKey("ed25519", 1), MCKey("rsa", 1)}, cas |-> {}, revoked |-> {}]}

\* Dials are alike.
MCSymmetry == Permutations(Dials)
=============================================================================
