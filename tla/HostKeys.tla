------------------------------- MODULE HostKeys -------------------------------
(*****************************************************************************)
(* How a dial decides to trust a host (src/hostkey.go) and what it holds on  *)
(* the way (openSSHClientWithPolicy, newSessionContext and runSSHCommand in  *)
(* src/ssh_exec.go), for the dials of one address.                           *)
(*                                                                           *)
(* A verifier reads known_hosts when it is built and judges by that copy; in *)
(* strict mode it reads the user's own ~/.ssh/known_hosts besides, which the *)
(* application never writes.  A dial from the GUI keeps an unknown key as a  *)
(* candidate and records it only once the dialer has authenticated; an       *)
(* agent's dial, and any dial in strict mode, refuses it.  Dials, and resets *)
(* of the recorded keys, overlap freely: only the writes of the file are     *)
(* serialised (hostKeyMu).                                                   *)
(*                                                                           *)
(* A key is [type, n]; what a server presents is a plain key, or a           *)
(* certificate for it signed by a CA.                                        *)
(*****************************************************************************)
EXTENDS Naturals, FiniteSets

CONSTANTS
  Dials,       \* dials a behaviour makes
  Keys,        \* host keys
  CAs,         \* keys of certificate authorities
  NoCA,        \* a plain key has none
  Markers,     \* hand-written lines of known_hosts: sets of CAs and of revoked keys
  UserFiles,   \* what ~/.ssh/known_hosts may hold: keys of the address, CAs, revoked keys
  Servers,     \* what may answer at the address: sets of [key, ca], at most one plain key a type
  Rekeys,      \* bound: times what answers at the address changes
  Resets,      \* bound: resets of the host key in the GUI
  TornWrites   \* bound: appends to known_hosts that are cut short

\* A server shows keys, plain or certified, and of plain ones one of a type.
ServersShowKeys ==
  /\ Servers \subseteq SUBSET [key : Keys, ca : CAs \union {NoCA}]
  /\ \A v \in Servers : \A s, t \in v :
       s.ca = NoCA /\ t.ca = NoCA /\ s.key.type = t.key.type => s.key = t.key

\* What people write by hand: a @cert-authority line names a CA, a @revoked line
\* a key or a CA.
HandWritten ==
  /\ Markers \subseteq [cas : SUBSET CAs, revoked : SUBSET (Keys \union CAs)]
  /\ UserFiles \subseteq [keys : SUBSET Keys, cas : SUBSET CAs, revoked : SUBSET (Keys \union CAs)]

ASSUME HostKeysAssumption == ServersShowKeys /\ HandWritten

VARIABLES
  known,     \* known_hosts: the keys recorded for the address
  cas,       \* known_hosts: its @cert-authority lines (edited by hand only)
  revoked,   \* known_hosts: its @revoked lines (likewise)
  torn,      \* known_hosts ends in half a line
  user,      \* ~/.ssh/known_hosts
  server,    \* what answers at the address
  dial,      \* dial -> its state
  proven,    \* history: keys some GUI dial authenticated with
  rekeys, resets, tears

hostKeysVars == <<known, cas, revoked, torn, user, server, dial, proven, rekeys, resets, tears>>
fileVars == <<known, cas, revoked, torn, user>>

Idle == [at |-> "idle", gui |-> FALSE, strict |-> FALSE, kept |-> {}, keptCAs |-> {}, offered |-> {},
         shown |-> {}, candidate |-> {}, cancelled |-> FALSE]

Types == {k.type : k \in Keys}

HostKeysInit ==
  /\ known = {}
  /\ \E m \in Markers : cas = m.cas /\ revoked = m.revoked
  /\ torn = FALSE
  /\ user \in UserFiles
  /\ server \in Servers
  /\ dial = [d \in Dials |-> Idle]
  /\ proven = {}
  /\ rekeys = 0 /\ resets = 0 /\ tears = 0

Goto(d, s) == dial' = [dial EXCEPT ![d].at = s]

\* A failed dial closes what it has opened and keeps nothing.
Fail(d, why) == dial' = [dial EXCEPT ![d] = [Idle EXCEPT !.at = why]]

-----------------------------------------------------------------------------
(* Before the network.                                                       *)

\* A connection test or a terminal (GUI), or a command or AI session (MCP).
Begin(d, gui, strict) ==
  /\ dial[d].at = "idle"
  /\ dial' = [dial EXCEPT ![d].at = "begun", ![d].gui = gui, ![d].strict = strict]
  /\ UNCHANGED <<fileVars, server, proven, rekeys, resets, tears>>

\* sshAuthMethods: a password, a key or the agent's keys; without any the dial
\* ends.
authMethods(d) ==
  /\ dial[d].at = "begun"
  /\ \/ Goto(d, "authReady")
     \/ Fail(d, "ended")
  /\ UNCHANGED <<fileVars, server, proven, rekeys, resets, tears>>

\* hostKeyAlgorithmsFor: the types of the recorded keys, or every type for an
\* unknown host.
algorithmsFor_All(keys) == Types
algorithmsFor(keys) == IF keys = {} THEN Types ELSE {k.type : k \in keys}

\* hostKeyFiles: the application's file, in strict mode the user's as well.
Files(d) ==
  LET own == [keys |-> known, cas |-> cas, revoked |-> revoked]
  IN  IF dial[d].strict THEN {own, user} ELSE {own}

Recorded(d) == UNION {f.keys : f \in Files(d)}
Authorities(d) == UNION {f.cas : f \in Files(d)}
Revoked(d) == UNION {f.revoked : f \in Files(d)}

\* newHostKeyVerifier: the files are read, a line that does not parse fails the
\* dial.  A @cert-authority line opens the negotiation to every type.
newHostKeyVerifier(d) ==
  /\ dial[d].at = "authReady"
  /\ IF torn
       THEN Fail(d, "ended")
       ELSE dial' = [dial EXCEPT ![d].at = "verifier", ![d].kept = Recorded(d),
                                 ![d].keptCAs = Authorities(d),
                                 ![d].offered = IF Authorities(d) # {} THEN Types
                                                ELSE algorithmsFor(Recorded(d))]
  /\ UNCHANGED <<fileVars, server, proven, rekeys, resets, tears>>

-----------------------------------------------------------------------------
(* On the network.                                                           *)

\* The TCP connection; the deadline of the dial holds from here on.
DialTCP(d) ==
  /\ dial[d].at = "verifier"
  /\ Goto(d, "dialled")
  /\ UNCHANGED <<fileVars, server, proven, rekeys, resets, tears>>

\* What the server shows: the certificate forms come last, so a plain key it has
\* of an offered type wins, except where a @cert-authority line asks for
\* certificates.
Shown(d) ==
  LET fits  == {s \in server : s.key.type \in dial[d].offered}
      plain == {s \in fits : s.ca = NoCA}
  IN  IF dial[d].keptCAs = {} /\ plain # {} THEN plain ELSE fits

\* verifyPlain: what the copy of the files says of a plain key.  A revoked key
\* is reported as a mismatch, whatever is on record.
verifyPlain(d, key) ==
  IF key \in Revoked(d) THEN "mismatch"
  ELSE IF key \in dial[d].kept THEN "accepted"
  ELSE IF dial[d].kept # {} \/ dial[d].keptCAs # {} THEN "mismatch"
  ELSE IF ~dial[d].gui \/ dial[d].strict THEN "refused" ELSE "candidate"

\* The callback; verifyUncertifiedCert for a certificate no recorded CA signed.
Verdict(d, s) ==
  IF s.ca = NoCA THEN verifyPlain(d, s.key)
  ELSE IF s.ca \in Revoked(d) THEN "mismatch"
  ELSE IF s.ca \in dial[d].keptCAs /\ s.key \notin Revoked(d) THEN "accepted"
  ELSE IF dial[d].keptCAs # {} THEN "mismatch" ELSE verifyPlain(d, s.key)

VerifyHost_Records(d) ==
  /\ dial[d].at = "dialled"
  /\ \E s \in Shown(d) :
       IF Verdict(d, s) \in {"accepted", "candidate"}
         THEN /\ dial' = [dial EXCEPT ![d].at = "verified", ![d].shown = {s}]
              /\ known' = IF known = {} /\ s.ca = NoCA THEN {s.key} ELSE known
         ELSE Fail(d, "ended") /\ UNCHANGED known
  /\ UNCHANGED <<cas, revoked, torn, user, server, proven, rekeys, resets, tears>>

VerifyHost(d) ==
  /\ dial[d].at = "dialled"
  /\ \E s \in Shown(d) :
       CASE Verdict(d, s) = "accepted"  -> dial' = [dial EXCEPT ![d].at = "verified", ![d].shown = {s}]
         [] Verdict(d, s) = "candidate" -> dial' = [dial EXCEPT ![d].at = "verified", ![d].shown = {s},
                                                                ![d].candidate = {s.key}]
         [] Verdict(d, s) = "mismatch"  -> Fail(d, "mismatch")
         [] OTHER                       -> Fail(d, "ended")
  /\ UNCHANGED <<fileVars, server, proven, rekeys, resets, tears>>

\* The user is authenticated.
AuthenticateDial(d) ==
  /\ dial[d].at = "verified"
  /\ Goto(d, "authenticated")
  /\ proven' = IF dial[d].gui THEN proven \union {s.key : s \in dial[d].shown} ELSE proven
  /\ UNCHANGED <<fileVars, server, rekeys, resets, tears>>

\* The dial fails, runs into its deadline or is cancelled.
Broken(d) ==
  /\ dial[d].at \in {"authReady", "verifier", "dialled", "verified"}
  /\ Fail(d, "ended")
  /\ UNCHANGED <<fileVars, server, proven, rekeys, resets, tears>>

\* recordHostKey: the file is read again under its lock; a key another dial
\* recorded in between must be the same.
Recordable_Blind(key) == TRUE
Recordable(key) == known = {} /\ cas = {}

Opened(d) == dial' = [dial EXCEPT ![d].at = "open", ![d].candidate = {}]

\* Commit, after authentication: nothing pending, recorded already, recorded
\* now, or an error that closes the client.
Commit(d) ==
  /\ dial[d].at = "authenticated"
  /\ \/ /\ dial[d].candidate \subseteq known
        /\ Opened(d)
        /\ UNCHANGED <<fileVars, tears>>
     \/ \E k \in dial[d].candidate \ known :
          CASE torn                   -> Fail(d, "ended") /\ UNCHANGED <<fileVars, tears>>
            [] ~torn /\ ~Recordable(k) -> Fail(d, "mismatch") /\ UNCHANGED <<fileVars, tears>>
            [] OTHER ->
                 \/ /\ known' = known \union {k}
                    /\ Opened(d)
                    /\ UNCHANGED <<cas, revoked, torn, user, tears>>
                 \/ /\ tears < TornWrites
                    /\ tears' = tears + 1
                    /\ torn' = TRUE
                    /\ Fail(d, "ended")
                    /\ UNCHANGED <<known, cas, revoked, user>>
  /\ UNCHANGED <<server, proven, rekeys, resets>>

-----------------------------------------------------------------------------
(* With the client.                                                          *)

\* A connection test closes it; a command opens a session first: newSessionContext
\* gives the server the connect timeout and closes the client if it stays silent.
OpenSession(d) ==
  /\ dial[d].at = "open" /\ ~dial[d].gui
  /\ \/ ~dial[d].cancelled /\ Goto(d, "session")
     \/ Fail(d, "ended")
  /\ UNCHANGED <<fileVars, server, proven, rekeys, resets, tears>>

\* A cancel that came before must not start the command.
RunCommand(d) ==
  /\ dial[d].at = "session"
  /\ IF dial[d].cancelled THEN Fail(d, "ended") ELSE Goto(d, "running")
  /\ UNCHANGED <<fileVars, server, proven, rekeys, resets, tears>>

Cancel(d) ==
  /\ dial[d].at \in {"open", "session", "running"} /\ ~dial[d].gui /\ ~dial[d].cancelled
  /\ dial' = [dial EXCEPT ![d].cancelled = TRUE]
  /\ UNCHANGED <<fileVars, server, proven, rekeys, resets, tears>>

\* The command ends or is killed, or the test is over: everything is closed.
Close(d) ==
  /\ dial[d].at = "running" \/ (dial[d].at = "open" /\ dial[d].gui)
  /\ Fail(d, "ended")
  /\ UNCHANGED <<fileVars, server, proven, rekeys, resets, tears>>

-----------------------------------------------------------------------------
(* The file and the world.                                                   *)

\* ResetHostKey: the file is rewritten without the address's keys; marker lines
\* and a line that does not parse are kept.
removeHostKeys ==
  /\ known # {} /\ resets < Resets
  /\ known' = {}
  /\ resets' = resets + 1
  /\ UNCHANGED <<cas, revoked, torn, user, server, dial, proven, rekeys, tears>>

\* Another machine, or the same with new keys, answers at the address.
Rekey ==
  /\ rekeys < Rekeys
  /\ server' \in Servers \ {server}
  /\ rekeys' = rekeys + 1
  /\ UNCHANGED <<fileVars, dial, proven, resets, tears>>

DialNext(d) ==
  \/ \E gui, strict \in BOOLEAN : Begin(d, gui, strict)
  \/ authMethods(d) \/ newHostKeyVerifier(d) \/ DialTCP(d) \/ VerifyHost(d)
  \/ AuthenticateDial(d) \/ Broken(d) \/ Commit(d)
  \/ OpenSession(d) \/ RunCommand(d) \/ Cancel(d) \/ Close(d)

HostKeysNext == (\E d \in Dials : DialNext(d)) \/ removeHostKeys \/ Rekey

HostKeysSpec == HostKeysInit /\ [][HostKeysNext]_hostKeysVars

-----------------------------------------------------------------------------
(* Properties                                                                *)

\* However dials overlap, the address never has two keys on record: the second
\* of two first dials that met different keys fails (Commit's check under the
\* lock), it does not add its key.
OneKeyOnRecord == Cardinality(known) <= 1

\* Nothing gets on record that no GUI dial has authenticated with: a machine
\* that merely answers at the address is never trusted.
TrustFollowsAuthentication == known \subseteq proven

\* Nothing the server can show is revoked in the files the dial reads.
NothingRevoked(d) == \A s \in server : s.key \notin Revoked(d) /\ s.ca \notin Revoked(d)

\* Having keys of types that are not on record never makes a host a mismatch,
\* however dials, resets and changes of the host interleave: where no CA line
\* and no revocation is involved, a mismatch means that the host has changed the
\* key of a type that is on record.  Outside strict mode it means more, that the
\* host no longer has the recorded key; with the several recorded keys of
\* ~/.ssh/known_hosts, changing one of them is enough.
NoFalseMismatch ==
  [][\A d \in Dials :
       (dial'[d].at = "mismatch" /\ dial[d].at = "dialled" /\ dial[d].keptCAs = {}
          /\ NothingRevoked(d)) =>
          /\ \E s \in server : /\ s.key \notin dial[d].kept
                               /\ \E k \in dial[d].kept : k.type = s.key.type
          /\ ~dial[d].strict => \A s \in server : s.ca = NoCA => s.key \notin dial[d].kept
    ]_hostKeysVars
=============================================================================
