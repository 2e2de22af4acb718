---------------------------- MODULE PolicyProofs ----------------------------
(***************************************************************************)
(* Nobody skips the human on another agent's grant, and a restart decides  *)
(* as the running process does: for any number of agents, tokens, calls,   *)
(* failing writes and crashes.  The last section is about the other        *)
(* standing permission, the host keys that were trusted once.              *)
(***************************************************************************)
EXTENDS AgentPolicies, HostKeys, FiniteSetTheorems, TLAPS

Policies == [on : BOOLEAN, maxRisk : Risks \cup {NoRisk}, until : Nat]
TokenRows == [hash : Tokens \cup {None}, bypass : BOOLEAN]
Holders == [op : {"free", "policy", "token", "flag", "grant", "sweep"}, agent : Agents \cup {None},
            policy : Policies, token : TokenRows, at : Nat, then : {"free", "flag", "grant"}]
Decided == {"covered", "ordinary", "bypass"}
CallStates == [pc : {"idle", "named"} \cup Decided, agent : Agents \cup {None},
               hash : Tokens \cup {None}, cmd : Commands \cup {None}]

Typed ==
    /\ memPolicy \in [Agents -> Policies]
    /\ dbPolicy \in [Agents -> Policies]
    /\ memToken \in [Agents -> TokenRows]
    /\ dbToken \in [Agents -> TokenRows]
    /\ issued \in [Tokens -> Agents \cup {None}]
    /\ now \in Nat
    /\ up \in BOOLEAN
    /\ call \in [Calls -> CallStates]

(* Who holds policyMu belongs to a process that runs, works for an agent   *)
(* unless it sweeps, and sweeps as of a time that has been.                *)
HolderFits ==
    /\ mutex \in Holders
    /\ mutex.op # "free" => up
    /\ mutex.op \notin {"free", "sweep"} => mutex.agent \in Agents
    /\ mutex.at <= now

(* A row and what memory says decide alike: neither grants anything now,   *)
(* or they are the same grant.                                             *)
Alike(p, q) == p = q \/ (~policyActiveAt(p) /\ ~policyActiveAt(q))

MemoryFollows ==
    up => \A a \in Agents :
             ComingToken(a) = dbToken[a] /\ Alike(ComingPolicy(a), dbPolicy[a])

(* A token is filed under the agent it was generated for.                  *)
FiledRight(token) ==
    \A a \in Agents : token[a].hash # None => issued[token[a].hash] = a

TokensAreOwn == FiledRight(memToken) /\ FiledRight(dbToken)

(* A call that presented a token is the token's agent.                     *)
CallsAreOwn ==
    \A h \in Calls :
        /\ call[h].pc # "idle" => call[h].agent \in Agents
        /\ call[h].pc # "idle" /\ call[h].hash # None => issued[call[h].hash] = call[h].agent
        /\ call[h].pc \in Decided => call[h].hash # None

PolicyInv == Typed /\ HolderFits /\ MemoryFollows /\ TokensAreOwn /\ CallsAreOwn

-----------------------------------------------------------------------------
LEMMA NoTokenRow == NoToken \in TokenRows /\ NoToken.hash = None
BY DEF NoToken, TokenRows

LEMMA NoPolicyRow == NoPolicy \in Policies
BY DEF NoPolicy, Policies

LEMMA FreeHolder == Free \in Holders /\ Free.op = "free" /\ Free.at = 0
BY NoTokenRow, NoPolicyRow DEF Free, Holders

LEMMA PolicyInit == Init => PolicyInv
<1> SUFFICES ASSUME Init PROVE PolicyInv
  OBVIOUS
<1>1. Typed /\ TokensAreOwn /\ CallsAreOwn
  BY NoTokenRow, NoPolicyRow, PolicyConstants DEF Init, Typed, TokensAreOwn, FiledRight,
     CallsAreOwn, CallStates, Decided, IdleCall
<1>2. HolderFits /\ MemoryFollows
  BY FreeHolder DEF Init, HolderFits, MemoryFollows, Alike, ComingToken, ComingPolicy
<1> QED
  BY <1>1, <1>2 DEF PolicyInv

(* A step that stores a grant.                                             *)
LEMMA GrantStep ==
    ASSUME PolicyInv, up, NEW a \in Agents, NEW p \in Policies, NEW then \in {"free", "flag"},
           SavePolicy(a, p, then), mutex.op \notin {"policy", "token"},
           UNCHANGED <<memory, dbToken, issued, now, up, call>>
    PROVE  PolicyInv'
<1> DEFINE q == IF p.on THEN p ELSE [p EXCEPT !.until = 0]
           m == [Free EXCEPT !.op = "policy", !.agent = a, !.policy = p, !.then = then]
<1>1. q \in Policies /\ (p = q \/ (~p.on /\ ~q.on))
  BY DEF Policies
<1>2. m \in Holders /\ m.op = "policy" /\ m.agent = a /\ m.at = 0 /\ m.policy = p
  BY FreeHolder DEF Holders
<1>3. dbPolicy' = [dbPolicy EXCEPT ![a] = q] /\ mutex' = m
  BY DEF SavePolicy
<1> HIDE DEF q, m
<1>4. Typed' /\ HolderFits'
  BY <1>1, <1>2, <1>3 DEF PolicyInv, Typed, HolderFits, memory
<1>5. MemoryFollows'
  <2> SUFFICES ASSUME NEW b \in Agents
               PROVE  (ComingToken(b) = dbToken[b])' /\ Alike(ComingPolicy(b), dbPolicy[b])'
    BY DEF MemoryFollows
  <2>1. ComingToken(b)' = memToken[b] /\ memToken[b] = dbToken[b]
    BY <1>2, <1>3 DEF ComingToken, memory, PolicyInv, MemoryFollows
  <2>2. CASE b = a
    <3>1. ComingPolicy(b)' = p /\ dbPolicy'[b] = q
      BY <1>2, <1>3, <2>2 DEF ComingPolicy, PolicyInv, Typed
    <3> QED
      BY <1>1, <2>1, <3>1 DEF Alike, policyActiveAt
  <2>3. CASE b # a
    <3>1. ComingPolicy(b)' = memPolicy[b] /\ ComingPolicy(b) = memPolicy[b] /\ dbPolicy'[b] = dbPolicy[b]
      BY <1>2, <1>3, <2>3 DEF ComingPolicy, PolicyInv, Typed, memory
    <3> QED
      BY <2>1, <3>1 DEF PolicyInv, MemoryFollows, Alike, policyActiveAt
  <2> QED
    BY <2>2, <2>3
<1>6. TokensAreOwn' /\ CallsAreOwn'
  BY DEF PolicyInv, TokensAreOwn, FiledRight, CallsAreOwn, memory
<1> QED
  BY <1>4, <1>5, <1>6 DEF PolicyInv

(* A step that stores one agent's token; issued may grow by that token.    *)
LEMMA TokenStep ==
    ASSUME PolicyInv, up, NEW a \in Agents, NEW t \in TokenRows, NEW then \in {"free", "grant"},
           SaveToken(a, t, then), mutex.op \notin {"policy", "token"},
           issued' \in [Tokens -> Agents \cup {None}],
           t.hash # None => issued'[t.hash] = a,
           \A k \in Tokens : issued[k] # None => issued'[k] = issued[k],
           UNCHANGED <<memory, dbPolicy, now, up, call>>
    PROVE  PolicyInv'
<1> DEFINE m == [Free EXCEPT !.op = "token", !.agent = a, !.token = t, !.then = then]
<1>1. m \in Holders /\ m.op = "token" /\ m.agent = a /\ m.at = 0 /\ m.token = t
  BY FreeHolder DEF Holders
<1>2. dbToken' = [dbToken EXCEPT ![a] = t] /\ mutex' = m
  BY DEF SaveToken
<1> HIDE DEF m
<1>3. Typed' /\ HolderFits'
  BY <1>1, <1>2 DEF PolicyInv, Typed, HolderFits, memory
<1>4. MemoryFollows'
  <2> SUFFICES ASSUME NEW b \in Agents
               PROVE  (ComingToken(b) = dbToken[b])' /\ Alike(ComingPolicy(b), dbPolicy[b])'
    BY DEF MemoryFollows
  <2>1. ComingPolicy(b)' = memPolicy[b] /\ ComingPolicy(b) = memPolicy[b]
    BY <1>1, <1>2 DEF ComingPolicy, memory
  <2>2. ComingToken(b)' = dbToken'[b]
    BY <1>1, <1>2 DEF ComingToken, memory, PolicyInv, Typed, MemoryFollows
  <2> QED
    BY <2>1, <2>2 DEF PolicyInv, MemoryFollows, Alike, policyActiveAt
<1>5. ASSUME NEW b \in Agents, NEW r \in TokenRows, r.hash # None, issued[r.hash] = b
      PROVE  issued'[r.hash] = b
  <2>1. r.hash \in Tokens /\ b # None
    BY <1>5, PolicyConstants DEF TokenRows
  <2> QED
    BY <1>5, <2>1
<1>6. TokensAreOwn'
  <2>1. ASSUME NEW b \in Agents, memToken[b].hash # None PROVE issued'[memToken[b].hash] = b
    BY <1>5, <2>1 DEF PolicyInv, Typed, TokensAreOwn, FiledRight
  <2>2. ASSUME NEW b \in Agents, dbToken'[b].hash # None PROVE issued'[dbToken'[b].hash] = b
    <3>1. CASE b = a
      BY <1>2, <2>2, <3>1 DEF PolicyInv, Typed
    <3>2. CASE b # a
      BY <1>2, <1>5, <2>2, <3>2 DEF PolicyInv, Typed, TokensAreOwn, FiledRight
    <3> QED
      BY <3>1, <3>2
  <2> QED
    BY <2>1, <2>2 DEF TokensAreOwn, FiledRight, memory
<1>7. CallsAreOwn'
  <2> SUFFICES ASSUME NEW h \in Calls, call[h].pc # "idle", call[h].hash # None
               PROVE  issued'[call[h].hash] = call[h].agent
    BY DEF PolicyInv, CallsAreOwn
  <2>1. call[h].hash \in Tokens /\ call[h].agent # None /\ issued[call[h].hash] = call[h].agent
    BY PolicyConstants DEF PolicyInv, Typed, CallStates, CallsAreOwn
  <2> QED
    BY <2>1
<1> QED
  BY <1>3, <1>4, <1>6, <1>7 DEF PolicyInv

(* A step of one call.                                                     *)
LEMMA CallStep ==
    ASSUME PolicyInv, NEW h \in Calls, NEW c \in CallStates,
           call' = [call EXCEPT ![h] = c],
           c.pc # "idle" => c.agent \in Agents,
           c.pc # "idle" /\ c.hash # None => issued[c.hash] = c.agent,
           c.pc \in Decided => c.hash # None,
           UNCHANGED <<stored, memory, issued, mutex, now, up>>
    PROVE  PolicyInv'
<1>1. Typed' /\ HolderFits' /\ MemoryFollows' /\ TokensAreOwn'
  BY DEF PolicyInv, Typed, HolderFits, MemoryFollows, TokensAreOwn, FiledRight, stored, memory,
     ComingToken, ComingPolicy, Alike, policyActiveAt
<1>2. CallsAreOwn'
  BY DEF PolicyInv, Typed, CallsAreOwn
<1> QED
  BY <1>1, <1>2 DEF PolicyInv

LEMMA IdleIsACall == IdleCall \in CallStates /\ IdleCall.pc = "idle"
BY DEF IdleCall, CallStates

(* The holder ends, or goes on to something that publishes nothing.        *)
LEMMA HolderStep ==
    ASSUME PolicyInv, mutex' = Free, mutex.op \notin {"policy", "token"},
           UNCHANGED <<stored, memory, issued, now, up, call>>
    PROVE  PolicyInv'
<1>1. HolderFits' /\ MemoryFollows'
  BY FreeHolder DEF PolicyInv, Typed, HolderFits, MemoryFollows, ComingToken, ComingPolicy, Alike,
     policyActiveAt, stored, memory
<1> QED
  BY <1>1 DEF PolicyInv, Typed, TokensAreOwn, FiledRight, CallsAreOwn, stored, memory

LEMMA GoesOnFits ==
    ASSUME PolicyInv, mutex.op \in {"policy", "token"}
    PROVE  /\ GoesOn \in Holders /\ GoesOn.op \in {"free", "flag", "grant"} /\ GoesOn.at <= now
           /\ GoesOn.op # "free" => GoesOn.agent \in Agents
BY FreeHolder DEF PolicyInv, HolderFits, Typed, GoesOn, Holders

-----------------------------------------------------------------------------
LEMMA PublishPolicyKeeps ==
    ASSUME PolicyInv, PublishPolicy PROVE PolicyInv'
<1>1. mutex.agent \in Agents /\ mutex.policy \in Policies /\ up
  BY DEF PublishPolicy, PolicyInv, HolderFits, Holders
<1>2. HolderFits' /\ Typed'
  BY <1>1, GoesOnFits DEF PublishPolicy, PolicyInv, HolderFits, Typed, stored
<1>3. MemoryFollows'
  <2> SUFFICES ASSUME NEW b \in Agents
               PROVE  (ComingToken(b) = dbToken[b])' /\ Alike(ComingPolicy(b), dbPolicy[b])'
    BY DEF MemoryFollows, PublishPolicy, stored
  <2>1. ComingToken(b)' = ComingToken(b) /\ ComingPolicy(b)' = ComingPolicy(b)
    BY <1>1, GoesOnFits DEF PublishPolicy, PolicyInv, Typed, ComingToken, ComingPolicy
  <2> QED
    BY <1>1, <2>1 DEF PublishPolicy, stored, PolicyInv, MemoryFollows, Alike, policyActiveAt
<1> QED
  BY <1>2, <1>3 DEF PublishPolicy, stored, PolicyInv, TokensAreOwn, FiledRight, CallsAreOwn

LEMMA PublishTokenKeeps ==
    ASSUME PolicyInv, PublishToken PROVE PolicyInv'
<1>1. mutex.agent \in Agents /\ mutex.token \in TokenRows /\ up
  BY DEF PublishToken, PolicyInv, HolderFits, Holders
<1>2. HolderFits' /\ Typed'
  BY <1>1, GoesOnFits DEF PublishToken, PolicyInv, HolderFits, Typed, stored
<1>3. \A b \in Agents : /\ ComingToken(b)' = ComingToken(b) /\ ComingPolicy(b)' = ComingPolicy(b)
                        /\ memToken'[b] = ComingToken(b)
  BY <1>1, GoesOnFits DEF PublishToken, PolicyInv, Typed, ComingToken, ComingPolicy
<1>4. MemoryFollows'
  BY <1>1, <1>3 DEF PublishToken, stored, PolicyInv, MemoryFollows, Alike, policyActiveAt
<1>5. \A b \in Agents : memToken'[b] = dbToken[b]
  BY <1>1, <1>3 DEF PolicyInv, MemoryFollows
<1>6. TokensAreOwn'
  BY <1>5 DEF PublishToken, stored, PolicyInv, TokensAreOwn, FiledRight
<1> QED
  BY <1>2, <1>4, <1>6 DEF PublishToken, PolicyInv, CallsAreOwn

LEMMA GrantKeeps ==
    ASSUME PolicyInv, NEW a \in Agents, Grant(a) PROVE PolicyInv'
<1>1. [on |-> TRUE, maxRisk |-> Medium, until |-> now + TTL] \in Policies
  BY PolicyConstants DEF PolicyInv, Typed, Policies, Risks
<1> QED
  BY <1>1, GrantStep DEF Grant, PolicyOthers, Admin

LEMMA OffIsAPolicy ==
    ASSUME NEW p \in Policies PROVE [p EXCEPT !.on = FALSE] \in Policies
BY DEF Policies

LEMMA RevokeKeeps ==
    ASSUME PolicyInv, NEW a \in Agents, Revoke(a) PROVE PolicyInv'
<1>1. memPolicy[a] \in Policies
  BY DEF PolicyInv, Typed
<1> QED
  BY <1>1, OffIsAPolicy, GrantStep DEF Revoke, PolicyOthers, Admin

LEMMA SetTokenBypassKeeps ==
    ASSUME PolicyInv, NEW ok \in BOOLEAN, SetTokenBypass(ok) PROVE PolicyInv'
<1> DEFINE a == mutex.agent
           t == [memToken[a] EXCEPT !.bypass = mutex.policy.on]
<1>1. a \in Agents /\ mutex.policy.on \in BOOLEAN /\ up /\ mutex.op = "flag"
  BY DEF PolicyInv, HolderFits, Holders, Policies, SetTokenBypass
<1>2. t \in TokenRows /\ t.hash = memToken[a].hash
  BY <1>1 DEF PolicyInv, Typed, TokenRows
<1>3. t.hash # None => issued[t.hash] = a
  BY <1>1, <1>2 DEF PolicyInv, TokensAreOwn, FiledRight
<1>4. UNCHANGED <<memory, dbPolicy, now, up, call>> /\ UNCHANGED issued
  BY DEF SetTokenBypass, TokenOthers
<1>5. CASE SaveToken(a, t, "free")
  <2> HIDE DEF a, t
  <2> QED
    BY <1>1, <1>2, <1>3, <1>4, <1>5, TokenStep DEF PolicyInv, Typed
<1>6. CASE mutex' = Free /\ UNCHANGED dbToken
  BY <1>1, <1>4, <1>6, HolderStep DEF stored
<1> QED
  BY <1>5, <1>6 DEF SetTokenBypass

LEMMA MaxRiskKeeps ==
    ASSUME PolicyInv, NEW a \in Agents, NEW risk \in Risks, SetAgentBypassMaxRisk(a, risk)
    PROVE  PolicyInv'
<1>1. [memPolicy[a] EXCEPT !.maxRisk = risk] \in Policies
  BY DEF PolicyInv, Typed, Policies
<1> QED
  BY <1>1, GrantStep DEF SetAgentBypassMaxRisk, PolicyOthers, Admin

(* A new token was nobody's: no row and no call has it yet.                *)
LEMMA IssueKeeps ==
    ASSUME PolicyInv, NEW a \in Agents, NEW t \in Tokens,
           NEW choice \in {"default", "yes", "no"}, IssueAgentToken(a, t, choice)
    PROVE  PolicyInv'
<1> DEFINE allow == IF choice = "default" THEN policyActiveAt(memPolicy[a]) ELSE choice = "yes"
           new == [hash |-> t, bypass |-> allow]
<1>1. allow \in BOOLEAN
  BY DEF PolicyInv, Typed, Policies, policyActiveAt
<1>2. new \in TokenRows /\ new.hash = t
  BY <1>1 DEF TokenRows
<1>3. /\ SaveToken(a, new, "free") /\ issued[t] = None /\ issued' = [issued EXCEPT ![t] = a]
      /\ UNCHANGED <<memory, dbPolicy, now, up, call>> /\ up /\ mutex.op = "free"
  BY DEF IssueAgentToken, TokenOthers, Admin
<1> HIDE DEF new
<1>4. /\ issued' \in [Tokens -> Agents \cup {None}] /\ issued'[t] = a
      /\ \A k \in Tokens : issued[k] # None => issued'[k] = issued[k]
  BY <1>3 DEF PolicyInv, Typed
<1> QED
  BY <1>2, <1>3, <1>4, TokenStep

LEMMA RevokeTokenKeeps ==
    ASSUME PolicyInv, NEW a \in Agents, RevokeAgentToken(a) PROVE PolicyInv'
<1>1. /\ SaveToken(a, NoToken, "grant") /\ UNCHANGED <<memory, dbPolicy, now, up, call>>
      /\ UNCHANGED issued /\ up /\ mutex.op = "free"
  BY DEF RevokeAgentToken, TokenOthers, Admin
<1> QED
  BY <1>1, NoTokenRow, TokenStep DEF PolicyInv, Typed

LEMMA RevokeTokenGrantKeeps ==
    ASSUME PolicyInv, NEW ok \in BOOLEAN, RevokeTokenGrant(ok) PROVE PolicyInv'
<1> DEFINE a == mutex.agent
           p == [memPolicy[a] EXCEPT !.on = FALSE]
<1>1. a \in Agents /\ up /\ mutex.op = "grant"
  BY DEF PolicyInv, HolderFits, Holders, RevokeTokenGrant
<1>2. p \in Policies
  <2>1. memPolicy[a] \in Policies
    BY <1>1 DEF PolicyInv, Typed
  <2> QED
    BY <2>1, OffIsAPolicy
<1>3. UNCHANGED <<memory, dbToken, issued, now, up, call>>
  BY DEF RevokeTokenGrant
<1>4. CASE SavePolicy(a, p, "flag")
  <2> HIDE DEF a, p
  <2> QED
    BY <1>1, <1>2, <1>3, <1>4, GrantStep
<1>5. CASE mutex' = Free /\ UNCHANGED dbPolicy
  BY <1>1, <1>3, <1>5, HolderStep DEF stored
<1> QED
  BY <1>4, <1>5 DEF RevokeTokenGrant

(* What a sweep switches off grants nothing any more.                      *)
LEMMA SweptAlike ==
    ASSUME now \in Nat, NEW p \in Policies, NEW t \in Nat, t <= now
    PROVE  SwitchOff(p, t) \in Policies /\ Alike(p, SwitchOff(p, t))
<1>1. CASE p.on /\ p.until <= t
  <2>1. ~policyActiveAt(p)
    BY <1>1 DEF policyActiveAt, Policies
  <2>2. SwitchOff(p, t) = [p EXCEPT !.on = FALSE] /\ ~[p EXCEPT !.on = FALSE].on
    BY <1>1 DEF SwitchOff, Lapsed, Policies
  <2> QED
    BY <2>1, <2>2, OffIsAPolicy DEF Alike, policyActiveAt
<1>2. CASE ~(p.on /\ p.until <= t)
  BY <1>2 DEF SwitchOff, Lapsed, Alike
<1> QED
  BY <1>1, <1>2

LEMMA AlikeJoins ==
    ASSUME NEW p, NEW q, NEW r, Alike(p, q), Alike(q, r)
    PROVE  Alike(q, p) /\ Alike(p, r)
BY DEF Alike

LEMMA ExpireKeeps ==
    ASSUME PolicyInv, ExpireAgentPolicies PROVE PolicyInv'
<1> DEFINE m == [Free EXCEPT !.op = "sweep", !.at = now]
<1>1. m \in Holders /\ m.op = "sweep" /\ m.at = now /\ now \in Nat
  BY NoTokenRow, NoPolicyRow DEF Free, Holders, PolicyInv, Typed
<1>2. /\ mutex' = m /\ dbPolicy' = [a \in Agents |-> SwitchOff(dbPolicy[a], now)]
      /\ UNCHANGED PolicyOthers /\ up /\ mutex.op = "free"
  BY DEF ExpireAgentPolicies, Admin
<1> HIDE DEF m
<1>3. \A a \in Agents : SwitchOff(dbPolicy[a], now) \in Policies
                        /\ Alike(dbPolicy[a], SwitchOff(dbPolicy[a], now))
  BY <1>1, SweptAlike DEF PolicyInv, Typed
<1>4. Typed' /\ HolderFits'
  BY <1>1, <1>2, <1>3 DEF PolicyOthers, memory, PolicyInv, Typed, HolderFits
<1>5. MemoryFollows'
  <2> SUFFICES ASSUME NEW b \in Agents
               PROVE  (ComingToken(b) = dbToken[b])' /\ Alike(ComingPolicy(b), dbPolicy[b])'
    BY <1>2 DEF MemoryFollows, PolicyOthers
  <2>1. /\ ComingToken(b)' = ComingToken(b) /\ ComingPolicy(b)' = ComingPolicy(b)
        /\ ComingToken(b) = dbToken[b] /\ Alike(ComingPolicy(b), dbPolicy[b])
    BY <1>1, <1>2 DEF ComingToken, ComingPolicy, PolicyOthers, memory, PolicyInv, MemoryFollows
  <2>2. dbPolicy'[b] = SwitchOff(dbPolicy[b], now)
    BY <1>2
  <2>3. Alike(ComingPolicy(b), SwitchOff(dbPolicy[b], now))
    BY <1>3, <2>1, AlikeJoins
  <2> QED
    BY <1>2, <2>1, <2>2, <2>3 DEF Alike, policyActiveAt, PolicyOthers
<1> QED
  BY <1>2, <1>4, <1>5 DEF PolicyOthers, memory, PolicyInv, TokensAreOwn, FiledRight, CallsAreOwn

LEMMA ExpireInMemoryKeeps ==
    ASSUME PolicyInv, ExpireInMemory PROVE PolicyInv'
<1>1. mutex.at \in Nat /\ mutex.at <= now /\ up /\ now \in Nat /\ mutex.op = "sweep"
  BY DEF ExpireInMemory, PolicyInv, Typed, HolderFits, Holders
<1>2. \A a \in Agents : SwitchOff(memPolicy[a], mutex.at) \in Policies
                        /\ Alike(memPolicy[a], SwitchOff(memPolicy[a], mutex.at))
  BY <1>1, SweptAlike DEF PolicyInv, Typed
<1>3. Typed' /\ HolderFits'
  BY <1>1, <1>2, FreeHolder DEF ExpireInMemory, stored, PolicyInv, Typed, HolderFits
<1>4. MemoryFollows'
  <2> SUFFICES ASSUME NEW b \in Agents
               PROVE  (ComingToken(b) = dbToken[b])' /\ Alike(ComingPolicy(b), dbPolicy[b])'
    BY DEF MemoryFollows, ExpireInMemory, stored
  <2>1. /\ ComingToken(b)' = memToken[b] /\ ComingPolicy(b)' = SwitchOff(memPolicy[b], mutex.at)
        /\ memToken[b] = dbToken[b] /\ Alike(memPolicy[b], dbPolicy[b])
    BY <1>1, FreeHolder DEF ExpireInMemory, ComingToken, ComingPolicy, PolicyInv, MemoryFollows
  <2>2. Alike(SwitchOff(memPolicy[b], mutex.at), memPolicy[b])
    BY <1>2 DEF Alike
  <2>3. Alike(SwitchOff(memPolicy[b], mutex.at), dbPolicy[b])
    BY <2>1, <2>2, AlikeJoins
  <2> QED
    BY <2>1, <2>3 DEF ExpireInMemory, stored, Alike, policyActiveAt
<1> QED
  BY <1>3, <1>4 DEF ExpireInMemory, stored, PolicyInv, TokensAreOwn, FiledRight, CallsAreOwn

LEMMA AuthenticateKeeps ==
    ASSUME PolicyInv, NEW h \in Calls, NEW a \in Agents, NEW hash \in Tokens \cup {None},
           NEW cmd \in Commands, Authenticate(h, a, hash, cmd)
    PROVE  PolicyInv'
<1> DEFINE c == [pc |-> "named", agent |-> a, hash |-> hash, cmd |-> cmd]
<1>1. c \in CallStates /\ c.pc = "named" /\ c.agent = a /\ c.hash = hash
  BY DEF CallStates
<1>2. hash # None => issued[hash] = a
  BY DEF Authenticate, PolicyInv, TokensAreOwn, FiledRight
<1>3. call' = [call EXCEPT ![h] = c] /\ UNCHANGED <<stored, memory, issued, mutex, now, up>>
  BY DEF Authenticate
<1> HIDE DEF c
<1> QED
  BY <1>1, <1>2, <1>3, CallStep DEF Decided

LEMMA QueueKeeps ==
    ASSUME PolicyInv, NEW h \in Calls, Queue(h), UNCHANGED CallOthers PROVE PolicyInv'
BY IdleIsACall, CallStep DEF Queue, CallOthers, Decided

(* A call goes on with what it presented.                                  *)
LEMMA GoOnKeeps ==
    ASSUME PolicyInv, NEW h \in Calls, NEW l \in Decided, GoOn(h, l), UNCHANGED CallOthers,
           call[h].pc # "idle", call[h].hash # None
    PROVE  PolicyInv'
<1> DEFINE c == [call[h] EXCEPT !.pc = l]
<1>1. c \in CallStates /\ c.hash = call[h].hash /\ c.agent = call[h].agent
  BY DEF PolicyInv, Typed, CallStates
<1>2. call' = [call EXCEPT ![h] = c] /\ UNCHANGED <<stored, memory, issued, mutex, now, up>>
  BY DEF GoOn, CallOthers
<1>3. call[h].agent \in Agents /\ issued[call[h].hash] = call[h].agent
  BY DEF PolicyInv, CallsAreOwn
<1> HIDE DEF c
<1> QED
  BY <1>1, <1>2, <1>3, CallStep

LEMMA DecisionKeeps ==
    ASSUME PolicyInv, NEW h \in Calls,
           CheckCovers(h) \/ CheckForced(h) \/ CheckSwitches(h) \/ RunBypassed(h)
    PROVE  PolicyInv'
<1>1. CASE CheckCovers(h)
  BY <1>1, QueueKeeps, GoOnKeeps DEF CheckCovers, GrantCovers, Decided
<1>2. CASE CheckForced(h)
  <2>1. call[h].hash # None
    BY <1>2 DEF CheckForced, PolicyInv, CallsAreOwn, Decided
  <2> QED
    BY <1>2, <2>1, GoOnKeeps DEF CheckForced, Decided
<1>3. CASE CheckSwitches(h)
  <2>1. call[h].hash # None
    BY <1>3 DEF CheckSwitches, PolicyInv, CallsAreOwn, Decided
  <2> QED
    BY <1>3, <2>1, QueueKeeps, GoOnKeeps DEF CheckSwitches, Decided
<1>4. CASE RunBypassed(h)
  BY <1>4, QueueKeeps DEF RunBypassed
<1> QED
  BY <1>1, <1>2, <1>3, <1>4

LEMMA CrashKeeps ==
    ASSUME PolicyInv, Crash PROVE PolicyInv'
<1>1. Typed'
  BY NoPolicyRow, NoTokenRow, IdleIsACall DEF Crash, stored, PolicyInv, Typed
<1>3. HolderFits'
  BY FreeHolder DEF Crash, PolicyInv, Typed, HolderFits
<1>2. TokensAreOwn' /\ CallsAreOwn'
  BY NoTokenRow, IdleIsACall DEF Crash, stored, PolicyInv, TokensAreOwn, FiledRight, CallsAreOwn,
     Decided
<1> QED
  BY <1>1, <1>2, <1>3 DEF Crash, PolicyInv, MemoryFollows

LEMMA NewAppKeeps ==
    ASSUME PolicyInv, NEW ok \in BOOLEAN, NewApp(ok) PROVE PolicyInv'
<1>1. \A a \in Agents : SwitchOff(dbPolicy[a], now) \in Policies
  BY SweptAlike DEF PolicyInv, Typed
<1>2. Typed' /\ HolderFits'
  BY <1>1 DEF NewApp, PolicyInv, Typed, HolderFits
<1>3. mutex.op = "free" /\ memPolicy' = dbPolicy' /\ memToken' = dbToken' /\ UNCHANGED mutex
  BY DEF NewApp, PolicyInv, HolderFits
<1>4. MemoryFollows'
  BY <1>3 DEF MemoryFollows, ComingToken, ComingPolicy, Alike
<1>5. TokensAreOwn' /\ CallsAreOwn'
  BY DEF NewApp, PolicyInv, TokensAreOwn, FiledRight, CallsAreOwn
<1> QED
  BY <1>2, <1>4, <1>5 DEF PolicyInv

(* What grants nothing grants nothing later.                               *)
LEMMA TickKeeps ==
    ASSUME PolicyInv, Tick PROVE PolicyInv'
<1>1. now \in Nat /\ now' = now + 1 /\ UNCHANGED <<stored, memory, issued, mutex, up, call>>
  BY DEF Tick, PolicyInv, Typed
<1>2. Typed' /\ HolderFits'
  BY <1>1 DEF stored, memory, PolicyInv, Typed, HolderFits, Holders
<1>3. ASSUME NEW a \in Agents PROVE ComingPolicy(a) \in Policies /\ dbPolicy[a] \in Policies
  BY DEF ComingPolicy, PolicyInv, Typed, HolderFits, Holders
<1>4. ASSUME NEW p \in Policies, ~policyActiveAt(p) PROVE ~policyActiveAt(p)'
  BY <1>1, <1>4 DEF policyActiveAt, Policies
<1>5. MemoryFollows'
  <2> SUFFICES ASSUME up, NEW a \in Agents
               PROVE  (ComingToken(a) = dbToken[a])' /\ Alike(ComingPolicy(a), dbPolicy[a])'
    BY <1>1 DEF MemoryFollows, stored
  <2>1. ComingToken(a)' = ComingToken(a) /\ ComingPolicy(a)' = ComingPolicy(a)
    BY <1>1 DEF ComingToken, ComingPolicy, memory
  <2>2. ComingToken(a) = dbToken[a] /\ Alike(ComingPolicy(a), dbPolicy[a])
    BY DEF PolicyInv, MemoryFollows
  <2>3. CASE ComingPolicy(a) = dbPolicy[a]
    BY <1>1, <2>1, <2>2, <2>3 DEF Alike, stored
  <2>4. CASE ~policyActiveAt(ComingPolicy(a)) /\ ~policyActiveAt(dbPolicy[a])
    <3>1. ~policyActiveAt(ComingPolicy(a))'
      BY <1>1, <1>3, <2>1, <2>4 DEF policyActiveAt, Policies
    <3>2. ~policyActiveAt(dbPolicy[a])'
      BY <1>1, <1>3, <2>4 DEF policyActiveAt, Policies, stored
    <3> QED
      BY <1>1, <2>1, <2>2, <3>1, <3>2 DEF Alike, stored
  <2> QED
    BY <2>2, <2>3, <2>4 DEF Alike
<1> QED
  BY <1>1, <1>2, <1>5 DEF stored, memory, PolicyInv, TokensAreOwn, FiledRight, CallsAreOwn

(* Nothing that the invariant speaks of changes.                           *)
LEMMA NothingKeeps ==
    ASSUME PolicyInv, UNCHANGED <<stored, memory, issued, mutex, now, up, call>> PROVE PolicyInv'
BY DEF stored, memory, PolicyInv, Typed, HolderFits, MemoryFollows, TokensAreOwn, FiledRight,
   CallsAreOwn, ComingToken, ComingPolicy, Alike, policyActiveAt

LEMMA PolicyStep == PolicyInv /\ [Next]_vars => PolicyInv'
<1> SUFFICES ASSUME PolicyInv, [Next]_vars PROVE PolicyInv'
  OBVIOUS
<1>1. CASE \E s \in SUBSET Switches : SaveMCPSettings(s)
  BY <1>1, NothingKeeps DEF SaveMCPSettings
<1>2. CASE UNCHANGED vars
  BY <1>2, NothingKeeps DEF vars
<1> QED
  BY <1>1, <1>2, GrantKeeps, RevokeKeeps, MaxRiskKeeps, IssueKeeps, RevokeTokenKeeps,
     SetTokenBypassKeeps, RevokeTokenGrantKeeps, PublishPolicyKeeps, PublishTokenKeeps,
     ExpireKeeps, ExpireInMemoryKeeps, AuthenticateKeeps, DecisionKeeps, TickKeeps,
     CrashKeeps, NewAppKeeps DEF Next

(* Grants, tokens and calls keep their types; while the process runs, row  *)
(* and copy decide alike once the holder of policyMu has published what it *)
(* stored; tokens and the calls that presented them belong to the agent    *)
(* they were generated for (saveAgentPolicy, issueAgentToken,              *)
(* authenticateMCP, NewApp).                                               *)
THEOREM PolicyInvHolds == Spec => []PolicyInv
BY PolicyInit, PolicyStep, PTL DEF Spec

(* Whoever skips the human presented a token issued to the agent whose     *)
(* grant it uses (needsHumanApproval), whatever is rotated or revoked      *)
(* between its looks.                                                      *)
THEOREM IdentityIsProved == Spec => []BypassProvesIdentity
<1>1. PolicyInv => BypassProvesIdentity
  BY DEF PolicyInv, CallsAreOwn, BypassProvesIdentity, Decided
<1> QED
  BY <1>1, PolicyInvHolds, PTL

(* Whenever the process dies, also between a row and its copy in memory,   *)
(* the tables decide as memory did or was about to (saveAgentPolicy,       *)
(* setAgentTokenBypassLocked, issueAgentToken, expireAgentPolicies).       *)
THEOREM RestartChangesNothing == Spec => []RestartDecidesTheSame
<1>1. PolicyInv => RestartDecidesTheSame
  BY DEF PolicyInv, MemoryFollows, Alike, RestartDecidesTheSame, agentBypassCovers, policyAllows
<1> QED
  BY <1>1, PolicyInvHolds, PTL

-----------------------------------------------------------------------------
(* Trust on first use, for any number of dials, keys, servers and resets:  *)
(* the address never has two keys on record, and none that no GUI dial has *)
(* authenticated with, and a host is not refused for its further keys.     *)
(* This rests on a server showing one plain key of a type.                 *)


Shows == [key : Keys, ca : CAs \union {NoCA}]

\* How far a dial is.
Places == {"idle", "begun", "authReady", "verifier", "dialled", "verified", "authenticated",
           "open", "session", "running", "ended", "mismatch"}

\* What a dial remembers.
DialStates ==
  [at : Places, gui : BOOLEAN, strict : BOOLEAN, kept : SUBSET Keys, keptCAs : SUBSET CAs,
   offered : SUBSET Types, shown : SUBSET Shows, candidate : SUBSET Keys,
   cancelled : BOOLEAN]

DialsTyped ==
  /\ known \in SUBSET Keys
  /\ cas \in SUBSET CAs
  /\ user \in [keys : SUBSET Keys, cas : SUBSET CAs, revoked : SUBSET (Keys \union CAs)]
  /\ server \in SUBSET Shows
  /\ proven \in SUBSET Keys
  /\ dial \in [Dials -> DialStates]

\* A candidate is kept from the verification to the commit; it is the key the
\* server showed, to a dial from the GUI, and once the dial has authenticated
\* it is proven.
CandidateIsShown ==
  \A d \in Dials :
    /\ dial[d].at \notin {"verified", "authenticated"} => dial[d].candidate = {}
    /\ dial[d].at = "verified" /\ dial[d].candidate # {} =>
         dial[d].gui /\ \A k \in dial[d].candidate : \E s \in dial[d].shown : s.key = k
    /\ dial[d].at = "authenticated" => dial[d].candidate \subseteq proven

AllSame == \A k, l \in known : k = l

TrustInv == DialsTyped /\ CandidateIsShown /\ AllSame /\ TrustFollowsAuthentication

LEMMA TrustInit ==
  ASSUME ServersShowKeys, HandWritten
  PROVE  HostKeysInit => TrustInv
<1> SUFFICES ASSUME HostKeysInit PROVE TrustInv
  OBVIOUS
<1>1. Idle \in DialStates
  BY DEF Idle, DialStates, Places
<1>2. DialsTyped
  BY <1>1 DEF HostKeysInit, DialsTyped, Shows, ServersShowKeys, HandWritten
<1>3. CandidateIsShown
  BY DEF HostKeysInit, CandidateIsShown, Idle
<1>4. AllSame /\ TrustFollowsAuthentication
  BY DEF HostKeysInit, AllSame, TrustFollowsAuthentication
<1> QED
  BY <1>2, <1>3, <1>4 DEF TrustInv

\* A step of a dial that neither touches the file nor what is proven, and after
\* which the dial holds no candidate.
LEMMA QuietStep ==
  ASSUME TrustInv, NEW d \in Dials, NEW r \in DialStates,
         dial' = [dial EXCEPT ![d] = r], r.candidate = {},
         known' = known, cas' = cas, user' = user, server' = server, proven' = proven
  PROVE  TrustInv'
<1>1. DialsTyped'
  BY DEF TrustInv, DialsTyped
<1>2. CandidateIsShown'
  BY DEF TrustInv, DialsTyped, CandidateIsShown
<1> QED
  BY <1>1, <1>2 DEF TrustInv, AllSame, TrustFollowsAuthentication

LEMMA FailStep ==
  ASSUME TrustInv, NEW d \in Dials, NEW why \in Places, Fail(d, why),
         known' = known, cas' = cas, user' = user, server' = server, proven' = proven
  PROVE  TrustInv'
<1> DEFINE r == [Idle EXCEPT !.at = why]
<1>1. r \in DialStates /\ r.candidate = {}
  BY DEF Idle, DialStates, Places
<1>2. dial' = [dial EXCEPT ![d] = r]
  BY DEF Fail
<1> QED
  BY <1>1, <1>2, QuietStep

\* Actions after which the dial still has no candidate.
LEMMA BeginStep ==
  ASSUME TrustInv, NEW d \in Dials, NEW gui \in BOOLEAN, NEW strict \in BOOLEAN,
         Begin(d, gui, strict)
  PROVE  TrustInv'
<1> DEFINE r == [dial[d] EXCEPT !.at = "begun", !.gui = gui, !.strict = strict]
<1>1. r \in DialStates /\ r.candidate = {} /\ dial' = [dial EXCEPT ![d] = r]
  <2>1. dial[d] \in DialStates /\ dial[d].candidate = {} /\ dial \in [Dials -> DialStates]
    BY DEF Begin, TrustInv, DialsTyped, CandidateIsShown
  <2>2. r \in DialStates /\ r.candidate = {}
    BY <2>1 DEF DialStates, Places
  <2>3. dial' = [dial EXCEPT ![d] = r]
    BY <2>1 DEF Begin
  <2> QED BY <2>2, <2>3
<1> QED
  BY <1>1, QuietStep DEF Begin, fileVars

LEMMA AuthMethodsStep ==
  ASSUME TrustInv, NEW d \in Dials, authMethods(d)
  PROVE  TrustInv'
<1>1. CASE Fail(d, "ended")
  BY <1>1, FailStep DEF authMethods, fileVars, Places
<1>2. CASE Goto(d, "authReady")
  <2> DEFINE r == [dial[d] EXCEPT !.at = "authReady"]
  <2>1. r \in DialStates /\ r.candidate = {} /\ dial' = [dial EXCEPT ![d] = r]
    <3>1. dial[d] \in DialStates /\ dial[d].candidate = {} /\ dial \in [Dials -> DialStates]
      BY DEF authMethods, TrustInv, DialsTyped, CandidateIsShown
    <3>2. r \in DialStates /\ r.candidate = {}
      BY <3>1 DEF DialStates, Places
    <3>3. dial' = [dial EXCEPT ![d] = r]
      BY <1>2, <3>1 DEF Goto
    <3> QED BY <3>2, <3>3
  <2> QED
    BY <2>1, QuietStep DEF authMethods, fileVars
<1> QED
  BY <1>1, <1>2 DEF authMethods

\* The files a dial reads hold keys and CAs.
LEMMA FilesTyped ==
  ASSUME TrustInv, NEW d \in Dials
  PROVE  Recorded(d) \in SUBSET Keys /\ Authorities(d) \in SUBSET CAs
BY DEF Recorded, Authorities, Files, TrustInv, DialsTyped

LEMMA VerifierStep ==
  ASSUME TrustInv, NEW d \in Dials, newHostKeyVerifier(d)
  PROVE  TrustInv'
<1>1. CASE torn
  BY <1>1, FailStep DEF newHostKeyVerifier, fileVars, Places
<1>2. CASE ~torn
  <2> DEFINE o == IF Authorities(d) # {} THEN Types ELSE algorithmsFor(Recorded(d))
             r == [dial[d] EXCEPT !.at = "verifier", !.kept = Recorded(d),
                                  !.keptCAs = Authorities(d), !.offered = o]
  <2>1. o \in SUBSET Types
    BY FilesTyped DEF algorithmsFor, Types
  <2>3. dial' = [dial EXCEPT ![d] = r]
    BY <1>2 DEF newHostKeyVerifier, TrustInv, DialsTyped, DialStates
  <2> HIDE DEF o
  <2>a. dial[d] \in DialStates /\ dial[d].candidate = {}
    BY DEF newHostKeyVerifier, TrustInv, DialsTyped, CandidateIsShown
  <2>2. r \in DialStates /\ r.candidate = {}
    BY <2>1, <2>a, FilesTyped DEF DialStates, Places
  <2> QED
    BY <2>2, <2>3, QuietStep DEF newHostKeyVerifier, fileVars
<1> QED
  BY <1>1, <1>2

LEMMA DialTCPStep ==
  ASSUME TrustInv, NEW d \in Dials, DialTCP(d)
  PROVE  TrustInv'
<1> DEFINE r == [dial[d] EXCEPT !.at = "dialled"]
<1>1. r \in DialStates /\ r.candidate = {} /\ dial' = [dial EXCEPT ![d] = r]
  <2>1. dial[d] \in DialStates /\ dial[d].candidate = {} /\ dial \in [Dials -> DialStates]
    BY DEF DialTCP, TrustInv, DialsTyped, CandidateIsShown
  <2>2. r \in DialStates /\ r.candidate = {}
    BY <2>1 DEF DialStates, Places
  <2>3. dial' = [dial EXCEPT ![d] = r]
    BY <2>1 DEF DialTCP, Goto
  <2> QED BY <2>2, <2>3
<1> QED
  BY <1>1, QuietStep DEF DialTCP, fileVars

\* The callback: a candidate comes into being only for a dial from the GUI, and
\* it is the key that was shown.
LEMMA VerifyHostStep ==
  ASSUME TrustInv, NEW d \in Dials, VerifyHost(d)
  PROVE  TrustInv'
<1> PICK s \in Shown(d) :
       CASE Verdict(d, s) = "accepted"  -> dial' = [dial EXCEPT ![d].at = "verified", ![d].shown = {s}]
         [] Verdict(d, s) = "candidate" -> dial' = [dial EXCEPT ![d].at = "verified", ![d].shown = {s},
                                                                  ![d].candidate = {s.key}]
         [] Verdict(d, s) = "mismatch"  -> Fail(d, "mismatch")
         [] OTHER                         -> Fail(d, "ended")
  BY DEF VerifyHost
<1>1. s \in Shows /\ s.key \in Keys
  BY DEF Shown, TrustInv, DialsTyped, Shows
<1>2. dial[d].at = "dialled" /\ dial[d].candidate = {}
  BY DEF VerifyHost, TrustInv, CandidateIsShown
<1>a. dial[d] \in DialStates
  BY DEF TrustInv, DialsTyped
<1>3. CASE Verdict(d, s) = "accepted"
  <2> DEFINE r == [dial[d] EXCEPT !.at = "verified", !.shown = {s}]
  <2>1. r \in DialStates /\ r.candidate = {}
    <3>1. {s} \in SUBSET Shows
      BY <1>1
    <3> QED BY <1>2, <1>a, <3>1 DEF DialStates, Places
  <2>2. dial' = [dial EXCEPT ![d] = r]
    BY <1>3 DEF TrustInv, DialsTyped, DialStates
  <2> QED
    BY <2>1, <2>2, QuietStep DEF VerifyHost, fileVars
<1>4. CASE Verdict(d, s) = "candidate"
  <2> DEFINE r == [dial[d] EXCEPT !.at = "verified", !.shown = {s}, !.candidate = {s.key}]
  <2>1. dial[d].gui
    BY <1>4 DEF Verdict, verifyPlain
  <2>2. /\ r \in DialStates /\ r.at = "verified" /\ r.gui = dial[d].gui
        /\ r.shown = {s} /\ r.candidate = {s.key}
    BY <1>1, <1>a DEF DialStates, Places
  <2>3. dial' = [dial EXCEPT ![d] = r]
    BY <1>4 DEF TrustInv, DialsTyped, DialStates
  <2> HIDE DEF r
  <2>4. UNCHANGED <<known, cas, user, server, proven>>
    BY DEF VerifyHost, fileVars
  <2>5. DialsTyped'
    BY <2>2, <2>3, <2>4 DEF TrustInv, DialsTyped
  <2>6. CandidateIsShown'
    BY <2>1, <2>2, <2>3, <2>4 DEF TrustInv, DialsTyped, CandidateIsShown
  <2> QED
    BY <2>4, <2>5, <2>6 DEF TrustInv, AllSame, TrustFollowsAuthentication
<1>5. CASE Verdict(d, s) = "mismatch"
  BY <1>5, FailStep DEF VerifyHost, fileVars, Places
<1>6. CASE Verdict(d, s) \notin {"accepted", "candidate", "mismatch"}
  BY <1>6, FailStep DEF VerifyHost, fileVars, Places
<1> QED
  BY <1>3, <1>4, <1>5, <1>6

\* What the server showed to a dial from the GUI is proven from here on.
LEMMA AuthenticateStep ==
  ASSUME TrustInv, NEW d \in Dials, AuthenticateDial(d)
  PROVE  TrustInv'
<1> DEFINE r == [dial[d] EXCEPT !.at = "authenticated"]
<1>1. /\ r \in DialStates /\ r.at = "authenticated"
      /\ r.candidate = dial[d].candidate /\ dial' = [dial EXCEPT ![d] = r]
  BY DEF AuthenticateDial, Goto, TrustInv, DialsTyped, DialStates, Places
<1> HIDE DEF r
<1>2. UNCHANGED <<known, cas, user, server>> /\ proven \subseteq proven' /\ proven' \in SUBSET Keys
  BY DEF AuthenticateDial, fileVars, TrustInv, DialsTyped, DialStates, Shows
<1>3. dial[d].candidate \subseteq proven'
  BY DEF AuthenticateDial, TrustInv, CandidateIsShown
<1>4. DialsTyped'
  BY <1>1, <1>2 DEF TrustInv, DialsTyped
<1>5. CandidateIsShown'
  BY <1>1, <1>2, <1>3 DEF TrustInv, DialsTyped, CandidateIsShown
<1> QED
  BY <1>2, <1>4, <1>5 DEF TrustInv, AllSame, TrustFollowsAuthentication

LEMMA BrokenStep ==
  ASSUME TrustInv, NEW d \in Dials, Broken(d)
  PROVE  TrustInv'
BY FailStep DEF Broken, fileVars, Places

\* The file is read again under its lock: a key is added only to an address that
\* has none, and it is one the dial has authenticated with.
LEMMA CommitStep ==
  ASSUME TrustInv, NEW d \in Dials, Commit(d)
  PROVE  TrustInv'
<1> DEFINE r == [dial[d] EXCEPT !.at = "open", !.candidate = {}]
<1>1. dial[d] \in DialStates /\ dial[d].candidate \subseteq proven
  BY DEF TrustInv, DialsTyped, CandidateIsShown, Commit
<1>2. r \in DialStates /\ r.candidate = {} /\ r.at = "open"
  BY <1>1 DEF DialStates, Places
<1>3. Opened(d) => dial' = [dial EXCEPT ![d] = r]
  BY <1>1 DEF Opened, TrustInv, DialsTyped, DialStates
<1> HIDE DEF r
<1>4. CASE Opened(d) /\ UNCHANGED <<fileVars, tears>>
  BY <1>2, <1>3, <1>4, QuietStep DEF Commit, fileVars
<1>5. ASSUME NEW why \in {"ended", "mismatch"}, Fail(d, why), UNCHANGED <<known, cas, user>>
      PROVE  TrustInv'
  BY <1>5, FailStep DEF Commit, Places
<1>6. ASSUME NEW k \in dial[d].candidate, Recordable(k), known' = known \union {k},
             Opened(d), UNCHANGED <<cas, user>>
      PROVE  TrustInv'
  <2>1. known = {} /\ known' = {k} /\ k \in Keys /\ k \in proven
    BY <1>1, <1>6 DEF Recordable, DialStates
  <2>2. dial' = [dial EXCEPT ![d] = r] /\ UNCHANGED <<cas, user, server, proven>>
    BY <1>3, <1>6 DEF Commit
  <2>3. DialsTyped'
    BY <1>2, <2>1, <2>2 DEF TrustInv, DialsTyped
  <2>4. CandidateIsShown'
    BY <1>2, <2>2 DEF TrustInv, DialsTyped, CandidateIsShown
  <2>5. AllSame' /\ TrustFollowsAuthentication'
    BY <2>1, <2>2 DEF AllSame, TrustFollowsAuthentication
  <2> QED
    BY <2>3, <2>4, <2>5 DEF TrustInv
<1> QED
  BY <1>4, <1>5, <1>6, SMTT(30) DEF Commit, fileVars

LEMMA SessionSteps ==
  ASSUME TrustInv, NEW d \in Dials,
         OpenSession(d) \/ RunCommand(d) \/ Cancel(d) \/ Close(d)
  PROVE  TrustInv'
<1>1. /\ dial[d] \in DialStates /\ dial[d].candidate = {} /\ dial \in [Dials -> DialStates]
      /\ UNCHANGED <<fileVars, server, proven, rekeys, resets, tears>>
  BY DEF TrustInv, DialsTyped, CandidateIsShown, OpenSession, RunCommand, Cancel, Close
<1>2. CASE Fail(d, "ended")
  BY <1>1, <1>2, FailStep DEF fileVars, Places
<1>3. ASSUME NEW p \in {"session", "running"}, Goto(d, p) PROVE TrustInv'
  <2> DEFINE r == [dial[d] EXCEPT !.at = p]
  <2>1. r \in DialStates /\ r.candidate = {} /\ dial' = [dial EXCEPT ![d] = r]
    BY <1>1, <1>3 DEF Goto, DialStates, Places
  <2> QED
    BY <1>1, <2>1, QuietStep DEF fileVars
<1>4. CASE Cancel(d)
  <2> DEFINE r == [dial[d] EXCEPT !.cancelled = TRUE]
  <2>1. r \in DialStates /\ r.candidate = {} /\ dial' = [dial EXCEPT ![d] = r]
    BY <1>1, <1>4 DEF Cancel, DialStates
  <2> QED
    BY <1>1, <2>1, QuietStep DEF fileVars
<1> QED
  BY <1>2, <1>3, <1>4 DEF OpenSession, RunCommand, Close

LEMMA TrustStep ==
  ASSUME ServersShowKeys, HandWritten
  PROVE  TrustInv /\ [HostKeysNext]_hostKeysVars => TrustInv'
<1> SUFFICES ASSUME TrustInv, [HostKeysNext]_hostKeysVars PROVE TrustInv'
  OBVIOUS
<1>1. ASSUME NEW d \in Dials, DialNext(d) PROVE TrustInv'
  BY <1>1, BeginStep, AuthMethodsStep, VerifierStep, DialTCPStep, VerifyHostStep,
     AuthenticateStep, BrokenStep, CommitStep, SessionSteps DEF DialNext
<1>2. CASE removeHostKeys
  BY <1>2 DEF removeHostKeys, TrustInv, DialsTyped, CandidateIsShown, AllSame,
              TrustFollowsAuthentication
<1>3. CASE Rekey
  <2>1. server' \in SUBSET Shows /\ UNCHANGED <<known, cas, user, dial, proven>>
    BY <1>3 DEF Rekey, fileVars, Shows, ServersShowKeys
  <2> QED
    BY <2>1 DEF TrustInv, DialsTyped, CandidateIsShown, AllSame, TrustFollowsAuthentication
<1>4. CASE UNCHANGED hostKeysVars
  BY <1>4 DEF hostKeysVars, TrustInv, DialsTyped, CandidateIsShown, AllSame, TrustFollowsAuthentication
<1> QED
  BY <1>1, <1>2, <1>3, <1>4 DEF HostKeysNext

LEMMA TrustHolds == HostKeysSpec => []TrustInv
BY HostKeysAssumption, TrustInit, TrustStep, PTL DEF HostKeysSpec

\* However many dials overlap, fail or are reset in between, known_hosts never
\* has two keys for the address (recordHostKey).
THEOREM OneKey == HostKeysSpec => []OneKeyOnRecord
<1>1. TrustInv => OneKeyOnRecord
  <2> SUFFICES ASSUME TrustInv PROVE Cardinality(known) <= 1
    BY DEF OneKeyOnRecord
  <2>1. CASE known = {}
    BY <2>1, FS_EmptySet
  <2>2. ASSUME NEW k \in known PROVE Cardinality(known) <= 1
    <3>1. known = {k}
      BY <2>2 DEF TrustInv, AllSame
    <3> QED
      BY <3>1, FS_Singleton
  <2> QED
    BY <2>1, <2>2
<1> QED
  BY <1>1, TrustHolds, PTL

\* Every key on record was authenticated with by a dial from the GUI (Commit
\* after authentication).
THEOREM TrustIsEarned == HostKeysSpec => []TrustFollowsAuthentication
<1>1. TrustInv => TrustFollowsAuthentication
  BY DEF TrustInv
<1> QED
  BY <1>1, TrustHolds, PTL

-----------------------------------------------------------------------------
(* No false mismatch.                                                      *)

\* What a verifier keeps: outside strict mode one key at most, and what it
\* offers follows from it.
Keeps(d) ==
  /\ dial[d].at = "idle" => dial[d].kept = {}
  /\ ~dial[d].strict => \A k, l \in dial[d].kept : k = l
  /\ dial[d].at \in {"verifier", "dialled"} /\ dial[d].keptCAs = {} =>
       dial[d].offered = algorithmsFor(dial[d].kept)

KeepInv == server \in Servers /\ \A d \in Dials : Keeps(d)

LEMMA KeepInit == HostKeysInit => KeepInv
BY DEF HostKeysInit, KeepInv, Keeps, Idle

\* A step that leaves the copy alone and does not go back to the dialing.
LEMMA KeptStep ==
  ASSUME TrustInv, KeepInv, NEW d \in Dials, NEW r,
         dial' = [dial EXCEPT ![d] = r], server' = server,
         r.kept = {} \/ (r.at # "idle" /\ r.kept = dial[d].kept /\ r.strict = dial[d].strict),
         \/ r.at \notin {"verifier", "dialled"}
         \/ /\ dial[d].at = "verifier"
            /\ r.kept = dial[d].kept /\ r.keptCAs = dial[d].keptCAs
            /\ r.offered = dial[d].offered
  PROVE  KeepInv'
<1>1. ASSUME NEW e \in Dials, e # d PROVE Keeps(e)'
  BY <1>1 DEF KeepInv, Keeps, TrustInv, DialsTyped
<1>2. dial'[d] = r
  BY DEF TrustInv, DialsTyped
<1>3. Keeps(d)'
  BY <1>2 DEF KeepInv, Keeps
<1> QED
  BY <1>1, <1>3 DEF KeepInv

LEMMA KeepStep == TrustInv /\ KeepInv /\ [HostKeysNext]_hostKeysVars => KeepInv'
<1> SUFFICES ASSUME TrustInv, KeepInv, [HostKeysNext]_hostKeysVars PROVE KeepInv'
  OBVIOUS
<1>1. ASSUME NEW d \in Dials, DialNext(d) PROVE KeepInv'
  <2>1. dial[d] \in DialStates /\ dial \in [Dials -> DialStates] /\ server' = server
    BY <1>1 DEF TrustInv, DialsTyped, DialNext, Begin, authMethods, newHostKeyVerifier, DialTCP,
       VerifyHost, AuthenticateDial, Broken, Commit, OpenSession, RunCommand, Cancel, Close
  <2>2. ASSUME NEW why \in {"ended", "mismatch"}, Fail(d, why) PROVE KeepInv'
    <3> DEFINE r == [Idle EXCEPT !.at = why]
    <3>1. r.kept = {} /\ r.at = why
      BY DEF Idle
    <3>2. dial' = [dial EXCEPT ![d] = r]
      BY <2>2 DEF Fail
    <3> HIDE DEF r
    <3> QED
      BY <2>1, <3>1, <3>2, KeptStep
  <2>3. CASE newHostKeyVerifier(d) /\ ~torn
    <3>1. /\ dial'[d].at = "verifier"
          /\ dial'[d].kept = Recorded(d) /\ dial'[d].keptCAs = Authorities(d)
          /\ Authorities(d) = {} => dial'[d].offered = algorithmsFor(Recorded(d))
          /\ dial'[d].strict = dial[d].strict
          /\ \A e \in Dials \ {d} : dial'[e] = dial[e]
      BY <2>1, <2>3 DEF newHostKeyVerifier, DialStates
    <3>4. ~dial[d].strict => Recorded(d) = known
      BY DEF Recorded, Files
    <3>2. Keeps(d)'
      BY <3>1, <3>4 DEF Keeps, TrustInv, AllSame, algorithmsFor
    <3>3. ASSUME NEW e \in Dials \ {d} PROVE Keeps(e)'
      BY <3>1, <3>3 DEF KeepInv, Keeps
    <3> QED
      BY <2>1, <3>2, <3>3 DEF KeepInv
  <2>4. CASE DialTCP(d)
    <3> DEFINE r == [dial[d] EXCEPT !.at = "dialled"]
    <3>1. /\ dial' = [dial EXCEPT ![d] = r] /\ dial[d].at = "verifier" /\ r.at = "dialled"
          /\ r.kept = dial[d].kept /\ r.keptCAs = dial[d].keptCAs /\ r.strict = dial[d].strict
          /\ r.offered = dial[d].offered
      BY <2>1, <2>4 DEF DialTCP, Goto, DialStates
    <3> HIDE DEF r
    <3> QED
      BY <2>1, <3>1, KeptStep
  <2>5. ASSUME dial'[d].kept = dial[d].kept, dial'[d].strict = dial[d].strict,
               dial'[d].at \notin {"idle", "verifier", "dialled"},
               dial' = [dial EXCEPT ![d] = dial'[d]]
        PROVE  KeepInv'
    BY <2>1, <2>5, KeptStep
  <2>6. ASSUME NEW gui \in BOOLEAN, NEW strict \in BOOLEAN, Begin(d, gui, strict)
        PROVE  KeepInv'
    <3> DEFINE r == [dial[d] EXCEPT !.at = "begun", !.gui = gui, !.strict = strict]
    <3>1. dial' = [dial EXCEPT ![d] = r] /\ r.kept = {} /\ r.at = "begun"
      BY <2>1, <2>6 DEF Begin, DialStates, KeepInv, Keeps
    <3> HIDE DEF r
    <3> QED
      BY <2>1, <3>1, KeptStep
  <2>7. CASE authMethods(d)
    BY <2>1, <2>2, <2>5, <2>7 DEF authMethods, Goto, DialStates
  <2>8. CASE VerifyHost(d)
    BY <2>1, <2>2, <2>5, <2>8 DEF VerifyHost, DialStates
  <2>9. CASE AuthenticateDial(d)
    BY <2>1, <2>5, <2>9 DEF AuthenticateDial, Goto, DialStates
  <2>10. CASE Commit(d)
    BY <2>1, <2>2, <2>5, <2>10 DEF Commit, Opened, DialStates
  <2>11. CASE OpenSession(d) \/ RunCommand(d)
    BY <2>1, <2>2, <2>5, <2>11 DEF OpenSession, RunCommand, Goto, DialStates
  <2>12. CASE Cancel(d)
    BY <2>1, <2>5, <2>12 DEF Cancel, DialStates
  <2>13. CASE Broken(d) \/ Close(d) \/ (newHostKeyVerifier(d) /\ torn)
    BY <2>2, <2>13 DEF Broken, Close, newHostKeyVerifier
  <2> QED
    BY <1>1, <2>3, <2>4, <2>6, <2>7, <2>8, <2>9, <2>10, <2>11, <2>12, <2>13 DEF DialNext
<1>2. CASE removeHostKeys
  BY <1>2 DEF removeHostKeys, KeepInv, Keeps
<1>3. CASE Rekey
  BY <1>3 DEF Rekey, KeepInv, Keeps
<1>4. CASE UNCHANGED hostKeysVars
  BY <1>4 DEF hostKeysVars, KeepInv, Keeps
<1> QED
  BY <1>1, <1>2, <1>3, <1>4 DEF HostKeysNext

LEMMA KeepHolds == HostKeysSpec => []KeepInv
BY HostKeysAssumption, KeepInit, KeepStep, TrustHolds, PTL DEF HostKeysSpec

\* A host is never reported as a mismatch for having keys of types that are not
\* on record: it has changed a key of a recorded type, and outside strict mode
\* it no longer has the recorded key (hostKeyAlgorithmsFor).
THEOREM NoFalseAlarm == HostKeysSpec => NoFalseMismatch
<1> DEFINE Honest ==
       \A d \in Dials :
         (dial'[d].at = "mismatch" /\ dial[d].at = "dialled" /\ dial[d].keptCAs = {}
            /\ NothingRevoked(d)) =>
            /\ \E s \in server : /\ s.key \notin dial[d].kept
                                 /\ \E k \in dial[d].kept : k.type = s.key.type
            /\ ~dial[d].strict => \A s \in server : s.ca = NoCA => s.key \notin dial[d].kept
<1>1. ASSUME TrustInv, KeepInv, HostKeysNext PROVE Honest
  <2> SUFFICES ASSUME NEW d \in Dials, dial'[d].at = "mismatch", dial[d].at = "dialled",
                      dial[d].keptCAs = {}, NothingRevoked(d)
               PROVE  /\ \E s \in server : /\ s.key \notin dial[d].kept
                                           /\ \E k \in dial[d].kept : k.type = s.key.type
                      /\ ~dial[d].strict => \A t \in server : t.ca = NoCA => t.key \notin dial[d].kept
    OBVIOUS
  <2>1. dial \in [Dials -> DialStates] /\ server \in SUBSET Shows /\ server \in Servers
    BY <1>1 DEF TrustInv, DialsTyped, KeepInv
  <2>2. VerifyHost(d)
    <3>1. ASSUME NEW e \in Dials, DialNext(e), e # d PROVE FALSE
      <4>1. dial'[d] = dial[d]
        BY <2>1, <3>1 DEF DialNext, Begin, authMethods, newHostKeyVerifier, DialTCP, VerifyHost,
           AuthenticateDial, Broken, Commit, OpenSession, RunCommand, Cancel, Close,
           Fail, Goto, Opened
      <4> QED
        BY <4>1
    <3>3. ~Broken(d)
      <4>1. [Idle EXCEPT !.at = "ended"].at = "ended"
        BY DEF Idle
      <4> QED
        BY <2>1, <4>1 DEF Broken, Fail
    <3>4. DialNext(d) => VerifyHost(d)
      BY <3>3 DEF DialNext, Begin, authMethods, newHostKeyVerifier, DialTCP, AuthenticateDial,
         Commit, OpenSession, RunCommand, Cancel, Close
    <3>2. ~removeHostKeys /\ ~Rekey
      BY DEF removeHostKeys, Rekey
    <3> QED
      BY <1>1, <3>1, <3>2, <3>4 DEF HostKeysNext
  <2>3. PICK s \in Shown(d) : Verdict(d, s) = "mismatch"
    <3>1. [Idle EXCEPT !.at = "ended"].at = "ended"
      BY DEF Idle
    <3>2. PICK s \in Shown(d) :
            CASE Verdict(d, s) = "accepted"  -> dial' = [dial EXCEPT ![d].at = "verified", ![d].shown = {s}]
              [] Verdict(d, s) = "candidate" -> dial' = [dial EXCEPT ![d].at = "verified", ![d].shown = {s},
                                                                     ![d].candidate = {s.key}]
              [] Verdict(d, s) = "mismatch"  -> Fail(d, "mismatch")
              [] OTHER                         -> Fail(d, "ended")
      BY <2>2 DEF VerifyHost
    <3>3. Verdict(d, s) # "accepted"
      BY <2>1, <3>2 DEF DialStates
    <3>4. Verdict(d, s) # "candidate"
      BY <2>1, <3>2 DEF DialStates
    <3>5. ~Fail(d, "ended")
      BY <2>1, <3>1 DEF Fail
    <3> QED
      BY <3>2, <3>3, <3>4, <3>5
  <2>4. s \in server /\ s.key \notin Revoked(d) /\ s.ca \notin Revoked(d)
    BY <2>3 DEF Shown, NothingRevoked
  <2>5. s.key \notin dial[d].kept /\ dial[d].kept # {}
    <3>1. Verdict(d, s) = verifyPlain(d, s.key)
      BY <2>4 DEF Verdict
    <3> QED
      BY <2>3, <2>4, <3>1 DEF verifyPlain
  <2>6. dial[d].offered = {k.type : k \in dial[d].kept}
    BY <1>1, <2>5 DEF KeepInv, Keeps, algorithmsFor
  <2>7. PICK k \in dial[d].kept : k.type = s.key.type
    BY <2>3, <2>6 DEF Shown
  <2>8. ASSUME ~dial[d].strict, NEW t \in server, t.ca = NoCA, t.key \in dial[d].kept PROVE FALSE
    <3>1. t.key.type = s.key.type
      BY <1>1, <2>7, <2>8 DEF KeepInv, Keeps
    <3>2. s.ca = NoCA
      BY <2>3, <2>6, <2>8 DEF Shown
    <3>3. s.key = t.key
      BY HostKeysAssumption, <2>1, <2>4, <2>8, <3>1, <3>2 DEF ServersShowKeys
    <3> QED
      BY <2>5, <2>8, <3>3
  <2> QED
    BY <2>4, <2>5, <2>7, <2>8
<1>2. ASSUME TrustInv, KeepInv, UNCHANGED hostKeysVars PROVE Honest
  BY <1>2 DEF hostKeysVars
<1> QED
  BY <1>1, <1>2, TrustHolds, KeepHolds, PTL DEF HostKeysSpec, NoFalseMismatch
=============================================================================
