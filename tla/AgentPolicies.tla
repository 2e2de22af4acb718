--------------------------- MODULE AgentPolicies ---------------------------
(***************************************************************************)
(* Who may skip the human.  An agent's approval-bypass grant (a row of     *)
(* agent_policies) and its own token (a row of agent_tokens, with a bypass *)
(* flag) together let execute_command run a command without approval.      *)
(* Administrative calls hold policyMu while they write a row of SQLite and *)
(* then, under a.mu, its copy in memory, one table after the other; agents *)
(* look at memory in between.  An agent's call authenticates first and     *)
(* consults grant, forced grant and the RequireApproval switches later,    *)
(* each under its own short lock.                                          *)
(***************************************************************************)
EXTENDS Integers, FiniteSets

CONSTANTS Agents,      \* agent names
          Tokens,      \* the per-agent tokens that can be generated
          Calls,       \* execute_command handlers
          Switches,    \* the RequireApproval* settings people change
          Commands,    \* [risk : 0..2, marks : SUBSET {"sudo", "prod"}]
          TTL,         \* defaultBypassTTL, in ticks of the clock
          MaxTime,     \* bound: ticks of the clock
          MaxFaults    \* bound: storage failures

None == "none"
Low == 0
Medium == 1
High == 2
NoRisk == -1   \* of an agent without a policy
Risks == {Low, Medium, High}

ASSUME PolicyConstants ==
    /\ TTL \in Nat \ {0}
    /\ MaxTime \in Nat
    /\ MaxFaults \in Nat
    /\ Switches \subseteq {"write", "sudo", "prod"}
    /\ Commands \subseteq [risk : Risks, marks : SUBSET {"sudo", "prod"}]
    /\ None \notin Agents \cup Tokens

VARIABLES
    memPolicy,   \* a.agentPolicies: memPolicy[a].on is ApprovalBypass
    dbPolicy,    \* agent_policies
    memToken,    \* a.agentTokens: memToken[a].hash is None without a token
    dbToken,     \* agent_tokens
    issued,      \* issued[t]: the agent t was generated for, or None
    mutex,       \* policyMu: free, or the call that holds it: what it does next (op), for
                 \* whom, what it has stored and not yet published, and what comes then
    switches,    \* the RequireApproval* settings that are on
    now,         \* the clock
    up,          \* the process runs
    call,        \* call[h]: an execute_command under way
    faults       \* SQLite writes refused so far

stored == <<dbPolicy, dbToken>>
memory == <<memPolicy, memToken>>
vars == <<stored, memory, issued, mutex, switches, now, up, call, faults>>

NoPolicy == [on |-> FALSE, maxRisk |-> NoRisk, until |-> 0]
NoToken == [hash |-> None, bypass |-> FALSE]
Free == [op |-> "free", agent |-> None, policy |-> NoPolicy, token |-> NoToken,
         at |-> 0, then |-> "free"]
IdleCall == [pc |-> "idle", agent |-> None, hash |-> None, cmd |-> None]

Init ==
    /\ memPolicy = [a \in Agents |-> NoPolicy]
    /\ dbPolicy = memPolicy
    /\ memToken = [a \in Agents |-> NoToken]
    /\ dbToken = memToken
    /\ issued = [t \in Tokens |-> None]
    /\ mutex = Free
    /\ switches = {}
    /\ now = 0
    /\ up = TRUE
    /\ call = [h \in Calls |-> IdleCall]
    /\ faults = 0

-----------------------------------------------------------------------------
policyActiveAt(p) == p.on /\ p.until > now

policyAllows(p, risk) == policyActiveAt(p) /\ risk <= p.maxRisk

(* agentBypassCovers: the token is still the agent's, may bypass, and the  *)
(* grant covers the risk.                                                  *)
agentBypassCovers(token, policy, hash, risk) ==
    /\ token.hash = hash
    /\ token.bypass
    /\ policyAllows(policy, risk)

(* The RequireApproval* rules that hold for ordinary grants.               *)
RuledOut(cmd) ==
    \/ "write" \in switches /\ cmd.risk # Low
    \/ cmd.marks \cap switches # {}

Fault == faults < MaxFaults /\ faults' = faults + 1

Admin == up /\ mutex.op = "free"

(* saveAgentPolicy, first half: the row.  A grant that is off is stored    *)
(* without its end.  A write that fails here ends the call and changes     *)
(* nothing.                                                                *)
SavePolicy(a, p, then) ==
    /\ dbPolicy' = [dbPolicy EXCEPT ![a] = IF p.on THEN p ELSE [p EXCEPT !.until = 0]]
    /\ mutex' = [Free EXCEPT !.op = "policy", !.agent = a, !.policy = p, !.then = then]

(* A row of agent_tokens, before a.agentTokens has it.                     *)
SaveToken(a, t, then) ==
    /\ dbToken' = [dbToken EXCEPT ![a] = t]
    /\ mutex' = [Free EXCEPT !.op = "token", !.agent = a, !.token = t, !.then = then]

(* What the holder of policyMu goes on with, if anything.                  *)
GoesOn == IF mutex.then = "free" THEN Free ELSE [mutex EXCEPT !.op = mutex.then]

-----------------------------------------------------------------------------
PolicyOthers == <<memory, dbToken, issued, switches, now, up, call, faults>>
TokenOthers == <<memory, dbPolicy, switches, now, up, call>>

(* saveAgentPolicy, second half, under a.mu.                               *)
PublishPolicy ==
    /\ mutex.op = "policy"
    /\ memPolicy' = [memPolicy EXCEPT ![mutex.agent] = mutex.policy]
    /\ mutex' = GoesOn
    /\ UNCHANGED <<stored, memToken, issued, switches, now, up, call, faults>>

PublishToken ==
    /\ mutex.op = "token"
    /\ memToken' = [memToken EXCEPT ![mutex.agent] = mutex.token]
    /\ mutex' = GoesOn
    /\ UNCHANGED <<stored, memPolicy, issued, switches, now, up, call, faults>>

(* setAgentApprovalBypass: the policy with the default limits, and then,   *)
(* still under policyMu, the flag of the agent's token.                    *)
Grant(a) ==
    /\ Admin
    /\ SavePolicy(a, [on |-> TRUE, maxRisk |-> Medium, until |-> now + TTL], "flag")
    /\ UNCHANGED PolicyOthers

Revoke(a) ==
    /\ Admin
    /\ memPolicy[a] # NoPolicy
    /\ SavePolicy(a, [memPolicy[a] EXCEPT !.on = FALSE], "flag")
    /\ UNCHANGED PolicyOthers

(* Mutant: memory follows although the write failed.                       *)
SetTokenBypass_Unsaved(ok) ==
    /\ mutex.op = "flag"
    /\ memToken[mutex.agent].hash # None
    /\ mutex' = [mutex EXCEPT !.op = "token", !.then = "free",
                   !.token = [memToken[mutex.agent] EXCEPT !.bypass = mutex.policy.on]]
    /\ dbToken' = IF ok THEN [dbToken EXCEPT ![mutex.agent].bypass = mutex.policy.on] ELSE dbToken
    /\ IF ok THEN UNCHANGED faults ELSE Fault
    /\ UNCHANGED <<TokenOthers, issued>>

(* setAgentTokenBypassLocked: a failed write is logged, the flag stays.    *)
SetTokenBypass(ok) ==
    /\ mutex.op = "flag"
    /\ LET a == mutex.agent
           on == mutex.policy.on
           same == memToken[a].hash = None \/ memToken[a].bypass = on IN
       \/ ok /\ same /\ mutex' = Free /\ UNCHANGED <<dbToken, faults>>
       \/ ok /\ ~same /\ SaveToken(a, [memToken[a] EXCEPT !.bypass = on], "free") /\ UNCHANGED faults
       \/ ~ok /\ ~same /\ Fault /\ mutex' = Free /\ UNCHANGED dbToken
    /\ UNCHANGED <<TokenOthers, issued>>

(* SetAgentBypassMaxRisk: an active grant only; the deadline stays.        *)
SetAgentBypassMaxRisk(a, risk) ==
    /\ Admin
    /\ policyActiveAt(memPolicy[a])
    /\ SavePolicy(a, [memPolicy[a] EXCEPT !.maxRisk = risk], "free")
    /\ UNCHANGED PolicyOthers

(* issueAgentToken: create or rotate.  Unless the caller chooses, the new  *)
(* token may bypass exactly if a grant is active.                          *)
IssueAgentToken(a, t, choice) ==
    /\ Admin
    /\ issued[t] = None
    /\ LET allow == IF choice = "default" THEN policyActiveAt(memPolicy[a]) ELSE choice = "yes" IN
       SaveToken(a, [hash |-> t, bypass |-> allow], "free")
    /\ issued' = [issued EXCEPT ![t] = a]
    /\ UNCHANGED <<TokenOthers, faults>>

(* RevokeAgentToken: the token; then, if a grant is active, the grant.     *)
RevokeAgentToken(a) ==
    /\ Admin
    /\ memToken[a].hash # None
    /\ SaveToken(a, NoToken, "grant")
    /\ UNCHANGED <<TokenOthers, issued, faults>>

RevokeTokenGrant(ok) ==
    /\ mutex.op = "grant"
    /\ LET a == mutex.agent
           active == policyActiveAt(memPolicy[a]) IN
       \/ ok /\ ~active /\ mutex' = Free /\ UNCHANGED <<dbPolicy, faults>>
       \/ /\ ok /\ active
          /\ SavePolicy(a, [memPolicy[a] EXCEPT !.on = FALSE], "flag")
          /\ UNCHANGED faults
       \/ ~ok /\ active /\ Fault /\ mutex' = Free /\ UNCHANGED dbPolicy
    /\ UNCHANGED <<memory, dbToken, issued, switches, now, up, call>>

(* expireAgentPolicies: the rows first, then memory, both as of one time.  *)
Lapsed(p, t) == p.on /\ p.until <= t
SwitchOff(p, t) == IF Lapsed(p, t) THEN [p EXCEPT !.on = FALSE] ELSE p

ExpireAgentPolicies ==
    /\ Admin
    /\ \E a \in Agents : Lapsed(memPolicy[a], now) \/ Lapsed(dbPolicy[a], now)
    /\ dbPolicy' = [a \in Agents |-> SwitchOff(dbPolicy[a], now)]
    /\ mutex' = [Free EXCEPT !.op = "sweep", !.at = now]
    /\ UNCHANGED PolicyOthers

ExpireInMemory ==
    /\ mutex.op = "sweep"
    /\ memPolicy' = [a \in Agents |-> SwitchOff(memPolicy[a], mutex.at)]
    /\ mutex' = Free
    /\ UNCHANGED <<stored, memToken, issued, switches, now, up, call, faults>>

SaveMCPSettings(s) ==
    /\ up
    /\ s # switches
    /\ switches' = s
    /\ UNCHANGED <<stored, memory, issued, mutex, now, up, call, faults>>

-----------------------------------------------------------------------------
(* execute_command, up to the decision.                                    *)

(* authenticateMCP and the name check: a presented agent token binds the   *)
(* caller to its agent; any other caller may only use a name without a     *)
(* token of its own.                                                       *)
Authenticate(h, a, hash, cmd) ==
    /\ up
    /\ call[h].pc = "idle"
    /\ \/ hash # None /\ memToken[a].hash = hash
       \/ hash = None /\ memToken[a].hash = None
    /\ call' = [call EXCEPT ![h] = [pc |-> "named", agent |-> a, hash |-> hash, cmd |-> cmd]]
    /\ UNCHANGED <<stored, memory, issued, mutex, switches, now, up, faults>>

Queue(h) == call' = [call EXCEPT ![h] = IdleCall]
GoOn(h, l) == call' = [call EXCEPT ![h].pc = l]

CallOthers == <<stored, memory, issued, mutex, switches, now, up, faults>>

(* Mutant: the name is enough.                                             *)
GrantCovers_NameOnly(h) ==
    /\ memToken[call[h].agent].bypass
    /\ policyAllows(memPolicy[call[h].agent], call[h].cmd.risk)

(* needsHumanApproval in its three looks at shared state: grant and token, *)
(* forced grant, switches.                                                 *)
GrantCovers(h) ==
    /\ call[h].hash # None
    /\ agentBypassCovers(memToken[call[h].agent], memPolicy[call[h].agent],
                         call[h].hash, call[h].cmd.risk)

Forced(h) == memPolicy[call[h].agent].maxRisk = High

CheckCovers(h) ==
    /\ call[h].pc = "named"
    /\ IF GrantCovers(h) THEN GoOn(h, "covered") ELSE Queue(h)
    /\ UNCHANGED CallOthers

CheckForced(h) ==
    /\ call[h].pc = "covered"
    /\ GoOn(h, IF Forced(h) THEN "bypass" ELSE "ordinary")
    /\ UNCHANGED CallOthers

CheckSwitches(h) ==
    /\ call[h].pc = "ordinary"
    /\ IF RuledOut(call[h].cmd) THEN Queue(h) ELSE GoOn(h, "bypass")
    /\ UNCHANGED CallOthers

(* runBypassedCommand records the request auto_running and starts it.      *)
RunBypassed(h) ==
    /\ call[h].pc = "bypass"
    /\ Queue(h)
    /\ UNCHANGED CallOthers

-----------------------------------------------------------------------------
Tick ==
    /\ now < MaxTime
    /\ now' = now + 1
    /\ UNCHANGED <<stored, memory, issued, mutex, switches, up, call, faults>>

Crash ==
    /\ up
    /\ up' = FALSE
    /\ mutex' = Free
    /\ call' = [h \in Calls |-> IdleCall]
    /\ memPolicy' = [a \in Agents |-> NoPolicy]
    /\ memToken' = [a \in Agents |-> NoToken]
    /\ UNCHANGED <<stored, issued, switches, now, faults>>

(* NewApp: load both tables, then sweep; the sweep's write may fail.       *)
NewApp(ok) ==
    /\ ~up
    /\ up' = TRUE
    /\ memToken' = dbToken
    /\ \/ /\ ok
          /\ dbPolicy' = [a \in Agents |-> SwitchOff(dbPolicy[a], now)]
          /\ memPolicy' = dbPolicy'
          /\ UNCHANGED faults
       \/ ~ok /\ Fault /\ memPolicy' = dbPolicy /\ UNCHANGED dbPolicy
    /\ UNCHANGED <<dbToken, issued, mutex, switches, now, call>>

Next ==
    \/ \E a \in Agents :
          \/ Grant(a)
          \/ Revoke(a)
          \/ \E risk \in Risks : SetAgentBypassMaxRisk(a, risk)
          \/ \E t \in Tokens, choice \in {"default", "yes", "no"} : IssueAgentToken(a, t, choice)
          \/ RevokeAgentToken(a)
    \/ \E ok \in BOOLEAN : SetTokenBypass(ok) \/ RevokeTokenGrant(ok)
    \/ PublishPolicy \/ PublishToken
    \/ ExpireAgentPolicies \/ ExpireInMemory
    \/ \E s \in SUBSET Switches : SaveMCPSettings(s)
    \/ \E h \in Calls :
          \/ \E a \in Agents, hash \in Tokens \cup {None}, cmd \in Commands :
                Authenticate(h, a, hash, cmd)
          \/ CheckCovers(h) \/ CheckForced(h) \/ CheckSwitches(h) \/ RunBypassed(h)
    \/ Tick
    \/ Crash
    \/ \E ok \in BOOLEAN : NewApp(ok)

Spec == Init /\ [][Next]_vars

-----------------------------------------------------------------------------
(* What memory will say of agent a when the holder of policyMu has         *)
(* published what it has stored.                                           *)
ComingPolicy(a) == IF mutex.op = "policy" /\ mutex.agent = a THEN mutex.policy ELSE memPolicy[a]
ComingToken(a) == IF mutex.op = "token" /\ mutex.agent = a THEN mutex.token ELSE memToken[a]

(* A restart decides as the process would have: the tables let an agent do *)
(* what memory lets it do, or, of the one agent whose row is stored and    *)
(* not yet published, what memory is about to let it do; also when writes  *)
(* of one call failed, and while a sweep is between table and memory.      *)
RestartDecidesTheSame ==
    up => \A a \in Agents, t \in Tokens, risk \in Risks :
             agentBypassCovers(ComingToken(a), ComingPolicy(a), t, risk)
                <=> agentBypassCovers(dbToken[a], dbPolicy[a], t, risk)

(* Whoever skips the human proved to be the agent whose grant it uses: the *)
(* call presented a token that was issued to that agent.                   *)
BypassProvesIdentity ==
    \A h \in Calls :
        call[h].pc \in {"covered", "ordinary", "bypass"} =>
            call[h].hash # None /\ issued[call[h].hash] = call[h].agent

=============================================================================
