---------------------------- MODULE FeatureFlags ----------------------------
(***************************************************************************)
(* Feature flags: how DefaultFeatureFlagService evaluates a flag for a     *)
(* user, the CRUD operations on flags and rules, and the cache of          *)
(* evaluations they invalidate, in memory or in Redis.                     *)
(*                                                                         *)
(* A flag is named by its key; a change of its key or description is an    *)
(* update like any other and is not told apart.  A context is what the     *)
(* cache key is built from: user, roles, organisation and environment.     *)
(* ListFlags is two queries, one for the flags and one for their rules.    *)
(* The Redis store keeps the keys of all its entries in an index set;      *)
(* InvalidateAll reads the index in one round trip and deletes those       *)
(* entries and the index in another.                                       *)
(***************************************************************************)
EXTENDS Integers, FiniteSets

CONSTANTS
  Flags,       \* keys of flags
  RuleIds,     \* primary keys of rules, per flag
  RuleInputs,  \* rules administrators may send
  Contexts,    \* evaluation contexts
  Bucket(_, _),  \* stablePercentBucket(flag, user)
  Readers,     \* evaluations in progress at the same time
  Admins,      \* mutations in progress at the same time
  Nil,
  Stores,      \* the stores a deployment may have chosen: "memory", "redis"
  Failures     \* TRUE: the database and the cache may fail

RuleTypes == {"user", "role", "org", "environment", "percent"}
Sources == RuleTypes \cup {"default"}

ASSUME RuleIdsAssumption == RuleIds \subseteq Nat /\ IsFiniteSet(RuleIds)
ASSUME RuleInputsAssumption ==
  \A r \in RuleInputs :
    /\ DOMAIN r = {"type", "match", "percentage", "enabled", "priority"}
    /\ r.percentage \in Int /\ r.enabled \in BOOLEAN /\ r.priority \in Int
ASSUME NilAssumption == Nil \notin BOOLEAN
ASSUME BucketAssumption == \A f \in Flags, c \in Contexts : Bucket(f, c.user) \in 0 .. 99
ASSUME StoreAssumption == Stores \subseteq {"memory", "redis"}
ASSUME FailuresAssumption == Failures \in BOOLEAN

VARIABLES
  store,    \* which store this deployment uses
  enabled,  \* enabled[f]: the default of flag f, Nil if there is no such flag
  rules,    \* rules[f]: its rules by primary key, Nil where there is none
  data,     \* cached evaluations by context, Nil where there is none
  index,    \* Redis: contexts whose entries the index set names
  eval,     \* EvaluateAll calls in progress
  adm       \* mutations in progress

vars == <<store, enabled, rules, data, index, eval, adm>>

-----------------------------------------------------------------------------
(* Evaluation.                                                             *)

\* normalizeAndValidateRule; Nil is the empty match value.
ValidRule(r) ==
  /\ r.type \in RuleTypes
  /\ IF r.type = "percent" THEN r.percentage \in 0 .. 100 ELSE r.match # Nil
NormalizedRule(r) ==
  [r EXCEPT !.match      = IF r.type = "percent" THEN Nil ELSE @,
            !.percentage = IF r.type = "percent" THEN @ ELSE 0,
            !.priority   = IF @ = 0 THEN 100 ELSE @]
RuleRows == {NormalizedRule(r) : r \in {s \in RuleInputs : ValidRule(s)}}

\* The id of a signed-in user is never 0.
MatchesRule(r, f, c) ==
  \/ r.type = "user" /\ r.match = c.user
  \/ r.type = "role" /\ r.match \in c.roles
  \/ r.type = "org" /\ r.match = c.org
  \/ r.type = "environment" /\ r.match = c.environment
  \/ /\ r.type = "percent" /\ r.percentage > 0
     /\ r.percentage >= 100 \/ Bucket(f, c.user) < r.percentage

\* The order of sort.SliceStable.
Before(rs, i, j) ==
  rs[i].priority < rs[j].priority \/ (rs[i].priority = rs[j].priority /\ i < j)

\* evaluateRuleByType: the first rule of a type that matches.
Matching(rs, type, f, c) ==
  {i \in RuleIds : rs[i] # Nil /\ rs[i].type = type /\ MatchesRule(rs[i], f, c)}
First(rs, ids) == CHOOSE i \in ids : \A j \in ids \ {i} : Before(rs, i, j)

\* Faulty: roles are asked before the user.
EvaluateFeatureFlagRoleFirst(on, rs, f, c) ==
  LET found(type) == Matching(rs, type, f, c) # {}
      byType(type) == [enabled |-> rs[First(rs, Matching(rs, type, f, c))].enabled,
                       source  |-> type]
  IN CASE found("role") -> byType("role")
       [] ~found("role") /\ found("user") -> byType("user")
       [] OTHER -> [enabled |-> on, source |-> "default"]

EvaluateFeatureFlag(on, rs, f, c) ==
  LET found(type) == Matching(rs, type, f, c) # {}
      byType(type) == [enabled |-> rs[First(rs, Matching(rs, type, f, c))].enabled,
                       source  |-> type]
  IN IF found("user") THEN byType("user")
     ELSE IF found("role") THEN byType("role")
     ELSE IF found("org") THEN byType("org")
     ELSE IF found("environment") THEN byType("environment")
     ELSE IF found("percent") THEN byType("percent")
     ELSE [enabled |-> on, source |-> "default"]

Result == [enabled : BOOLEAN, source : Sources]

\* The payload of EvaluateAll: one result for each flag.
Payload(on, rs, c) ==
  [f \in Flags |-> IF on[f] = Nil THEN Nil ELSE EvaluateFeatureFlag(on[f], rs[f], f, c)]
Payloads == [Flags -> Result \cup {Nil}]

-----------------------------------------------------------------------------
\* raced (history): a mutation was in progress while the entry was computed, or the
\* invalidation of a later one has failed.
Entry == [val : Payloads, raced : BOOLEAN]

Evaluation ==
  [pc    : {"idle", "list_flags", "list_rules", "set"},
   ctx   : Contexts \cup {Nil},
   flags : [Flags -> BOOLEAN \cup {Nil}],   \* result of the first query
   val   : Payloads,
   raced : BOOLEAN]

NoFlags == [f \in Flags |-> Nil]
IdleEval == [pc |-> "idle", ctx |-> Nil, flags |-> NoFlags, val |-> NoFlags, raced |-> FALSE]

Mutation == [pc : {"idle", "members", "del"}, keys : SUBSET Contexts]
IdleMutation == [pc |-> "idle", keys |-> {}]

Init ==
  /\ store \in Stores
  /\ enabled = NoFlags
  /\ rules = [f \in Flags |-> [i \in RuleIds |-> Nil]]
  /\ data = [c \in Contexts |-> Nil]
  /\ index = {}
  /\ eval = [p \in Readers |-> IdleEval]
  /\ adm = [a \in Admins |-> IdleMutation]

\* A committed mutation has not finished its invalidation.
Pending == \E a \in Admins : adm[a].pc # "idle"

-----------------------------------------------------------------------------
(* EvaluateAll.                                                            *)

\* A hit is answered at once and changes nothing; an error of Get counts as a miss.
EvaluateAll(p, c) ==
  /\ eval[p].pc = "idle"
  /\ data[c] = Nil \/ Failures
  /\ eval' = [eval EXCEPT ![p].pc = "list_flags", ![p].ctx = c]
  /\ UNCHANGED <<store, enabled, rules, data, index, adm>>

ListFlags(p) ==
  /\ eval[p].pc = "list_flags"
  /\ eval' = [eval EXCEPT ![p] = [@ EXCEPT !.pc = "list_rules", !.flags = enabled,
                                           !.raced = Pending]]
  /\ UNCHANGED <<store, enabled, rules, data, index, adm>>

\* Preload("Rules"), then every flag is evaluated.
PreloadRules(p) ==
  /\ eval[p].pc = "list_rules"
  /\ eval' = [eval EXCEPT ![p] =
       [@ EXCEPT !.pc = "set", !.val = Payload(eval[p].flags, rules, eval[p].ctx)]]
  /\ UNCHANGED <<store, enabled, rules, data, index, adm>>

Indexed(c) == IF store = "redis" THEN index \cup {c} ELSE index

\* writeCachedEvaluation; its error is ignored.
Set(p) ==
  LET c == eval[p].ctx IN
  /\ eval[p].pc = "set"
  /\ \/ /\ data' = [data EXCEPT ![c] = [val |-> eval[p].val, raced |-> eval[p].raced]]
        /\ index' = Indexed(c)
     \/ Failures /\ UNCHANGED <<data, index>>
  /\ eval' = [eval EXCEPT ![p] = IdleEval]
  /\ UNCHANGED <<store, enabled, rules, adm>>

\* A query fails or the client goes away.
EvaluationFails(p) ==
  /\ Failures /\ eval[p].pc # "idle"
  /\ eval' = [eval EXCEPT ![p] = IdleEval]
  /\ UNCHANGED <<store, enabled, rules, data, index, adm>>

\* The TTL of an entry ends; the index set outlives its entries by a minute.
Expire(c) ==
  /\ data[c] # Nil
  /\ data' = [data EXCEPT ![c] = Nil]
  /\ UNCHANGED <<store, enabled, rules, index, eval, adm>>

ExpireIndex ==
  /\ index # {} /\ \A c \in Contexts : data[c] = Nil
  /\ index' = {}
  /\ UNCHANGED <<store, enabled, rules, data, eval, adm>>

-----------------------------------------------------------------------------
(* Mutations.                                                              *)

\* A mutation that has committed goes on to InvalidateAll.
Commit(a) ==
  /\ adm[a].pc = "idle"
  /\ adm' = [adm EXCEPT ![a].pc = "members"]
  /\ eval' = [p \in Readers |->
       [eval[p] EXCEPT !.raced = @ \/ eval[p].pc \in {"list_rules", "set"}]]
  /\ UNCHANGED <<store, data, index>>

CreateFlag(a, f, on) ==
  /\ enabled[f] = Nil
  /\ enabled' = [enabled EXCEPT ![f] = on]
  /\ Commit(a) /\ UNCHANGED rules

UpdateFlag(a, f, on) ==
  /\ enabled[f] # Nil
  /\ enabled' = [enabled EXCEPT ![f] = on]
  /\ Commit(a) /\ UNCHANGED rules

\* OnDelete:CASCADE removes the rules.
DeleteFlag(a, f) ==
  /\ enabled[f] # Nil
  /\ enabled' = [enabled EXCEPT ![f] = Nil]
  /\ rules' = [rules EXCEPT ![f] = [i \in RuleIds |-> Nil]]
  /\ Commit(a)

CreateRule(a, f, i, r) ==
  /\ enabled[f] # Nil /\ rules[f][i] = Nil
  /\ rules' = [rules EXCEPT ![f][i] = r]
  /\ Commit(a) /\ UNCHANGED enabled

UpdateRule(a, f, i, r) ==
  /\ rules[f][i] # Nil
  /\ rules' = [rules EXCEPT ![f][i] = r]
  /\ Commit(a) /\ UNCHANGED enabled

\* Faulty: the deletion of a rule invalidates nothing.
DeleteRuleSilently(a, f, i) ==
  /\ adm[a].pc = "idle" /\ rules[f][i] # Nil
  /\ rules' = [rules EXCEPT ![f][i] = Nil]
  /\ UNCHANGED <<store, enabled, data, index, eval, adm>>

DeleteRule(a, f, i) ==
  /\ rules[f][i] # Nil
  /\ rules' = [rules EXCEPT ![f][i] = Nil]
  /\ Commit(a) /\ UNCHANGED enabled

\* The memory store empties its map under its lock.
InvalidateAllMemory(a) ==
  /\ store = "memory" /\ adm[a].pc = "members"
  /\ data' = [c \in Contexts |-> Nil]
  /\ adm' = [adm EXCEPT ![a] = IdleMutation]
  /\ UNCHANGED <<store, enabled, rules, index, eval>>

SMembers(a) ==
  /\ store = "redis" /\ adm[a].pc = "members"
  /\ adm' = [adm EXCEPT ![a] = [pc |-> "del", keys |-> index]]
  /\ UNCHANGED <<store, enabled, rules, data, index, eval>>

\* MULTI: the entries the index named and the index itself.
Del(a) ==
  /\ adm[a].pc = "del"
  /\ data' = [c \in Contexts |-> IF c \in adm[a].keys THEN Nil ELSE data[c]]
  /\ index' = {}
  /\ adm' = [adm EXCEPT ![a] = IdleMutation]
  /\ UNCHANGED <<store, enabled, rules, eval>>

\* Redis fails or the process dies: the mutation stays, the entries too.
InvalidationLost(a) ==
  /\ Failures /\ adm[a].pc # "idle"
  /\ adm' = [adm EXCEPT ![a] = IdleMutation]
  /\ data' = [c \in Contexts |->
       IF data[c] = Nil THEN Nil ELSE [data[c] EXCEPT !.raced = TRUE]]
  /\ UNCHANGED <<store, enabled, rules, index, eval>>

Evaluate(p) ==
  (\E c \in Contexts : EvaluateAll(p, c)) \/ ListFlags(p) \/ PreloadRules(p) \/ Set(p)

Mutate(a) ==
  \E f \in Flags :
    \/ \E on \in BOOLEAN : CreateFlag(a, f, on) \/ UpdateFlag(a, f, on)
    \/ DeleteFlag(a, f)
    \/ \E i \in RuleIds : \/ DeleteRule(a, f, i)
                          \/ \E r \in RuleRows : CreateRule(a, f, i, r) \/ UpdateRule(a, f, i, r)

Next ==
  \/ \E p \in Readers : Evaluate(p) \/ EvaluationFails(p)
  \/ \E a \in Admins : \/ Mutate(a) \/ InvalidateAllMemory(a) \/ SMembers(a) \/ Del(a)
                       \/ InvalidationLost(a)
  \/ \E c \in Contexts : Expire(c)
  \/ ExpireIndex

Spec == Init /\ [][Next]_vars

-----------------------------------------------------------------------------
(* Properties.                                                             *)

\* Every table, entry and process stays within its type, and only flags that exist
\* have rules.
TypeOK ==
  /\ store \in Stores
  /\ enabled \in [Flags -> BOOLEAN \cup {Nil}]
  /\ rules \in [Flags -> [RuleIds -> RuleRows \cup {Nil}]]
  /\ \A f \in Flags, i \in RuleIds : rules[f][i] # Nil => enabled[f] # Nil
  /\ data \in [Contexts -> Entry \cup {Nil}]
  /\ index \in SUBSET Contexts
  /\ eval \in [Readers -> Evaluation]
  /\ adm \in [Admins -> Mutation]

\* How specific a rule is: the types in the order the documentation lists them.
Rank(type) ==
  [user |-> 1, role |-> 2, org |-> 3, environment |-> 4, percent |-> 5][type]

\* The rule that decides is the matching rule that is least by type, priority and id;
\* the flag's default holds if and only if no rule matches (evaluateFeatureFlag).
MostSpecificRuleDecides ==
  \A f \in Flags, c \in Contexts :
    LET on == enabled[f]
        rs == rules[f]
        res == EvaluateFeatureFlag(on, rs, f, c)
        matches == {i \in RuleIds : rs[i] # Nil /\ MatchesRule(rs[i], f, c)}
        above(i, j) == \/ Rank(rs[i].type) < Rank(rs[j].type)
                       \/ rs[i].type = rs[j].type /\ rs[i].priority < rs[j].priority
                       \/ rs[i].type = rs[j].type /\ rs[i].priority = rs[j].priority /\ i < j
    IN on # Nil =>
         \/ matches = {} /\ res = [enabled |-> on, source |-> "default"]
         \/ \E i \in matches : /\ \A j \in matches \ {i} : above(i, j)
                               /\ res = [enabled |-> rs[i].enabled, source |-> rs[i].type]

\* Whenever no mutation is waiting to invalidate, a cached evaluation is what the flags
\* say now, unless it was computed while a mutation was going on or an invalidation
\* failed: no other order of fills, expiries and (in Redis two-step) invalidations
\* leaves an entry behind.
QuietEntriesAreFresh ==
  \A c \in Contexts :
    data[c] # Nil /\ ~data[c].raced /\ ~Pending => data[c].val = Payload(enabled, rules, c)
=============================================================================
