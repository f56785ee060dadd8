------------------------- MODULE FeatureFlagsProofs -------------------------
(***************************************************************************)
(* Proofs about FeatureFlags for any flags, rules, contexts, evaluations   *)
(* and mutations in progress, with either store.                           *)
(***************************************************************************)
EXTENDS FeatureFlags, TLAPS, WellFoundedInduction, FiniteSetTheorems

-----------------------------------------------------------------------------
(* Evaluation.                                                             *)

\* A set of naturals has a least element.
LEMMA LeastNumber ==
  ASSUME NEW S \in SUBSET Nat, S # {}
  PROVE  \E n \in S : \A m \in S : n <= m
<1>1. PICK n \in S : \A m \in S : <<m, n>> \notin OpToRel(<, Nat)
  BY NatLessThanWellFounded, WFMin, Zenon
<1>2. \A m \in S : ~(m < n)
  BY <1>1 DEF OpToRel
<1> QED BY <1>2

\* Rows that passed normalizeAndValidateRule.
LEMMA RuleRowsAreRules ==
  ASSUME NEW r \in RuleRows
  PROVE  r.type \in RuleTypes /\ r.enabled \in BOOLEAN /\ r.priority \in Int
<1>1. PICK s \in RuleInputs : ValidRule(s) /\ r = NormalizedRule(s)
  BY DEF RuleRows
<1>2. r.type = s.type /\ r.enabled = s.enabled
  BY <1>1, RuleInputsAssumption DEF NormalizedRule
<1>3. r.priority = IF s.priority = 0 THEN 100 ELSE s.priority
  BY <1>1, RuleInputsAssumption DEF NormalizedRule
<1> QED BY <1>1, <1>2, <1>3, RuleInputsAssumption DEF ValidRule

\* Any set of rules of a flag has a first one in the order of the sort: a smallest set
\* without one would lose nothing by losing an element.
LEMMA FirstRuleExists ==
  ASSUME NEW rs \in [RuleIds -> RuleRows \cup {Nil}], NEW ids \in SUBSET RuleIds, ids # {},
         \A i \in ids : rs[i] # Nil
  PROVE  \E i \in ids : \A j \in ids \ {i} : Before(rs, i, j)
<1> DEFINE HasFirst(T) == \E i \in T : \A j \in T \ {i} : Before(rs, i, j)
           Sets == {T \in SUBSET ids : T # {} /\ ~HasFirst(T)}
           Bad == {Cardinality(T) : T \in Sets}
<1>1. \A T \in SUBSET ids : IsFiniteSet(T) /\ Cardinality(T) \in Nat
  BY RuleIdsAssumption, FS_Subset, FS_CardinalityType
<1>2. \A i \in ids : rs[i].priority \in Int /\ i \in Nat
  BY RuleRowsAreRules, RuleIdsAssumption
<1> SUFFICES ASSUME ~HasFirst(ids) PROVE FALSE
  OBVIOUS
<1>3. Bad \in SUBSET Nat /\ Bad # {}
  BY <1>1
<1>4. PICK n \in Bad : \A m \in Bad : n <= m
  BY <1>3, LeastNumber
<1>5. PICK T \in Sets : Cardinality(T) = n
  BY <1>4
<1>6. PICK x \in T : TRUE
  BY <1>5
<1>7. PICK U : U = T \ {x}
  OBVIOUS
<1>8. U \in SUBSET ids /\ Cardinality(U) = n - 1 /\ n \in Nat
  BY <1>1, <1>5, <1>6, <1>7, FS_RemoveElement
<1>9. CASE U = {}
  <2>1. HasFirst(T)
    BY <1>6, <1>7, <1>9
  <2> QED BY <1>5, <2>1
<1>10. CASE U # {}
  <2>1. HasFirst(U)
    <3> SUFFICES ASSUME ~HasFirst(U) PROVE FALSE
      OBVIOUS
    <3>1. n - 1 \in Bad
      BY <1>8, <1>10
    <3> QED BY <1>4, <1>8, <3>1
  <2>2. PICK i \in U : \A j \in U \ {i} : Before(rs, i, j)
    BY <2>1
  <2>3. i \in ids /\ x \in ids /\ i # x
    BY <1>5, <1>6, <1>7, <1>8
  <2>4. CASE Before(rs, i, x)
    <3>1. HasFirst(T)
      BY <1>7, <2>2, <2>4
    <3> QED BY <1>5, <3>1
  <2>5. CASE ~Before(rs, i, x)
    <3>1. Before(rs, x, i)
      <4>1. PICK a, b : a = rs[i].priority /\ b = rs[x].priority
        OBVIOUS
      <4>2. a \in Int /\ b \in Int /\ i \in Nat /\ x \in Nat
        BY <1>2, <2>3, <4>1
      <4>3. ~(a < b) /\ ~(a = b /\ i < x)
        BY <2>5, <4>1 DEF Before
      <4>4. b < a \/ (b = a /\ x < i)
        BY <2>3, <4>2, <4>3
      <4> QED BY <4>1, <4>4 DEF Before
    <3>2. ASSUME NEW j \in T, j # x PROVE Before(rs, x, j)
      <4>1. j \in U /\ j \in ids
        BY <1>5, <1>7, <3>2
      <4>2. j = i \/ Before(rs, i, j)
        BY <2>2, <4>1
      <4> QED BY <1>2, <2>3, <3>1, <4>1, <4>2 DEF Before
    <3>3. HasFirst(T)
      BY <1>6, <3>2
    <3> QED BY <1>5, <3>3
  <2> QED BY <2>4, <2>5
<1> QED BY <1>9, <1>10


\* The rule of a type that decides is a matching one before all the others of that type.
LEMMA FirstIsFirst ==
  ASSUME NEW rs \in [RuleIds -> RuleRows \cup {Nil}], NEW f, NEW c, NEW type,
         Matching(rs, type, f, c) # {}
  PROVE  /\ First(rs, Matching(rs, type, f, c)) \in Matching(rs, type, f, c)
         /\ \A j \in Matching(rs, type, f, c) \ {First(rs, Matching(rs, type, f, c))} :
              Before(rs, First(rs, Matching(rs, type, f, c)), j)
<1>1. PICK ids : ids = Matching(rs, type, f, c)
  OBVIOUS
<1>2. ids \in SUBSET RuleIds /\ ids # {} /\ \A i \in ids : rs[i] # Nil
  BY <1>1 DEF Matching
<1>3. \E i \in ids : \A j \in ids \ {i} : Before(rs, i, j)
  BY <1>2, FirstRuleExists
<1>4. First(rs, ids) \in ids /\ \A j \in ids \ {First(rs, ids)} : Before(rs, First(rs, ids), j)
  BY <1>3 DEF First
<1> QED BY <1>1, <1>4

\* What evaluateFeatureFlag returns: the default, or the first matching rule of the most
\* specific type that has one.
LEMMA EvaluationDecides ==
  ASSUME NEW rs \in [RuleIds -> RuleRows \cup {Nil}], NEW f, NEW c, NEW on
  PROVE  \/ /\ \A type \in RuleTypes : Matching(rs, type, f, c) = {}
            /\ EvaluateFeatureFlag(on, rs, f, c) = [enabled |-> on, source |-> "default"]
         \/ \E type \in RuleTypes :
              /\ Matching(rs, type, f, c) # {}
              /\ \A other \in RuleTypes :
                   Matching(rs, other, f, c) # {} => Rank(type) <= Rank(other)
              /\ EvaluateFeatureFlag(on, rs, f, c) =
                   [enabled |-> rs[First(rs, Matching(rs, type, f, c))].enabled, source |-> type]
<1> DEFINE Result1(type) ==
             EvaluateFeatureFlag(on, rs, f, c) =
               [enabled |-> rs[First(rs, Matching(rs, type, f, c))].enabled, source |-> type]
<1>1. /\ Rank("user") = 1 /\ Rank("role") = 2 /\ Rank("org") = 3 /\ Rank("environment") = 4
      /\ Rank("percent") = 5
  BY DEF Rank
<1>2. PICK u, r, o, e, p : /\ u = Matching(rs, "user", f, c) /\ r = Matching(rs, "role", f, c)
                           /\ o = Matching(rs, "org", f, c)
                           /\ e = Matching(rs, "environment", f, c)
                           /\ p = Matching(rs, "percent", f, c)
  OBVIOUS
<1>3. \/ u # {} /\ Result1("user")
      \/ u = {} /\ r # {} /\ Result1("role")
      \/ u = {} /\ r = {} /\ o # {} /\ Result1("org")
      \/ u = {} /\ r = {} /\ o = {} /\ e # {} /\ Result1("environment")
      \/ u = {} /\ r = {} /\ o = {} /\ e = {} /\ p # {} /\ Result1("percent")
      \/ /\ u = {} /\ r = {} /\ o = {} /\ e = {} /\ p = {}
         /\ EvaluateFeatureFlag(on, rs, f, c) = [enabled |-> on, source |-> "default"]
  BY <1>2 DEF EvaluateFeatureFlag
<1> HIDE DEF Result1
<1>4. ASSUME NEW type \in RuleTypes, Matching(rs, type, f, c) # {}, Result1(type),
             \A other \in RuleTypes : Matching(rs, other, f, c) # {} => Rank(type) <= Rank(other)
      PROVE  \E t \in RuleTypes :
               /\ Matching(rs, t, f, c) # {}
               /\ \A other \in RuleTypes :
                    Matching(rs, other, f, c) # {} => Rank(t) <= Rank(other)
               /\ EvaluateFeatureFlag(on, rs, f, c) =
                    [enabled |-> rs[First(rs, Matching(rs, t, f, c))].enabled, source |-> t]
  BY <1>4 DEF Result1
<1>5. CASE u # {} /\ Result1("user")
  BY <1>1, <1>2, <1>4, <1>5 DEF RuleTypes
<1>6. CASE u = {} /\ r # {} /\ Result1("role")
  BY <1>1, <1>2, <1>4, <1>6 DEF RuleTypes
<1>7. CASE u = {} /\ r = {} /\ o # {} /\ Result1("org")
  BY <1>1, <1>2, <1>4, <1>7 DEF RuleTypes
<1>8. CASE u = {} /\ r = {} /\ o = {} /\ e # {} /\ Result1("environment")
  BY <1>1, <1>2, <1>4, <1>8 DEF RuleTypes
<1>9. CASE u = {} /\ r = {} /\ o = {} /\ e = {} /\ p # {} /\ Result1("percent")
  BY <1>1, <1>2, <1>4, <1>9 DEF RuleTypes
<1>10. CASE /\ u = {} /\ r = {} /\ o = {} /\ e = {} /\ p = {}
            /\ EvaluateFeatureFlag(on, rs, f, c) = [enabled |-> on, source |-> "default"]
  BY <1>2, <1>10 DEF RuleTypes
<1> QED BY <1>3, <1>5, <1>6, <1>7, <1>8, <1>9, <1>10

\* An evaluation of a flag that exists is a result.
LEMMA EvaluationIsResult ==
  ASSUME NEW rs \in [RuleIds -> RuleRows \cup {Nil}], NEW f, NEW c, NEW on \in BOOLEAN
  PROVE  EvaluateFeatureFlag(on, rs, f, c) \in Result
<1>1. CASE EvaluateFeatureFlag(on, rs, f, c) = [enabled |-> on, source |-> "default"]
  BY <1>1 DEF Result, Sources
<1>2. ASSUME NEW type \in RuleTypes, Matching(rs, type, f, c) # {},
             EvaluateFeatureFlag(on, rs, f, c) =
               [enabled |-> rs[First(rs, Matching(rs, type, f, c))].enabled, source |-> type]
      PROVE  EvaluateFeatureFlag(on, rs, f, c) \in Result
  <2>1. PICK i : i = First(rs, Matching(rs, type, f, c))
    OBVIOUS
  <2>2. i \in RuleIds /\ rs[i] # Nil
    <3>1. i \in Matching(rs, type, f, c)
      BY <1>2, <2>1, FirstIsFirst
    <3> QED BY <3>1 DEF Matching
  <2>3. rs[i].enabled \in BOOLEAN
    BY <2>2, RuleRowsAreRules
  <2>4. EvaluateFeatureFlag(on, rs, f, c) = [enabled |-> rs[i].enabled, source |-> type]
    BY <1>2, <2>1
  <2> QED BY <2>3, <2>4 DEF Result, Sources
<1> QED BY <1>1, <1>2, EvaluationDecides

\* The rule that decides is the least matching rule by type, priority and id.
LEMMA LeastRuleDecides ==
  ASSUME NEW rs \in [RuleIds -> RuleRows \cup {Nil}], NEW f, NEW c, NEW on, NEW type \in RuleTypes,
         Matching(rs, type, f, c) # {},
         \A other \in RuleTypes : Matching(rs, other, f, c) # {} => Rank(type) <= Rank(other),
         NEW i, i = First(rs, Matching(rs, type, f, c)),
         NEW j \in RuleIds, rs[j] # Nil, MatchesRule(rs[j], f, c), j # i
  PROVE  \/ Rank(rs[i].type) < Rank(rs[j].type)
         \/ rs[i].type = rs[j].type /\ rs[i].priority < rs[j].priority
         \/ rs[i].type = rs[j].type /\ rs[i].priority = rs[j].priority /\ i < j
<1>1. i \in Matching(rs, type, f, c) /\ \A k \in Matching(rs, type, f, c) \ {i} : Before(rs, i, k)
  BY FirstIsFirst
<1>2. rs[i].type = type
  BY <1>1 DEF Matching
<1>3. PICK other : other = rs[j].type
  OBVIOUS
<1>4. other \in RuleTypes
  BY <1>3, RuleRowsAreRules
<1>5. j \in Matching(rs, other, f, c)
  BY <1>3 DEF Matching
<1>6. Rank(type) <= Rank(other)
  BY <1>4, <1>5
<1>7. CASE other = type
  <2>1. Before(rs, i, j)
    BY <1>1, <1>5, <1>7
  <2> QED BY <1>2, <1>3, <1>7, <2>1 DEF Before
<1>8. CASE other # type
  <2>1. Rank(type) < Rank(other)
    BY <1>4, <1>6, <1>8 DEF Rank, RuleTypes
  <2> QED BY <1>2, <1>3, <2>1
<1> QED BY <1>7, <1>8

\* Whatever rules a flag has, the least matching one decides.
LEMMA RulesDecide ==
  ASSUME rules \in [Flags -> [RuleIds -> RuleRows \cup {Nil}]]
  PROVE  MostSpecificRuleDecides
<1> SUFFICES ASSUME NEW f \in Flags, NEW c \in Contexts
             PROVE  LET on == enabled[f]
                        rs == rules[f]
                        res == EvaluateFeatureFlag(on, rs, f, c)
                        matches == {i \in RuleIds : rs[i] # Nil /\ MatchesRule(rs[i], f, c)}
                        above(i, j) ==
                          \/ Rank(rs[i].type) < Rank(rs[j].type)
                          \/ rs[i].type = rs[j].type /\ rs[i].priority < rs[j].priority
                          \/ rs[i].type = rs[j].type /\ rs[i].priority = rs[j].priority /\ i < j
                    IN \/ matches = {} /\ res = [enabled |-> on, source |-> "default"]
                       \/ \E i \in matches :
                            /\ \A j \in matches \ {i} : above(i, j)
                            /\ res = [enabled |-> rs[i].enabled, source |-> rs[i].type]
  BY DEF MostSpecificRuleDecides
<1>1. PICK rs \in [RuleIds -> RuleRows \cup {Nil}] : rs = rules[f]
  OBVIOUS
<1>2. PICK on : on = enabled[f]
  OBVIOUS
<1> DEFINE res == EvaluateFeatureFlag(on, rs, f, c)
           matches == {i \in RuleIds : rs[i] # Nil /\ MatchesRule(rs[i], f, c)}
           above(i, j) ==
             \/ Rank(rs[i].type) < Rank(rs[j].type)
             \/ rs[i].type = rs[j].type /\ rs[i].priority < rs[j].priority
             \/ rs[i].type = rs[j].type /\ rs[i].priority = rs[j].priority /\ i < j
<1>3. \/ matches = {} /\ res = [enabled |-> on, source |-> "default"]
      \/ \E i \in matches : /\ \A j \in matches \ {i} : above(i, j)
                            /\ res = [enabled |-> rs[i].enabled, source |-> rs[i].type]
  <2>1. CASE /\ \A type \in RuleTypes : Matching(rs, type, f, c) = {}
             /\ EvaluateFeatureFlag(on, rs, f, c) = [enabled |-> on, source |-> "default"]
    <3>1. ASSUME NEW i \in matches PROVE FALSE
      <4>1. rs[i].type \in RuleTypes
        BY <3>1, RuleRowsAreRules
      <4>2. i \in Matching(rs, rs[i].type, f, c)
        BY <3>1 DEF Matching
      <4> QED BY <2>1, <4>1, <4>2
    <3> QED BY <2>1, <3>1
  <2>2. ASSUME NEW type \in RuleTypes, Matching(rs, type, f, c) # {},
               \A other \in RuleTypes : Matching(rs, other, f, c) # {} => Rank(type) <= Rank(other),
               EvaluateFeatureFlag(on, rs, f, c) =
                 [enabled |-> rs[First(rs, Matching(rs, type, f, c))].enabled, source |-> type]
        PROVE  \E i \in matches : /\ \A j \in matches \ {i} : above(i, j)
                                  /\ res = [enabled |-> rs[i].enabled, source |-> rs[i].type]
    <3>1. PICK i : i = First(rs, Matching(rs, type, f, c))
      OBVIOUS
    <3>2. i \in Matching(rs, type, f, c)
      BY <2>2, <3>1, FirstIsFirst
    <3>3. i \in matches /\ rs[i].type = type
      BY <3>2 DEF Matching
    <3>4. ASSUME NEW j \in matches \ {i} PROVE above(i, j)
      <4>1. j \in RuleIds /\ rs[j] # Nil /\ MatchesRule(rs[j], f, c) /\ j # i
        BY <3>4
      <4> QED BY <2>2, <3>1, <4>1, LeastRuleDecides
    <3>5. res = [enabled |-> rs[i].enabled, source |-> rs[i].type]
      BY <2>2, <3>1, <3>3
    <3> HIDE DEF above, res, matches
    <3> QED BY <3>3, <3>4, <3>5
  <2> QED BY <2>1, <2>2, EvaluationDecides
<1> QED BY <1>1, <1>2, <1>3

\* EvaluateAll returns one result or nothing for each flag.
LEMMA PayloadIsTyped ==
  ASSUME NEW on \in [Flags -> BOOLEAN \cup {Nil}],
         NEW rs \in [Flags -> [RuleIds -> RuleRows \cup {Nil}]], NEW c
  PROVE  Payload(on, rs, c) \in Payloads
<1>1. ASSUME NEW f \in Flags
      PROVE  (IF on[f] = Nil THEN Nil ELSE EvaluateFeatureFlag(on[f], rs[f], f, c))
               \in Result \cup {Nil}
  <2>1. CASE on[f] = Nil
    BY <2>1
  <2>2. CASE on[f] # Nil
    <3>1. on[f] \in BOOLEAN /\ rs[f] \in [RuleIds -> RuleRows \cup {Nil}]
      BY <2>2
    <3>2. EvaluateFeatureFlag(on[f], rs[f], f, c) \in Result
      BY <3>1, EvaluationIsResult
    <3> QED BY <2>2, <3>2
  <2> QED BY <2>1, <2>2
<1> QED BY <1>1 DEF Payload, Payloads

-----------------------------------------------------------------------------
(* The cache of evaluations.                                               *)

\* A cached evaluation that no mutation has overtaken.
Fresh(c) == data[c] # Nil /\ ~data[c].raced

\* A fresh entry is what the tables say, except while an invalidation is due; the
\* invalidation will find it: the index names it, and so does any copy of the index that
\* was read after it was stored.
EntryOK(c) ==
  Fresh(c) =>
    /\ ~Pending => data[c].val = Payload(enabled, rules, c)
    /\ store = "redis" => c \in index
    /\ \A a \in Admins : adm[a].pc = "del" => c \in adm[a].keys

\* An evaluation that no mutation has overtaken has read the current tables.
EvalOK(p) ==
  /\ eval[p].pc # "idle" => eval[p].ctx \in Contexts
  /\ eval[p].pc \in {"list_rules", "set"} /\ ~eval[p].raced =>
       /\ ~Pending
       /\ eval[p].pc = "list_rules" => eval[p].flags = enabled
       /\ eval[p].pc = "set" => eval[p].val = Payload(enabled, rules, eval[p].ctx)

FlagInv ==
  /\ TypeOK
  /\ \A c \in Contexts : EntryOK(c)
  /\ \A p \in Readers : EvalOK(p)

\* An evaluation that is not in progress is well typed.
LEMMA IdleEvalTyped ==
  IdleEval \in Evaluation /\ IdleEval.pc = "idle"
<1>1. NoFlags \in [Flags -> BOOLEAN \cup {Nil}] /\ NoFlags \in Payloads
  BY DEF NoFlags, Payloads
<1> QED BY <1>1 DEF IdleEval, Evaluation

\* Initially there are no flags, no entries and nothing in progress.
LEMMA FlagInit ==
  ASSUME Init PROVE FlagInv
<1>1. NoFlags \in [Flags -> BOOLEAN \cup {Nil}] /\ NoFlags \in Payloads
  BY DEF NoFlags, Payloads
<1>2. IdleEval \in Evaluation /\ IdleEval.pc = "idle"
  BY IdleEvalTyped
<1>3. IdleMutation \in Mutation
  BY DEF IdleMutation, Mutation
<1>4. TypeOK
  BY <1>1, <1>2, <1>3 DEF Init, TypeOK
<1>5. \A c \in Contexts : EntryOK(c)
  BY DEF Init, EntryOK, Fresh
<1>6. \A p \in Readers : EvalOK(p)
  BY <1>2 DEF Init, EvalOK
<1> QED BY <1>4, <1>5, <1>6 DEF FlagInv

\* What one evaluation does to itself leaves the tables and the entries alone.
LEMMA EvalStep ==
  ASSUME FlagInv, NEW p \in Readers, NEW new \in Evaluation,
         eval' = [eval EXCEPT ![p] = new],
         UNCHANGED <<store, enabled, rules, data, index, adm>>,
         new.pc # "idle" => new.ctx \in Contexts,
         new.pc \in {"list_rules", "set"} /\ ~new.raced =>
           /\ ~Pending
           /\ new.pc = "list_rules" => new.flags = enabled
           /\ new.pc = "set" => new.val = Payload(enabled, rules, new.ctx)
  PROVE  FlagInv'
<1>1. TypeOK'
  BY DEF FlagInv, TypeOK
<1>2. Pending' <=> Pending
  BY DEF Pending
<1>3. ASSUME NEW c \in Contexts PROVE EntryOK(c)'
  BY <1>2 DEF FlagInv, EntryOK, Fresh
<1>4. ASSUME NEW q \in Readers PROVE EvalOK(q)'
  <2>1. eval'[q] = IF q = p THEN new ELSE eval[q]
    BY DEF FlagInv, TypeOK
  <2>2. EvalOK(q)
    BY DEF FlagInv
  <2> QED BY <1>2, <2>1, <2>2 DEF EvalOK
<1> QED BY <1>1, <1>3, <1>4 DEF FlagInv

\* An evaluation that misses the cache starts in a known context.
LEMMA EvaluateAllStep ==
  ASSUME FlagInv, NEW p \in Readers, NEW c \in Contexts, EvaluateAll(p, c)
  PROVE  FlagInv'
<1>1. PICK new : new = [eval[p] EXCEPT !.pc = "list_flags", !.ctx = c]
  OBVIOUS
<1>2. eval[p] \in Evaluation
  BY DEF FlagInv, TypeOK
<1>3. new \in Evaluation /\ new.pc = "list_flags" /\ new.ctx = c
  BY <1>1, <1>2 DEF Evaluation
<1>4. eval' = [eval EXCEPT ![p] = new]
  BY <1>1 DEF EvaluateAll
<1>5. UNCHANGED <<store, enabled, rules, data, index, adm>>
  BY DEF EvaluateAll
<1> QED BY <1>3, <1>4, <1>5, EvalStep

\* The first query returns the flags as they are, and notes a mutation in progress.
LEMMA ListFlagsStep ==
  ASSUME FlagInv, NEW p \in Readers, ListFlags(p)
  PROVE  FlagInv'
<1>1. PICK new : new = [eval[p] EXCEPT !.pc = "list_rules", !.flags = enabled, !.raced = Pending]
  OBVIOUS
<1>2. eval[p] \in Evaluation /\ enabled \in [Flags -> BOOLEAN \cup {Nil}]
  BY DEF FlagInv, TypeOK
<1>3. Pending \in BOOLEAN
  BY DEF Pending
<1>4. /\ new \in Evaluation /\ new.pc = "list_rules" /\ new.flags = enabled
      /\ new.raced = Pending /\ new.ctx = eval[p].ctx
  BY <1>1, <1>2, <1>3 DEF Evaluation
<1>5. new.ctx \in Contexts
  BY <1>4 DEF FlagInv, EvalOK, ListFlags
<1>6. eval' = [eval EXCEPT ![p] = new]
  BY <1>1 DEF ListFlags
<1>7. UNCHANGED <<store, enabled, rules, data, index, adm>>
  BY DEF ListFlags
<1> QED BY <1>4, <1>5, <1>6, <1>7, EvalStep

\* An evaluation that was not overtaken combines flags and rules of the same state.
LEMMA PreloadRulesStep ==
  ASSUME FlagInv, NEW p \in Readers, PreloadRules(p)
  PROVE  FlagInv'
<1>1. PICK val : val = Payload(eval[p].flags, rules, eval[p].ctx)
  OBVIOUS
<1>2. PICK new : new = [eval[p] EXCEPT !.pc = "set", !.val = val]
  OBVIOUS
<1>3. eval[p] \in Evaluation /\ rules \in [Flags -> [RuleIds -> RuleRows \cup {Nil}]]
  BY DEF FlagInv, TypeOK
<1>4. eval[p].flags \in [Flags -> BOOLEAN \cup {Nil}]
  BY <1>3 DEF Evaluation
<1>5. val \in Payloads
  BY <1>1, <1>3, <1>4, PayloadIsTyped
<1>6. /\ new \in Evaluation /\ new.pc = "set" /\ new.val = val
      /\ new.raced = eval[p].raced /\ new.ctx = eval[p].ctx
  BY <1>2, <1>3, <1>5 DEF Evaluation
<1>7. /\ eval[p].ctx \in Contexts
      /\ ~eval[p].raced => ~Pending /\ eval[p].flags = enabled
  BY DEF FlagInv, EvalOK, PreloadRules
<1>8. eval' = [eval EXCEPT ![p] = new]
  BY <1>1, <1>2 DEF PreloadRules
<1>9. UNCHANGED <<store, enabled, rules, data, index, adm>>
  BY DEF PreloadRules
<1> QED BY <1>1, <1>6, <1>7, <1>8, <1>9, EvalStep

\* A failed evaluation stores nothing.
LEMMA EvaluationFailsStep ==
  ASSUME FlagInv, NEW p \in Readers, EvaluationFails(p)
  PROVE  FlagInv'
<1>1. eval' = [eval EXCEPT ![p] = IdleEval]
  BY DEF EvaluationFails
<1>2. UNCHANGED <<store, enabled, rules, data, index, adm>>
  BY DEF EvaluationFails
<1> QED BY <1>1, <1>2, IdleEvalTyped, EvalStep

\* The result that is stored is fresh only if nothing was pending, so no copy of the index
\* is outstanding that could miss it.
LEMMA SetStep ==
  ASSUME FlagInv, NEW p \in Readers, Set(p)
  PROVE  FlagInv'
<1>1. CASE UNCHANGED <<data, index>>
  <2>1. eval' = [eval EXCEPT ![p] = IdleEval]
    BY DEF Set
  <2>2. UNCHANGED <<store, enabled, rules, data, index, adm>>
    BY <1>1 DEF Set
  <2> QED BY <2>1, <2>2, IdleEvalTyped, EvalStep
<1>2. ASSUME data' = [data EXCEPT ![eval[p].ctx] = [val |-> eval[p].val, raced |-> eval[p].raced]],
             index' = Indexed(eval[p].ctx)
      PROVE  FlagInv'
  <2>1. PICK c \in Contexts : c = eval[p].ctx
    BY DEF FlagInv, EvalOK, Set
  <2>2. PICK new : new = [val |-> eval[p].val, raced |-> eval[p].raced]
    OBVIOUS
  <2>3. eval[p] \in Evaluation
    BY DEF FlagInv, TypeOK
  <2>4. new \in Entry /\ new.val = eval[p].val /\ new.raced = eval[p].raced
    BY <2>2, <2>3 DEF Evaluation, Entry
  <2>5. /\ data' = [data EXCEPT ![c] = new] /\ eval' = [eval EXCEPT ![p] = IdleEval]
        /\ UNCHANGED <<store, enabled, rules, adm>>
    BY <1>2, <2>1, <2>2 DEF Set
  <2>6. index' \in SUBSET Contexts /\ index \subseteq index' /\ (store = "redis" => c \in index')
    BY <1>2, <2>1 DEF Indexed, FlagInv, TypeOK
  <2>7. TypeOK'
    BY <2>4, <2>5, <2>6, IdleEvalTyped DEF FlagInv, TypeOK
  <2>8. Pending' <=> Pending
    BY <2>5 DEF Pending
  <2>9. ~new.raced => ~Pending /\ new.val = Payload(enabled, rules, c)
    BY <2>1, <2>4 DEF FlagInv, EvalOK, Set
  <2>10. ASSUME NEW d \in Contexts PROVE EntryOK(d)'
    <3>1. data'[d] = IF d = c THEN new ELSE data[d]
      BY <2>5 DEF FlagInv, TypeOK
    <3>2. CASE d = c
      BY <2>5, <2>6, <2>8, <2>9, <3>1, <3>2 DEF EntryOK, Fresh, Pending
    <3>3. CASE d # c
      BY <2>5, <2>6, <2>8, <3>1, <3>3 DEF EntryOK, Fresh, FlagInv
    <3> QED BY <3>2, <3>3
  <2>11. ASSUME NEW q \in Readers PROVE EvalOK(q)'
    <3>1. eval'[q] = IF q = p THEN IdleEval ELSE eval[q]
      BY <2>5 DEF FlagInv, TypeOK
    <3>2. EvalOK(q)
      BY DEF FlagInv
    <3> QED BY <2>5, <2>8, <3>1, <3>2, IdleEvalTyped DEF EvalOK
  <2> QED BY <2>7, <2>10, <2>11 DEF FlagInv
<1> QED BY <1>1, <1>2 DEF Set

\* An entry that expires is gone, and the others are not affected.
LEMMA ExpireStep ==
  ASSUME FlagInv, NEW c \in Contexts, Expire(c)
  PROVE  FlagInv'
<1>1. data' = [data EXCEPT ![c] = Nil] /\ UNCHANGED <<store, enabled, rules, index, eval, adm>>
  BY DEF Expire
<1>2. TypeOK'
  BY <1>1 DEF FlagInv, TypeOK
<1>3. Pending' <=> Pending
  BY <1>1 DEF Pending
<1>4. ASSUME NEW d \in Contexts PROVE EntryOK(d)'
  <2>1. data'[d] = IF d = c THEN Nil ELSE data[d]
    BY <1>1 DEF FlagInv, TypeOK
  <2>2. EntryOK(d)
    BY DEF FlagInv
  <2> QED BY <1>1, <1>3, <2>1, <2>2 DEF EntryOK, Fresh
<1>5. ASSUME NEW q \in Readers PROVE EvalOK(q)'
  BY <1>1, <1>3 DEF FlagInv, EvalOK
<1> QED BY <1>2, <1>4, <1>5 DEF FlagInv

\* The index goes only when there is no entry left to name.
LEMMA ExpireIndexStep ==
  ASSUME FlagInv, ExpireIndex
  PROVE  FlagInv'
<1>1. index' = {} /\ UNCHANGED <<store, enabled, rules, data, eval, adm>>
  BY DEF ExpireIndex
<1>2. TypeOK'
  BY <1>1 DEF FlagInv, TypeOK
<1>3. Pending' <=> Pending
  BY <1>1 DEF Pending
<1>4. ASSUME NEW d \in Contexts PROVE EntryOK(d)'
  BY <1>1 DEF EntryOK, Fresh, ExpireIndex
<1>5. ASSUME NEW q \in Readers PROVE EvalOK(q)'
  BY <1>1, <1>3 DEF FlagInv, EvalOK
<1> QED BY <1>2, <1>4, <1>5 DEF FlagInv

\* A mutation that commits owes its invalidation and has overtaken every evaluation that
\* has read a table.
LEMMA CommitStep ==
  ASSUME FlagInv, NEW a \in Admins, Commit(a),
         enabled' \in [Flags -> BOOLEAN \cup {Nil}],
         rules' \in [Flags -> [RuleIds -> RuleRows \cup {Nil}]],
         \A f \in Flags, i \in RuleIds : rules'[f][i] # Nil => enabled'[f] # Nil
  PROVE  FlagInv'
<1>1. PICK m : m = [adm[a] EXCEPT !.pc = "members"]
  OBVIOUS
<1>2. adm[a] \in Mutation /\ adm \in [Admins -> Mutation]
  BY DEF FlagInv, TypeOK
<1>3. m \in Mutation /\ m.pc = "members"
  BY <1>1, <1>2 DEF Mutation
<1>4. adm' = [adm EXCEPT ![a] = m] /\ UNCHANGED <<store, data, index>>
  BY <1>1 DEF Commit
<1>5. Pending'
  BY <1>2, <1>3, <1>4 DEF Pending
<1>6. ASSUME NEW q \in Readers
      PROVE  /\ eval'[q] \in Evaluation /\ eval'[q].pc = eval[q].pc /\ eval'[q].ctx = eval[q].ctx
             /\ eval[q].pc \in {"list_rules", "set"} => eval'[q].raced
  <2>1. eval[q] \in Evaluation
    BY DEF FlagInv, TypeOK
  <2>2. PICK b \in BOOLEAN : b <=> (eval[q].raced \/ eval[q].pc \in {"list_rules", "set"})
    OBVIOUS
  <2>3. b = (eval[q].raced \/ eval[q].pc \in {"list_rules", "set"})
    BY <2>2
  <2>4. eval'[q] = [eval[q] EXCEPT !.raced = b]
    BY <2>3 DEF Commit
  <2> QED BY <2>1, <2>2, <2>4 DEF Evaluation
<1>7. eval' \in [Readers -> Evaluation]
  <2>1. eval' = [q \in Readers |-> eval'[q]]
    BY DEF Commit
  <2> QED BY <1>6, <2>1
<1>8. TypeOK'
  BY <1>3, <1>4, <1>7 DEF FlagInv, TypeOK
<1>9. ASSUME NEW d \in Contexts PROVE EntryOK(d)'
  <2>1. ASSUME NEW b \in Admins, adm'[b].pc = "del" PROVE adm[b].pc = "del" /\ adm'[b] = adm[b]
    BY <1>2, <1>3, <1>4, <2>1
  <2>2. EntryOK(d)
    BY DEF FlagInv
  <2> QED BY <1>4, <1>5, <2>1, <2>2 DEF EntryOK, Fresh
<1>10. ASSUME NEW q \in Readers PROVE EvalOK(q)'
  <2>1. EvalOK(q)
    BY DEF FlagInv
  <2> QED BY <1>6, <2>1 DEF EvalOK
<1> QED BY <1>8, <1>9, <1>10 DEF FlagInv

\* Every mutation of a flag or a rule keeps the tables well typed and commits.
LEMMA MutateStep ==
  ASSUME FlagInv, NEW a \in Admins, Mutate(a)
  PROVE  FlagInv'
<1> DEFINE Tables == /\ enabled' \in [Flags -> BOOLEAN \cup {Nil}]
                     /\ rules' \in [Flags -> [RuleIds -> RuleRows \cup {Nil}]]
                     /\ \A f \in Flags, i \in RuleIds : rules'[f][i] # Nil => enabled'[f] # Nil
<1>1. /\ enabled \in [Flags -> BOOLEAN \cup {Nil}]
      /\ rules \in [Flags -> [RuleIds -> RuleRows \cup {Nil}]]
      /\ \A f \in Flags, i \in RuleIds : rules[f][i] # Nil => enabled[f] # Nil
  BY DEF FlagInv, TypeOK
<1>2. ASSUME NEW f \in Flags, NEW on \in BOOLEAN, CreateFlag(a, f, on) \/ UpdateFlag(a, f, on)
      PROVE  FlagInv'
  <2>1. enabled' = [enabled EXCEPT ![f] = on] /\ rules' = rules /\ Commit(a)
    BY <1>2 DEF CreateFlag, UpdateFlag
  <2>2. Tables
    BY <1>1, <2>1, NilAssumption
  <2> QED BY <2>1, <2>2, CommitStep
<1>3. ASSUME NEW f \in Flags, DeleteFlag(a, f)
      PROVE  FlagInv'
  <2>1. /\ enabled' = [enabled EXCEPT ![f] = Nil] /\ Commit(a)
        /\ rules' = [rules EXCEPT ![f] = [i \in RuleIds |-> Nil]]
    BY <1>3 DEF DeleteFlag
  <2>2. Tables
    BY <1>1, <2>1
  <2> QED BY <2>1, <2>2, CommitStep
<1>4. ASSUME NEW f \in Flags, NEW i \in RuleIds, NEW row \in RuleRows \cup {Nil},
             rules' = [rules EXCEPT ![f][i] = row], enabled[f] # Nil, enabled' = enabled, Commit(a)
      PROVE  FlagInv'
  <2>1. PICK rs \in [RuleIds -> RuleRows \cup {Nil}] : rs = [rules[f] EXCEPT ![i] = row]
    BY <1>1
  <2>2. rules' = [rules EXCEPT ![f] = rs]
    BY <1>4, <2>1
  <2>3. Tables
    BY <1>1, <1>4, <2>2
  <2> QED BY <1>4, <2>3, CommitStep
<1>5. ASSUME NEW f \in Flags, NEW i \in RuleIds, DeleteRule(a, f, i)
      PROVE  FlagInv'
  BY <1>1, <1>4, <1>5 DEF DeleteRule
<1>6. ASSUME NEW f \in Flags, NEW i \in RuleIds, NEW r \in RuleRows,
             CreateRule(a, f, i, r) \/ UpdateRule(a, f, i, r)
      PROVE  FlagInv'
  BY <1>1, <1>4, <1>6 DEF CreateRule, UpdateRule
<1> QED BY <1>2, <1>3, <1>5, <1>6 DEF Mutate

\* A mutation that is done leaves nothing of its own behind.
LEMMA IdleMutationTyped ==
  IdleMutation \in Mutation /\ IdleMutation.pc = "idle"
BY DEF IdleMutation, Mutation

\* When a mutation ends, every entry there was is dropped or no longer counts as fresh.
LEMMA InvalidationStep ==
  ASSUME FlagInv, NEW a \in Admins, adm' = [adm EXCEPT ![a] = IdleMutation],
         UNCHANGED <<store, enabled, rules, eval>>,
         index' \in SUBSET Contexts,
         data' \in [Contexts -> Entry \cup {Nil}],
         \A c \in Contexts : ~Fresh(c)'
  PROVE  FlagInv'
<1>1. TypeOK'
  BY IdleMutationTyped DEF FlagInv, TypeOK
<1>2. ~Pending => ~Pending'
  BY IdleMutationTyped DEF Pending, FlagInv, TypeOK
<1>3. ASSUME NEW q \in Readers PROVE EvalOK(q)'
  <2>1. EvalOK(q)
    BY DEF FlagInv
  <2> QED BY <1>2, <2>1 DEF EvalOK
<1>4. \A c \in Contexts : EntryOK(c)'
  BY DEF EntryOK
<1> QED BY <1>1, <1>3, <1>4 DEF FlagInv

\* The memory store is emptied in one step.
LEMMA InvalidateAllMemoryStep ==
  ASSUME FlagInv, NEW a \in Admins, InvalidateAllMemory(a)
  PROVE  FlagInv'
<1>1. /\ adm' = [adm EXCEPT ![a] = IdleMutation] /\ UNCHANGED <<store, enabled, rules, eval>>
      /\ index' \in SUBSET Contexts /\ data' \in [Contexts -> Entry \cup {Nil}]
  BY DEF InvalidateAllMemory, FlagInv, TypeOK
<1>2. \A c \in Contexts : ~Fresh(c)'
  BY DEF InvalidateAllMemory, Fresh
<1> QED BY <1>1, <1>2, InvalidationStep

\* The copy of the index that an invalidation reads names every fresh entry.
LEMMA SMembersStep ==
  ASSUME FlagInv, NEW a \in Admins, SMembers(a)
  PROVE  FlagInv'
<1>1. PICK m : m = [pc |-> "del", keys |-> index]
  OBVIOUS
<1>2. adm' = [adm EXCEPT ![a] = m] /\ UNCHANGED <<store, enabled, rules, data, index, eval>>
  BY <1>1 DEF SMembers
<1>3. m \in Mutation /\ m.pc = "del" /\ m.keys = index
  BY <1>1 DEF Mutation, FlagInv, TypeOK
<1>4. adm \in [Admins -> Mutation]
  BY DEF FlagInv, TypeOK
<1>5. TypeOK'
  BY <1>2, <1>3 DEF FlagInv, TypeOK
<1>6. Pending' /\ Pending
  BY <1>2, <1>3, <1>4 DEF Pending, SMembers
<1>7. ASSUME NEW c \in Contexts PROVE EntryOK(c)'
  <2>1. EntryOK(c)
    BY DEF FlagInv
  <2>2. \A b \in Admins : adm'[b] = IF b = a THEN m ELSE adm[b]
    BY <1>2, <1>4
  <2> QED BY <1>2, <1>3, <1>6, <2>1, <2>2 DEF EntryOK, Fresh, SMembers
<1>8. ASSUME NEW q \in Readers PROVE EvalOK(q)'
  <2>1. EvalOK(q)
    BY DEF FlagInv
  <2> QED BY <1>2, <1>6, <2>1 DEF EvalOK
<1> QED BY <1>5, <1>7, <1>8 DEF FlagInv

\* So the deletion leaves no fresh entry, although it drops the whole index.
LEMMA DelStep ==
  ASSUME FlagInv, NEW a \in Admins, Del(a)
  PROVE  FlagInv'
<1>1. /\ adm' = [adm EXCEPT ![a] = IdleMutation] /\ UNCHANGED <<store, enabled, rules, eval>>
      /\ index' \in SUBSET Contexts /\ data' \in [Contexts -> Entry \cup {Nil}]
  BY DEF Del, FlagInv, TypeOK
<1>2. ASSUME NEW c \in Contexts PROVE ~Fresh(c)'
  <2>1. data'[c] = IF c \in adm[a].keys THEN Nil ELSE data[c]
    BY DEF Del
  <2>2. Fresh(c) => c \in adm[a].keys
    BY DEF FlagInv, EntryOK, Del
  <2> QED BY <2>1, <2>2 DEF Fresh
<1> QED BY <1>1, <1>2, InvalidationStep

\* A lost invalidation taints the entries that were there.
LEMMA InvalidationLostStep ==
  ASSUME FlagInv, NEW a \in Admins, InvalidationLost(a)
  PROVE  FlagInv'
<1>1. /\ adm' = [adm EXCEPT ![a] = IdleMutation] /\ UNCHANGED <<store, enabled, rules, eval>>
      /\ index' \in SUBSET Contexts
  BY DEF InvalidationLost, FlagInv, TypeOK
<1>2. ASSUME NEW c \in Contexts
      PROVE  data'[c] \in Entry \cup {Nil} /\ ~Fresh(c)'
  <2>1. data'[c] = IF data[c] = Nil THEN Nil ELSE [data[c] EXCEPT !.raced = TRUE]
    BY DEF InvalidationLost
  <2>2. CASE data[c] = Nil
    BY <2>1, <2>2 DEF Fresh
  <2>3. CASE data[c] # Nil
    <3>1. data[c] \in Entry
      BY <2>3 DEF FlagInv, TypeOK
    <3>2. PICK new : new = [data[c] EXCEPT !.raced = TRUE]
      OBVIOUS
    <3>3. new \in Entry /\ new.raced = TRUE
      BY <3>1, <3>2 DEF Entry
    <3> QED BY <2>1, <2>3, <3>2, <3>3 DEF Fresh
  <2> QED BY <2>2, <2>3
<1>3. data' \in [Contexts -> Entry \cup {Nil}]
  <2>1. data' = [c \in Contexts |-> data'[c]]
    BY DEF InvalidationLost
  <2> QED BY <1>2, <2>1
<1> QED BY <1>1, <1>2, <1>3, InvalidationStep

\* Every step keeps the invariant.
LEMMA FlagStep ==
  ASSUME FlagInv, [Next]_vars
  PROVE  FlagInv'
<1>1. CASE UNCHANGED vars
  <2>1. UNCHANGED <<store, enabled, rules, data, index, eval, adm>>
    BY <1>1 DEF vars
  <2> QED BY <2>1 DEF FlagInv, TypeOK, EntryOK, Fresh, EvalOK, Pending
<1>2. ASSUME NEW p \in Readers, Evaluate(p) \/ EvaluationFails(p)
      PROVE  FlagInv'
  BY <1>2, EvaluateAllStep, ListFlagsStep, PreloadRulesStep, SetStep, EvaluationFailsStep
     DEF Evaluate
<1>3. ASSUME NEW a \in Admins,
             Mutate(a) \/ InvalidateAllMemory(a) \/ SMembers(a) \/ Del(a) \/ InvalidationLost(a)
      PROVE  FlagInv'
  BY <1>3, MutateStep, InvalidateAllMemoryStep, SMembersStep, DelStep, InvalidationLostStep
<1>4. ASSUME NEW c \in Contexts, Expire(c)
      PROVE  FlagInv'
  BY <1>4, ExpireStep
<1>5. CASE ExpireIndex
  BY <1>5, ExpireIndexStep
<1> QED BY <1>1, <1>2, <1>3, <1>4, <1>5 DEF Next

-----------------------------------------------------------------------------
(* Theorems.                                                               *)

\* Tables, entries and processes stay within their types, fresh entries are current or
\* about to be dropped, and evaluations not overtaken have read the current tables.
THEOREM FlagInvHolds == Spec => []FlagInv
<1> QED BY FlagInit, FlagStep, PTL DEF Spec

\* The rule that decides a flag is the matching one that is least by type, priority and id,
\* whatever rules administrators have sent (evaluateFeatureFlag).
THEOREM MostSpecificRuleDecidesHolds == Spec => []MostSpecificRuleDecides
<1>1. FlagInv => MostSpecificRuleDecides
  BY RulesDecide DEF FlagInv, TypeOK
<1> QED BY <1>1, FlagInvHolds, PTL

\* No order of fills, expiries and invalidations leaves a stale evaluation in the cache,
\* other than one that raced a mutation or outlived a lost invalidation.
THEOREM QuietEntriesAreFreshHolds == Spec => []QuietEntriesAreFresh
<1>1. FlagInv => QuietEntriesAreFresh
  BY DEF FlagInv, EntryOK, Fresh, QuietEntriesAreFresh
<1> QED BY <1>1, FlagInvHolds, PTL
=============================================================================
