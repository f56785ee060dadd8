----------------------- MODULE PermissionCacheProofs -----------------------
(***************************************************************************)
(* Proofs about PermissionCache, for any number of users, sessions, hosts, *)
(* requests and administrators, for both stores.                           *)
(***************************************************************************)
EXTENDS PermissionCache, TLAPS

\* The labels at which a request leads the flight of its key.
Leading == {"get_again", "load", "set"}

\* A request in service has a host, a user and a session; a loaded value is a value;
\* a key that was computed is a key of that user and session.
Busy ==
  \A p \in Requests :
    /\ chk[p].pc # "idle" => /\ chk[p].host \in Hosts /\ chk[p].user \in Users
                             /\ chk[p].tok \in Tokens
    /\ chk[p].pc = "set" => chk[p].val \in PermSet
    /\ chk[p].key # Nil => /\ chk[p].key[3] = chk[p].user
                           /\ chk[p].pc # "idle"

TypeInv == TypeOK /\ Busy

-----------------------------------------------------------------------------
(* Types.                                                                  *)

\* The empty cache and the idle processes are well typed.
LEMMA InitType == Init => TypeInv
<1> SUFFICES ASSUME Init PROVE TypeInv OBVIOUS
<1>1. 0 \in Versions BY BoundAssumption DEF Versions
<1>2. IdleCheck \in Check /\ IdleMutation \in Mutation
  BY <1>1 DEF IdleCheck, Check, IdleMutation, Mutation
<1>3. cache = <<>> /\ DOMAIN cache = {} BY DEF Init
<1>4. cache \in [DOMAIN cache -> Entry] /\ DOMAIN cache \subseteq CacheKeys BY <1>3
<1>5. Busy BY DEF Init, Busy, IdleCheck
<1>. QED BY <1>1, <1>2, <1>4, <1>5 DEF Init, TypeInv, TypeOK

\* A check that is being served, with the fields a step may give it, is a check.
LEMMA DeliverType ==
  ASSUME TypeInv, NEW p \in Requests, chk[p].pc # "idle", NEW label \in {"done", "error"},
         NEW v \in PermSet \cup {Nil}, Deliver(p, label, v)
  PROVE  /\ chk' \in [Requests -> Check]
         /\ flight' \in [FlightKeys -> Requests \cup {Nil}]
         /\ Busy'
<1>0. TypeOK /\ Busy BY DEF TypeInv
<1>1. 0 \in Versions BY BoundAssumption DEF Versions
<1>2. flight' \in [FlightKeys -> Requests \cup {Nil}] BY <1>0 DEF Deliver, TypeOK
<1>3. ASSUME NEW q \in Requests
      PROVE  /\ chk'[q] \in Check
             /\ chk'[q].pc # "idle" => /\ chk'[q].host \in Hosts /\ chk'[q].user \in Users
                                       /\ chk'[q].tok \in Tokens
             /\ chk'[q].pc = "set" => chk'[q].val \in PermSet
             /\ chk'[q].key # Nil => /\ chk'[q].key[3] = chk'[q].user
                                     /\ chk'[q].pc # "idle"
  <2> DEFINE hit == q = p \/ (At(q, "wait") /\ FlightOf(q) = FlightOf(p))
             new == [chk[q] EXCEPT !.pc = label, !.val = v, !.key = Nil, !.at = 0]
  <2>1. chk[q] \in Check BY <1>0 DEF TypeOK
  <2>2. chk'[q] = IF hit THEN new ELSE chk[q] BY DEF Deliver
  <2>3. /\ new \in Check
        /\ new.pc = label /\ new.key = Nil
        /\ new.host = chk[q].host /\ new.user = chk[q].user /\ new.tok = chk[q].tok
    BY <1>1, <2>1 DEF Check
  <2>4. hit => chk[q].pc # "idle" BY DEF At
  <2> HIDE DEF new, hit
  <2>. QED BY <1>0, <2>1, <2>2, <2>3, <2>4 DEF Busy
<1>4. chk' \in [Requests -> Check]
  <2>1. \E f : chk' = [q \in Requests |-> f[q]]
    <3> DEFINE g == [q \in Requests |->
           IF q = p \/ (At(q, "wait") /\ FlightOf(q) = FlightOf(p))
             THEN [chk[q] EXCEPT !.pc = label, !.val = v, !.key = Nil, !.at = 0] ELSE chk[q]]
    <3>1. chk' = g BY DEF Deliver
    <3>2. chk' = [q \in Requests |-> g[q]] BY <3>1
    <3>. QED BY <3>2
  <2>. QED BY <1>3, <2>1
<1>. QED BY <1>2, <1>3, <1>4 DEF Busy

\* The key a look-up or a store uses is a key of the request's user.
LEMMA KeyType ==
  ASSUME TypeInv, NEW p \in Requests, chk[p].pc # "idle", KeyKnown(p)
  PROVE  KeyOf(p) \in CacheKeys /\ KeyOf(p)[3] = chk[p].user
<1>0. TypeOK /\ Busy /\ chk[p] \in Check BY DEF TypeInv, TypeOK
<1>1. chk[p].user \in Users /\ chk[p].tok \in Tokens BY <1>0 DEF Busy
<1>2. /\ DataKey(chk[p].user, chk[p].tok) \in CacheKeys
      /\ DataKey(chk[p].user, chk[p].tok)[3] = chk[p].user
  BY <1>0, <1>1 DEF DataKey, CacheKeys, TypeOK
<1>3. store = "redis" => chk[p].key \in CacheKeys /\ chk[p].key[3] = chk[p].user
  BY <1>0 DEF KeyKnown, Check, Busy
<1>. QED BY <1>2, <1>3 DEF KeyOf

\* A step of one request that leaves it in service keeps the types.
LEMMA MoveType ==
  ASSUME TypeInv, NEW p \in Requests, NEW c \in Check, chk' = [chk EXCEPT ![p] = c],
         c.pc # "idle" => c.host \in Hosts /\ c.user \in Users /\ c.tok \in Tokens,
         c.pc = "set" => c.val \in PermSet,
         c.key # Nil => c.key[3] = c.user /\ c.pc # "idle"
  PROVE  chk' \in [Requests -> Check] /\ Busy'
BY DEF TypeInv, TypeOK, Busy

\* Every step keeps the types.
LEMMA NextType == TypeInv /\ [Next]_vars => TypeInv'
<1> SUFFICES ASSUME TypeInv, [Next]_vars PROVE TypeInv'
  OBVIOUS
<1>0. TypeOK /\ Busy BY DEF TypeInv
<1>z. 0 \in Versions /\ Versions \subseteq Nat BY BoundAssumption DEF Versions
<1>c. \A p \in Requests : chk[p] \in Check BY <1>0 DEF TypeOK
<1>u. \A p \in Requests : chk[p].pc # "idle" =>
        chk[p].host \in Hosts /\ chk[p].user \in Users /\ chk[p].tok \in Tokens
  BY <1>0 DEF Busy
<1>1. ASSUME NEW p \in Requests, NEW h \in Hosts, NEW u \in Users, NEW t \in Tokens,
             Arrive(p, h, u, t)
      PROVE TypeInv'
  <2> DEFINE c == [IdleCheck EXCEPT
         !.pc = "get", !.host = h, !.user = u, !.tok = t]
  <2>1. effective[u] \in Versions BY <1>0 DEF TypeOK
  <2>2. c \in Check /\ c.pc = "get" /\ c.key = Nil /\ c.host = h /\ c.user = u /\ c.tok = t
    BY <1>z, <2>1 DEF IdleCheck, Check
  <2>3. chk' = [chk EXCEPT ![p] = c] BY <1>1 DEF Arrive
  <2>4. chk' \in [Requests -> Check] /\ Busy'
    <3> HIDE DEF c
    <3>. QED BY <2>2, <2>3, MoveType
  <2>. QED
    BY <1>0, <1>1, <2>4
    DEF Arrive, TypeInv, TypeOK, DBUnchanged, EpochsUnchanged, AdminUnchanged
<1>2. ASSUME NEW p \in Requests, ReadEpochs(p) PROVE TypeInv'
  <2> DEFINE k == DataKey(chk[p].user, chk[p].tok)
             c == [chk[p] EXCEPT !.key = k, !.at = effective[chk[p].user]]
  <2>1. chk[p].pc \in {"get", "get_again", "set"} BY <1>2 DEF ReadEpochs
  <2>2. chk[p].user \in Users /\ chk[p].tok \in Tokens /\ chk[p].host \in Hosts
    BY <2>1, <1>u
  <2>3. k \in CacheKeys /\ k[3] = chk[p].user
    BY <1>0, <2>2 DEF DataKey, CacheKeys, TypeOK
  <2>4. effective[chk[p].user] \in Versions BY <1>0, <2>2 DEF TypeOK
  <2>5. /\ c \in Check /\ c.key = k /\ c.pc = chk[p].pc /\ c.host = chk[p].host
        /\ c.user = chk[p].user /\ c.tok = chk[p].tok /\ c.val = chk[p].val
    <3> HIDE DEF k
    <3>. QED BY <1>c, <2>3, <2>4 DEF Check
  <2>6. chk' = [chk EXCEPT ![p] = c] BY <1>2 DEF ReadEpochs
  <2>7. c.pc = "set" => c.val \in PermSet BY <1>0, <2>5 DEF Busy
  <2>8. chk' \in [Requests -> Check] /\ Busy'
    <3> HIDE DEF c, k
    <3>. QED BY <2>1, <2>2, <2>3, <2>5, <2>6, <2>7, MoveType
  <2>. QED
    BY <1>0, <1>2, <2>8
    DEF ReadEpochs, TypeInv, TypeOK, DBUnchanged, EpochsUnchanged, AdminUnchanged
<1>3. ASSUME NEW p \in Requests, Hit(p), chk[p].pc # "idle"
      PROVE  cache[KeyOf(p)].val \in PermSet
  BY <1>0, <1>3, KeyType DEF Hit, TypeOK, Entry
<1>4. ASSUME NEW p \in Requests, GetHit(p) PROVE TypeInv'
  <2> DEFINE c == [chk[p] EXCEPT !.pc = "done", !.val = cache[KeyOf(p)].val,
                                 !.key = Nil, !.at = 0]
  <2>1. chk[p].pc = "get" BY <1>4 DEF GetHit, At
  <2>2. cache[KeyOf(p)].val \in PermSet BY <1>3, <1>4, <2>1 DEF GetHit
  <2>3. /\ c \in Check /\ c.key = Nil /\ c.pc = "done" /\ c.host = chk[p].host
        /\ c.user = chk[p].user /\ c.tok = chk[p].tok
    BY <1>c, <1>z, <2>2 DEF Check
  <2>4. chk' = [chk EXCEPT ![p] = c] BY <1>4 DEF GetHit
  <2>5. chk' \in [Requests -> Check] /\ Busy'
    <3> HIDE DEF c
    <3>. QED BY <1>u, <2>1, <2>3, <2>4, MoveType
  <2>. QED
    BY <1>0, <1>4, <2>5
    DEF GetHit, TypeInv, TypeOK, DBUnchanged, EpochsUnchanged, AdminUnchanged
<1>5. ASSUME NEW p \in Requests, NEW label \in {"do", "load"}, chk[p].pc # "idle",
             chk' = [chk EXCEPT ![p] = [@ EXCEPT !.pc = label, !.key = Nil, !.at = 0]]
      PROVE  chk' \in [Requests -> Check] /\ Busy'
  <2> DEFINE c == [chk[p] EXCEPT !.pc = label, !.key = Nil, !.at = 0]
  <2>1. /\ c \in Check /\ c.key = Nil /\ c.pc = label /\ c.host = chk[p].host
        /\ c.user = chk[p].user /\ c.tok = chk[p].tok
    BY <1>c, <1>z DEF Check
  <2>2. chk' = [chk EXCEPT ![p] = c] BY <1>5
  <2> HIDE DEF c
  <2>. QED BY <1>u, <1>5, <2>1, <2>2, MoveType
<1>6. ASSUME NEW p \in Requests, GetMiss(p) \/ GetAgainMiss(p) PROVE TypeInv'
  <2>1. chk' \in [Requests -> Check] /\ Busy'
    BY <1>5, <1>6 DEF GetMiss, GetAgainMiss, At
  <2>2. UNCHANGED <<store, cache, flight, changes, perms, globalEpoch, userEpoch, adm, effective>>
    BY <1>6 DEF GetMiss, GetAgainMiss, DBUnchanged, EpochsUnchanged, AdminUnchanged
  <2>. QED BY <1>0, <2>1, <2>2, SMTT(30) DEF TypeInv, TypeOK
<1>7. ASSUME NEW p \in Requests, Do(p) PROVE TypeInv'
  <2>1. chk[p].pc = "do" BY <1>7 DEF Do, At
  <2>2. ASSUME NEW label \in {"get_again", "wait"}, chk' = [chk EXCEPT ![p].pc = label]
        PROVE  chk' \in [Requests -> Check] /\ Busy'
    <3> DEFINE c == [chk[p] EXCEPT !.pc = label]
    <3>1. /\ c \in Check /\ c.pc = label /\ c.host = chk[p].host /\ c.key = chk[p].key
          /\ c.user = chk[p].user /\ c.tok = chk[p].tok
      BY <1>c DEF Check
    <3>2. chk' = [chk EXCEPT ![p] = c] BY <2>2
    <3>3. c.key # Nil => c.key[3] = c.user BY <1>0, <3>1 DEF Busy
    <3> HIDE DEF c
    <3>. QED BY <1>u, <2>1, <2>2, <3>1, <3>2, <3>3, MoveType
  <2>3. chk' \in [Requests -> Check] /\ Busy' BY <1>7, <2>2 DEF Do
  <2>4. flight' \in [FlightKeys -> Requests \cup {Nil}] BY <1>0, <1>7 DEF Do, TypeOK
  <2>. QED
    BY <1>0, <1>7, <2>3, <2>4
    DEF Do, TypeInv, TypeOK, DBUnchanged, EpochsUnchanged, AdminUnchanged
<1>8. ASSUME NEW p \in Requests, GetAgainHit(p) PROVE TypeInv'
  <2>1. chk[p].pc = "get_again" BY <1>8 DEF GetAgainHit, At
  <2>2. cache[KeyOf(p)].val \in PermSet BY <1>3, <1>8, <2>1 DEF GetAgainHit
  <2>3. /\ chk' \in [Requests -> Check] /\ Busy'
        /\ flight' \in [FlightKeys -> Requests \cup {Nil}]
    BY <1>8, <2>1, <2>2, DeliverType DEF GetAgainHit
  <2>. QED
    BY <1>0, <1>8, <2>3
    DEF GetAgainHit, TypeInv, TypeOK, DBUnchanged, EpochsUnchanged, AdminUnchanged
<1>9. ASSUME NEW p \in Requests, Load(p) PROVE TypeInv'
  <2>1. chk[p].pc = "load" BY <1>9 DEF Load, At
  <2> DEFINE v == [user |-> chk[p].user, ver |-> perms[chk[p].user]]
             c == [chk[p] EXCEPT !.pc = "set", !.val = v]
  <2>2. v \in PermSet BY <1>0, <1>u, <2>1 DEF PermSet, TypeOK
  <2>3. CASE chk' = [chk EXCEPT ![p] = c] /\ UNCHANGED flight
    <3>1. /\ c \in Check /\ c.pc = "set" /\ c.host = chk[p].host /\ c.key = chk[p].key
          /\ c.user = chk[p].user /\ c.tok = chk[p].tok /\ c.val = v
      <4> HIDE DEF v
      <4>. QED BY <1>c, <2>2 DEF Check
    <3>2. c.key # Nil => c.key[3] = c.user BY <1>0, <3>1 DEF Busy
    <3>3. chk' \in [Requests -> Check] /\ Busy'
      <4> HIDE DEF c, v
      <4>. QED BY <1>u, <2>1, <2>2, <2>3, <3>1, <3>2, MoveType
    <3>. QED
      BY <1>0, <1>9, <2>3, <3>3
      DEF Load, TypeInv, TypeOK, DBUnchanged, EpochsUnchanged, AdminUnchanged
  <2>4. CASE Deliver(p, "error", Nil)
    <3>1. /\ chk' \in [Requests -> Check] /\ Busy'
          /\ flight' \in [FlightKeys -> Requests \cup {Nil}]
      BY <2>1, <2>4, DeliverType
    <3>. QED
      BY <1>0, <1>9, <3>1
      DEF Load, TypeInv, TypeOK, DBUnchanged, EpochsUnchanged, AdminUnchanged
  <2>. QED BY <1>9, <2>3, <2>4 DEF Load
<1>10. ASSUME NEW p \in Requests, Set(p) PROVE TypeInv'
  <2>1. chk[p].pc = "set" /\ chk[p].val \in PermSet BY <1>0, <1>10 DEF Set, At, Busy
  <2>2. /\ chk' \in [Requests -> Check] /\ Busy'
        /\ flight' \in [FlightKeys -> Requests \cup {Nil}]
    BY <1>10, <2>1, DeliverType DEF Set
  <2>3. ASSUME NEW k \in CacheKeys, NEW e \in Entry, cache' = Put(k, e)
        PROVE  DOMAIN cache' \subseteq CacheKeys /\ cache' \in [DOMAIN cache' -> Entry]
    BY <1>0, <2>3 DEF Put, TypeOK
  <2>4. DOMAIN cache' \subseteq CacheKeys /\ cache' \in [DOMAIN cache' -> Entry]
    <3> DEFINE e == [val |-> chk[p].val,
                     at  |-> IF store = "redis" THEN chk[p].at ELSE effective[chk[p].user]]
    <3>1. CASE cache' = cache BY <1>0, <3>1 DEF TypeOK
    <3>2. CASE KeyKnown(p) /\ cache' = Put(KeyOf(p), e)
      <4>1. KeyOf(p) \in CacheKeys BY <2>1, <3>2, KeyType
      <4>2. chk[p].at \in Versions BY <1>c DEF Check
      <4>3. effective[chk[p].user] \in Versions BY <1>0, <1>u, <2>1 DEF TypeOK
      <4>4. e \in Entry BY <2>1, <4>2, <4>3 DEF Entry
      <4> HIDE DEF e
      <4>. QED BY <2>3, <3>2, <4>1, <4>4
    <3>. QED BY <1>10, <3>1, <3>2 DEF Set
  <2>. QED
    BY <1>0, <1>10, <2>2, <2>4
    DEF Set, TypeInv, TypeOK, DBUnchanged, EpochsUnchanged, AdminUnchanged
<1>11. ASSUME NEW k \in DOMAIN cache, Expire(k) PROVE TypeInv'
  <2>1. DOMAIN cache' \subseteq CacheKeys /\ cache' \in [DOMAIN cache' -> Entry]
    BY <1>0, <1>11 DEF Expire, Drop, TypeOK
  <2>. QED
    BY <1>0, <1>11, <2>1
    DEF Expire, TypeInv, TypeOK, Busy, DBUnchanged, EpochsUnchanged, AdminUnchanged
<1>12. ASSUME NEW a \in Admins, NEW us \in SUBSET Users, Commit(a, us, "invalidate_user")
                                                   \/ Commit(a, us, "invalidate_all")
       PROVE TypeInv'
  <2>1. changes + 1 \in Versions
    BY <1>0, <1>12, BoundAssumption DEF Commit, TypeOK, Versions
  <2>2. /\ changes' \in Versions /\ perms' \in [Users -> Versions]
        /\ adm' \in [Admins -> Mutation]
    BY <1>0, <1>12, <2>1 DEF Commit, TypeOK, Mutation
  <2>. QED BY <1>0, <1>12, <2>2 DEF Commit, TypeInv, TypeOK, Busy, EpochsUnchanged
<1>13. ASSUME NEW a \in Admins, InvalidateUser(a) \/ InvalidateAll(a) PROVE TypeInv'
  <2>1. adm[a] \in Mutation BY <1>0 DEF TypeOK
  <2>2. effective' \in [Users -> Versions]
    BY <1>0, <1>13, <2>1 DEF InvalidateUser, InvalidateAll, Invalidated, TypeOK, Mutation
  <2>3. IdleMutation \in Mutation BY <1>z DEF IdleMutation, Mutation
  <2>4. adm' \in [Admins -> Mutation]
    BY <1>0, <1>13, <2>3 DEF InvalidateUser, InvalidateAll, Invalidated, TypeOK
  <2>5. globalEpoch' \in Nat /\ userEpoch' \in [Users -> Nat]
    BY <1>0, <1>13 DEF InvalidateUser, InvalidateAll, TypeOK
  <2>. QED
    BY <1>0, <1>13, <2>2, <2>4, <2>5
    DEF InvalidateUser, InvalidateAll, TypeInv, TypeOK, Busy, DBUnchanged
<1>14. ASSUME NEW a \in Admins, InvalidationLost(a) PROVE TypeInv'
  <2>1. IdleMutation \in Mutation BY <1>z DEF IdleMutation, Mutation
  <2>. QED
    BY <1>0, <1>14, <2>1
    DEF InvalidationLost, TypeInv, TypeOK, Busy, DBUnchanged, EpochsUnchanged
<1>15. CASE UNCHANGED vars
  BY <1>0, <1>15 DEF vars, TypeInv, TypeOK, Busy
<1>. QED
  BY <1>1, <1>2, <1>4, <1>6, <1>7, <1>8, <1>9, <1>10, <1>11, <1>12, <1>13, <1>14, <1>15
  DEF Next, Resolve, Mutate, SetUserRoles, MutateRBAC

\* Type correctness, for every number of hosts, users, sessions and requests.
THEOREM TypeCorrect == Spec => []TypeOK
<1>1. TypeInv => TypeOK BY DEF TypeInv
<1>. QED BY InitType, NextType, <1>1, PTL DEF Spec

-----------------------------------------------------------------------------
(* Invalidation.                                                           *)

\* A key with epochs from the past is dead; one with the present epochs was chosen
\* under what is effective now.
Dated(k, at) ==
  /\ k[1] <= globalEpoch /\ k[2] <= userEpoch[k[3]]
  /\ k[1] = globalEpoch /\ k[2] = userEpoch[k[3]] => at = effective[k[3]]

CacheDated == \A k \in DOMAIN cache : Dated(k, cache[k].at)
CheckDated == \A p \in Requests : chk[p].key # Nil => Dated(chk[p].key, chk[p].at)

EpochInv == TypeInv /\ CacheDated /\ CheckDated

\* Every step keeps the keys dated: the two invalidations move an epoch together
\* with what is effective, the others leave both alone.
LEMMA NextEpoch == EpochInv /\ [Next]_vars => EpochInv'
<1> SUFFICES ASSUME EpochInv, [Next]_vars PROVE EpochInv'
  OBVIOUS
<1>0. TypeInv /\ TypeOK /\ Busy /\ CacheDated /\ CheckDated BY DEF EpochInv, TypeInv
<1>t. TypeInv' BY <1>0, NextType
<1>d. ASSUME NEW u \in Users, NEW t \in Tokens PROVE Dated(DataKey(u, t), effective[u])
  BY <1>0 DEF Dated, DataKey, TypeOK
<1>1. ASSUME EpochsUnchanged, UNCHANGED effective, UNCHANGED cache PROVE CacheDated'
  BY <1>0, <1>1 DEF CacheDated, Dated, EpochsUnchanged
<1>2. ASSUME EpochsUnchanged, UNCHANGED effective, NEW p \in Requests, NEW c,
             chk' = [chk EXCEPT ![p] = c], c.key = Nil \/ Dated(c.key, c.at)
      PROVE  CheckDated'
  BY <1>0, <1>2 DEF CheckDated, Dated, EpochsUnchanged, TypeOK
<1>3. ASSUME EpochsUnchanged, UNCHANGED effective, NEW p \in Requests, NEW label, NEW v,
             Deliver(p, label, v)
      PROVE  CheckDated'
  <2>1. ASSUME NEW q \in Requests, chk'[q].key # Nil PROVE Dated(chk'[q].key, chk'[q].at)
    <3>1. chk[q] \in Check BY <1>0 DEF TypeOK
    <3>2. \/ chk'[q] = chk[q]
          \/ chk'[q] = [chk[q] EXCEPT !.pc = label, !.val = v, !.key = Nil, !.at = 0]
      BY <1>3 DEF Deliver
    <3>3. [chk[q] EXCEPT !.pc = label, !.val = v, !.key = Nil, !.at = 0].key = Nil
      BY <3>1 DEF Check
    <3>4. chk'[q] = chk[q] BY <2>1, <3>2, <3>3
    <3>. QED BY <1>0, <2>1, <3>4 DEF CheckDated
  <2>. QED BY <1>3, <2>1 DEF CheckDated, Dated, EpochsUnchanged
<1>4. ASSUME NEW p \in Requests, NEW h \in Hosts, NEW u \in Users, NEW t \in Tokens,
             Arrive(p, h, u, t)
      PROVE  EpochInv'
  <2> DEFINE c == [IdleCheck EXCEPT
         !.pc = "get", !.host = h, !.user = u, !.tok = t]
  <2>1. c.key = Nil BY DEF IdleCheck
  <2>2. chk' = [chk EXCEPT ![p] = c] BY <1>4 DEF Arrive
  <2>3. EpochsUnchanged /\ UNCHANGED <<effective, cache>>
    BY <1>4 DEF Arrive, AdminUnchanged
  <2> HIDE DEF c
  <2>. QED BY <1>t, <1>1, <1>2, <2>1, <2>2, <2>3 DEF EpochInv
<1>5. ASSUME NEW p \in Requests, ReadEpochs(p) PROVE EpochInv'
  <2> DEFINE k == DataKey(chk[p].user, chk[p].tok)
             c == [chk[p] EXCEPT !.key = k, !.at = effective[chk[p].user]]
  <2>1. chk[p].user \in Users /\ chk[p].tok \in Tokens
    BY <1>0, <1>5 DEF ReadEpochs, Busy
  <2>2. Dated(k, effective[chk[p].user]) BY <1>d, <2>1
  <2>3. c.key = k /\ c.at = effective[chk[p].user] BY <1>0 DEF TypeOK, Check
  <2>4. chk' = [chk EXCEPT ![p] = c] BY <1>5 DEF ReadEpochs
  <2>5. EpochsUnchanged /\ UNCHANGED <<effective, cache>>
    BY <1>5 DEF ReadEpochs, AdminUnchanged
  <2>6. c.key = Nil \/ Dated(c.key, c.at) BY <2>2, <2>3
  <2> HIDE DEF c, k
  <2>. QED BY <1>t, <1>1, <1>2, <2>4, <2>5, <2>6 DEF EpochInv
<1>6. ASSUME NEW p \in Requests, GetHit(p) PROVE EpochInv'
  <2> DEFINE c == [chk[p] EXCEPT !.pc = "done", !.val = cache[KeyOf(p)].val,
                                 !.key = Nil, !.at = 0]
  <2>1. c.key = Nil BY <1>0 DEF TypeOK, Check
  <2>2. chk' = [chk EXCEPT ![p] = c] BY <1>6 DEF GetHit
  <2>3. EpochsUnchanged /\ UNCHANGED <<effective, cache>> BY <1>6 DEF GetHit, AdminUnchanged
  <2> HIDE DEF c
  <2>. QED BY <1>t, <1>1, <1>2, <2>1, <2>2, <2>3 DEF EpochInv
<1>7. ASSUME NEW p \in Requests, GetMiss(p) \/ GetAgainMiss(p) PROVE EpochInv'
  <2>1. PICK label : chk' = [chk EXCEPT ![p] = [@ EXCEPT !.pc = label, !.key = Nil, !.at = 0]]
    BY <1>7 DEF GetMiss, GetAgainMiss
  <2> DEFINE c == [chk[p] EXCEPT !.pc = label, !.key = Nil, !.at = 0]
  <2>2. c.key = Nil BY <1>0 DEF TypeOK, Check
  <2>3. chk' = [chk EXCEPT ![p] = c] BY <2>1
  <2>4. EpochsUnchanged /\ UNCHANGED <<effective, cache>>
    BY <1>7 DEF GetMiss, GetAgainMiss, AdminUnchanged
  <2> HIDE DEF c
  <2>. QED BY <1>t, <1>1, <1>2, <2>2, <2>3, <2>4 DEF EpochInv
<1>8. ASSUME NEW p \in Requests, Do(p) PROVE EpochInv'
  <2>1. PICK label : chk' = [chk EXCEPT ![p].pc = label] BY <1>8 DEF Do
  <2> DEFINE c == [chk[p] EXCEPT !.pc = label]
  <2>2. c.key = chk[p].key /\ c.at = chk[p].at BY <1>0 DEF TypeOK, Check
  <2>3. chk' = [chk EXCEPT ![p] = c] BY <2>1
  <2>4. EpochsUnchanged /\ UNCHANGED <<effective, cache>> BY <1>8 DEF Do, AdminUnchanged
  <2>5. c.key = Nil \/ Dated(c.key, c.at) BY <1>0, <2>2 DEF CheckDated
  <2> HIDE DEF c
  <2>. QED BY <1>t, <1>1, <1>2, <2>3, <2>4, <2>5 DEF EpochInv
<1>9. ASSUME NEW p \in Requests, GetAgainHit(p) PROVE EpochInv'
  BY <1>t, <1>1, <1>3, <1>9 DEF GetAgainHit, AdminUnchanged, EpochInv
<1>10. ASSUME NEW p \in Requests, Load(p) PROVE EpochInv'
  <2>1. EpochsUnchanged /\ UNCHANGED <<effective, cache>> BY <1>10 DEF Load, AdminUnchanged
  <2> DEFINE c == [chk[p] EXCEPT
               !.pc = "set", !.val = [user |-> chk[p].user, ver |-> perms[chk[p].user]]]
  <2>2. CASE chk' = [chk EXCEPT ![p] = c]
    <3>1. c.key = chk[p].key /\ c.at = chk[p].at BY <1>0 DEF TypeOK, Check
    <3>2. c.key = Nil \/ Dated(c.key, c.at) BY <1>0, <3>1 DEF CheckDated
    <3> HIDE DEF c
    <3>. QED BY <1>t, <1>1, <1>2, <2>1, <2>2, <3>2 DEF EpochInv
  <2>3. CASE Deliver(p, "error", Nil) BY <1>t, <1>1, <1>3, <2>1, <2>3 DEF EpochInv
  <2>. QED BY <1>10, <2>2, <2>3 DEF Load
<1>11. ASSUME NEW p \in Requests, Set(p) PROVE EpochInv'
  <2> DEFINE e == [val |-> chk[p].val,
                   at  |-> IF store = "redis" THEN chk[p].at ELSE effective[chk[p].user]]
  <2>1. EpochsUnchanged /\ UNCHANGED effective BY <1>11 DEF Set, AdminUnchanged
  <2>2. CheckDated' BY <1>3, <1>11, <2>1 DEF Set
  <2>3. CASE cache' = cache BY <1>t, <1>1, <2>1, <2>2, <2>3 DEF EpochInv
  <2>4. CASE KeyKnown(p) /\ cache' = Put(KeyOf(p), e)
    <3>1. chk[p].user \in Users /\ chk[p].tok \in Tokens BY <1>0, <1>11 DEF Set, At, Busy
    <3>2. Dated(KeyOf(p), e.at) BY <1>0, <1>d, <2>4, <3>1 DEF KeyOf, KeyKnown, CheckDated
    <3> HIDE DEF e
    <3>3. \A k \in DOMAIN cache' : \/ k = KeyOf(p) /\ cache'[k] = e
                                   \/ k \in DOMAIN cache /\ cache'[k] = cache[k]
      BY <2>4 DEF Put
    <3>4. \A k \in DOMAIN cache' : Dated(k, cache'[k].at)
      BY <1>0, <3>2, <3>3 DEF CacheDated
    <3>5. CacheDated' BY <2>1, <3>4 DEF CacheDated, Dated, EpochsUnchanged
    <3>. QED BY <1>t, <2>2, <3>5 DEF EpochInv
  <2>. QED BY <1>11, <2>3, <2>4 DEF Set
<1>12. ASSUME NEW k \in DOMAIN cache, Expire(k) PROVE EpochInv'
  <2>1. EpochsUnchanged /\ UNCHANGED <<effective, chk>> BY <1>12 DEF Expire, AdminUnchanged
  <2>2. CacheDated'
    BY <1>0, <1>12, <2>1 DEF Expire, Drop, CacheDated, Dated, EpochsUnchanged
  <2>3. CheckDated' BY <1>0, <2>1 DEF CheckDated, Dated, EpochsUnchanged
  <2>. QED BY <1>t, <2>2, <2>3 DEF EpochInv
<1>13. ASSUME EpochsUnchanged, UNCHANGED <<effective, cache, chk>> PROVE EpochInv'
  <2>1. CacheDated' BY <1>1, <1>13
  <2>2. CheckDated' BY <1>0, <1>13 DEF CheckDated, Dated, EpochsUnchanged
  <2>. QED BY <1>t, <2>1, <2>2 DEF EpochInv
<1>14. ASSUME NEW k \in CacheKeys, NEW at, Dated(k, at), NEW a \in Admins,
              InvalidateUser(a) \/ InvalidateAll(a)
       PROVE  Dated(k, at)'
  <2>1. k[1] \in Nat /\ k[2] \in Nat /\ k[3] \in Users BY DEF CacheKeys
  <2>2. globalEpoch \in Nat /\ userEpoch[k[3]] \in Nat BY <1>0, <2>1 DEF TypeOK
  <2>3. CASE InvalidateAll(a)
    <3>1. k[1] < globalEpoch' /\ globalEpoch' \in Nat /\ userEpoch' = userEpoch
      BY <1>14, <2>1, <2>2, <2>3 DEF InvalidateAll, Dated
    <3>. QED BY <1>14, <2>1, <2>2, <3>1 DEF Dated
  <2>4. CASE InvalidateUser(a) /\ k[3] \in adm[a].users
    <3>1. k[2] < userEpoch'[k[3]] /\ userEpoch'[k[3]] \in Nat /\ globalEpoch' = globalEpoch
      BY <1>14, <2>1, <2>2, <2>4 DEF InvalidateUser, Dated
    <3>. QED BY <1>14, <2>1, <2>2, <3>1 DEF Dated
  <2>5. CASE InvalidateUser(a) /\ k[3] \notin adm[a].users
    <3>1. /\ userEpoch'[k[3]] = userEpoch[k[3]] /\ globalEpoch' = globalEpoch
          /\ effective'[k[3]] = effective[k[3]]
      BY <2>1, <2>5 DEF InvalidateUser, Invalidated
    <3>. QED BY <1>14, <3>1 DEF Dated
  <2>. QED BY <1>14, <2>3, <2>4, <2>5
<1>15. ASSUME NEW a \in Admins, InvalidateUser(a) \/ InvalidateAll(a) PROVE EpochInv'
  <2>1. UNCHANGED <<cache, chk>> BY <1>15 DEF InvalidateUser, InvalidateAll
  <2>2. ASSUME NEW k \in DOMAIN cache PROVE Dated(k, cache[k].at)'
    <3>1. k \in CacheKeys /\ Dated(k, cache[k].at) BY <1>0 DEF TypeOK, CacheDated
    <3>2. UNCHANGED cache[k].at BY <2>1
    <3> DEFINE at == cache[k].at
    <3>3. /\ k[1] <= globalEpoch' /\ k[2] <= userEpoch'[k[3]]
          /\ k[1] = globalEpoch' /\ k[2] = userEpoch'[k[3]] => at = effective'[k[3]]
      BY <1>14, <1>15, <3>1 DEF Dated
    <3>. QED BY <3>2, <3>3 DEF Dated
  <2>3. ASSUME NEW p \in Requests, chk[p].key # Nil PROVE Dated(chk[p].key, chk[p].at)'
    <3>1. chk[p].key \in CacheKeys /\ Dated(chk[p].key, chk[p].at)
      BY <1>0, <2>3 DEF TypeOK, Check, CheckDated
    <3> DEFINE k == chk[p].key
               at == chk[p].at
    <3>2. /\ k[1] <= globalEpoch' /\ k[2] <= userEpoch'[k[3]]
          /\ k[1] = globalEpoch' /\ k[2] = userEpoch'[k[3]] => at = effective'[k[3]]
      <4>1. k \in CacheKeys /\ Dated(k, at) BY <3>1
      <4> HIDE DEF k, at
      <4>. QED BY <1>14, <1>15, <4>1 DEF Dated
    <3>. QED BY <2>1, <3>2 DEF Dated
  <2>4. CacheDated' BY <2>1, <2>2 DEF CacheDated
  <2>5. CheckDated' BY <2>1, <2>3 DEF CheckDated
  <2>. QED BY <1>t, <2>4, <2>5 DEF EpochInv
<1>16. ASSUME NEW a \in Admins, NEW us, Commit(a, us, "invalidate_user")
                                        \/ Commit(a, us, "invalidate_all")
       PROVE  EpochInv'
  BY <1>13, <1>16 DEF Commit
<1>17. ASSUME NEW a \in Admins, InvalidationLost(a) PROVE EpochInv'
  BY <1>13, <1>17 DEF InvalidationLost
<1>18. CASE UNCHANGED vars
  BY <1>13, <1>18 DEF vars, EpochsUnchanged
<1>. QED
  BY <1>4, <1>5, <1>6, <1>7, <1>8, <1>9, <1>10, <1>11, <1>12, <1>15, <1>16, <1>17, <1>18
  DEF Next, Resolve, Mutate, SetUserRoles, MutateRBAC

\* An entry that a look-up can find was written under a key chosen after the last
\* invalidation that concerns its user, in both stores and with any number of
\* requests and administrators.
THEOREM InvalidationEndsEntriesHolds == Spec => []InvalidationEndsEntries
<1>1. Init => EpochInv
  <2> SUFFICES ASSUME Init PROVE EpochInv OBVIOUS
  <2>1. CacheDated BY DEF Init, CacheDated
  <2>2. CheckDated BY DEF Init, CheckDated, IdleCheck
  <2>. QED BY InitType, <2>1, <2>2 DEF EpochInv
<1>2. EpochInv => InvalidationEndsEntries
  BY DEF EpochInv, CacheDated, Dated, DataKey, InvalidationEndsEntries
<1>. QED BY <1>1, <1>2, NextEpoch, PTL DEF Spec

-----------------------------------------------------------------------------
(* Whose permissions are answered, and by whom they are computed.          *)

\* What is cached, loaded or answered for a user are that user's permissions.
CacheOwn == \A k \in DOMAIN cache : cache[k].val.user = k[3]
CheckOwn ==
  \A p \in Requests : chk[p].pc \in {"set", "done"} =>
    chk[p].val \in PermSet /\ chk[p].val.user = chk[p].user

\* A request that computes permissions is the registered leader of its flight.
LeaderKnown ==
  \A p \in Requests : chk[p].pc \in Leading =>
    flight[<<chk[p].host, chk[p].user, chk[p].tok>>] = p

OwnInv == TypeInv /\ CacheOwn /\ CheckOwn /\ LeaderKnown

\* A request that is not a leader moves, and what it holds is its own.
LEMMA MoveOwn ==
  ASSUME OwnInv, NEW p \in Requests, NEW c, chk' = [chk EXCEPT ![p] = c], UNCHANGED flight,
         c.pc \in {"set", "done"} => c.val \in PermSet /\ c.val.user = c.user,
         c.pc \in Leading => flight[<<c.host, c.user, c.tok>>] = p
  PROVE  CheckOwn' /\ LeaderKnown'
BY DEF OwnInv, TypeInv, TypeOK, CheckOwn, LeaderKnown

\* The end of a flight: those who waited asked for the same user.
LEMMA DeliverOwn ==
  ASSUME OwnInv, NEW p \in Requests, chk[p].pc \in Leading, NEW label \in {"done", "error"},
         NEW v, label = "done" => v \in PermSet /\ v.user = chk[p].user,
         Deliver(p, label, v)
  PROVE  CheckOwn' /\ LeaderKnown'
<1>0. TypeOK /\ Busy /\ CheckOwn /\ LeaderKnown BY DEF OwnInv, TypeInv
<1>1. ASSUME NEW q \in Requests
      PROVE  /\ chk'[q].host = chk[q].host /\ chk'[q].user = chk[q].user
             /\ chk'[q].tok = chk[q].tok
             /\ \/ chk'[q] = chk[q] /\ q # p
                \/ chk'[q].pc = label /\ chk'[q].val = v /\ chk[q].user = chk[p].user
  <2> DEFINE hit == q = p \/ (At(q, "wait") /\ FlightOf(q) = FlightOf(p))
             new == [chk[q] EXCEPT !.pc = label, !.val = v, !.key = Nil, !.at = 0]
  <2>1. chk[q] \in Check BY <1>0 DEF TypeOK
  <2>2. chk'[q] = IF hit THEN new ELSE chk[q] BY DEF Deliver
  <2>3. /\ new.pc = label /\ new.val = v
        /\ new.host = chk[q].host /\ new.user = chk[q].user /\ new.tok = chk[q].tok
    BY <2>1 DEF Check
  <2>4. hit => chk[q].user = chk[p].user BY DEF FlightOf
  <2>5. q = p => hit OBVIOUS
  <2> HIDE DEF new, hit
  <2>. QED BY <2>2, <2>3, <2>4, <2>5
<1>2. CheckOwn' BY <1>0, <1>1 DEF CheckOwn
<1>3. ASSUME NEW q \in Requests, chk'[q].pc \in Leading
      PROVE  flight'[<<chk'[q].host, chk'[q].user, chk'[q].tok>>] = q
  <2>1. q # p /\ chk'[q] = chk[q] BY <1>1, <1>3 DEF Leading
  <2> DEFINE f == <<chk[q].host, chk[q].user, chk[q].tok>>
  <2>2. flight[f] = q BY <1>0, <1>3, <2>1 DEF LeaderKnown
  <2>3. flight[FlightOf(p)] = p BY <1>0 DEF LeaderKnown, FlightOf
  <2>4. f # FlightOf(p) BY <2>1, <2>2, <2>3
  <2>5. flight' = [flight EXCEPT ![FlightOf(p)] = Nil] BY DEF Deliver
  <2>6. f \in FlightKeys BY <1>0, <1>3, <2>1 DEF Busy, FlightKeys, Leading
  <2>7. flight'[f] = flight[f] BY <1>0, <2>4, <2>5, <2>6 DEF TypeOK
  <2>. QED BY <2>1, <2>2, <2>7
<1>. QED BY <1>2, <1>3 DEF LeaderKnown

\* Every step keeps answers with their users and flights with their leaders.
LEMMA NextOwn == OwnInv /\ [Next]_vars => OwnInv'
<1> SUFFICES ASSUME OwnInv, [Next]_vars PROVE OwnInv'
  OBVIOUS
<1>0. TypeInv /\ TypeOK /\ Busy /\ CacheOwn /\ CheckOwn /\ LeaderKnown BY DEF OwnInv, TypeInv
<1>t. TypeInv' BY <1>0, NextType
<1>c. \A p \in Requests : chk[p] \in Check BY <1>0 DEF TypeOK
<1>n. UNCHANGED cache => CacheOwn' BY <1>0 DEF CacheOwn
<1>h. ASSUME NEW p \in Requests, chk[p].pc # "idle", Hit(p)
      PROVE  cache[KeyOf(p)].val \in PermSet /\ cache[KeyOf(p)].val.user = chk[p].user
  <2>1. KeyOf(p) \in DOMAIN cache /\ KeyOf(p)[3] = chk[p].user
    BY <1>0, <1>h, KeyType DEF Hit
  <2>. QED BY <1>0, <2>1 DEF CacheOwn, TypeOK, Entry
<1>1. ASSUME NEW p \in Requests, NEW h \in Hosts, NEW u \in Users, NEW t \in Tokens,
             Arrive(p, h, u, t)
      PROVE  OwnInv'
  <2> DEFINE c == [IdleCheck EXCEPT
         !.pc = "get", !.host = h, !.user = u, !.tok = t]
  <2>1. c.pc = "get" BY DEF IdleCheck
  <2>2. chk' = [chk EXCEPT ![p] = c] /\ UNCHANGED <<flight, cache>> BY <1>1 DEF Arrive
  <2> HIDE DEF c
  <2>. QED BY <1>t, <1>n, <2>1, <2>2, MoveOwn DEF OwnInv, Leading
<1>2. ASSUME NEW p \in Requests, ReadEpochs(p) PROVE OwnInv'
  <2> DEFINE c == [chk[p] EXCEPT !.key = DataKey(chk[p].user, chk[p].tok),
                                 !.at = effective[chk[p].user]]
  <2>1. /\ c.pc = chk[p].pc /\ c.val = chk[p].val
        /\ c.host = chk[p].host /\ c.user = chk[p].user /\ c.tok = chk[p].tok
    BY <1>c DEF Check
  <2>2. chk' = [chk EXCEPT ![p] = c] /\ UNCHANGED <<flight, cache>> BY <1>2 DEF ReadEpochs
  <2> HIDE DEF c
  <2>3. c.pc \in {"set", "done"} => c.val \in PermSet /\ c.val.user = c.user
    BY <1>0, <2>1 DEF CheckOwn
  <2>4. c.pc \in Leading => flight[<<c.host, c.user, c.tok>>] = p
    BY <1>0, <2>1 DEF LeaderKnown
  <2>. QED BY <1>t, <1>n, <2>2, <2>3, <2>4, MoveOwn DEF OwnInv
<1>3. ASSUME NEW p \in Requests, GetHit(p) PROVE OwnInv'
  <2> DEFINE c == [chk[p] EXCEPT !.pc = "done", !.val = cache[KeyOf(p)].val,
                                 !.key = Nil, !.at = 0]
  <2>1. c.pc = "done" /\ c.val = cache[KeyOf(p)].val /\ c.user = chk[p].user
    BY <1>c DEF Check
  <2>2. chk' = [chk EXCEPT ![p] = c] /\ UNCHANGED <<flight, cache>> BY <1>3 DEF GetHit
  <2>3. c.val \in PermSet /\ c.val.user = c.user BY <1>h, <1>3, <2>1 DEF GetHit, At
  <2> HIDE DEF c
  <2>. QED BY <1>t, <1>n, <2>1, <2>2, <2>3, MoveOwn DEF OwnInv, Leading
<1>4. ASSUME NEW p \in Requests, GetMiss(p) PROVE OwnInv'
  <2> DEFINE c == [chk[p] EXCEPT !.pc = "do", !.key = Nil, !.at = 0]
  <2>1. c.pc = "do" BY <1>c DEF Check
  <2>2. chk' = [chk EXCEPT ![p] = c] /\ UNCHANGED <<flight, cache>> BY <1>4 DEF GetMiss
  <2> HIDE DEF c
  <2>. QED BY <1>t, <1>n, <2>1, <2>2, MoveOwn DEF OwnInv, Leading
<1>5. ASSUME NEW p \in Requests, GetAgainMiss(p) PROVE OwnInv'
  <2> DEFINE c == [chk[p] EXCEPT !.pc = "load", !.key = Nil, !.at = 0]
  <2>1. /\ c.pc = "load"
        /\ c.host = chk[p].host /\ c.user = chk[p].user /\ c.tok = chk[p].tok
    BY <1>c DEF Check
  <2>2. chk' = [chk EXCEPT ![p] = c] /\ UNCHANGED <<flight, cache>>
    BY <1>5 DEF GetAgainMiss
  <2>3. flight[<<c.host, c.user, c.tok>>] = p
    BY <1>0, <1>5, <2>1 DEF LeaderKnown, GetAgainMiss, At, Leading
  <2> HIDE DEF c
  <2>. QED BY <1>t, <1>n, <2>1, <2>2, <2>3, MoveOwn DEF OwnInv
<1>6. ASSUME NEW p \in Requests, Do(p) PROVE OwnInv'
  <2>1. CASE flight[FlightOf(p)] # Nil
    <3> DEFINE c == [chk[p] EXCEPT !.pc = "wait"]
    <3>1. c.pc = "wait" BY <1>c DEF Check
    <3>2. chk' = [chk EXCEPT ![p] = c] /\ UNCHANGED <<flight, cache>> BY <1>6, <2>1 DEF Do
    <3> HIDE DEF c
    <3>. QED BY <1>t, <1>n, <3>1, <3>2, MoveOwn DEF OwnInv, Leading
  <2>2. CASE flight[FlightOf(p)] = Nil
    <3>1. /\ flight' = [flight EXCEPT ![FlightOf(p)] = p]
          /\ chk' = [chk EXCEPT ![p].pc = "get_again"] /\ UNCHANGED cache
      BY <1>6, <2>2 DEF Do
    <3>2. FlightOf(p) \in FlightKeys
      BY <1>0, <1>6 DEF FlightOf, FlightKeys, Busy, Do, At
    <3>3. /\ chk'[p].pc = "get_again" /\ chk'[p].host = chk[p].host
          /\ chk'[p].user = chk[p].user /\ chk'[p].tok = chk[p].tok
      BY <1>0, <1>c, <3>1 DEF Check, TypeOK
    <3>4. \A q \in Requests : q # p => chk'[q] = chk[q] BY <1>0, <3>1 DEF TypeOK
    <3>5. CheckOwn' BY <1>0, <3>3, <3>4 DEF CheckOwn
    <3>6. ASSUME NEW q \in Requests, chk'[q].pc \in Leading
          PROVE  flight'[<<chk'[q].host, chk'[q].user, chk'[q].tok>>] = q
      <4>1. CASE q = p BY <1>0, <3>1, <3>2, <3>3, <4>1 DEF FlightOf, TypeOK
      <4>2. CASE q # p
        <5> DEFINE f == <<chk[q].host, chk[q].user, chk[q].tok>>
        <5>1. chk'[q] = chk[q] /\ flight[f] = q BY <1>0, <3>4, <3>6, <4>2 DEF LeaderKnown
        <5>2. f # FlightOf(p) BY <2>2, <5>1, NilAssumption
        <5>3. f \in FlightKeys BY <1>0, <3>6, <5>1 DEF Busy, FlightKeys, Leading
        <5>4. flight'[f] = flight[f] BY <1>0, <3>1, <5>2, <5>3 DEF TypeOK
        <5>. QED BY <5>1, <5>4
      <4>. QED BY <4>1, <4>2
    <3>7. LeaderKnown' BY <3>6 DEF LeaderKnown
    <3>. QED BY <1>t, <1>n, <3>1, <3>5, <3>7 DEF OwnInv
  <2>. QED BY <2>1, <2>2
<1>7. ASSUME NEW p \in Requests, GetAgainHit(p) PROVE OwnInv'
  <2>1. chk[p].pc = "get_again" BY <1>7 DEF GetAgainHit, At
  <2>2. cache[KeyOf(p)].val \in PermSet /\ cache[KeyOf(p)].val.user = chk[p].user
    BY <1>h, <1>7, <2>1 DEF GetAgainHit
  <2>3. CheckOwn' /\ LeaderKnown' BY <1>7, <2>1, <2>2, DeliverOwn DEF GetAgainHit, Leading
  <2>. QED BY <1>t, <1>n, <1>7, <2>3 DEF GetAgainHit, OwnInv
<1>8. ASSUME NEW p \in Requests, Load(p) PROVE OwnInv'
  <2>1. chk[p].pc = "load" /\ UNCHANGED cache BY <1>8 DEF Load, At
  <2> DEFINE v == [user |-> chk[p].user, ver |-> perms[chk[p].user]]
             c == [chk[p] EXCEPT !.pc = "set", !.val = v]
  <2>2. CASE chk' = [chk EXCEPT ![p] = c] /\ UNCHANGED flight
    <3>1. v \in PermSet /\ v.user = chk[p].user
      BY <1>0, <2>1 DEF PermSet, TypeOK, Busy
    <3>2. /\ c.pc = "set" /\ c.val = v
          /\ c.host = chk[p].host /\ c.user = chk[p].user /\ c.tok = chk[p].tok
      BY <1>c DEF Check
    <3>3. flight[<<c.host, c.user, c.tok>>] = p
      BY <1>0, <2>1, <3>2 DEF LeaderKnown, Leading
    <3> HIDE DEF c, v
    <3>. QED BY <1>t, <1>n, <2>1, <2>2, <3>1, <3>2, <3>3, MoveOwn DEF OwnInv
  <2>3. CASE Deliver(p, "error", Nil)
    <3>1. CheckOwn' /\ LeaderKnown' BY <2>1, <2>3, DeliverOwn DEF Leading
    <3>. QED BY <1>t, <1>n, <2>1, <3>1 DEF OwnInv
  <2>. QED BY <1>8, <2>2, <2>3 DEF Load
<1>9. ASSUME NEW p \in Requests, Set(p) PROVE OwnInv'
  <2>1. chk[p].pc = "set" BY <1>9 DEF Set, At
  <2>2. chk[p].val \in PermSet /\ chk[p].val.user = chk[p].user BY <1>0, <2>1 DEF CheckOwn
  <2>3. CheckOwn' /\ LeaderKnown' BY <1>9, <2>1, <2>2, DeliverOwn DEF Set, Leading
  <2> DEFINE e == [val |-> chk[p].val,
                   at  |-> IF store = "redis" THEN chk[p].at ELSE effective[chk[p].user]]
  <2>4. CASE cache' = cache BY <1>t, <1>n, <2>3, <2>4 DEF OwnInv
  <2>5. CASE KeyKnown(p) /\ cache' = Put(KeyOf(p), e)
    <3>1. KeyOf(p)[3] = chk[p].user BY <1>0, <2>1, <2>5, KeyType
    <3>2. e.val = chk[p].val OBVIOUS
    <3> HIDE DEF e
    <3>3. \A k \in DOMAIN cache' : \/ k = KeyOf(p) /\ cache'[k] = e
                                   \/ k \in DOMAIN cache /\ cache'[k] = cache[k]
      BY <2>5 DEF Put
    <3>4. CacheOwn' BY <1>0, <2>2, <3>1, <3>2, <3>3 DEF CacheOwn
    <3>. QED BY <1>t, <2>3, <3>4 DEF OwnInv
  <2>. QED BY <1>9, <2>4, <2>5 DEF Set
<1>10. ASSUME NEW k \in DOMAIN cache, Expire(k) PROVE OwnInv'
  <2>1. CacheOwn' BY <1>0, <1>10 DEF Expire, Drop, CacheOwn
  <2>2. CheckOwn' /\ LeaderKnown' BY <1>0, <1>10 DEF Expire, CheckOwn, LeaderKnown
  <2>. QED BY <1>t, <2>1, <2>2 DEF OwnInv
<1>11. ASSUME UNCHANGED <<cache, flight, chk>> PROVE OwnInv'
  BY <1>0, <1>t, <1>11 DEF OwnInv, CacheOwn, CheckOwn, LeaderKnown
<1>12. ASSUME NEW a \in Admins, Mutate(a) PROVE OwnInv'
  BY <1>11, <1>12 DEF Mutate, SetUserRoles, MutateRBAC, Commit, InvalidateUser,
                      InvalidateAll, InvalidationLost
<1>13. CASE UNCHANGED vars BY <1>11, <1>13 DEF vars
<1>. QED
  BY <1>1, <1>2, <1>3, <1>4, <1>5, <1>6, <1>7, <1>8, <1>9, <1>10, <1>12, <1>13
  DEF Next, Resolve

\* No cache, no flight and nothing answered yet.
LEMMA InitOwn == Init => OwnInv
<1> SUFFICES ASSUME Init PROVE OwnInv OBVIOUS
<1>1. CacheOwn BY DEF Init, CacheOwn
<1>2. CheckOwn /\ LeaderKnown BY DEF Init, CheckOwn, LeaderKnown, IdleCheck, Leading
<1>. QED BY InitType, <1>1, <1>2 DEF OwnInv

\* A caller is judged by its own permissions, whoever computed them and wherever
\* they were found.
THEOREM AnswerIsOwnHolds == Spec => []AnswerIsOwn
<1>1. OwnInv => AnswerIsOwn BY NilAssumption DEF OwnInv, CheckOwn, AnswerIsOwn, At
<1>. QED BY <1>1, InitOwn, NextOwn, PTL DEF Spec

\* At most one request per host computes a user's permissions for a session.
THEOREM OneLeaderHolds == Spec => []OneLeader
<1>1. OwnInv => OneLeader
  BY DEF OwnInv, LeaderKnown, OneLeader, FlightOf, Leading
<1>. QED BY <1>1, InitOwn, NextOwn, PTL DEF Spec
=============================================================================
