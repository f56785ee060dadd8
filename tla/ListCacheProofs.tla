-------------------------- MODULE ListCacheProofs --------------------------
(***************************************************************************)
(* Proofs about ListCache for any number of queries, records, concurrent   *)
(* list requests and mutations, with either store.                         *)
(***************************************************************************)
EXTENDS ListCache, TLAPS, WellFoundedInduction, SequenceTheorems

USE DEF Owing

\* A stored page that no change has overtaken.
Fresh(l, k) == data[l][k] # Nil /\ ~data[l][k].raced

MutationOK(a) ==
  /\ adm[a].pc \in Owing => adm[a].todo # << >>
  /\ \A l \in Lists : adm[a].at[l] <= version[l]
  /\ adm[a].pc \in {"lookup", "find", "remember"} => adm[a].id \in Records
  /\ adm[a].id # Nil /\ role[adm[a].id] # "live" => adm[a].absent
  /\ adm[a].pc \in {"remember", "not_found"} => adm[a].absent
  /\ adm[a].pc \in {"lookup", "find", "commit", "more"} => adm[a].op \in AllOps
  /\ adm[a].pc = "more" => Shows(adm[a].op) \subseteq Range(adm[a].todo)

\* A fresh entry is one state of the tables, older than every change that still owes its
\* invalidation; the first change since it was read does, and will find it in the index.
EntryOK(l, k) ==
  Fresh(l, k) =>
    /\ data[l][k].total = data[l][k].rows /\ data[l][k].total <= version[l]
    /\ data[l][k].total < version[l] =>
         \E a \in Admins : Owes(a, l) /\ adm[a].at[l] = data[l][k].total + 1
    /\ \A a \in Admins : Owes(a, l) => data[l][k].total < adm[a].at[l]
    /\ store = "redis" => k \in index[l]
    /\ \A a \in Admins : adm[a].pc = "del" /\ Head(adm[a].todo) = l => k \in adm[a].keys

\* A page that is being read and that no change has overtaken is the current state.
ReaderOK(r) ==
  /\ reader[r].pc # "idle" => reader[r].list \in Lists /\ reader[r].query \in Queries
  /\ reader[r].pc \notin {"idle", "answered"} => reader[r].floor <= version[reader[r].list]
  /\ Filling(r) /\ ~reader[r].page.raced =>
       /\ ~Pending(reader[r].list)
       /\ reader[r].pc \in {"find", "set"} => reader[r].page.total = version[reader[r].list]
       /\ reader[r].pc = "set" => reader[r].page.rows = version[reader[r].list]
  /\ reader[r].pc = "answered" =>
       \/ reader[r].page.raced
       \/ reader[r].page.total = reader[r].page.rows /\ reader[r].page.total >= reader[r].floor

ListInv ==
  /\ TypeOK
  /\ \A a \in Admins : MutationOK(a)
  /\ \A l \in Lists, k \in Keys : EntryOK(l, k)
  /\ \A r \in Readers : ReaderOK(r)

-----------------------------------------------------------------------------
(* Helpers.                                                                *)

\* A set of naturals has a least element.
LEMMA LeastNatural ==
  ASSUME NEW S \in SUBSET Nat, S # {}
  PROVE  \E n \in S : \A m \in S : n <= m
<1>1. PICK n \in S : \A m \in S : <<m, n>> \notin OpToRel(<, Nat)
  BY NatLessThanWellFounded, WFMin, Zenon
<1>2. \A m \in S : ~(m < n)
  BY <1>1 DEF OpToRel
<1> QED BY <1>2

\* What is left to invalidate once the first namespace is done.
LEMMA RangeOfTail ==
  ASSUME NEW S, NEW s \in Seq(S), s # << >>
  PROVE  /\ Head(s) \in Range(s) /\ Head(s) \in S
         /\ Tail(s) \in Seq(S)
         /\ Len(s) # 1 => Tail(s) # << >>
         /\ Range(Tail(s)) \subseteq Range(s)
         /\ \A x \in Range(s) : x # Head(s) => Len(s) # 1 /\ x \in Range(Tail(s))
<1>1. /\ Tail(s) \in Seq(S) /\ Len(Tail(s)) = Len(s) - 1 /\ Head(s) \in S
      /\ \A i \in 1 .. Len(Tail(s)) : Tail(s)[i] = s[i+1]
  BY HeadTailProperties, SMT
<1>2. Head(s) = s[1] /\ DOMAIN s = 1 .. Len(s) /\ Len(s) \in Nat /\ Len(s) > 0
  BY EmptySeq, SMT
<1>3. DOMAIN Tail(s) = 1 .. Len(Tail(s))
  BY <1>1, SMT
<1>4. Head(s) \in Range(s)
  BY <1>2, SMT DEF Range
<1>5. ASSUME NEW x \in Range(Tail(s)) PROVE x \in Range(s)
  <2>1. PICK i \in 1 .. Len(Tail(s)) : x = Tail(s)[i]
    BY <1>3, <1>5 DEF Range
  <2>2. i + 1 \in DOMAIN s /\ x = s[i + 1]
    BY <1>1, <1>2, <2>1
  <2> QED BY <2>2 DEF Range
<1>6. ASSUME NEW x \in Range(s), x # Head(s) PROVE Len(s) # 1 /\ x \in Range(Tail(s))
  <2>1. PICK i \in 1 .. Len(s) : x = s[i]
    BY <1>2, <1>6 DEF Range
  <2>2. i - 1 \in 1 .. Len(Tail(s)) /\ x = Tail(s)[i - 1]
    BY <1>1, <1>2, <1>6, <2>1
  <2>3. Len(s) # 1
    BY <1>1, <1>2, <2>2
  <2>4. x \in Range(Tail(s))
    BY <1>3, <2>2 DEF Range
  <2> QED BY <2>3, <2>4
<1>7. Len(s) # 1 => Tail(s) # << >>
  <2>1. Len(Tail(s)) = 0 <=> Tail(s) = << >>
    BY <1>1, EmptySeq
  <2> QED BY <1>1, <1>2, <2>1
<1> QED BY <1>1, <1>4, <1>5, <1>6, <1>7

\* The lists that show a change are those that are invalidated after it.
LEMMA ShownIsInvalidated ==
  ASSUME NEW op \in AllOps
  PROVE  /\ invalidateAdminListCaches(op) \in Seq(Namespaces)
         /\ invalidateAdminListCaches(op) # << >>
         /\ Shows(op) \subseteq Range(invalidateAdminListCaches(op))
         /\ \A l \in Lists : l \in Range(invalidateAdminListCaches(op)) => l \in Shows(op)
<1>1. ASSUME NEW t \in Seq(Namespaces)
      PROVE  /\ \A i \in 1 .. Len(t) : t[i] \in Range(t)
             /\ \A x \in Range(t) : \E i \in 1 .. Len(t) : x = t[i]
  <2>1. DOMAIN t = 1 .. Len(t)
    OBVIOUS
  <2> QED BY <2>1 DEF Range
<1> USE DEF Namespaces, Lists
<1>2. CASE op \in {"create_role", "update_role", "delete_role"}
  <2>1. PICK t : t = <<"roles", "users", "missing">>
    OBVIOUS
  <2>2. t \in Seq(Namespaces) /\ Len(t) = 3 /\ t[1] = "roles" /\ t[2] = "users" /\ t[3] = "missing"
    BY <2>1
  <2>3. invalidateAdminListCaches(op) = t /\ Shows(op) = {"roles", "users"}
    BY <1>2, <2>1 DEF invalidateAdminListCaches, Shows
  <2>4. \A x \in Range(t) : x \in {"roles", "users", "missing"}
    BY <1>1, <2>2
  <2>5. t[1] \in Range(t) /\ t[2] \in Range(t) /\ t[3] \in Range(t)
    <3>1. 1 \in 1 .. Len(t) /\ 2 \in 1 .. Len(t) /\ 3 \in 1 .. Len(t)
      BY <2>2
    <3> QED BY <1>1, <2>2, <3>1
  <2> QED BY <2>2, <2>3, <2>4, <2>5
<1>3. CASE op = "permission"
  <2>1. PICK t : t = <<"permissions", "roles">>
    OBVIOUS
  <2>2. t \in Seq(Namespaces) /\ Len(t) = 2 /\ t[1] = "permissions" /\ t[2] = "roles"
    BY <2>1
  <2>3. invalidateAdminListCaches(op) = t /\ Shows(op) = {"permissions", "roles"}
    BY <1>3, <2>1 DEF invalidateAdminListCaches, Shows
  <2>4. \A x \in Range(t) : x \in {"permissions", "roles"}
    BY <1>1, <2>2
  <2>5. t[1] \in Range(t) /\ t[2] \in Range(t)
    <3>1. 1 \in 1 .. Len(t) /\ 2 \in 1 .. Len(t)
      BY <2>2
    <3> QED BY <1>1, <2>2, <3>1
  <2> QED BY <2>2, <2>3, <2>4, <2>5
<1>4. CASE op = "set_roles"
  <2>1. PICK t : t = <<"users">>
    OBVIOUS
  <2>2. t \in Seq(Namespaces) /\ Len(t) = 1 /\ t[1] = "users"
    BY <2>1
  <2>3. invalidateAdminListCaches(op) = t /\ Shows(op) = {"users"}
    BY <1>4, <2>1 DEF invalidateAdminListCaches, Shows
  <2> QED BY <1>1, <2>2, <2>3
<1>5. CASE op = "sync"
  <2>1. PICK t : t = <<"users", "roles", "permissions", "missing">>
    OBVIOUS
  <2>2. /\ t \in Seq(Namespaces) /\ Len(t) = 4
        /\ t[1] = "users" /\ t[2] = "roles" /\ t[3] = "permissions" /\ t[4] = "missing"
    BY <2>1
  <2>3. invalidateAdminListCaches(op) = t /\ Shows(op) = {"users", "roles", "permissions"}
    BY <1>5, <2>1 DEF invalidateAdminListCaches, Shows
  <2>4. \A x \in Range(t) : x \in {"users", "roles", "permissions", "missing"}
    BY <1>1, <2>2
  <2>5. t[1] \in Range(t) /\ t[2] \in Range(t) /\ t[3] \in Range(t)
    <3>1. 1 \in 1 .. Len(t) /\ 2 \in 1 .. Len(t) /\ 3 \in 1 .. Len(t)
      BY <2>2
    <3> QED BY <1>1, <2>2, <3>1
  <2> QED BY <2>2, <2>3, <2>4, <2>5
<1> QED BY <1>2, <1>3, <1>4, <1>5 DEF AllOps

\* What a request may rely on when it arrives: no more than the current version, and less
\* than any change whose invalidation is still owed.
LEMMA SettledBound ==
  ASSUME ListInv, NEW l \in Lists
  PROVE  /\ Settled(l) \in Nat /\ Settled(l) <= version[l]
         /\ \A a \in Admins : Owes(a, l) /\ adm[a].at[l] > 0 => Settled(l) < adm[a].at[l]
<1> DEFINE open == {a \in Admins : Owes(a, l) /\ adm[a].at[l] > 0}
           P(v) == (\E a \in open : adm[a].at[l] = v + 1) /\ \A a \in open : v < adm[a].at[l]
<1>1. /\ version[l] \in Nat
      /\ \A a \in Admins : adm[a].at[l] \in Nat /\ adm[a].at[l] <= version[l]
  BY DEF ListInv, TypeOK, Mutation, MutationOK
<1>2. CASE open = {}
  BY <1>1, <1>2 DEF Settled, Owes
<1>3. CASE open # {}
  <2>1. PICK n \in {adm[a].at[l] : a \in open} : \A m \in {adm[a].at[l] : a \in open} : n <= m
    <3>1. {adm[a].at[l] : a \in open} \in SUBSET Nat /\ {adm[a].at[l] : a \in open} # {}
      BY <1>1, <1>3
    <3> QED BY <3>1, LeastNatural
  <2>2. n \in Nat /\ n > 0 /\ n <= version[l]
    BY <1>1, <2>1
  <2>3. n - 1 \in 0 .. version[l] /\ P(n - 1)
    BY <1>1, <2>1, <2>2
  <2>4. Settled(l) = CHOOSE v \in 0 .. version[l] : P(v)
    BY <1>3 DEF Settled
  <2>5. Settled(l) \in 0 .. version[l] /\ P(Settled(l))
    <3> HIDE DEF P
    <3> QED BY <2>3, <2>4
  <2> QED BY <1>1, <2>5 DEF Owes
<1> QED BY <1>2, <1>3

-----------------------------------------------------------------------------
(* Initial states.                                                         *)

\* Nothing is cached and nobody is at work.
LEMMA InitListInv == Init => ListInv
<1> SUFFICES ASSUME Init PROVE ListInv
  OBVIOUS
<1>1. NoChange \in [Lists -> Nat] /\ \A l \in Lists : NoChange[l] = 0
  BY DEF NoChange
<1>2. IdleMutation \in Mutation
  BY <1>1 DEF IdleMutation, Mutation
<1>3. IdleReader \in Reader
  BY DEF IdleReader, Reader, NoPage, Page
<1>4. TypeOK
  BY <1>1, <1>2, <1>3 DEF Init, TypeOK
<1>5. ASSUME NEW a \in Admins PROVE MutationOK(a)
  BY <1>1 DEF Init, MutationOK, IdleMutation
<1>6. ASSUME NEW l \in Lists, NEW k \in Keys PROVE EntryOK(l, k)
  BY DEF Init, EntryOK, Fresh, Namespaces
<1>7. ASSUME NEW r \in Readers PROVE ReaderOK(r)
  BY DEF Init, ReaderOK, Filling, IdleReader
<1> QED BY <1>4, <1>5, <1>6, <1>7 DEF ListInv

-----------------------------------------------------------------------------
(* List requests.                                                          *)

\* A step of a list request that leaves the caches alone disturbs neither the mutations nor
\* the entries.
LEMMA ReadersOnly ==
  ASSUME ListInv, UNCHANGED <<store, tables, caches, adm>>
  PROVE  /\ (\A a \in Admins : MutationOK(a))'
         /\ (\A l \in Lists, k \in Keys : EntryOK(l, k))'
         /\ (reader \in [Readers -> Reader])' => TypeOK'
         /\ \A n : Pending(n)' <=> Pending(n)
<1> USE DEF tables, caches
<1>1. (\A a \in Admins : MutationOK(a))'
  BY DEF ListInv, MutationOK
<1>2. (\A l \in Lists, k \in Keys : EntryOK(l, k))'
  BY DEF ListInv, EntryOK, Fresh, Owes
<1>3. (reader \in [Readers -> Reader])' => TypeOK'
  BY DEF ListInv, TypeOK
<1>4. ASSUME NEW n PROVE Pending(n)' <=> Pending(n)
  BY DEF Pending, Owes
<1> QED BY <1>1, <1>2, <1>3, <1>4

\* A request is served from the cache: a change the page does not show still owes its
\* invalidation, so the request could not rely on it.
LEMMA HitKeepsListInv ==
  ASSUME ListInv, NEW r \in Readers, NEW p \in Processes, NEW l \in Lists, NEW q \in Queries,
         Hit(r, p, l, q)
  PROVE  ListInv'
<1>1. UNCHANGED <<store, tables, caches, adm>>
  BY DEF Hit, Read
<1>2. q \in Keys /\ l \in Namespaces /\ data[l][q] \in Page /\ version[l] \in Nat
  BY DEF ListInv, TypeOK, Hit, Keys, Namespaces
<1>3. Settled(l) \in Nat /\ Settled(l) <= version[l]
      /\ \A a \in Admins : Owes(a, l) /\ adm[a].at[l] > 0 => Settled(l) < adm[a].at[l]
  BY SettledBound
<1>4. PICK new : new = [pc |-> "answered", on |-> p, list |-> l, query |-> q, page |-> data[l][q],
                        floor |-> Settled(l)]
  OBVIOUS
<1>5. reader' = [reader EXCEPT ![r] = new] /\ reader \in [Readers -> Reader]
  BY <1>4 DEF Hit, Read, ListInv, TypeOK
<1>6. new \in Reader
  BY <1>2, <1>3, <1>4 DEF Reader
<1>7. data[l][q].raced \/ (data[l][q].total = data[l][q].rows /\ data[l][q].total >= Settled(l))
  <2> SUFFICES ASSUME ~data[l][q].raced
               PROVE  data[l][q].total = data[l][q].rows /\ data[l][q].total >= Settled(l)
    OBVIOUS
  <2>1. Fresh(l, q)
    BY DEF Hit, Fresh
  <2>2. /\ data[l][q].total = data[l][q].rows
        /\ data[l][q].total < version[l] =>
             \E a \in Admins : Owes(a, l) /\ adm[a].at[l] = data[l][q].total + 1
    BY <1>2, <2>1 DEF ListInv, EntryOK
  <2>3. data[l][q].total \in Nat
    BY <1>2 DEF Page
  <2>4. CASE data[l][q].total < version[l]
    <3>1. PICK a \in Admins : Owes(a, l) /\ adm[a].at[l] = data[l][q].total + 1
      BY <2>2, <2>4
    <3>2. Settled(l) < data[l][q].total + 1
      BY <1>3, <2>3, <3>1
    <3> QED BY <1>3, <2>2, <2>3, <3>2
  <2> QED BY <1>2, <1>3, <2>2, <2>3, <2>4
<1>8. ASSUME NEW s \in Readers PROVE ReaderOK(s)'
  <2>1. CASE s = r
    <3>1. reader'[s] = new
      BY <1>5, <2>1
    <3> QED BY <1>4, <1>7, <3>1 DEF ReaderOK, Filling
  <2>2. CASE s # r
    <3>1. reader'[s] = reader[s] /\ ReaderOK(s)
      BY <1>5, <2>2 DEF ListInv
    <3> QED BY <1>1, <3>1 DEF ReaderOK, Filling, Pending, Owes, tables
  <2> QED BY <2>1, <2>2
<1> QED BY <1>1, <1>5, <1>6, <1>8, ReadersOnly DEF ListInv

\* A step of a single request that leaves the caches alone keeps the invariant when the new
\* state of the request is right by itself.
LEMMA OwnReadKeepsListInv ==
  ASSUME ListInv, NEW r \in Readers, NEW new \in Reader,
         Read(r, new), UNCHANGED caches,
         new.pc # "idle" => new.list \in Lists /\ new.query \in Queries,
         new.pc \notin {"idle", "answered"} => new.floor <= version[new.list],
         new.pc \in {"count", "find", "set"} /\ ~new.page.raced =>
           /\ ~Pending(new.list)
           /\ new.pc \in {"find", "set"} => new.page.total = version[new.list]
           /\ new.pc = "set" => new.page.rows = version[new.list],
         new.pc # "answered"
  PROVE  ListInv'
<1>1. UNCHANGED <<store, tables, caches, adm>>
  BY DEF Read
<1>2. reader' = [reader EXCEPT ![r] = new] /\ reader \in [Readers -> Reader]
  BY DEF Read, ListInv, TypeOK
<1>3. ASSUME NEW s \in Readers PROVE ReaderOK(s)'
  <2>1. CASE s = r
    <3>1. reader'[s] = new
      BY <1>2, <2>1
    <3> QED BY <1>1, <3>1 DEF ReaderOK, Filling, Pending, Owes, tables
  <2>2. CASE s # r
    <3>1. reader'[s] = reader[s] /\ ReaderOK(s)
      BY <1>2, <2>2 DEF ListInv
    <3> QED BY <1>1, <3>1 DEF ReaderOK, Filling, Pending, Owes, tables
  <2> QED BY <2>1, <2>2
<1> QED BY <1>1, <1>2, <1>3, ReadersOnly DEF ListInv

\* A request that misses, then leads or joins, and reads count and rows.
LEMMA ReadKeepsListInv ==
  ASSUME ListInv, NEW r \in Readers,
         \/ \E p \in Processes, l \in Lists, q \in Queries : Miss(r, p, l, q)
         \/ Lead(r) \/ Join(r) \/ Count(r) \/ Find(r) \/ Done(r)
  PROVE  ListInv'
<1>1. reader[r] \in Reader /\ ReaderOK(r) /\ version \in [Lists -> Nat]
  BY DEF ListInv, TypeOK
<1>2. reader[r].page \in Page
  BY <1>1 DEF Reader
<1>3. ASSUME NEW p \in Processes, NEW l \in Lists, NEW q \in Queries, Miss(r, p, l, q)
      PROVE  ListInv'
  <2>1. PICK new : new = [pc |-> "missed", on |-> p, list |-> l, query |-> q, page |-> NoPage,
                          floor |-> Settled(l)]
    OBVIOUS
  <2>2. Settled(l) \in Nat /\ Settled(l) <= version[l]
    BY SettledBound
  <2>3. new \in Reader
    BY <2>1, <2>2 DEF Reader, NoPage, Page
  <2>4. Read(r, new) /\ UNCHANGED caches
    BY <1>3, <2>1 DEF Miss
  <2> QED BY <2>1, <2>2, <2>3, <2>4, OwnReadKeepsListInv
<1>4. CASE Lead(r)
  <2>1. PICK new : new = [reader[r] EXCEPT !.pc = "count", !.page.raced = Pending(reader[r].list)]
    OBVIOUS
  <2>2. reader[r].pc = "missed"
    BY <1>4 DEF Lead
  <2>3. Pending(reader[r].list) \in BOOLEAN
    BY DEF Pending, Owes
  <2>4. /\ new \in Reader /\ new.pc = "count" /\ new.list = reader[r].list
        /\ new.query = reader[r].query /\ new.floor = reader[r].floor
        /\ new.page.raced = Pending(reader[r].list)
    BY <1>1, <1>2, <2>1, <2>3 DEF Reader, Page
  <2>5. /\ reader[r].list \in Lists /\ reader[r].query \in Queries
        /\ reader[r].floor <= version[reader[r].list]
    BY <1>1, <2>2 DEF ReaderOK
  <2>6. Read(r, new) /\ UNCHANGED caches
    BY <1>4, <2>1 DEF Lead
  <2> QED BY <2>4, <2>5, <2>6, OwnReadKeepsListInv
<1>5. CASE Join(r)
  <2>1. PICK new : new = [reader[r] EXCEPT !.pc = "wait"]
    OBVIOUS
  <2>2. reader[r].pc = "missed"
    BY <1>5 DEF Join
  <2>3. /\ new \in Reader /\ new.pc = "wait" /\ new.list = reader[r].list
        /\ new.query = reader[r].query /\ new.floor = reader[r].floor
    BY <1>1, <2>1 DEF Reader
  <2>4. /\ reader[r].list \in Lists /\ reader[r].query \in Queries
        /\ reader[r].floor <= version[reader[r].list]
    BY <1>1, <2>2 DEF ReaderOK
  <2>5. Read(r, new) /\ UNCHANGED caches
    BY <1>5, <2>1 DEF Join
  <2> QED BY <2>3, <2>4, <2>5, OwnReadKeepsListInv
<1>6. CASE Count(r)
  <2>1. PICK new : new = [reader[r] EXCEPT !.pc = "find", !.page.total = version[reader[r].list]]
    OBVIOUS
  <2>2. reader[r].pc = "count"
    BY <1>6 DEF Count
  <2>3. /\ reader[r].list \in Lists /\ reader[r].query \in Queries
        /\ reader[r].floor <= version[reader[r].list]
        /\ ~reader[r].page.raced => ~Pending(reader[r].list)
    BY <1>1, <2>2 DEF ReaderOK, Filling
  <2>4. /\ new \in Reader /\ new.pc = "find" /\ new.list = reader[r].list
        /\ new.query = reader[r].query /\ new.floor = reader[r].floor
        /\ new.page.raced = reader[r].page.raced /\ new.page.total = version[reader[r].list]
    BY <1>1, <1>2, <2>1, <2>3 DEF Reader, Page
  <2>5. Read(r, new) /\ UNCHANGED caches
    BY <1>6, <2>1 DEF Count
  <2> QED BY <2>3, <2>4, <2>5, OwnReadKeepsListInv
<1>7. CASE Find(r)
  <2>1. PICK new : new = [reader[r] EXCEPT !.pc = "set", !.page.rows = version[reader[r].list]]
    OBVIOUS
  <2>2. reader[r].pc = "find"
    BY <1>7 DEF Find
  <2>3. /\ reader[r].list \in Lists /\ reader[r].query \in Queries
        /\ reader[r].floor <= version[reader[r].list]
        /\ ~reader[r].page.raced => /\ ~Pending(reader[r].list)
                                    /\ reader[r].page.total = version[reader[r].list]
    BY <1>1, <2>2 DEF ReaderOK, Filling
  <2>4. /\ new \in Reader /\ new.pc = "set" /\ new.list = reader[r].list
        /\ new.query = reader[r].query /\ new.floor = reader[r].floor
        /\ new.page.raced = reader[r].page.raced /\ new.page.total = reader[r].page.total
        /\ new.page.rows = version[reader[r].list]
    BY <1>1, <1>2, <2>1, <2>3 DEF Reader, Page
  <2>5. Read(r, new) /\ UNCHANGED caches
    BY <1>7, <2>1 DEF Find
  <2> QED BY <2>3, <2>4, <2>5, OwnReadKeepsListInv
<1>8. CASE Done(r)
  <2>1. IdleReader \in Reader /\ IdleReader.pc = "idle"
    BY DEF IdleReader, Reader, NoPage, Page
  <2>2. Read(r, IdleReader) /\ UNCHANGED caches
    BY <1>8 DEF Done
  <2> QED BY <2>1, <2>2, OwnReadKeepsListInv
<1> QED BY <1>3, <1>4, <1>5, <1>6, <1>7, <1>8

\* A failed query ends the leader and those who wait for it.
LEMMA QueryFailsKeepsListInv ==
  ASSUME ListInv, NEW r \in Readers, QueryFails(r)
  PROVE  ListInv'
<1>1. UNCHANGED <<store, tables, caches, adm>>
  BY DEF QueryFails
<1>2. ASSUME NEW s \in Readers PROVE reader'[s] = IdleReader \/ reader'[s] = reader[s]
  BY DEF QueryFails
<1>3. IdleReader \in Reader
  BY DEF IdleReader, Reader, NoPage, Page
<1>4. reader' \in [Readers -> Reader]
  <2>1. \A s \in Readers : reader[s] \in Reader
    BY DEF ListInv, TypeOK
  <2> QED BY <1>3, <2>1 DEF QueryFails
<1>5. ASSUME NEW s \in Readers PROVE ReaderOK(s)'
  <2>1. CASE reader'[s] = IdleReader
    BY <2>1 DEF ReaderOK, Filling, IdleReader
  <2>2. CASE reader'[s] = reader[s]
    <3>1. ReaderOK(s)
      BY DEF ListInv
    <3> QED BY <1>1, <2>2, <3>1 DEF ReaderOK, Filling, Pending, Owes, tables
  <2> QED BY <1>2, <2>1, <2>2
<1> QED BY <1>1, <1>4, <1>5, ReadersOnly DEF ListInv

\* The leader stores its page and everyone who waited is answered with it.  A page that no
\* change has overtaken is stored while no invalidation of its list is under way.
LEMMA AnswerKeepsListInv ==
  ASSUME ListInv, NEW r \in Readers, Answer(r)
  PROVE  ListInv'
<1> DEFINE l == reader[r].list
           q == reader[r].query
           page == reader[r].page
<1>1. UNCHANGED <<store, version, role, adm>> /\ reader[r].pc = "set"
  BY DEF Answer, tables
<1>2. /\ store \in Stores /\ version \in [Lists -> Nat] /\ reader \in [Readers -> Reader]
      /\ data \in [Namespaces -> [Keys -> Page \cup {Nil}]]
      /\ index \in [Namespaces -> SUBSET Keys]
  BY DEF ListInv, TypeOK
<1>3. ReaderOK(r) /\ page \in Page
  BY <1>2 DEF ListInv, Reader
<1>4. l \in Lists /\ l \in Namespaces /\ q \in Queries /\ q \in Keys
  BY <1>1, <1>3 DEF ReaderOK, Namespaces, Keys
<1>5. ~page.raced => /\ ~Pending(l)
                     /\ page.total = version[l] /\ page.rows = version[l]
  BY <1>1, <1>3 DEF ReaderOK, Filling
<1>6. /\ data' \in [Namespaces -> [Keys -> Page \cup {Nil}]]
      /\ index' \in [Namespaces -> SUBSET Keys]
  <2>1. CASE UNCHANGED caches
    BY <1>2, <2>1 DEF caches
  <2>2. CASE Set(l, q, page)
    <3>1. data' = [data EXCEPT ![l][q] = page]
      BY <2>2 DEF Set
    <3>2. data' \in [Namespaces -> [Keys -> Page \cup {Nil}]]
      BY <1>2, <1>3, <1>4, <3>1
    <3>3. index' \in [Namespaces -> SUBSET Keys]
      BY <1>2, <1>4, <2>2 DEF Set
    <3> QED BY <3>2, <3>3
  <2> QED BY <2>1, <2>2 DEF Answer
<1>7. ASSUME NEW s \in Readers
      PROVE  \/ reader'[s] = reader[s]
             \/ /\ reader'[s] = [reader[s] EXCEPT !.pc = "answered", !.page = page]
                /\ reader[s].list = l /\ reader[s].pc \in {"set", "wait"}
  BY <1>1 DEF Answer, Leader
<1>8. reader' \in [Readers -> Reader]
  <2>1. ASSUME NEW s \in Readers PROVE reader'[s] \in Reader
    <3>1. reader[s] \in Reader
      BY <1>2
    <3>2. [reader[s] EXCEPT !.pc = "answered", !.page = page] \in Reader
      BY <1>3, <3>1 DEF Reader
    <3> QED BY <1>7, <3>1, <3>2
  <2>2. reader' = [s \in Readers |-> reader'[s]]
    BY DEF Answer
  <2> QED BY <2>1, <2>2
<1>9. TypeOK'
  BY <1>1, <1>2, <1>6, <1>8 DEF ListInv, TypeOK
<1>10. (\A a \in Admins : MutationOK(a))'
  BY <1>1 DEF ListInv, MutationOK
<1>11. ASSUME NEW m \in Lists, NEW k \in Keys PROVE EntryOK(m, k)'
  <2>1. EntryOK(m, k) /\ m \in Namespaces
    BY DEF ListInv, Namespaces
  <2>2. CASE data'[m][k] = data[m][k] /\ (k \in index[m] => k \in index'[m])
    BY <1>1, <2>1, <2>2 DEF EntryOK, Fresh, Owes
  <2>3. CASE /\ m = l /\ data'[m][k] = page
             /\ store = "redis" => k \in index'[m]
    <3>1. \A a \in Admins : adm[a].pc = "del" => Head(adm[a].todo) \in Range(adm[a].todo)
      BY RangeOfTail DEF ListInv, TypeOK, Mutation, MutationOK
    <3>2. ~page.raced => \A a \in Admins : /\ ~(adm[a].pc = "del" /\ Head(adm[a].todo) = l)
                                            /\ ~Owes(a, l)
      BY <1>5, <3>1 DEF Pending, Owes
    <3>3. ~page.raced => /\ page.total = page.rows /\ page.total <= version[l]
                         /\ ~(page.total < version[l])
      BY <1>2, <1>4, <1>5
    <3> QED BY <1>1, <2>3, <3>2, <3>3 DEF EntryOK, Fresh, Owes
  <2>4. CASE UNCHANGED caches
    BY <2>2, <2>4 DEF caches
  <2>5. CASE Set(l, q, page)
    <3>1. CASE m = l /\ k = q
      <4>1. data'[m][k] = page
        BY <1>2, <1>4, <2>5, <3>1 DEF Set
      <4>2. store = "redis" => k \in index'[m]
        BY <1>2, <1>4, <2>5, <3>1 DEF Set
      <4> QED BY <2>3, <3>1, <4>1, <4>2
    <3>2. CASE ~(m = l /\ k = q)
      <4>1. data'[m][k] = data[m][k]
        BY <1>2, <1>4, <2>1, <2>5, <3>2 DEF Set
      <4>2. k \in index[m] => k \in index'[m]
        BY <1>2, <1>4, <2>1, <2>5 DEF Set
      <4> QED BY <2>2, <4>1, <4>2
    <3> QED BY <3>1, <3>2
  <2> QED BY <2>4, <2>5 DEF Answer
<1>12. ASSUME NEW s \in Readers PROVE ReaderOK(s)'
  <2>1. ReaderOK(s) /\ reader[s] \in Reader
    BY <1>2 DEF ListInv
  <2>2. CASE reader'[s] = reader[s]
    BY <1>1, <2>1, <2>2 DEF ReaderOK, Filling, Pending, Owes
  <2>3. CASE /\ reader'[s] = [reader[s] EXCEPT !.pc = "answered", !.page = page]
             /\ reader[s].list = l /\ reader[s].pc \in {"set", "wait"}
    <3>1. /\ reader'[s].pc = "answered" /\ reader'[s].page = page
          /\ reader'[s].list = reader[s].list /\ reader'[s].query = reader[s].query
          /\ reader'[s].floor = reader[s].floor
      BY <2>1, <2>3 DEF Reader
    <3>2. /\ reader[s].list \in Lists /\ reader[s].query \in Queries
          /\ reader[s].floor <= version[l]
      BY <2>1, <2>3 DEF ReaderOK
    <3>3. reader[s].floor \in Nat /\ version[l] \in Nat
      BY <1>2, <1>4, <2>1 DEF Reader
    <3>4. page.raced \/ (page.total = page.rows /\ page.total >= reader[s].floor)
      BY <1>5, <3>2, <3>3
    <3> QED BY <3>1, <3>2, <3>4 DEF ReaderOK, Filling
  <2> QED BY <1>7, <2>2, <2>3
<1> QED BY <1>9, <1>10, <1>11, <1>12 DEF ListInv

-----------------------------------------------------------------------------
(* Mutations.                                                              *)

\* Before its transaction a mutation owes nothing, and its steps touch no list.
LEMMA EarlyStepKeepsListInv ==
  ASSUME ListInv, NEW a \in Admins, NEW new \in Mutation,
         UNCHANGED <<store, version, role, reader>>,
         adm' = [adm EXCEPT ![a] = new],
         data' \in [Namespaces -> [Keys -> Page \cup {Nil}]],
         index' \in [Namespaces -> SUBSET Keys],
         \A l \in Lists : data'[l] = data[l] /\ index'[l] = index[l],
         adm[a].pc \notin Owing, new.pc \notin Owing,
         \A l \in Lists : new.at[l] <= version[l],
         new.pc \in {"lookup", "find", "remember"} => new.id \in Records,
         new.id # Nil /\ role[new.id] # "live" => new.absent,
         new.pc \in {"remember", "not_found"} => new.absent,
         new.pc \in {"lookup", "find", "commit"} => new.op \in AllOps
  PROVE  ListInv'
<1>1. \A b \in Admins : adm'[b] = IF b = a THEN new ELSE adm[b]
  BY DEF ListInv, TypeOK
<1>2. TypeOK'
  BY DEF ListInv, TypeOK
<1>3. ASSUME NEW b \in Admins PROVE MutationOK(b)'
  <2>1. CASE b = a
    <3>1. adm'[b] = new
      BY <1>1, <2>1
    <3> QED BY <3>1 DEF MutationOK
  <2>2. CASE b # a
    <3>1. adm'[b] = adm[b] /\ MutationOK(b)
      BY <1>1, <2>2 DEF ListInv
    <3> QED BY <3>1 DEF MutationOK
  <2> QED BY <2>1, <2>2
<1>4. ASSUME NEW l \in Lists, NEW k \in Keys PROVE EntryOK(l, k)'
  <2>1. EntryOK(l, k)
    BY DEF ListInv
  <2> QED BY <1>1, <2>1 DEF EntryOK, Fresh, Owes
<1>5. ASSUME NEW r \in Readers PROVE ReaderOK(r)'
  <2>1. ReaderOK(r)
    BY DEF ListInv
  <2>2. ASSUME NEW n, ~Pending(n) PROVE ~Pending(n)'
    BY <1>1, <2>2 DEF Pending, Owes
  <2>3. Pending(reader[r].list)' => Pending(reader[r].list)
    BY <2>2
  <2> QED BY <2>1, <2>3 DEF ReaderOK, Filling
<1> QED BY <1>2, <1>3, <1>4, <1>5 DEF ListInv

\* Arrival, the look-up of the role and the refusals.  What a request is told about a role
\* comes from the query: the cached look-up only decides whether the answer is stored.
LEMMA LookupKeepsListInv ==
  ASSUME ListInv, NEW a \in Admins,
         \/ \E op \in AllOps, i \in Records \cup {Nil} : Arrive(a, op, i)
         \/ Lookup(a) \/ FindByID(a) \/ Remember(a) \/ Finish(a)
  PROVE  ListInv'
<1>1. adm[a] \in Mutation /\ MutationOK(a) /\ version \in [Lists -> Nat]
  BY DEF ListInv, TypeOK
<1>2. /\ data \in [Namespaces -> [Keys -> Page \cup {Nil}]]
      /\ index \in [Namespaces -> SUBSET Keys]
  BY DEF ListInv, TypeOK
<1>3. NoChange \in [Lists -> Nat] /\ \A l \in Lists : NoChange[l] = 0
  BY DEF NoChange
<1>4. /\ IdleMutation \in Mutation /\ IdleMutation.pc = "idle" /\ IdleMutation.id = Nil
      /\ IdleMutation.at = NoChange
  BY <1>3 DEF IdleMutation, Mutation
<1>5. ASSUME NEW op \in AllOps, NEW i \in Records \cup {Nil}, Arrive(a, op, i)
      PROVE  ListInv'
  <2> DEFINE looks == op \in {"update_role", "delete_role"}
  <2>1. PICK new : new = [IdleMutation EXCEPT !.pc = IF looks THEN "lookup" ELSE "commit",
                                    !.op = op, !.id = i, !.absent = looks /\ role[i] # "live"]
    OBVIOUS
  <2>2. /\ new \in Mutation /\ new.pc = (IF looks THEN "lookup" ELSE "commit") /\ new.op = op
        /\ new.id = i /\ new.absent = (looks /\ role[i] # "live") /\ new.at = NoChange
    BY <1>4, <2>1 DEF Mutation
  <2>3. adm[a].pc = "idle" /\ (i # Nil <=> looks)
    BY <1>5 DEF Arrive
  <2>4. Step(a, new) /\ UNCHANGED caches
    BY <1>5, <2>1 DEF Arrive
  <2>5. new.id # Nil /\ role[new.id] # "live" => new.absent
    BY <2>2, <2>3
  <2>6. new.pc \in {"lookup", "find", "remember"} => new.id \in Records
    BY <2>2, <2>3
  <2>7. \A l \in Lists : new.at[l] <= version[l]
    BY <1>1, <1>3, <2>2
  <2>8. /\ new.pc \notin Owing /\ new.pc \notin {"remember", "not_found"}
        /\ new.op \in AllOps /\ adm[a].pc \notin Owing
    BY <2>2, <2>3
  <2>9. /\ UNCHANGED <<store, version, role, reader, data, index>>
        /\ adm' = [adm EXCEPT ![a] = new]
    BY <2>4 DEF Step, tables, caches
  <2> QED BY <1>2, <2>2, <2>5, <2>6, <2>7, <2>8, <2>9, EarlyStepKeepsListInv
<1>6. CASE Lookup(a)
  <2>1. PICK hit \in BOOLEAN : Step(a, [adm[a] EXCEPT !.pc = "find", !.hit = hit])
    BY <1>6 DEF Lookup
  <2>2. PICK new : new = [adm[a] EXCEPT !.pc = "find", !.hit = hit]
    OBVIOUS
  <2>3. adm[a].pc = "lookup"
    BY <1>6 DEF Lookup
  <2>4. /\ new \in Mutation /\ new.pc = "find" /\ new.op = adm[a].op
        /\ new.id = adm[a].id /\ new.absent = adm[a].absent /\ new.at = adm[a].at
    BY <1>1, <2>2 DEF Mutation
  <2>5. /\ UNCHANGED <<store, version, role, reader, data, index>>
        /\ adm' = [adm EXCEPT ![a] = new]
    BY <1>6, <2>1, <2>2 DEF Step, Lookup, tables, caches
  <2>6. /\ \A l \in Lists : new.at[l] <= version[l]
        /\ new.id \in Records
        /\ new.id # Nil /\ role[new.id] # "live" => new.absent
        /\ new.op \in AllOps
    BY <1>1, <2>3, <2>4 DEF MutationOK
  <2> QED BY <1>2, <2>3, <2>4, <2>5, <2>6, EarlyStepKeepsListInv
<1>7. CASE FindByID(a)
  <2>1. PICK label : /\ label = IF role[adm[a].id] = "live" THEN "commit"
                                ELSE IF adm[a].hit THEN "not_found" ELSE "remember"
    OBVIOUS
  <2>2. PICK new : new = [adm[a] EXCEPT !.pc = label]
    OBVIOUS
  <2>3. adm[a].pc = "find"
    BY <1>7 DEF FindByID
  <2>4. /\ new \in Mutation /\ new.pc = label /\ new.op = adm[a].op
        /\ new.id = adm[a].id /\ new.absent = adm[a].absent /\ new.at = adm[a].at
        /\ label \in {"commit", "not_found", "remember"}
    BY <1>1, <2>1, <2>2 DEF Mutation
  <2>5. /\ UNCHANGED <<store, version, role, reader, data, index>>
        /\ adm' = [adm EXCEPT ![a] = new]
    BY <1>7, <2>1, <2>2 DEF Step, FindByID, tables, caches
  <2>6. /\ \A l \in Lists : new.at[l] <= version[l]
        /\ new.id \in Records
        /\ new.id # Nil /\ role[new.id] # "live" => new.absent
    BY <1>1, <2>3, <2>4 DEF MutationOK
  <2>7. new.pc \in {"remember", "not_found"} => new.absent
    BY <2>1, <2>4, <2>6, KeysAssumption DEF Keys
  <2>8. new.op \in AllOps
    BY <1>1, <2>3, <2>4 DEF MutationOK
  <2> QED BY <1>2, <2>3, <2>4, <2>5, <2>6, <2>7, <2>8, EarlyStepKeepsListInv
<1>8. CASE Remember(a)
  <2>1. PICK new : new = [adm[a] EXCEPT !.pc = "not_found"]
    OBVIOUS
  <2>2. adm[a].pc = "remember"
    BY <1>8 DEF Remember
  <2>3. /\ new \in Mutation /\ new.pc = "not_found" /\ new.op = adm[a].op
        /\ new.id = adm[a].id /\ new.absent = adm[a].absent /\ new.at = adm[a].at
    BY <1>1, <2>1 DEF Mutation
  <2>4. /\ UNCHANGED <<store, version, role, reader>>
        /\ adm' = [adm EXCEPT ![a] = new]
    BY <1>8, <2>1 DEF Step, Remember, tables
  <2>5. /\ \A l \in Lists : new.at[l] <= version[l]
        /\ new.id \in Records
        /\ new.id # Nil /\ role[new.id] # "live" => new.absent
        /\ new.absent
    BY <1>1, <2>2, <2>3 DEF MutationOK
  <2>6. Set("missing", adm[a].id, NoPage) \/ UNCHANGED caches
    BY <1>8 DEF Remember
  <2>7. /\ data' \in [Namespaces -> [Keys -> Page \cup {Nil}]]
        /\ index' \in [Namespaces -> SUBSET Keys]
        /\ \A l \in Lists : data'[l] = data[l] /\ index'[l] = index[l]
    <3>1. CASE UNCHANGED caches
      BY <1>2, <3>1 DEF caches
    <3>2. CASE Set("missing", adm[a].id, NoPage)
      <4>1. NoPage \in Page /\ adm[a].id \in Keys /\ "missing" \in Namespaces
        BY <2>3, <2>5 DEF NoPage, Page, Keys, Namespaces
      <4>2. data' = [data EXCEPT !["missing"][adm[a].id] = NoPage]
        BY <3>2 DEF Set
      <4>3. data' \in [Namespaces -> [Keys -> Page \cup {Nil}]]
        BY <1>2, <4>1, <4>2
      <4>4. index' \in [Namespaces -> SUBSET Keys]
        BY <1>2, <3>2, <4>1 DEF Set
      <4>5. \A l \in Lists : l # "missing" /\ l \in Namespaces
        BY DEF Lists, Namespaces
      <4>6. \A l \in Lists : data'[l] = data[l]
        BY <1>2, <4>2, <4>5
      <4>7. \A l \in Lists : index'[l] = index[l]
        BY <1>2, <3>2, <4>5 DEF Set
      <4> QED BY <4>3, <4>4, <4>6, <4>7
    <3> QED BY <2>6, <3>1, <3>2
  <2> QED BY <2>2, <2>3, <2>4, <2>5, <2>7, EarlyStepKeepsListInv
<1>9. CASE Finish(a)
  <2>1. adm[a].pc \in {"not_found", "find", "commit"}
    BY <1>9 DEF Finish
  <2>2. /\ UNCHANGED <<store, version, role, reader, data, index>>
        /\ adm' = [adm EXCEPT ![a] = IdleMutation]
    BY <1>9 DEF Step, Finish, tables, caches
  <2>3. \A l \in Lists : IdleMutation.at[l] <= version[l]
    BY <1>1, <1>3, <1>4
  <2> QED BY <1>2, <1>4, <2>1, <2>2, <2>3, EarlyStepKeepsListInv
<1> QED BY <1>5, <1>6, <1>7, <1>8, <1>9

\* Pages that are being read of lists that change are no longer fresh; nothing else happens
\* to the requests.
LEMMA OvertakenKeepsReaders ==
  ASSUME ListInv, NEW ls, reader' = Overtaken(ls),
         version' \in [Lists -> Nat],
         \A l \in Lists : version[l] <= version'[l],
         \A l \in Lists \ ls : version'[l] = version[l],
         \A l \in Lists \ ls, b \in Admins : Owes(b, l)' => Owes(b, l)
  PROVE  reader' \in [Readers -> Reader] /\ (\A r \in Readers : ReaderOK(r))'
<1>1. version \in [Lists -> Nat] /\ reader \in [Readers -> Reader]
  BY DEF ListInv, TypeOK
<1>2. ASSUME NEW r \in Readers
      PROVE  \/ reader'[r] = reader[r] /\ ~(Filling(r) /\ reader[r].list \in ls)
             \/ reader'[r] = [reader[r] EXCEPT !.page.raced = TRUE] /\ Filling(r)
  BY DEF Overtaken
<1>3. reader' \in [Readers -> Reader]
  <2>1. ASSUME NEW r \in Readers PROVE reader'[r] \in Reader
    <3>1. reader[r] \in Reader
      BY <1>1
    <3>2. [reader[r] EXCEPT !.page.raced = TRUE] \in Reader
      BY <3>1 DEF Reader, Page
    <3> QED BY <1>2, <3>1, <3>2
  <2>2. reader' = [r \in Readers |-> reader'[r]]
    BY DEF Overtaken
  <2> QED BY <2>1, <2>2
<1>4. ASSUME NEW r \in Readers PROVE ReaderOK(r)'
  <2>1. ReaderOK(r) /\ reader[r] \in Reader
    BY <1>1 DEF ListInv
  <2>2. reader[r].pc \notin {"idle", "answered"} =>
          reader[r].list \in Lists /\ reader[r].floor <= version'[reader[r].list]
    BY <1>1, <2>1 DEF Reader, ReaderOK
  <2>3. CASE reader'[r] = [reader[r] EXCEPT !.page.raced = TRUE] /\ Filling(r)
    <3>1. /\ reader'[r].pc = reader[r].pc /\ reader'[r].list = reader[r].list
          /\ reader'[r].query = reader[r].query /\ reader'[r].floor = reader[r].floor
          /\ reader'[r].page.raced
      BY <2>1, <2>3 DEF Reader, Page
    <3> QED BY <2>1, <2>2, <2>3, <3>1 DEF ReaderOK, Filling
  <2>4. CASE reader'[r] = reader[r] /\ ~Filling(r)
    BY <2>1, <2>2, <2>4 DEF ReaderOK, Filling
  <2>5. CASE reader'[r] = reader[r] /\ Filling(r) /\ reader[r].list \notin ls
    <3>1. reader[r].list \in Lists \ ls
      BY <2>2, <2>5 DEF Filling
    <3>2. version'[reader[r].list] = version[reader[r].list]
      BY <3>1
    <3>3. Pending(reader[r].list)' => Pending(reader[r].list)
      <4>1. ASSUME NEW b \in Admins, Owes(b, reader[r].list)' PROVE Owes(b, reader[r].list)
        <5>1. PICK l : l = reader[r].list
          OBVIOUS
        <5>2. Owes(b, l)'
          BY <2>5, <4>1, <5>1 DEF Owes
        <5> QED BY <3>1, <5>1, <5>2
      <4> QED BY <4>1 DEF Pending, Owes
    <3> QED BY <2>1, <2>2, <2>5, <3>2, <3>3 DEF ReaderOK, Filling
  <2> QED BY <1>2, <2>3, <2>4, <2>5
<1> QED BY <1>3, <1>4

\* What a failure leaves of the entries: none of these namespaces is fresh.
LEMMA OutdatedPages ==
  ASSUME ListInv, NEW ns, data' = Outdated(ns)
  PROVE  /\ data' \in [Namespaces -> [Keys -> Page \cup {Nil}]]
         /\ \A n \in Namespaces \ ns : data'[n] = data[n]
         /\ \A n \in Namespaces : n \in ns => \A k \in Keys : data'[n][k] = Nil \/ data'[n][k].raced
<1>1. data \in [Namespaces -> [Keys -> Page \cup {Nil}]]
  BY DEF ListInv, TypeOK
<1>2. ASSUME NEW n \in Namespaces, NEW k \in Keys
      PROVE  /\ data'[n][k] \in Page \cup {Nil}
             /\ n \notin ns => data'[n][k] = data[n][k]
             /\ n \in ns => data'[n][k] = Nil \/ data'[n][k].raced
  <2>1. CASE n \notin ns \/ data[n][k] = Nil
    <3>1. data'[n][k] = data[n][k]
      BY <2>1 DEF Outdated
    <3> QED BY <1>1, <2>1, <3>1
  <2>2. CASE n \in ns /\ data[n][k] # Nil
    <3>1. data'[n][k] = [data[n][k] EXCEPT !.raced = TRUE]
      BY <2>2 DEF Outdated
    <3>2. data[n][k] \in Page
      BY <1>1, <2>2
    <3> QED BY <2>2, <3>1, <3>2 DEF Page
  <2> QED BY <2>1, <2>2
<1>3. data' = [n \in Namespaces |-> [k \in Keys |-> data'[n][k]]]
  BY DEF Outdated
<1>4. ASSUME NEW n \in Namespaces PROVE data'[n] \in [Keys -> Page \cup {Nil}]
  <2>1. data'[n] = [k \in Keys |-> data'[n][k]]
    BY <1>3
  <2> QED BY <1>2, <2>1
<1>5. data' \in [Namespaces -> [Keys -> Page \cup {Nil}]]
  BY <1>3, <1>4
<1>6. ASSUME NEW n \in Namespaces \ ns PROVE data'[n] = data[n]
  BY <1>1, <1>2, <1>4
<1> QED BY <1>2, <1>5, <1>6

\* A change commits.  It overtakes the pages being read of every list it invalidates, and
\* owes the invalidation of the entries stored before it.
LEMMA CommitKeepsListInv ==
  ASSUME ListInv, NEW a \in Admins, Commit(a)
  PROVE  ListInv'
<1>1. PICK op : op = adm[a].op
  OBVIOUS
<1>2. PICK todo : todo = invalidateAdminListCaches(op)
  OBVIOUS
<1>3. /\ version \in [Lists -> Nat] /\ role \in [Records -> {"unused", "live", "gone"}]
      /\ adm \in [Admins -> Mutation]
  BY DEF ListInv, TypeOK
<1>4. adm[a].pc = "commit" /\ UNCHANGED <<store, data, index>>
  BY DEF Commit, caches
<1>5. op \in AllOps
  BY <1>1, <1>4 DEF ListInv, MutationOK
<1>6. todo \in Seq(Namespaces) /\ todo # << >> /\ Shows(op) \subseteq Range(todo)
  BY <1>2, <1>5, ShownIsInvalidated
<1>7. version' = [l \in Lists |-> IF l \in Shows(op) THEN version[l] + 1 ELSE version[l]]
  BY <1>1 DEF Commit
<1>8. /\ version' \in [Lists -> Nat]
      /\ \A l \in Lists : version[l] <= version'[l] /\ version[l] \in Nat /\ version'[l] \in Nat
  <2>1. ASSUME NEW l \in Lists
        PROVE  /\ version[l] \in Nat /\ version'[l] \in Nat /\ version[l] <= version'[l]
    BY <1>3, <1>7
  <2>2. version' = [l \in Lists |-> version'[l]]
    BY <1>7
  <2> QED BY <2>1, <2>2
<1>9. role' \in [Records -> {"unused", "live", "gone"}]
  BY <1>3, ZenonT(60) DEF Commit
<1>10. PICK pc \in After(adm[a].op) :
         adm' = [b \in Admins |->
           IF b = a
           THEN [IdleMutation EXCEPT !.pc = pc, !.op = adm[a].op,
                   !.todo = invalidateAdminListCaches(adm[a].op),
                   !.id = IF adm[a].op = "update_role" THEN adm[a].id ELSE Nil,
                   !.at = [l \in Lists |->
                             IF l \in Shows(adm[a].op) THEN version[l] + 1 ELSE 0]]
           ELSE Told(b)]
  BY Zenon DEF Commit
<1>11. pc \in {"more", "reread", "invalidate"}
  BY <1>1, <1>5, <1>10 DEF After, AllOps
<1>12. PICK at : at = [l \in Lists |-> IF l \in Shows(op) THEN version[l] + 1 ELSE 0]
  OBVIOUS
<1>13. PICK id : id = IF op = "update_role" THEN adm[a].id ELSE Nil
  OBVIOUS
<1>14. PICK new : new = [IdleMutation EXCEPT !.pc = pc, !.op = op, !.todo = todo, !.id = id,
                                             !.at = at]
  OBVIOUS
<1>15. /\ at \in [Lists -> Nat] /\ id \in Records \cup {Nil}
       /\ \A l \in Lists : at[l] = IF l \in Shows(op) THEN version[l] + 1 ELSE 0
  BY <1>3, <1>8, <1>12, <1>13 DEF Mutation
<1>16. /\ new \in Mutation /\ new.pc = pc /\ new.op = op /\ new.todo = todo /\ new.id = id
       /\ new.at = at
  <2>1. new = [pc |-> pc, op |-> op, id |-> id, hit |-> FALSE, todo |-> todo, keys |-> {},
               absent |-> FALSE, at |-> at]
    BY <1>14 DEF IdleMutation
  <2> QED BY <1>5, <1>6, <1>11, <1>15, <2>1 DEF Mutation
<1>17. id # Nil => role'[id] = "live"
  BY <1>1, <1>13 DEF Commit
<1>18. adm' = [b \in Admins |-> IF b = a THEN new ELSE Told(b)]
  BY <1>1, <1>2, <1>10, <1>12, <1>13, <1>14
<1>19. adm'[a] = new
  BY <1>18
<1>20. ASSUME NEW b \in Admins, b # a
       PROVE  /\ adm'[b] \in Mutation
              /\ adm'[b].pc = adm[b].pc /\ adm'[b].todo = adm[b].todo /\ adm'[b].at = adm[b].at
              /\ adm'[b].keys = adm[b].keys /\ adm'[b].id = adm[b].id /\ adm'[b].op = adm[b].op
              /\ adm[b].absent => adm'[b].absent
              /\ adm[b].id # Nil /\ role'[adm[b].id] # "live" => adm'[b].absent
  <2>1. adm[b] \in Mutation /\ adm'[b] = Told(b)
    BY <1>3, <1>18, <1>20
  <2>2. CASE adm[b].id # Nil /\ role'[adm[b].id] # "live"
    <3>1. adm'[b] = [adm[b] EXCEPT !.absent = TRUE]
      BY <2>1, <2>2 DEF Told
    <3> QED BY <2>1, <3>1 DEF Mutation
  <2>3. CASE ~(adm[b].id # Nil /\ role'[adm[b].id] # "live")
    <3>1. adm'[b] = adm[b]
      BY <2>1, <2>3 DEF Told
    <3> QED BY <2>1, <2>3, <3>1
  <2> QED BY <2>2, <2>3
<1>21. ASSUME NEW l \in Lists, NEW b \in Admins, Owes(b, l)'
       PROVE  \/ b = a /\ l \in Range(todo)
              \/ b # a /\ Owes(b, l) /\ adm'[b].at = adm[b].at
  <2>1. CASE b = a
    BY <1>16, <1>19, <1>21, <2>1 DEF Owes
  <2>2. CASE b # a
    BY <1>20, <1>21, <2>2 DEF Owes
  <2> QED BY <2>1, <2>2
<1>22. ASSUME NEW l \in Lists, l \in Range(todo) PROVE l \in Shows(op)
  BY <1>2, <1>5, <1>22, ShownIsInvalidated
<1>23. reader' \in [Readers -> Reader] /\ (\A r \in Readers : ReaderOK(r))'
  <2>1. reader' = Overtaken(Range(todo))
    BY <1>1, <1>2 DEF Commit
  <2>2. \A l \in Lists \ Range(todo) : version'[l] = version[l]
    BY <1>6, <1>7
  <2>3. \A l \in Lists \ Range(todo), b \in Admins : Owes(b, l)' => Owes(b, l)
    BY <1>21
  <2> QED BY <1>8, <2>1, <2>2, <2>3, OvertakenKeepsReaders
<1>24. TypeOK'
  <2>1. adm' \in [Admins -> Mutation]
    <3>1. \A b \in Admins : adm'[b] \in Mutation
      BY <1>16, <1>19, <1>20
    <3>2. adm' = [b \in Admins |-> adm'[b]]
      BY <1>18
    <3> QED BY <3>1, <3>2
  <2> QED BY <1>4, <1>8, <1>9, <1>23, <2>1 DEF ListInv, TypeOK
<1>25. ASSUME NEW b \in Admins PROVE MutationOK(b)'
  <2>1. CASE b = a
    <3>1. \A l \in Lists : new.at[l] <= version'[l]
      BY <1>7, <1>8, <1>15, <1>16
    <3>2. adm'[b] = new
      BY <1>19, <2>1
    <3> QED BY <1>5, <1>6, <1>11, <1>16, <1>17, <3>1, <3>2 DEF MutationOK
  <2>2. CASE b # a
    <3>1. MutationOK(b) /\ adm[b].at \in [Lists -> Nat]
      BY <1>3 DEF ListInv, Mutation
    <3>2. \A l \in Lists : adm'[b].at[l] <= version'[l]
      BY <1>8, <1>20, <2>2, <3>1 DEF MutationOK
    <3> QED BY <1>20, <2>2, <3>1, <3>2 DEF MutationOK
  <2> QED BY <2>1, <2>2
<1>26. ASSUME NEW l \in Lists, NEW k \in Keys PROVE EntryOK(l, k)'
  <2> SUFFICES ASSUME Fresh(l, k)'
               PROVE  /\ data'[l][k].total = data'[l][k].rows /\ data'[l][k].total <= version'[l]
                      /\ data'[l][k].total < version'[l] =>
                           \E b \in Admins : Owes(b, l)' /\ adm'[b].at[l] = data'[l][k].total + 1
                      /\ \A b \in Admins : Owes(b, l)' => data'[l][k].total < adm'[b].at[l]
                      /\ store' = "redis" => k \in index'[l]
                      /\ \A b \in Admins : adm'[b].pc = "del" /\ Head(adm'[b].todo) = l
                                             => k \in adm'[b].keys
    BY DEF EntryOK
  <2>1. Fresh(l, k) /\ EntryOK(l, k) /\ l \in Namespaces
    BY <1>4 DEF Fresh, ListInv, Namespaces
  <2>2. /\ data[l][k].total = data[l][k].rows /\ data[l][k].total <= version[l]
        /\ data[l][k].total < version[l] =>
             \E b \in Admins : Owes(b, l) /\ adm[b].at[l] = data[l][k].total + 1
        /\ \A b \in Admins : Owes(b, l) => data[l][k].total < adm[b].at[l]
        /\ store = "redis" => k \in index[l]
        /\ \A b \in Admins : adm[b].pc = "del" /\ Head(adm[b].todo) = l => k \in adm[b].keys
    BY <2>1 DEF EntryOK
  <2>3. data[l][k].total \in Nat
    BY <2>1 DEF ListInv, TypeOK, Fresh, Page
  <2>4. ASSUME data'[l][k].total < version'[l]
        PROVE  \E b \in Admins : Owes(b, l)' /\ adm'[b].at[l] = data'[l][k].total + 1
    <3>1. CASE data[l][k].total < version[l]
      <4>1. PICK b \in Admins : Owes(b, l) /\ adm[b].at[l] = data[l][k].total + 1
        BY <2>2, <3>1
      <4>2. b # a
        BY <1>4, <4>1 DEF Owes
      <4> QED BY <1>4, <1>20, <4>1, <4>2 DEF Owes
    <3>2. CASE ~(data[l][k].total < version[l])
      <4>1. l \in Shows(op) /\ version[l] = data[l][k].total
        BY <1>4, <1>7, <1>8, <2>3, <2>4, <3>2
      <4>2. l \in Range(todo)
        BY <1>6, <4>1
      <4>3. new.at[l] = data[l][k].total + 1
        BY <1>15, <1>16, <4>1
      <4>4. Owes(a, l)'
        BY <1>11, <1>16, <1>19, <4>2 DEF Owes
      <4> QED BY <1>4, <1>19, <4>3, <4>4
    <3> QED BY <3>1, <3>2
  <2>5. ASSUME NEW b \in Admins, adm'[b].pc = "del", Head(adm'[b].todo) = l
        PROVE  k \in adm'[b].keys
    <3>1. b # a
      BY <1>11, <1>16, <1>19, <2>5
    <3> QED BY <1>20, <2>2, <2>5, <3>1
  <2>6. ASSUME NEW b \in Admins, Owes(b, l)' PROVE data'[l][k].total < adm'[b].at[l]
    <3>1. CASE b = a
      <4>1. l \in Range(todo)
        BY <1>21, <2>6, <3>1
      <4>2. adm'[b].at[l] = version[l] + 1
        BY <1>15, <1>16, <1>19, <1>22, <3>1, <4>1
      <4> QED BY <1>4, <1>8, <2>2, <2>3, <4>2
    <3>2. CASE b # a
      BY <1>4, <1>21, <2>2, <2>6, <3>2
    <3> QED BY <3>1, <3>2
  <2>7. data'[l][k].total <= version'[l]
    BY <1>4, <1>8, <2>2, <2>3
  <2> QED BY <1>4, <2>2, <2>4, <2>5, <2>6, <2>7
<1> QED BY <1>23, <1>24, <1>25, <1>26 DEF ListInv

\* Another change of the same mutation: what its first change owes covers it.
LEMMA CommitMoreKeepsListInv ==
  ASSUME ListInv, NEW a \in Admins, CommitMore(a)
  PROVE  ListInv'
<1>1. /\ version \in [Lists -> Nat] /\ adm \in [Admins -> Mutation]
      /\ adm[a].pc = "more" /\ UNCHANGED <<store, role, data, index>>
  BY DEF ListInv, TypeOK, CommitMore, caches
<1>2. PICK ls \in SUBSET Shows(adm[a].op) :
        version' = [l \in Lists |-> IF l \in ls THEN version[l] + 1 ELSE version[l]]
  BY DEF CommitMore
<1>3. /\ version' \in [Lists -> Nat]
      /\ \A l \in Lists : /\ version[l] <= version'[l] /\ version[l] \in Nat /\ version'[l] \in Nat
                          /\ l \notin ls => version'[l] = version[l]
  <2>1. ASSUME NEW l \in Lists
        PROVE  /\ version[l] \in Nat /\ version'[l] \in Nat /\ version[l] <= version'[l]
               /\ l \notin ls => version'[l] = version[l]
    BY <1>1, <1>2
  <2>2. version' = [l \in Lists |-> version'[l]]
    BY <1>2
  <2> QED BY <2>1, <2>2
<1>4. ls \subseteq Range(adm[a].todo)
  BY <1>1, <1>2 DEF ListInv, MutationOK
<1>5. PICK pc \in {"more", "invalidate"} : adm' = [adm EXCEPT ![a].pc = pc]
  BY DEF CommitMore
<1>6. ASSUME NEW b \in Admins
      PROVE  /\ adm'[b] \in Mutation
             /\ adm'[b].todo = adm[b].todo /\ adm'[b].at = adm[b].at /\ adm'[b].id = adm[b].id
             /\ adm'[b].keys = adm[b].keys /\ adm'[b].op = adm[b].op
             /\ adm'[b].absent = adm[b].absent
             /\ b # a => adm'[b].pc = adm[b].pc
             /\ b = a => adm'[b].pc = pc
  <2>1. adm[b] \in Mutation
    BY <1>1
  <2>2. CASE b = a
    <3>1. adm'[b] = [adm[b] EXCEPT !.pc = pc]
      BY <1>1, <1>5, <2>2
    <3> QED BY <2>1, <2>2, <3>1 DEF Mutation
  <2>3. CASE b # a
    <3>1. adm'[b] = adm[b]
      BY <1>1, <1>5, <2>3
    <3> QED BY <2>1, <2>3, <3>1
  <2> QED BY <2>2, <2>3
<1>7. ASSUME NEW l \in Lists, NEW b \in Admins PROVE Owes(b, l)' <=> Owes(b, l)
  BY <1>1, <1>6 DEF Owes
<1>8. reader' \in [Readers -> Reader] /\ (\A r \in Readers : ReaderOK(r))'
  <2>1. reader' = Overtaken(Range(adm[a].todo))
    BY DEF CommitMore
  <2>2. \A l \in Lists \ Range(adm[a].todo) : version'[l] = version[l]
    BY <1>3, <1>4
  <2> QED BY <1>3, <1>7, <2>1, <2>2, OvertakenKeepsReaders
<1>9. TypeOK'
  <2>1. adm' \in [Admins -> Mutation]
    <3>1. adm' = [b \in Admins |-> adm'[b]]
      BY <1>1, <1>5
    <3> QED BY <1>6, <3>1
  <2> QED BY <1>1, <1>3, <1>8, <2>1 DEF ListInv, TypeOK
<1>10. ASSUME NEW b \in Admins PROVE MutationOK(b)'
  <2>1. MutationOK(b) /\ adm[b].at \in [Lists -> Nat]
    BY <1>1 DEF ListInv, Mutation
  <2>2. \A l \in Lists : adm'[b].at[l] <= version'[l]
    BY <1>3, <1>6, <2>1 DEF MutationOK
  <2> QED BY <1>1, <1>6, <2>1, <2>2 DEF MutationOK
<1>11. ASSUME NEW l \in Lists, NEW k \in Keys, Fresh(l, k)' PROVE EntryOK(l, k)'
  <2>1. EntryOK(l, k) /\ Fresh(l, k) /\ l \in Namespaces
    BY <1>1, <1>11 DEF ListInv, Fresh, Namespaces
  <2>2. data[l][k].total \in Nat
    BY <2>1 DEF ListInv, TypeOK, Fresh, Page
  <2>3. \A b \in Admins : adm[b].at[l] \in Nat /\ adm[b].at[l] <= version[l]
    BY <1>1 DEF ListInv, Mutation, MutationOK
  <2>4. CASE l \in ls
    <3>1. Owes(a, l)
      BY <1>1, <1>4, <2>4 DEF Owes
    <3>2. data[l][k].total < version[l]
      BY <1>3, <2>1, <2>2, <2>3, <3>1 DEF EntryOK
    <3>3. data[l][k].total <= version'[l]
      BY <1>3, <2>2, <3>2
    <3> QED BY <1>1, <1>6, <1>7, <2>1, <3>2, <3>3 DEF EntryOK, Fresh
  <2>5. CASE l \notin ls
    <3>1. version'[l] = version[l]
      BY <1>3, <2>5
    <3> QED BY <1>1, <1>6, <1>7, <2>1, <3>1 DEF EntryOK, Fresh
  <2> QED BY <2>4, <2>5
<1>12. ASSUME NEW l \in Lists, NEW k \in Keys PROVE EntryOK(l, k)'
  BY <1>11 DEF EntryOK
<1> QED BY <1>8, <1>9, <1>10, <1>12 DEF ListInv

\* The row is read back: the mutation goes on to what it owes.
LEMMA RereadKeepsListInv ==
  ASSUME ListInv, NEW a \in Admins, Reread(a)
  PROVE  ListInv'
<1>1. /\ adm[a].pc = "reread" /\ UNCHANGED <<store, version, role, reader, data, index>>
      /\ adm' = [adm EXCEPT ![a] = [adm[a] EXCEPT !.pc = "invalidate", !.id = Nil]]
  BY DEF Reread, Step, tables, caches
<1>2. adm \in [Admins -> Mutation]
  BY DEF ListInv, TypeOK
<1>3. ASSUME NEW b \in Admins
      PROVE  /\ adm'[b] \in Mutation
             /\ adm'[b].todo = adm[b].todo /\ adm'[b].at = adm[b].at
             /\ adm'[b].keys = adm[b].keys /\ adm'[b].op = adm[b].op
             /\ adm'[b].absent = adm[b].absent
             /\ b # a => adm'[b] = adm[b]
             /\ b = a => adm'[b].pc = "invalidate" /\ adm'[b].id = Nil
  <2>1. adm[b] \in Mutation
    BY <1>2
  <2>2. CASE b = a
    <3>1. adm'[b] = [adm[b] EXCEPT !.pc = "invalidate", !.id = Nil]
      BY <1>1, <1>2, <2>2
    <3> QED BY <2>1, <2>2, <3>1 DEF Mutation
  <2>3. CASE b # a
    <3>1. adm'[b] = adm[b]
      BY <1>1, <1>2, <2>3
    <3> QED BY <2>1, <2>3, <3>1
  <2> QED BY <2>2, <2>3
<1>4. ASSUME NEW n, NEW b \in Admins PROVE Owes(b, n)' <=> Owes(b, n)
  BY <1>1, <1>3 DEF Owes
<1>5. TypeOK'
  <2>1. adm' \in [Admins -> Mutation]
    <3>1. adm' = [b \in Admins |-> adm'[b]]
      BY <1>1, <1>2
    <3> QED BY <1>3, <3>1
  <2> QED BY <1>1, <2>1 DEF ListInv, TypeOK
<1>6. ASSUME NEW b \in Admins PROVE MutationOK(b)'
  <2>1. MutationOK(b)
    BY DEF ListInv
  <2> QED BY <1>1, <1>3, <2>1 DEF MutationOK
<1>7. ASSUME NEW l \in Lists, NEW k \in Keys PROVE EntryOK(l, k)'
  <2>1. EntryOK(l, k)
    BY DEF ListInv
  <2>2. ASSUME NEW b \in Admins, adm'[b].pc = "del" PROVE adm'[b] = adm[b]
    BY <1>3, <2>2
  <2> QED BY <1>1, <1>3, <1>4, <2>1, <2>2 DEF EntryOK, Fresh
<1>8. ASSUME NEW r \in Readers PROVE ReaderOK(r)'
  <2>1. ReaderOK(r)
    BY DEF ListInv
  <2>2. Pending(reader[r].list)' => Pending(reader[r].list)
    BY <1>1, <1>3 DEF Pending, Owes
  <2> QED BY <1>1, <2>1, <2>2 DEF ReaderOK, Filling
<1> QED BY <1>5, <1>6, <1>7, <1>8 DEF ListInv

\* A mutation that ends without its invalidations leaves no fresh entry of what it owed.
LEMMA AbandonKeepsListInv ==
  ASSUME ListInv, NEW a \in Admins, Abandon(a)
  PROVE  ListInv'
<1>1. /\ adm[a].pc \in Owing /\ UNCHANGED <<store, version, role, reader, index>>
      /\ adm' = [adm EXCEPT ![a] = IdleMutation]
      /\ data' = Outdated(Range(adm[a].todo))
  BY DEF Abandon, Step, tables
<1>2. adm \in [Admins -> Mutation] /\ version \in [Lists -> Nat]
  BY DEF ListInv, TypeOK
<1>3. /\ data' \in [Namespaces -> [Keys -> Page \cup {Nil}]]
      /\ \A n \in Namespaces \ Range(adm[a].todo) : data'[n] = data[n]
      /\ \A n \in Namespaces : n \in Range(adm[a].todo) =>
           \A k \in Keys : data'[n][k] = Nil \/ data'[n][k].raced
  BY <1>1, OutdatedPages
<1>4. NoChange \in [Lists -> Nat] /\ \A l \in Lists : NoChange[l] = 0
  BY DEF NoChange
<1>5. /\ IdleMutation \in Mutation /\ IdleMutation.pc = "idle" /\ IdleMutation.id = Nil
      /\ IdleMutation.at = NoChange
  BY <1>4 DEF IdleMutation, Mutation
<1>6. adm'[a] = IdleMutation /\ \A b \in Admins \ {a} : adm'[b] = adm[b]
  BY <1>1, <1>2
<1>7. TypeOK'
  <2>1. adm' \in [Admins -> Mutation]
    BY <1>1, <1>2, <1>5
  <2> QED BY <1>1, <1>3, <2>1 DEF ListInv, TypeOK
<1>8. ASSUME NEW b \in Admins PROVE MutationOK(b)'
  <2>1. CASE b = a
    <3>1. \A l \in Lists : IdleMutation.at[l] <= version[l]
      BY <1>2, <1>4, <1>5
    <3> QED BY <1>1, <1>5, <1>6, <2>1, <3>1 DEF MutationOK
  <2>2. CASE b # a
    <3>1. adm'[b] = adm[b] /\ MutationOK(b)
      BY <1>6, <2>2 DEF ListInv
    <3> QED BY <1>1, <3>1 DEF MutationOK
  <2> QED BY <2>1, <2>2
<1>9. ASSUME NEW n, NEW b \in Admins, Owes(b, n)' PROVE b # a /\ Owes(b, n) /\ adm'[b] = adm[b]
  BY <1>5, <1>6, <1>9 DEF Owes
<1>10. ASSUME NEW l \in Lists, NEW k \in Keys PROVE EntryOK(l, k)'
  <2>1. l \in Namespaces /\ EntryOK(l, k)
    BY DEF Namespaces, ListInv
  <2>2. CASE l \in Range(adm[a].todo)
    BY <1>3, <2>1, <2>2 DEF EntryOK, Fresh
  <2>3. CASE l \notin Range(adm[a].todo)
    <3>1. data'[l] = data[l]
      BY <1>3, <2>1, <2>3
    <3>2. ASSUME NEW b \in Admins, Owes(b, l) PROVE Owes(b, l)' /\ adm'[b] = adm[b]
      <4>1. b # a
        BY <2>3, <3>2 DEF Owes
      <4> QED BY <1>6, <3>2, <4>1 DEF Owes
    <3>3. ASSUME NEW b \in Admins, adm'[b].pc = "del" PROVE adm'[b] = adm[b]
      BY <1>5, <1>6, <3>3
    <3> QED BY <1>1, <1>9, <2>1, <3>1, <3>2, <3>3 DEF EntryOK, Fresh
  <2> QED BY <2>2, <2>3
<1>11. ASSUME NEW r \in Readers PROVE ReaderOK(r)'
  <2>1. ReaderOK(r)
    BY DEF ListInv
  <2>2. Pending(reader[r].list)' => Pending(reader[r].list)
    BY <1>1, <1>5, <1>6 DEF Pending, Owes
  <2> QED BY <1>1, <2>1, <2>2 DEF ReaderOK, Filling
<1> QED BY <1>7, <1>8, <1>10, <1>11 DEF ListInv

\* The invalidation of a namespace ends when no fresh entry is left in it: the mutation stops
\* owing this one and goes on to the next.
LEMMA NamespaceDoneKeepsListInv ==
  ASSUME ListInv, NEW a \in Admins, NEW n, n = Head(adm[a].todo),
         adm[a].pc \in {"invalidate", "del"},
         Step(a, NextNamespace(a)),
         data' \in [Namespaces -> [Keys -> Page \cup {Nil}]],
         index' \in [Namespaces -> SUBSET Keys],
         \A l \in Lists \ {n} : data'[l] = data[l] /\ index'[l] = index[l],
         n \in Lists => \A k \in Keys : data'[n][k] = Nil \/ data'[n][k].raced
  PROVE  ListInv'
<1>1. /\ UNCHANGED <<store, version, role, reader>>
      /\ adm' = [adm EXCEPT ![a] = NextNamespace(a)]
  BY DEF Step, tables
<1>2. adm \in [Admins -> Mutation] /\ version \in [Lists -> Nat]
  BY DEF ListInv, TypeOK
<1>3. adm[a] \in Mutation /\ MutationOK(a)
  BY <1>2 DEF ListInv
<1>4. PICK todo : todo = adm[a].todo
  OBVIOUS
<1>5. todo \in Seq(Namespaces) /\ todo # << >>
  BY <1>3, <1>4 DEF Mutation, MutationOK
<1>6. /\ n \in Range(todo) /\ n \in Namespaces
      /\ Tail(todo) \in Seq(Namespaces)
      /\ Len(todo) # 1 => Tail(todo) # << >>
      /\ Range(Tail(todo)) \subseteq Range(todo)
      /\ \A x \in Range(todo) : x # n => Len(todo) # 1 /\ x \in Range(Tail(todo))
  BY <1>4, <1>5, RangeOfTail
<1>7. PICK new : new = NextNamespace(a)
  OBVIOUS
<1>8. NoChange \in [Lists -> Nat] /\ \A l \in Lists : NoChange[l] = 0
  BY DEF NoChange
<1>9. /\ new \in Mutation
      /\ \/ Len(todo) = 1 /\ new = IdleMutation /\ new.pc = "idle" /\ new.id = Nil
            /\ new.at = NoChange
         \/ /\ Len(todo) # 1 /\ new.pc = "invalidate" /\ new.todo = Tail(todo)
            /\ new.at = adm[a].at /\ new.id = adm[a].id /\ new.absent = adm[a].absent
  <2>1. CASE Len(todo) = 1
    <3>1. new = IdleMutation
      BY <1>4, <1>7, <2>1 DEF NextNamespace
    <3> QED BY <1>8, <2>1, <3>1 DEF IdleMutation, Mutation
  <2>2. CASE Len(todo) # 1
    <3>1. new = [adm[a] EXCEPT !.pc = "invalidate", !.todo = Tail(todo), !.keys = {}]
      BY <1>3, <1>4, <1>7, <2>2 DEF NextNamespace, Mutation
    <3> QED BY <1>3, <1>6, <2>2, <3>1 DEF Mutation
  <2> QED BY <2>1, <2>2
<1>10. adm'[a] = new /\ \A b \in Admins \ {a} : adm'[b] = adm[b]
  BY <1>1, <1>2, <1>7
<1>11. TypeOK'
  <2>1. adm' \in [Admins -> Mutation]
    BY <1>1, <1>2, <1>7, <1>9
  <2> QED BY <1>1, <2>1 DEF ListInv, TypeOK
<1>12. ASSUME NEW b \in Admins PROVE MutationOK(b)'
  <2>1. CASE b = a
    <3>1. adm'[b] = new
      BY <1>10, <2>1
    <3>2. \A l \in Lists : new.at[l] <= version[l]
      BY <1>2, <1>3, <1>8, <1>9 DEF MutationOK
    <3>3. new.pc \in Owing => new.todo # << >>
      BY <1>6, <1>9
    <3>4. new.id # Nil /\ role[new.id] # "live" => new.absent
      BY <1>3, <1>9 DEF MutationOK
    <3>5. new.pc \in {"idle", "invalidate"}
      BY <1>9
    <3> QED BY <1>1, <3>1, <3>2, <3>3, <3>4, <3>5 DEF MutationOK
  <2>2. CASE b # a
    <3>1. adm'[b] = adm[b] /\ MutationOK(b)
      BY <1>10, <2>2 DEF ListInv
    <3> QED BY <1>1, <3>1 DEF MutationOK
  <2> QED BY <2>1, <2>2
<1>13. ASSUME NEW l \in Lists, NEW b \in Admins, Owes(b, l), l # n
       PROVE  Owes(b, l)' /\ adm'[b].at = adm[b].at
  <2>1. CASE b = a
    <3>1. Len(todo) # 1 /\ l \in Range(Tail(todo))
      BY <1>4, <1>6, <1>13, <2>1 DEF Owes
    <3> QED BY <1>9, <1>10, <2>1, <3>1 DEF Owes
  <2>2. CASE b # a
    BY <1>10, <1>13, <2>2 DEF Owes
  <2> QED BY <2>1, <2>2
<1>14. ASSUME NEW l \in Lists, NEW k \in Keys PROVE EntryOK(l, k)'
  <2>1. CASE l = n
    BY <2>1 DEF EntryOK, Fresh
  <2>2. CASE l # n
    <3>1. EntryOK(l, k) /\ data'[l] = data[l] /\ index'[l] = index[l]
      BY <2>2 DEF ListInv
    <3>2. ASSUME NEW b \in Admins, adm'[b].pc = "del" PROVE adm'[b] = adm[b]
      BY <1>9, <1>10, <3>2
    <3>3. ASSUME NEW b \in Admins, Owes(b, l)' PROVE Owes(b, l) /\ adm'[b].at = adm[b].at
      <4>1. CASE b = a
        <5>1. Len(todo) # 1 /\ new.todo = Tail(todo) /\ new.at = adm[a].at
          BY <1>9, <1>10, <3>3, <4>1 DEF Owes
        <5> QED BY <1>4, <1>6, <1>10, <3>3, <4>1, <5>1 DEF Owes
      <4>2. CASE b # a
        BY <1>10, <3>3, <4>2 DEF Owes
      <4> QED BY <4>1, <4>2
    <3> QED BY <1>1, <1>13, <2>2, <3>1, <3>2, <3>3 DEF EntryOK, Fresh
  <2> QED BY <2>1, <2>2
<1>15. ASSUME NEW r \in Readers PROVE ReaderOK(r)'
  <2>1. ReaderOK(r)
    BY DEF ListInv
  <2>2. ASSUME NEW l, NEW b \in Admins,
               adm'[b].pc \in Owing, l \in Range(adm'[b].todo)
        PROVE  adm[b].pc \in Owing /\ l \in Range(adm[b].todo)
    <3>1. CASE b = a
      <4>1. new.todo = Tail(todo)
        BY <1>9, <1>10, <2>2, <3>1
      <4> QED BY <1>4, <1>6, <1>10, <2>2, <3>1, <4>1
    <3>2. CASE b # a
      BY <1>10, <2>2, <3>2
    <3> QED BY <3>1, <3>2
  <2>3. Pending(reader[r].list)' => Pending(reader[r].list)
    BY <1>1, <2>2 DEF Pending, Owes
  <2> QED BY <1>1, <2>1, <2>3 DEF ReaderOK, Filling
<1> QED BY <1>11, <1>12, <1>14, <1>15 DEF ListInv

\* Both stores drop every fresh entry of the namespace: the memory store drops all, Redis
\* those its index named, among which the fresh ones are.  A failure leaves none fresh.
LEMMA InvalidationKeepsListInv ==
  ASSUME ListInv, NEW a \in Admins, InvalidateMemory(a) \/ Del(a) \/ InvalidateFails(a)
  PROVE  ListInv'
<1>1. /\ data \in [Namespaces -> [Keys -> Page \cup {Nil}]]
      /\ index \in [Namespaces -> SUBSET Keys]
      /\ adm[a] \in Mutation /\ MutationOK(a)
  BY DEF ListInv, TypeOK
<1>2. adm[a].pc \in {"invalidate", "del"} /\ Step(a, NextNamespace(a))
  BY DEF InvalidateMemory, Del, InvalidateFails
<1>3. PICK n : n = Head(adm[a].todo)
  OBVIOUS
<1>4. n \in Namespaces
  BY <1>1, <1>2, <1>3, RangeOfTail DEF Mutation, MutationOK
<1>5. ASSUME NEW keys \in SUBSET Keys,
             data' = [data EXCEPT ![n] = [k \in Keys |-> IF k \in keys THEN Nil ELSE @[k]]]
      PROVE  /\ data' \in [Namespaces -> [Keys -> Page \cup {Nil}]]
             /\ \A l \in Lists \ {n} : data'[l] = data[l]
             /\ \A k \in Keys : data'[n][k] = IF k \in keys THEN Nil ELSE data[n][k]
  <2>1. PICK row : row = [k \in Keys |-> IF k \in keys THEN Nil ELSE data[n][k]]
    OBVIOUS
  <2>2. row \in [Keys -> Page \cup {Nil}]
    BY <1>1, <1>4, <2>1
  <2>3. data' = [data EXCEPT ![n] = row]
    BY <1>1, <1>4, <1>5, <2>1
  <2>4. Lists \subseteq Namespaces
    BY DEF Namespaces
  <2> QED BY <1>1, <1>4, <2>1, <2>2, <2>3, <2>4
<1>6. CASE InvalidateMemory(a)
  <2>1. data' = [data EXCEPT ![n] = [k \in Keys |-> IF k \in Keys THEN Nil ELSE @[k]]]
    BY <1>3, <1>6 DEF InvalidateMemory, Drop
  <2>2. index' = index
    BY <1>6 DEF InvalidateMemory
  <2>3. /\ data' \in [Namespaces -> [Keys -> Page \cup {Nil}]]
        /\ \A l \in Lists \ {n} : data'[l] = data[l]
        /\ \A k \in Keys : data'[n][k] = Nil
    BY <1>5, <2>1
  <2> QED BY <1>1, <1>2, <1>3, <2>2, <2>3, NamespaceDoneKeepsListInv
<1>7. CASE Del(a)
  <2>1. PICK keys : keys = adm[a].keys
    OBVIOUS
  <2>2. keys \in SUBSET Keys
    BY <1>1, <2>1 DEF Mutation
  <2>3. data' = [data EXCEPT ![n] = [k \in Keys |-> IF k \in keys THEN Nil ELSE @[k]]]
    BY <1>3, <1>7, <2>1 DEF Del, Drop
  <2>4. /\ data' \in [Namespaces -> [Keys -> Page \cup {Nil}]]
        /\ \A l \in Lists \ {n} : data'[l] = data[l]
        /\ \A k \in Keys : data'[n][k] = IF k \in keys THEN Nil ELSE data[n][k]
    BY <1>5, <2>2, <2>3
  <2>5. index' = [index EXCEPT ![n] = {}]
    BY <1>3, <1>7 DEF Del
  <2>6. /\ index' \in [Namespaces -> SUBSET Keys]
        /\ \A l \in Lists \ {n} : index'[l] = index[l]
    BY <1>1, <1>4, <2>5 DEF Namespaces
  <2>7. CASE n \in Lists
    <3>1. ASSUME NEW k \in Keys, Fresh(n, k) PROVE k \in keys
      <4>1. adm[a].pc = "del" /\ EntryOK(n, k)
        BY <1>7, <2>7 DEF Del, ListInv
      <4> QED BY <1>3, <2>1, <3>1, <4>1 DEF EntryOK
    <3>2. \A k \in Keys : data'[n][k] = Nil \/ data'[n][k].raced
      BY <2>4, <3>1 DEF Fresh
    <3> QED BY <1>2, <1>3, <2>4, <2>6, <3>2, NamespaceDoneKeepsListInv
  <2>8. CASE n \notin Lists
    BY <1>2, <1>3, <2>4, <2>6, <2>8, NamespaceDoneKeepsListInv
  <2> QED BY <2>7, <2>8
<1>8. CASE InvalidateFails(a)
  <2>1. data' = Outdated({n}) /\ index' = index
    BY <1>3, <1>8 DEF InvalidateFails
  <2>2. /\ data' \in [Namespaces -> [Keys -> Page \cup {Nil}]]
        /\ \A m \in Namespaces \ {n} : data'[m] = data[m]
        /\ \A k \in Keys : data'[n][k] = Nil \/ data'[n][k].raced
    BY <1>4, <2>1, OutdatedPages
  <2>3. \A l \in Lists \ {n} : data'[l] = data[l] /\ index'[l] = index[l]
    BY <2>1, <2>2 DEF Namespaces
  <2> QED BY <1>1, <1>2, <1>3, <2>1, <2>2, <2>3, NamespaceDoneKeepsListInv
<1> QED BY <1>6, <1>7, <1>8

\* The keys read from the index are those of every fresh entry.
LEMMA SMembersKeepsListInv ==
  ASSUME ListInv, NEW a \in Admins, SMembers(a)
  PROVE  ListInv'
<1>1. /\ UNCHANGED <<store, version, role, reader, data, index>> /\ store = "redis"
      /\ adm[a].pc = "invalidate"
      /\ adm' = [adm EXCEPT ![a] = [adm[a] EXCEPT !.pc = "del",
                                                  !.keys = index[Head(adm[a].todo)]]]
  BY DEF SMembers, Step, tables, caches
<1>2. adm \in [Admins -> Mutation] /\ index \in [Namespaces -> SUBSET Keys]
  BY DEF ListInv, TypeOK
<1>3. adm[a] \in Mutation /\ MutationOK(a)
  BY <1>2 DEF ListInv
<1>4. Head(adm[a].todo) \in Namespaces
  BY <1>1, <1>3, RangeOfTail DEF Mutation, MutationOK
<1>5. PICK new : new = [adm[a] EXCEPT !.pc = "del", !.keys = index[Head(adm[a].todo)]]
  OBVIOUS
<1>6. /\ new \in Mutation /\ new.pc = "del" /\ new.keys = index[Head(adm[a].todo)]
      /\ new.todo = adm[a].todo /\ new.at = adm[a].at /\ new.id = adm[a].id
      /\ new.absent = adm[a].absent
  BY <1>2, <1>3, <1>4, <1>5 DEF Mutation
<1>7. adm'[a] = new /\ \A b \in Admins \ {a} : adm'[b] = adm[b]
  BY <1>1, <1>2, <1>5
<1>8. TypeOK'
  <2>1. adm' \in [Admins -> Mutation]
    BY <1>1, <1>2, <1>5, <1>6
  <2> QED BY <1>1, <2>1 DEF ListInv, TypeOK
<1>9. ASSUME NEW b \in Admins PROVE MutationOK(b)'
  <2>1. CASE b = a
    <3>1. adm'[b] = new
      BY <1>7, <2>1
    <3> QED BY <1>1, <1>3, <1>6, <3>1 DEF MutationOK
  <2>2. CASE b # a
    <3>1. adm'[b] = adm[b] /\ MutationOK(b)
      BY <1>7, <2>2 DEF ListInv
    <3> QED BY <1>1, <3>1 DEF MutationOK
  <2> QED BY <2>1, <2>2
<1>10. ASSUME NEW b \in Admins
       PROVE  /\ adm'[b].todo = adm[b].todo /\ adm'[b].at = adm[b].at
              /\ adm'[b].pc \in Owing <=> adm[b].pc \in Owing
  <2>1. CASE b = a
    BY <1>1, <1>6, <1>7, <2>1
  <2>2. CASE b # a
    BY <1>7, <2>2
  <2> QED BY <2>1, <2>2
<1>11. ASSUME NEW l \in Lists, NEW k \in Keys PROVE EntryOK(l, k)'
  <2>1. EntryOK(l, k)
    BY DEF ListInv
  <2>2. ASSUME Fresh(l, k), NEW b \in Admins, adm'[b].pc = "del", Head(adm'[b].todo) = l
        PROVE  k \in adm'[b].keys
    <3>1. CASE b = a
      BY <1>1, <1>6, <1>7, <2>1, <2>2, <3>1 DEF EntryOK
    <3>2. CASE b # a
      BY <1>7, <2>1, <2>2, <3>2 DEF EntryOK
    <3> QED BY <3>1, <3>2
  <2> QED BY <1>1, <1>10, <2>1, <2>2 DEF EntryOK, Fresh, Owes
<1>12. ASSUME NEW r \in Readers PROVE ReaderOK(r)'
  <2>1. ReaderOK(r)
    BY DEF ListInv
  <2>2. Pending(reader[r].list)' => Pending(reader[r].list)
    BY <1>1, <1>10 DEF Pending, Owes
  <2> QED BY <1>1, <2>1, <2>2 DEF ReaderOK, Filling
<1> QED BY <1>8, <1>9, <1>11, <1>12 DEF ListInv

-----------------------------------------------------------------------------
(* What happens by itself, and the theorems.                               *)

\* Expiry takes entries away; the index goes when it names no entry any more.
LEMMA ExpiryKeepsListInv ==
  ASSUME ListInv, NEW n \in Namespaces, ExpireIndex(n) \/ \E k \in Keys : Expire(n, k)
  PROVE  ListInv'
<1>1. UNCHANGED <<store, version, role, reader, adm>>
  BY DEF ExpireIndex, Expire, tables
<1>2. /\ data \in [Namespaces -> [Keys -> Page \cup {Nil}]]
      /\ index \in [Namespaces -> SUBSET Keys]
  BY DEF ListInv, TypeOK
<1>3. (\A a \in Admins : MutationOK(a))'
  BY <1>1 DEF ListInv, MutationOK
<1>4. (\A r \in Readers : ReaderOK(r))'
  BY <1>1 DEF ListInv, ReaderOK, Filling, Pending, Owes
<1>5. CASE ExpireIndex(n)
  <2>1. TypeOK'
    BY <1>1, <1>2, <1>5 DEF ListInv, TypeOK, ExpireIndex
  <2>2. ASSUME NEW l \in Lists, NEW k \in Keys PROVE EntryOK(l, k)'
    <3>1. EntryOK(l, k) /\ l \in Namespaces /\ data' = data
      BY <1>5 DEF ListInv, Namespaces, ExpireIndex
    <3>2. CASE l = n
      BY <1>5, <3>1, <3>2 DEF EntryOK, Fresh, ExpireIndex
    <3>3. CASE l # n
      <4>1. index'[l] = index[l]
        BY <1>2, <1>5, <3>1, <3>3 DEF ExpireIndex
      <4> QED BY <1>1, <3>1, <4>1 DEF EntryOK, Fresh, Owes
    <3> QED BY <3>2, <3>3
  <2> QED BY <1>3, <1>4, <2>1, <2>2 DEF ListInv
<1>6. ASSUME NEW j \in Keys, Expire(n, j) PROVE ListInv'
  <2>1. data' = [data EXCEPT ![n][j] = Nil] /\ index' = index
    BY <1>6 DEF Expire
  <2>2. data' \in [Namespaces -> [Keys -> Page \cup {Nil}]]
    BY <1>2, <2>1
  <2>3. TypeOK'
    BY <1>1, <1>2, <2>1, <2>2 DEF ListInv, TypeOK
  <2>4. ASSUME NEW l \in Lists, NEW k \in Keys PROVE EntryOK(l, k)'
    <3>1. EntryOK(l, k) /\ l \in Namespaces
      BY DEF ListInv, Namespaces
    <3>2. data'[l][k] = Nil \/ data'[l][k] = data[l][k]
      BY <1>2, <2>1, <3>1
    <3> QED BY <1>1, <2>1, <3>1, <3>2 DEF EntryOK, Fresh, Owes
  <2> QED BY <1>3, <1>4, <2>3, <2>4 DEF ListInv
<1> QED BY <1>5, <1>6

\* A change from elsewhere leaves no fresh page of its list.
LEMMA ElsewhereKeepsListInv ==
  ASSUME ListInv, NEW c \in Lists, ChangeElsewhere(c)
  PROVE  ListInv'
<1>1. /\ UNCHANGED <<store, index, adm>>
      /\ version' = [version EXCEPT ![c] = @ + 1]
      /\ reader' = Overtaken({c}) /\ data' = Outdated({c})
  BY DEF ChangeElsewhere
<1>2. /\ version \in [Lists -> Nat] /\ adm \in [Admins -> Mutation]
      /\ role \in [Records -> {"unused", "live", "gone"}]
  BY DEF ListInv, TypeOK
<1>3. /\ version' \in [Lists -> Nat]
      /\ \A l \in Lists : /\ version[l] <= version'[l] /\ version[l] \in Nat /\ version'[l] \in Nat
                          /\ l # c => version'[l] = version[l]
  BY <1>1, <1>2
<1>4. /\ data' \in [Namespaces -> [Keys -> Page \cup {Nil}]]
      /\ \A n \in Namespaces \ {c} : data'[n] = data[n]
      /\ \A n \in Namespaces : n \in {c} => \A k \in Keys : data'[n][k] = Nil \/ data'[n][k].raced
  BY <1>1, OutdatedPages
<1>5. /\ role' \in [Records -> {"unused", "live", "gone"}]
      /\ \A i \in Records : role'[i] # "live" => role[i] # "live"
  BY <1>2 DEF ChangeElsewhere
<1>6. reader' \in [Readers -> Reader] /\ (\A r \in Readers : ReaderOK(r))'
  <2>1. \A l \in Lists \ {c}, b \in Admins : Owes(b, l)' => Owes(b, l)
    BY <1>1 DEF Owes
  <2> QED BY <1>1, <1>3, <2>1, OvertakenKeepsReaders
<1>7. TypeOK'
  BY <1>1, <1>3, <1>4, <1>5, <1>6 DEF ListInv, TypeOK
<1>8. ASSUME NEW a \in Admins PROVE MutationOK(a)'
  <2>1. MutationOK(a) /\ adm[a].at \in [Lists -> Nat] /\ adm[a].id \in Records \cup {Nil}
    BY <1>2 DEF ListInv, Mutation
  <2>2. \A l \in Lists : adm[a].at[l] <= version'[l]
    BY <1>3, <2>1, SMTT(30) DEF MutationOK
  <2>3. adm[a].id # Nil /\ role'[adm[a].id] # "live" => adm[a].absent
    BY <1>5, <2>1 DEF MutationOK
  <2> QED BY <1>1, <2>1, <2>2, <2>3 DEF MutationOK
<1>9. ASSUME NEW l \in Lists, NEW k \in Keys PROVE EntryOK(l, k)'
  <2>1. CASE l = c
    BY <1>4, <2>1 DEF EntryOK, Fresh, Namespaces
  <2>2. CASE l # c
    <3>1. EntryOK(l, k) /\ data'[l] = data[l] /\ version'[l] = version[l]
      BY <1>3, <1>4, <2>2 DEF ListInv, Namespaces
    <3> QED BY <1>1, <3>1 DEF EntryOK, Fresh, Owes
  <2> QED BY <2>1, <2>2
<1> QED BY <1>6, <1>7, <1>8, <1>9 DEF ListInv

\* Every step keeps the invariant.
LEMMA NextListInv == ListInv /\ [Next]_vars => ListInv'
<1> SUFFICES ASSUME ListInv, [Next]_vars PROVE ListInv'
  OBVIOUS
<1>1. CASE UNCHANGED vars
  <2>1. UNCHANGED <<store, tables, caches, adm>> /\ reader' = reader
    BY <1>1 DEF vars, tables, caches
  <2>2. (\A r \in Readers : ReaderOK(r))'
    BY <2>1 DEF ListInv, ReaderOK, Filling, Pending, Owes, tables
  <2>3. (reader \in [Readers -> Reader])'
    BY <2>1 DEF ListInv, TypeOK
  <2> QED BY <2>1, <2>2, <2>3, ReadersOnly DEF ListInv
<1>2. ASSUME NEW r \in Readers, ReaderStep(r) PROVE ListInv'
  <2>1. Watched \subseteq Lists
    BY ListsAssumption
  <2>2. ASSUME NEW p \in Processes, NEW l \in Watched, NEW q \in Queries, Hit(r, p, l, q)
        PROVE  ListInv'
    BY <2>1, <2>2, HitKeepsListInv
  <2>3. ASSUME NEW p \in Processes, NEW l \in Watched, NEW q \in Queries, Miss(r, p, l, q)
        PROVE  ListInv'
    BY <2>1, <2>3, ReadKeepsListInv
  <2>4. CASE Lead(r) \/ Join(r) \/ Count(r) \/ Find(r) \/ Done(r)
    BY <2>4, ReadKeepsListInv
  <2>5. CASE QueryFails(r)
    BY <2>5, QueryFailsKeepsListInv
  <2>6. CASE Answer(r)
    BY <2>6, AnswerKeepsListInv
  <2> QED BY <1>2, <2>2, <2>3, <2>4, <2>5, <2>6 DEF ReaderStep
<1>3. ASSUME NEW a \in Admins, AdminStep(a) PROVE ListInv'
  <2>1. Ops \subseteq AllOps
    BY ListsAssumption
  <2>2. ASSUME NEW op \in Ops, NEW i \in Records \cup {Nil}, Arrive(a, op, i) PROVE ListInv'
    BY <2>1, <2>2, LookupKeepsListInv
  <2>3. CASE Lookup(a) \/ FindByID(a) \/ Remember(a) \/ Finish(a)
    BY <2>3, LookupKeepsListInv
  <2>4. CASE Commit(a)
    BY <2>4, CommitKeepsListInv
  <2>5. CASE CommitMore(a)
    BY <2>5, CommitMoreKeepsListInv
  <2>6. CASE Reread(a)
    BY <2>6, RereadKeepsListInv
  <2>7. CASE Abandon(a)
    BY <2>7, AbandonKeepsListInv
  <2>8. CASE InvalidateMemory(a) \/ Del(a) \/ InvalidateFails(a)
    BY <2>8, InvalidationKeepsListInv
  <2>9. CASE SMembers(a)
    BY <2>9, SMembersKeepsListInv
  <2> QED BY <1>3, <2>2, <2>3, <2>4, <2>5, <2>6, <2>7, <2>8, <2>9 DEF AdminStep
<1>4. ASSUME NEW n \in Namespaces, ExpireIndex(n) \/ \E k \in Keys : Expire(n, k) PROVE ListInv'
  BY <1>4, ExpiryKeepsListInv
<1>5. ASSUME NEW l \in Lists, ChangeElsewhere(l) PROVE ListInv'
  BY <1>5, ElsewhereKeepsListInv
<1> QED BY <1>1, <1>2, <1>3, <1>4, <1>5 DEF Next

\* The lists and the look-ups always have their types.
THEOREM ListTypeCorrect == Spec => []TypeOK
<1>1. ListInv => TypeOK
  BY DEF ListInv
<1> QED BY <1>1, InitListInv, NextListInv, PTL DEF Spec

\* For any number of requests and mutations: a list that no change raced shows one state of
\* the tables and every change that had been invalidated when the request arrived, whether
\* it came from either store, from the leader's queries or from waiting for the leader.
THEOREM AnswersKeepUpHolds == Spec => []AnswersKeepUp
<1>1. ListInv => AnswersKeepUp
  BY DEF ListInv, ReaderOK, AnswersKeepUp
<1> QED BY <1>1, InitListInv, NextListInv, PTL DEF Spec

\* For any number of requests: "role not found" is said only of a role that was missing at
\* some time during the request.
THEOREM NotFoundIsRealHolds == Spec => []NotFoundIsReal
<1>1. ListInv => NotFoundIsReal
  BY DEF ListInv, MutationOK, NotFoundIsReal
<1> QED BY <1>1, InitListInv, NextListInv, PTL DEF Spec
=============================================================================
