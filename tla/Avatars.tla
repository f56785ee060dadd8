------------------------------ MODULE Avatars ------------------------------
(***************************************************************************)
(* Avatars in object storage (MinIOStorageService, and the handlers that   *)
(* upload and delete them).                                                *)
(*                                                                         *)
(* Each instance of the API makes sure that the bucket is there in the     *)
(* first call that needs it, under a sync.Once with that call's context:   *)
(* it asks whether the bucket exists and creates it if not, and another    *)
(* instance may have created it in between.  Calls that come meanwhile     *)
(* wait, and the outcome is kept until the process ends.  No table         *)
(* remembers which objects a user has: the key of an object is all the     *)
(* client gets.                                                            *)
(*                                                                         *)
(* Any request to MinIO may end in an error: MinIO is down, refuses it, or *)
(* the client has gone away and its context was cancelled; it may have     *)
(* been carried out all the same.                                          *)
(*                                                                         *)
(* An object key is a sequence: the prefix of all avatars, the digits of   *)
(* the user's id, the slash, and a unique name.                            *)
(***************************************************************************)
EXTENDS Naturals, SequencesExt

CONSTANTS
  Users,       \* ids of users, as sequences of digits
  Names,       \* unique names of objects
  Keys,        \* keys that clients name when they delete
  Calls,       \* requests in progress at the same time
  Instances,   \* processes of the API
  MaxRestarts  \* bound on restarts of processes

Digits == {"0", "1", "2", "3", "4", "5", "6", "7", "8", "9"}
ASSUME UsersAssumption == Users \subseteq Seq(Digits)
ASSUME InstancesAssumption == "none" \notin Instances

VARIABLES
  bucket,   \* the bucket exists
  objects,  \* keys of the objects in the bucket
  once,     \* once[i]: initOnce, "new", "busy", "done" or "failed"
  call,     \* requests in progress
  restarts

storeVars == <<bucket, objects, once, call, restarts>>

Prefix(u) == <<"avatars/user-">> \o u \o <<"/">>
ObjectKey(u, n) == Prefix(u) \o <<n>>

\* on: the instance that serves the request; kind: what it is for; user: who asks; key: the
\* object.
IdleCall == [pc |-> "idle", on |-> "none", kind |-> "none", user |-> <<>>, key |-> <<>>]

StorageInit ==
  /\ bucket \in BOOLEAN /\ objects = {}
  /\ once = [i \in Instances |-> "new"]
  /\ call = [c \in Calls |-> IdleCall]
  /\ restarts = 0

Proceed(c, q) == call' = [call EXCEPT ![c] = q]

-----------------------------------------------------------------------------
(* Validation, before MinIO is asked.                                      *)

\* The file is at most 5 MB and its first bytes are those of a JPEG or PNG image, or the
\* upload is refused.  The new object's name is one that no object had.
Upload(c, i, u, n) ==
  /\ call[c].pc = "idle" /\ ObjectKey(u, n) \notin objects
  /\ \A d \in Calls : call[d].key # ObjectKey(u, n)
  /\ Proceed(c, [pc |-> "init", on |-> i, kind |-> "upload", user |-> u, key |-> ObjectKey(u, n)])
  /\ UNCHANGED <<bucket, objects, once, restarts>>

\* Faulty: the prefix of the owner's keys lacks its slash.
OwnsByDigits(u, key) == IsPrefix(<<"avatars/user-">> \o u, key)
Owns(u, key) == IsPrefix(Prefix(u), key)

\* A blank key is ignored, one with ".." or of another user is refused.
Delete(c, i, u, key) ==
  /\ call[c].pc = "idle"
  /\ ".." \notin {key[k] : k \in DOMAIN key} /\ Owns(u, key)
  /\ Proceed(c, [pc |-> "init", on |-> i, kind |-> "delete", user |-> u, key |-> key])
  /\ UNCHANGED <<bucket, objects, once, restarts>>

-----------------------------------------------------------------------------
(* lazyInit and ensureBucketExists.                                        *)

Advance(c, pc) == Proceed(c, [call[c] EXCEPT !.pc = pc])
Outcome(c, o) == once' = [once EXCEPT ![call[c].on] = o]

Enter(c) ==
  /\ call[c].pc = "init" /\ once[call[c].on] = "new"
  /\ Outcome(c, "busy") /\ Advance(c, "exists")
  /\ UNCHANGED <<bucket, objects, restarts>>

BucketExists(c) ==
  /\ call[c].pc = "exists"
  /\ IF bucket THEN Outcome(c, "done") /\ Advance(c, "use") ELSE UNCHANGED once /\ Advance(c, "make")
  /\ UNCHANGED <<bucket, objects, restarts>>

\* MinIO refuses to create a bucket that exists by now.
MakeBucket(c) ==
  /\ call[c].pc = "make" /\ ~bucket
  /\ bucket' = TRUE /\ Outcome(c, "done") /\ Advance(c, "use")
  /\ UNCHANGED <<objects, restarts>>

\* Faulty: the error goes to the first caller and is not kept.
EnsureForgets(c) ==
  /\ call[c].pc \in {"exists", "make"}
  /\ bucket' \in {bucket, bucket \/ call[c].pc = "make"}
  /\ Outcome(c, "done") /\ Advance(c, "failed")
  /\ UNCHANGED <<objects, restarts>>

\* An error of either request.
EnsureFails(c) ==
  /\ call[c].pc \in {"exists", "make"}
  /\ bucket' \in {bucket, bucket \/ call[c].pc = "make"}
  /\ Outcome(c, "failed") /\ Advance(c, "failed")
  /\ UNCHANGED <<objects, restarts>>

\* Everyone else, now and later, gets the outcome of the first.
Shared(c) ==
  /\ call[c].pc = "init" /\ once[call[c].on] \in {"done", "failed"}
  /\ Advance(c, IF once[call[c].on] = "done" THEN "use" ELSE "failed")
  /\ UNCHANGED <<bucket, objects, once, restarts>>

-----------------------------------------------------------------------------
(* Use of the bucket.                                                      *)

Served(c) ==
  IF call[c].kind = "upload" THEN objects \cup {call[c].key} ELSE objects \ {call[c].key}

PutObject(c) ==
  /\ call[c].pc = "use" /\ call[c].kind = "upload"
  /\ objects' = Served(c) /\ Advance(c, "url")
  /\ UNCHANGED <<bucket, once, restarts>>
\* The URL of the answer.
PresignedGetObject(c) ==
  /\ call[c].pc = "url"
  /\ Advance(c, "ok")
  /\ UNCHANGED <<bucket, objects, once, restarts>>
RemoveObject(c) ==
  /\ call[c].pc = "use" /\ call[c].kind = "delete"
  /\ objects' = Served(c) /\ Advance(c, "ok")
  /\ UNCHANGED <<bucket, once, restarts>>
\* An error: an upload that fails at its URL leaves the object behind.
UseFails(c) ==
  /\ call[c].pc \in {"use", "url"}
  /\ objects' \in {objects, IF call[c].pc = "use" THEN Served(c) ELSE objects}
  /\ Advance(c, "failed")
  /\ UNCHANGED <<bucket, once, restarts>>
Answered(c) ==
  /\ call[c].pc \in {"ok", "failed"}
  /\ Proceed(c, IdleCall)
  /\ UNCHANGED <<bucket, objects, once, restarts>>

\* A process dies and starts again.
Restart(i) ==
  /\ restarts < MaxRestarts
  /\ restarts' = restarts + 1
  /\ once' = [once EXCEPT ![i] = "new"]
  /\ call' = [c \in Calls |-> IF call[c].on = i THEN IdleCall ELSE call[c]]
  /\ UNCHANGED <<bucket, objects>>

-----------------------------------------------------------------------------
StorageStep(c) ==
  \/ \E i \in Instances, u \in Users, n \in Names : Upload(c, i, u, n)
  \/ \E i \in Instances, u \in Users, k \in Keys : Delete(c, i, u, k)
  \/ Enter(c) \/ BucketExists(c) \/ MakeBucket(c) \/ EnsureFails(c) \/ Shared(c)
  \/ PutObject(c) \/ PresignedGetObject(c) \/ RemoveObject(c) \/ UseFails(c) \/ Answered(c)
StorageNext == (\E c \in Calls : StorageStep(c)) \/ (\E i \in Instances : Restart(i))
StorageSpec == StorageInit /\ [][StorageNext]_storeVars

-----------------------------------------------------------------------------
(* Properties.                                                             *)

\* An object disappears only through a request of the user it belongs to, even if the id
\* of one user begins with the digits of another's.
OnlyOwnersDelete ==
  [][\A k \in objects \ objects' : \E c \in Calls :
       /\ call[c].pc = "use" /\ call[c].kind = "delete" /\ call[c].key = k
       /\ \E n \in Names : k = ObjectKey(call[c].user, n)]_storeVars

\* Whichever instance creates the bucket and whatever fails, a request for an object is sent
\* only by an instance whose own initialisation has succeeded, and to a bucket that exists;
\* and a call that waits for initOnce waits for exactly one call of its instance, which
\* still runs (lazyInit, ensureBucketExists).
BucketBeforeObjects ==
  /\ objects # {} => bucket
  /\ \A c \in Calls :
       /\ call[c].pc \in {"use", "url"} => bucket /\ once[call[c].on] = "done"
       /\ call[c].pc = "init" /\ once[call[c].on] = "busy" =>
            \E d \in Calls :
              /\ call[d].on = call[c].on /\ call[d].pc \in {"exists", "make"}
              /\ \A e \in Calls \ {d} :
                   call[e].on = call[c].on => call[e].pc \notin {"exists", "make"}

=============================================================================
