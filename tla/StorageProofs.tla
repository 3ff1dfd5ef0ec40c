--------------------------- MODULE StorageProofs ---------------------------
(***************************************************************************)
(* Proofs about Storage for every set of files, workers and quotas, and    *)
(* every bound on attempts, purges and faults.                             *)
(***************************************************************************)
EXTENDS Storage, FiniteSetTheorems, TLAPS

(* Nobody else has the file of an upload whose request goes on, unless its *)
(* row committed and is undone.                                            *)
Private(f) == up[f].pc # "done" /\ (up[f].pc = "undo" => f \notin overlapped)

(* The file of such an upload has no row, and nobody edits or removes it;  *)
(* only an undo has something to do.                                       *)
UploadOK ==
  \A f \in Uploaded :
    /\ Private(f) => row[f] = "none" /\ purges[f] = 0 /\ f \notin editing /\ f \notin removing
    /\ up[f].pc = "undo" <=> up[f].todo # << >>
    /\ up[f].pc = "thumb" => f \in Photos /\ <<f, "file">> \in objects
    /\ up[f].pc = "save" => Keys(f) \subseteq objects

(* The bytes of the stored rows and of the reservations are counted, and   *)
(* uploads fit in a quota.                                                 *)
Holding == {f \in Uploaded : Reserved(f)}

CountOK ==
  overlapped = {} =>
    /\ Bytes(Stored) + Bytes(Holding) <= used
    /\ \E q \in Quotas : Bytes(Stored \cap Uploaded) + Bytes({f \in Uploaded : up[f].pc \in {"put", "thumb", "save"}}) <= q

(* A row of the outbox, and its job.                                       *)
OutboxOK ==
  /\ \A id \in DOMAIN outbox : outbox[id].status = "pending" => outbox[id].attempts < MaxAttempts
  /\ \A id \in DOMAIN outbox \cap DOMAIN queue : outbox[id].status = "pending"
  /\ \A id \in DOMAIN outbox \cup DOMAIN queue : id[3] <= purges[id[1]]
  /\ \A id \in DOMAIN queue : queue[id].pc = "delete row" => id[1] \in overlapped \/ KeyOf(id) \notin objects

(* One worker at a time has a message's media, unless they overlapped.     *)
IngestOK ==
  \A f \in Inbound \ overlapped :
    /\ \A v, w \in Workers : ingest[f][v] # "idle" /\ ingest[f][w] # "idle" => v = w
    /\ \A w \in Workers : ingest[f][w] \in {"upload", "finalise"} => purges[f] = 0 /\ row[f] # "stored"
    /\ \A w \in Workers : ingest[f][w] = "finalise" => <<f, "file">> \in objects

(* A purged file is not offered again, and nothing of it is forgotten.     *)
PurgedOK ==
  \A f \in Files \ overlapped :
    purges[f] > 0 =>
      /\ row[f] \notin {"stored", "pending"}
      /\ \A k \in Keys(f) \cap objects : \E id \in DOMAIN outbox : KeyOf(id) = k

(* A stored file is in the bucket.                                         *)
StoredOK == \A f \in Stored \ overlapped : Keys(f) \subseteq objects

IInv == TypeOK /\ UploadOK /\ CountOK /\ OutboxOK /\ IngestOK /\ PurgedOK /\ StoredOK

USE FileAssumption, StorageBoundAssumption

-----------------------------------------------------------------------------
(* Bytes of disjoint sets add up.                                          *)

KeysOf(S) == UNION {Keys(f) : f \in S}

LEMMA KeysHas ==
  ASSUME NEW S
  PROVE  \A k : k \in KeysOf(S) <=> \E f \in S : k \in Keys(f)
BY DEF KeysOf

LEMMA KeyIs ==
  ASSUME NEW f, NEW k
  PROVE  k \in Keys(f) => k = <<f, k[2]>> /\ k[1] = f /\ k[2] \in {"file", "thumb"}
BY DEF Keys, Parts

LEMMA KeysFinite ==
  ASSUME NEW S, S \subseteq Files
  PROVE  IsFiniteSet(KeysOf(S)) /\ Bytes(S) = Cardinality(KeysOf(S)) /\ Bytes(S) \in Nat
<1>1. IsFiniteSet(S)
  BY FS_Subset
<1>2. IsFiniteSet({"file", "thumb"})
  <2>1. IsFiniteSet({} \union {"file"})
    BY FS_EmptySet, FS_AddElement
  <2>2. IsFiniteSet(({} \union {"file"}) \union {"thumb"})
    BY <2>1, FS_AddElement
  <2> QED BY <2>2
<1>3. IsFiniteSet(S \X {"file", "thumb"})
  BY <1>1, <1>2, FS_Product
<1>4. KeysOf(S) \subseteq S \X {"file", "thumb"}
  BY KeysHas, KeyIs
<1>5. IsFiniteSet(KeysOf(S))
  BY <1>3, <1>4, FS_Subset
<1> QED BY <1>5, FS_CardinalityType DEF Bytes, KeysOf

LEMMA BytesUnion ==
  ASSUME NEW S, S \subseteq Files, NEW T, T \subseteq Files, S \cap T = {}
  PROVE  Bytes(S \cup T) = Bytes(S) + Bytes(T)
<1>1. KeysOf(S \cup T) = KeysOf(S) \cup KeysOf(T)
  BY DEF KeysOf
<1>2. KeysOf(S) \cap KeysOf(T) = {}
  BY KeysHas, KeyIs
<1>3. /\ IsFiniteSet(KeysOf(S)) /\ Bytes(S) = Cardinality(KeysOf(S)) /\ Bytes(S) \in Nat
      /\ IsFiniteSet(KeysOf(T)) /\ Bytes(T) = Cardinality(KeysOf(T)) /\ Bytes(T) \in Nat
      /\ Bytes(S \cup T) = Cardinality(KeysOf(S \cup T))
  BY KeysFinite
<1>4. Cardinality(KeysOf(S) \cap KeysOf(T)) = 0
  BY <1>2, FS_EmptySet
<1>5. Cardinality(KeysOf(S) \cup KeysOf(T))
        = Cardinality(KeysOf(S)) + Cardinality(KeysOf(T)) - Cardinality(KeysOf(S) \cap KeysOf(T))
  BY <1>3, FS_Union
<1>6. Bytes(S \cup T) = Cardinality(KeysOf(S) \cup KeysOf(T))
  BY <1>1, <1>3
<1>7. Bytes(S \cup T) = Bytes(S) + Bytes(T) - 0
  BY <1>3, <1>4, <1>5, <1>6
<1> QED BY <1>3, <1>7

LEMMA BytesWithout ==
  ASSUME NEW S, S \subseteq Files, NEW T, T \subseteq S
  PROVE  Bytes(S) = Bytes(S \ T) + Bytes(T) /\ Bytes(S \ T) \in Nat /\ Bytes(T) \in Nat /\ Bytes(S) \in Nat
<1>1. (S \ T) \cup T = S /\ (S \ T) \cap T = {}
  OBVIOUS
<1>2. Bytes(S \ T) + Bytes(T) = Bytes(S)
  BY <1>1, BytesUnion
<1> QED BY <1>2, KeysFinite

LEMMA BytesMore ==
  ASSUME NEW S, S \subseteq Files, NEW T, T \subseteq S
  PROVE  Bytes(T) <= Bytes(S) /\ Bytes(T) \in Nat /\ Bytes(S) \in Nat
<1>1. Bytes(S) = Bytes(S \ T) + Bytes(T) /\ Bytes(S \ T) \in Nat /\ Bytes(T) \in Nat /\ Bytes(S) \in Nat
  BY BytesWithout
<1> QED BY <1>1

-----------------------------------------------------------------------------
(* What is left of an undo after its next step.                            *)

LEMMA TodoOnce ==
  /\ << >> \in Todos
  /\ \A todo \in Todos : todo # << >> =>
       /\ Tail(todo) \in Todos
       /\ Head(todo) = "release" => ~Contains(Tail(todo), "release") /\ Contains(todo, "release")
       /\ Head(todo) # "release" => (Contains(Tail(todo), "release") <=> Contains(todo, "release"))
  /\ ~Contains(<< >>, "release")
<1>1. ~Contains(<< >>, "release")
  BY DEF Contains
<1>2. ASSUME NEW a, NEW s, s = <<a>> PROVE Head(s) = a /\ Tail(s) = << >> /\ (Contains(s, "release") <=> a = "release")
  BY <1>2 DEF Contains
<1>3. ASSUME NEW a, NEW b, NEW s, s = <<a, b>>
      PROVE  Head(s) = a /\ Tail(s) = <<b>> /\ (Contains(s, "release") <=> a = "release" \/ b = "release")
  <2>1. Head(s) = a /\ Tail(s) = <<b>> /\ Len(s) = 2 /\ s[1] = a /\ s[2] = b
    BY <1>3
  <2> QED BY <2>1 DEF Contains
<1>4. ASSUME NEW a, NEW b, NEW c, NEW s, s = <<a, b, c>>
      PROVE  Head(s) = a /\ Tail(s) = <<b, c>> /\ (Contains(s, "release") <=> a = "release" \/ b = "release" \/ c = "release")
  <2>1. Head(s) = a /\ Tail(s) = <<b, c>> /\ Len(s) = 3 /\ s[1] = a /\ s[2] = b /\ s[3] = c
    BY <1>4
  <2>2. \A i : i \in 1..3 <=> i = 1 \/ i = 2 \/ i = 3
    OBVIOUS
  <2> QED BY <2>1, <2>2 DEF Contains
<1>5. ASSUME NEW todo \in Todos, todo # << >>
      PROVE  /\ Tail(todo) \in Todos
             /\ Head(todo) = "release" => ~Contains(Tail(todo), "release") /\ Contains(todo, "release")
             /\ Head(todo) # "release" => (Contains(Tail(todo), "release") <=> Contains(todo, "release"))
  <2>1. CASE todo = <<"release">>
    <3>1. Head(todo) = "release" /\ Tail(todo) = << >> /\ Contains(todo, "release")
      BY <1>2, <2>1
    <3> QED BY <1>1, <3>1 DEF Todos
  <2>2. CASE todo = <<"delete file", "release">>
    <3>1. Head(todo) = "delete file" /\ Tail(todo) = <<"release">> /\ Contains(todo, "release")
      BY <1>3, <2>2
    <3>2. Contains(Tail(todo), "release")
      BY <1>2, <3>1
    <3> QED BY <3>1, <3>2 DEF Todos
  <2>3. CASE todo = <<"release", "delete file", "delete thumb">>
    <3>1. PICK a, b, c : a = "release" /\ b = "delete file" /\ c = "delete thumb"
      OBVIOUS
    <3>2. todo = <<a, b, c>>
      BY <2>3, <3>1
    <3>a. Head(todo) = a /\ Tail(todo) = <<b, c>> /\ (Contains(todo, "release") <=> a = "release" \/ b = "release" \/ c = "release")
      BY <1>4, <3>2
    <3>b. Contains(Tail(todo), "release") <=> b = "release" \/ c = "release"
      BY <1>3, <3>a
    <3>3. Head(todo) = a /\ Tail(todo) = <<b, c>> /\ Contains(todo, "release")
      BY <3>1, <3>a
    <3>4. ~Contains(Tail(todo), "release")
      BY <3>1, <3>b
    <3>5. Tail(todo) = <<"delete file", "delete thumb">>
      BY <3>1, <3>3
    <3> QED BY <3>1, <3>3, <3>4, <3>5 DEF Todos
  <2>4. CASE todo = <<"delete file", "delete thumb">>
    <3>1. PICK a, b : a = "delete file" /\ b = "delete thumb"
      OBVIOUS
    <3>2. todo = <<a, b>>
      BY <2>4, <3>1
    <3>a. Head(todo) = a /\ Tail(todo) = <<b>> /\ (Contains(todo, "release") <=> a = "release" \/ b = "release")
      BY <1>3, <3>2
    <3>b. Contains(Tail(todo), "release") <=> b = "release"
      BY <1>2, <3>a
    <3>3. Head(todo) = a /\ Tail(todo) = <<b>> /\ ~Contains(todo, "release")
      BY <3>1, <3>a
    <3>4. ~Contains(Tail(todo), "release")
      BY <3>1, <3>b
    <3>5. Tail(todo) = <<"delete thumb">>
      BY <3>1, <3>3
    <3> QED BY <3>1, <3>3, <3>4, <3>5 DEF Todos
  <2>5. CASE todo = <<"delete thumb">>
    <3>1. Head(todo) = "delete thumb" /\ Tail(todo) = << >> /\ ~Contains(todo, "release")
      BY <1>2, <2>5
    <3> QED BY <1>1, <3>1 DEF Todos
  <2> QED BY <1>5, <2>1, <2>2, <2>3, <2>4, <2>5 DEF Todos
<1> QED BY <1>1, <1>5 DEF Todos

-----------------------------------------------------------------------------
(* The purge of some files.                                                *)

(* A purge is named by a file, one of its parts and a count.               *)
LEMMA IdHas ==
  /\ \A id : id \in PurgeIds <=> \E f \in Files : \E part \in Parts(f) : \E n \in 1 .. MaxPurges : id = <<f, part, n>>
  /\ \A id \in PurgeIds : /\ id[1] \in Files /\ id[2] \in Parts(id[1]) /\ id[3] \in 1 .. MaxPurges
                          /\ KeyOf(id) \in Keys(id[1]) /\ id[3] \in Nat \ {0}
<1>1. ASSUME NEW id
      PROVE  id \in PurgeIds <=> \E f \in Files : \E part \in Parts(f) : \E n \in 1 .. MaxPurges : id = <<f, part, n>>
  <2>1. \A k : k \in UNION {Keys(f) : f \in Files} <=> \E f \in Files : \E part \in Parts(f) : k = <<f, part>>
    BY DEF Keys
  <2>2. ASSUME id \in PurgeIds
        PROVE  \E f \in Files : \E part \in Parts(f) : \E n \in 1 .. MaxPurges : id = <<f, part, n>>
    <3>1. PICK k \in UNION {Keys(f) : f \in Files}, n \in 1 .. MaxPurges : id = <<k[1], k[2], n>>
      BY <2>2 DEF PurgeIds
    <3>2. PICK f \in Files : \E part \in Parts(f) : k = <<f, part>>
      BY <2>1
    <3>3. PICK part \in Parts(f) : k = <<f, part>>
      BY <3>2
    <3> QED BY <3>1, <3>3
  <2>3. ASSUME NEW f \in Files, NEW part \in Parts(f), NEW n \in 1 .. MaxPurges, id = <<f, part, n>>
        PROVE  id \in PurgeIds
    <3>1. <<f, part>> \in UNION {Keys(g) : g \in Files}
      BY <2>1
    <3> QED BY <2>3, <3>1 DEF PurgeIds
  <2> QED BY <2>2, <2>3
<1>2. ASSUME NEW id \in PurgeIds
      PROVE  /\ id[1] \in Files /\ id[2] \in Parts(id[1]) /\ id[3] \in 1 .. MaxPurges
             /\ KeyOf(id) \in Keys(id[1]) /\ id[3] \in Nat \ {0}
  <2>1. PICK f \in Files : \E part \in Parts(f) : \E n \in 1 .. MaxPurges : id = <<f, part, n>>
    BY <1>1
  <2>2. PICK part \in Parts(f) : \E n \in 1 .. MaxPurges : id = <<f, part, n>>
    BY <2>1
  <2>3. PICK n \in 1 .. MaxPurges : id = <<f, part, n>>
    BY <2>2
  <2> QED BY <2>3 DEF KeyOf, Keys
<1> QED BY <1>1, <1>2

LEMMA NewIdsHas ==
  ASSUME TypeOK, NEW S, S \subseteq Files, \A f \in S : purges[f] < MaxPurges
  PROVE  /\ NewIds(S) \subseteq PurgeIds
         /\ \A id \in NewIds(S) : id[1] \in S /\ id[3] = purges[id[1]] + 1
         /\ \A f \in S : \A k \in Keys(f) : \E id \in NewIds(S) : KeyOf(id) = k
<1>0. \A f \in S : f \in Files /\ purges[f] \in Nat /\ purges[f] + 1 \in 1 .. MaxPurges
  <2> TAKE f \in S
  <2>1. f \in Files /\ purges[f] \in 0 .. MaxPurges /\ purges[f] < MaxPurges
    BY DEF TypeOK
  <2> QED BY <2>1
<1>1. ASSUME NEW id \in NewIds(S)
      PROVE  id \in PurgeIds /\ id[1] \in S /\ id[3] = purges[id[1]] + 1
  <2>1. PICK k \in UNION {Keys(f) : f \in S} : id = <<k[1], k[2], purges[k[1]] + 1>>
    BY DEF NewIds
  <2>2. PICK f \in S : k \in Keys(f)
    BY <2>1
  <2>3. PICK part \in Parts(f) : k = <<f, part>>
    BY <2>2 DEF Keys
  <2>4. id = <<f, part, purges[f] + 1>>
    BY <2>1, <2>3
  <2>5. id \in PurgeIds
    BY <1>0, <2>4, IdHas
  <2> QED BY <2>4, <2>5
<1>2. ASSUME NEW f \in S, NEW k \in Keys(f) PROVE \E id \in NewIds(S) : KeyOf(id) = k
  <2>1. PICK id : id = <<k[1], k[2], purges[k[1]] + 1>>
    OBVIOUS
  <2>2. id \in NewIds(S)
    BY <2>1 DEF NewIds
  <2>3. KeyOf(id) = <<k[1], k[2]>>
    BY <2>1 DEF KeyOf
  <2>4. k = <<k[1], k[2]>>
    BY DEF Keys
  <2> QED BY <2>2, <2>3, <2>4
<1> QED BY <1>1, <1>2

\* Entries added to a function, or one taken away.
LEMMA WithHas ==
  ASSUME NEW R, NEW D, NEW g \in [D -> R], NEW ids, NEW r \in R
  PROVE  /\ DOMAIN With(g, ids, r) = ids \cup D
         /\ \A id \in ids : With(g, ids, r)[id] = r
         /\ \A id \in D \ ids : With(g, ids, r)[id] = g[id]
         /\ With(g, ids, r) \in [ids \cup D -> R]
BY DEF With

LEMMA WithoutHas ==
  ASSUME NEW R, NEW D, NEW g \in [D -> R], NEW id
  PROVE  /\ DOMAIN Without(g, id) = D \ {id}
         /\ \A i \in D \ {id} : Without(g, id)[i] = g[i]
         /\ Without(g, id) \in [D \ {id} -> R]
BY DEF Without, Restrict

NewRow == [status |-> "pending", attempts |-> 0]
OutboxRow == [status : {"pending", "failed"}, attempts : 0 .. MaxAttempts]
Job == [made : 0 .. MaxAttempts - 1, pc : {"wait", "delete row"}]

LEMMA NewOnes ==
  NewRow \in OutboxRow /\ NewJob \in Job
<1>1. 0 \in 0 .. MaxAttempts /\ 0 \in 0 .. MaxAttempts - 1
  OBVIOUS
<1> QED BY <1>1 DEF OutboxRow, Job, NewJob, NewRow

LEMMA PurgeHas ==
  ASSUME TypeOK, NEW S, S \subseteq Files, Purge(S)
  PROVE  /\ \A f \in S : purges[f] < MaxPurges
         /\ purges' \in [Files -> 0 .. MaxPurges]
         /\ \A f \in Files : purges'[f] = IF f \in S THEN purges[f] + 1 ELSE purges[f]
         /\ \A f \in Files : purges[f] \in Nat
         /\ DOMAIN outbox' = NewIds(S) \cup DOMAIN outbox
         /\ \A id \in NewIds(S) : outbox'[id] = NewRow
         /\ \A id \in DOMAIN outbox \ NewIds(S) : outbox'[id] = outbox[id]
         /\ outbox' \in [DOMAIN outbox' -> OutboxRow]
         /\ \/ queue' = queue
            \/ /\ DOMAIN queue' = NewIds(S) \cup DOMAIN queue
               /\ \A id \in NewIds(S) : queue'[id] = NewJob
               /\ \A id \in DOMAIN queue \ NewIds(S) : queue'[id] = queue[id]
         /\ queue' \in [DOMAIN queue' -> Job]
         /\ DOMAIN outbox' \cup DOMAIN queue' \subseteq PurgeIds
<1>1. /\ \A f \in S : purges[f] < MaxPurges
      /\ purges' = [f \in Files |-> IF f \in S THEN purges[f] + 1 ELSE purges[f]]
      /\ outbox' = With(outbox, NewIds(S), NewRow)
      /\ queue' = With(queue, NewIds(S), NewJob) \/ queue' = queue
  BY DEF Purge, PurgeRows, Dispatch, NewRow
<1>2. \A f \in Files : purges[f] \in 0 .. MaxPurges
  BY DEF TypeOK
<1>3. \A f \in Files : (IF f \in S THEN purges[f] + 1 ELSE purges[f]) \in 0 .. MaxPurges
  BY <1>1, <1>2
<1>4. purges' \in [Files -> 0 .. MaxPurges]
  BY <1>1, <1>3
<1>5. \A f \in Files : purges'[f] = (IF f \in S THEN purges[f] + 1 ELSE purges[f]) /\ purges[f] \in Nat
  BY <1>1, <1>2
<1>6. outbox \in [DOMAIN outbox -> OutboxRow] /\ queue \in [DOMAIN queue -> Job]
  BY DEF TypeOK, OutboxRow, Job
<1>7. /\ DOMAIN outbox' = NewIds(S) \cup DOMAIN outbox
      /\ \A id \in NewIds(S) : outbox'[id] = NewRow
      /\ \A id \in DOMAIN outbox \ NewIds(S) : outbox'[id] = outbox[id]
      /\ outbox' \in [DOMAIN outbox' -> OutboxRow]
  <2>1. /\ DOMAIN With(outbox, NewIds(S), NewRow) = NewIds(S) \cup DOMAIN outbox
        /\ \A id \in NewIds(S) : With(outbox, NewIds(S), NewRow)[id] = NewRow
        /\ \A id \in DOMAIN outbox \ NewIds(S) : With(outbox, NewIds(S), NewRow)[id] = outbox[id]
        /\ With(outbox, NewIds(S), NewRow) \in [NewIds(S) \cup DOMAIN outbox -> OutboxRow]
    BY <1>6, NewOnes, WithHas, ZenonT(30)
  <2> QED BY <1>1, <2>1
<1>8. /\ \/ queue' = queue
         \/ /\ DOMAIN queue' = NewIds(S) \cup DOMAIN queue
            /\ \A id \in NewIds(S) : queue'[id] = NewJob
            /\ \A id \in DOMAIN queue \ NewIds(S) : queue'[id] = queue[id]
      /\ queue' \in [DOMAIN queue' -> Job]
  <2>1. CASE queue' = With(queue, NewIds(S), NewJob)
    <3>1. /\ DOMAIN With(queue, NewIds(S), NewJob) = NewIds(S) \cup DOMAIN queue
          /\ \A id \in NewIds(S) : With(queue, NewIds(S), NewJob)[id] = NewJob
          /\ \A id \in DOMAIN queue \ NewIds(S) : With(queue, NewIds(S), NewJob)[id] = queue[id]
          /\ With(queue, NewIds(S), NewJob) \in [NewIds(S) \cup DOMAIN queue -> Job]
      BY <1>6, NewOnes, WithHas, ZenonT(30)
    <3> QED BY <2>1, <3>1
  <2>2. CASE queue' = queue
    BY <1>6, <2>2
  <2> QED BY <1>1, <2>1, <2>2
<1>9. DOMAIN outbox' \cup DOMAIN queue' \subseteq PurgeIds
  <2>1. NewIds(S) \subseteq PurgeIds
    BY <1>1, NewIdsHas
  <2>2. DOMAIN outbox \subseteq PurgeIds /\ DOMAIN queue \subseteq PurgeIds
    BY DEF TypeOK
  <2> QED BY <1>7, <1>8, <2>1, <2>2
<1>10. \A f \in S : purges[f] < MaxPurges
  BY <1>1
<1> QED BY <1>4, <1>5, <1>7, <1>8, <1>9, <1>10

-----------------------------------------------------------------------------
(* What each part of the invariant depends on.                             *)

LEMMA Apart ==
  /\ Uploaded \cap Inbound = {} /\ Uploaded \subseteq Files /\ Inbound \subseteq Files /\ OnUnit \subseteq Uploaded
  /\ Files = Uploaded \cup Inbound
  /\ \A f \in Inbound : Keys(f) = {<<f, "file">>}
  /\ \A f \in Uploaded \ Photos : Keys(f) = {<<f, "file">>}
  /\ \A f \in Photos : Keys(f) = {<<f, "file">>, <<f, "thumb">>}
BY DEF Uploaded, OnUnit, Messages, Files, Keys, Parts

(* A row of the outbox, or a job, is of a file that was purged.            *)
LEMMA HadPurge ==
  ASSUME TypeOK, OutboxOK
  PROVE  \A id \in DOMAIN outbox \cup DOMAIN queue :
           /\ id \in PurgeIds /\ id[1] \in Files /\ KeyOf(id) \in Keys(id[1]) /\ KeyOf(id)[1] = id[1]
           /\ purges[id[1]] > 0 /\ id[3] \in Nat \ {0}
<1> TAKE id \in DOMAIN outbox \cup DOMAIN queue
<1>1. id \in PurgeIds
  BY DEF TypeOK
<1>2. id[1] \in Files /\ KeyOf(id) \in Keys(id[1]) /\ id[3] \in Nat \ {0} /\ KeyOf(id)[1] = id[1]
  BY <1>1, IdHas DEF KeyOf
<1>3. purges[id[1]] \in 0 .. MaxPurges /\ id[3] <= purges[id[1]]
  BY <1>2 DEF TypeOK, OutboxOK
<1>4. purges[id[1]] > 0
  BY <1>2, <1>3
<1> QED BY <1>1, <1>2, <1>4

LEMMA KeepUpload ==
  ASSUME UploadOK, up' = up, editing' = editing, removing' = removing, overlapped \subseteq overlapped',
         \A f \in Uploaded : Private(f) =>
            /\ row'[f] = row[f] /\ purges'[f] = purges[f] /\ Keys(f) \cap objects \subseteq objects'
  PROVE  UploadOK'
<1>1. ASSUME NEW f \in Photos, <<f, "file">> \in objects, Keys(f) \cap objects \subseteq objects'
      PROVE  <<f, "file">> \in objects'
  BY <1>1, Apart
<1>2. ASSUME NEW f \in Uploaded
      PROVE  /\ Private(f)' => row'[f] = "none" /\ purges'[f] = 0 /\ f \notin editing' /\ f \notin removing'
             /\ up'[f].pc = "undo" <=> up'[f].todo # << >>
             /\ up'[f].pc = "thumb" => f \in Photos /\ <<f, "file">> \in objects'
             /\ up'[f].pc = "save" => Keys(f) \subseteq objects'
  <2>1. /\ Private(f) => row[f] = "none" /\ purges[f] = 0 /\ f \notin editing /\ f \notin removing
        /\ up[f].pc = "undo" <=> up[f].todo # << >>
        /\ up[f].pc = "thumb" => f \in Photos /\ <<f, "file">> \in objects
        /\ up[f].pc = "save" => Keys(f) \subseteq objects
    BY DEF UploadOK
  <2>2. Private(f) =>
            /\ row'[f] = row[f] /\ purges'[f] = purges[f] /\ Keys(f) \cap objects \subseteq objects'
    OBVIOUS
  <2>3. Private(f)' => Private(f)
    BY DEF Private
  <2>4. up[f].pc \in {"thumb", "save"} => Private(f)
    BY DEF Private
  <2> QED BY <1>1, <2>1, <2>2, <2>3, <2>4
<1> QED BY <1>2 DEF UploadOK

InFlight == {f \in Uploaded : up[f].pc \in {"put", "thumb", "save"}}

LEMMA CountIs ==
  CountOK <=> (overlapped = {} =>
    /\ Bytes(Stored) + Bytes(Holding) <= used
    /\ \E q \in Quotas : Bytes(Stored \cap Uploaded) + Bytes(InFlight) <= q)
BY DEF CountOK, InFlight

LEMMA KeepCount ==
  ASSUME CountOK, up' = up, Stored' = Stored, overlapped' = {} => overlapped = {} /\ used' = used
  PROVE  CountOK'
<1>1. Holding' = Holding
  BY DEF Holding, Reserved
<1> QED BY <1>1 DEF CountOK

LEMMA KeepOutbox ==
  ASSUME OutboxOK, outbox' = outbox, queue' = queue, purges' = purges, overlapped \subseteq overlapped',
         \A id \in DOMAIN queue : KeyOf(id) \in objects' => KeyOf(id) \in objects \/ id[1] \in overlapped'
  PROVE  OutboxOK'
<1>1. \A id : KeyOf(id)' = KeyOf(id)
  BY DEF KeyOf
<1> QED BY <1>1 DEF OutboxOK

LEMMA KeepIngest ==
  ASSUME IngestOK, ingest' = ingest, overlapped \subseteq overlapped',
         \A f \in Inbound \ overlapped' : \A w \in Workers : ingest[f][w] \in {"upload", "finalise"} =>
            /\ purges'[f] = purges[f] /\ row'[f] # "stored"
            /\ <<f, "file">> \in objects => <<f, "file">> \in objects'
  PROVE  IngestOK'
BY DEF IngestOK

LEMMA KeepPurged ==
  ASSUME PurgedOK, overlapped \subseteq overlapped', purges' = purges, DOMAIN outbox \subseteq DOMAIN outbox',
         \A f \in Files \ overlapped' : purges[f] > 0 =>
            /\ row'[f] \in {"stored", "pending"} => row[f] = row'[f]
            /\ Keys(f) \cap objects' \subseteq objects
  PROVE  PurgedOK'
<1>1. \A id : KeyOf(id)' = KeyOf(id)
  BY DEF KeyOf
<1> QED BY <1>1 DEF PurgedOK

LEMMA KeepStored ==
  ASSUME StoredOK, overlapped \subseteq overlapped', Stored' \subseteq Stored,
         \A f \in Stored' \ overlapped' : Keys(f) \cap objects \subseteq objects'
  PROVE  StoredOK'
BY DEF StoredOK

RowStates == {"none", "pending", "stored", "failed", "deleted"}

\* A pending row may be closed, nothing else.
Closing ==
  /\ row' \in [Files -> RowStates]
  /\ \A f \in Files : row'[f] = row[f] \/ (row[f] = "pending" /\ row'[f] \in {"failed", "deleted"})

LEMMA ClosingHas ==
  ASSUME Closing
  PROVE  /\ Stored' = Stored
         /\ \A f \in Files : row'[f] \in {"stored", "pending"} => row[f] = row'[f]
         /\ \A f \in Files : row[f] # "stored" => row'[f] # "stored"
         /\ \A f \in Files : row[f] = "none" => row'[f] = "none"
BY DEF Closing, Stored

LEMMA ClosesOne ==
  ASSUME TypeOK, NEW f \in Files, NEW s \in {"failed", "deleted"},
         row' = row \/ row' = IF Pending(f) THEN [row EXCEPT ![f] = s] ELSE row
  PROVE  Closing
<1>1. row \in [Files -> RowStates]
  BY DEF TypeOK, RowStates
<1>a. s \in RowStates
  BY DEF RowStates
<1>2. CASE row' = row
  BY <1>1, <1>2 DEF Closing
<1>3. CASE row[f] = "pending" /\ row' = [row EXCEPT ![f] = s]
  <2>1. row' \in [Files -> RowStates]
    BY <1>1, <1>3, <1>a
  <2>2. \A g \in Files : row'[g] = row[g] \/ (g = f /\ row'[g] = s)
    BY <1>1, <1>3
  <2> QED BY <1>3, <2>1, <2>2 DEF Closing
<1> QED BY <1>2, <1>3 DEF Pending

-----------------------------------------------------------------------------
(* The steps of an upload.                                                 *)

LEMMA StoredIs ==
  ASSUME NEW f \in Uploaded, IInv
  PROVE  /\ f \in Files /\ Stored \subseteq Files /\ Holding \subseteq Files /\ InFlight \subseteq Holding
         /\ Private(f) => row[f] = "none" /\ purges[f] = 0 /\ f \notin Stored /\ f \notin editing /\ f \notin removing
         /\ up[f].pc \in {"new", "put", "thumb", "save"} => Private(f)
BY Apart DEF IInv, UploadOK, Stored, Holding, InFlight, Reserved, Private

UploadPcs == {"new", "put", "thumb", "save", "undo", "done"}
Upload == [pc : UploadPcs, todo : Todos]

\* An upload's record, written again.
LEMMA UpdateUp ==
  ASSUME TypeOK, NEW f \in Uploaded, NEW pc \in UploadPcs, NEW todo \in Todos,
         up' = [up EXCEPT ![f].pc = pc, ![f].todo = todo] \/ (up' = [up EXCEPT ![f].pc = pc] /\ todo = up[f].todo)
  PROVE  /\ up' \in [Uploaded -> Upload]
         /\ up'[f].pc = pc /\ up'[f].todo = todo
         /\ \A g \in Uploaded \ {f} : up'[g] = up[g]
<1>1. up \in [Uploaded -> Upload] /\ DOMAIN up = Uploaded
  BY DEF TypeOK, Upload, UploadPcs
<1>2. up[f] \in Upload
  BY <1>1
<1>3. up[f] = [pc |-> up[f].pc, todo |-> up[f].todo] /\ up[f].todo \in Todos
  BY <1>2 DEF Upload
<1>4. ASSUME NEW a, NEW b, NEW r, r = [pc |-> a, todo |-> b]
      PROVE  /\ [r EXCEPT !.pc = pc] = [pc |-> pc, todo |-> b]
             /\ [[r EXCEPT !.pc = pc] EXCEPT !.todo = todo] = [pc |-> pc, todo |-> todo]
  <2>1. [r EXCEPT !.pc = pc] = [pc |-> pc, todo |-> b]
    BY <1>4
  <2>2. PICK s : s = [pc |-> pc, todo |-> b]
    OBVIOUS
  <2>3. [s EXCEPT !.todo = todo] = [pc |-> pc, todo |-> todo]
    BY <2>2
  <2> QED BY <2>1, <2>2, <2>3
<1>5. /\ [[up[f] EXCEPT !.pc = pc] EXCEPT !.todo = todo] = [pc |-> pc, todo |-> todo]
      /\ todo = up[f].todo => [up[f] EXCEPT !.pc = pc] = [pc |-> pc, todo |-> todo]
  BY <1>3, <1>4, ZenonT(30)
<1>6. [pc |-> pc, todo |-> todo] \in Upload
  BY DEF Upload
<1>7. ASSUME up' = [up EXCEPT ![f] = [pc |-> pc, todo |-> todo]]
      PROVE  /\ up' \in [Uploaded -> Upload]
             /\ up'[f].pc = pc /\ up'[f].todo = todo
             /\ \A g \in Uploaded \ {f} : up'[g] = up[g]
  <2>1. up' \in [Uploaded -> Upload]
    BY <1>1, <1>6, <1>7
  <2>2. up'[f] = [pc |-> pc, todo |-> todo]
    BY <1>1, <1>7
  <2>3. up'[f].pc = pc /\ up'[f].todo = todo
    BY <2>2
  <2>4. \A g \in Uploaded \ {f} : up'[g] = up[g]
    BY <1>1, <1>7
  <2> QED BY <2>1, <2>3, <2>4
<1>8. CASE up' = [up EXCEPT ![f].pc = pc] /\ todo = up[f].todo
  <2>1. up' = [up EXCEPT ![f] = [up[f] EXCEPT !.pc = pc]]
    BY <1>1, <1>8
  <2> QED BY <1>5, <1>7, <1>8, <2>1
<1>9. CASE up' = [up EXCEPT ![f].pc = pc, ![f].todo = todo]
  <2>1. up' = [[up EXCEPT ![f] = [up[f] EXCEPT !.pc = pc]] EXCEPT ![f] = [@ EXCEPT !.todo = todo]]
    BY <1>1, <1>9
  <2>2. [up EXCEPT ![f] = [up[f] EXCEPT !.pc = pc]][f] = [up[f] EXCEPT !.pc = pc]
    BY <1>1
  <2>3. up' = [up EXCEPT ![f] = [[up[f] EXCEPT !.pc = pc] EXCEPT !.todo = todo]]
    BY <1>1, <2>1, <2>2
  <2> QED BY <1>5, <1>7, <2>3
<1> QED BY <1>8, <1>9

\* The request of one file goes on.
LEMMA OthersKeep ==
  ASSUME UploadOK, NEW f \in Uploaded, \A g \in Uploaded \ {f} : up'[g] = up[g], overlapped \subseteq overlapped',
         removing' = removing, editing' = editing, purges' = purges,
         \A g \in Uploaded \ {f} : row'[g] = row[g] /\ Keys(g) \cap objects \subseteq objects',
         Private(f)' => row'[f] = "none" /\ purges[f] = 0 /\ f \notin editing /\ f \notin removing,
         up'[f].pc = "undo" <=> up'[f].todo # << >>,
         up'[f].pc = "thumb" => f \in Photos /\ <<f, "file">> \in objects',
         up'[f].pc = "save" => Keys(f) \subseteq objects'
  PROVE  UploadOK'
<1>1. ASSUME NEW g \in Uploaded
      PROVE  /\ Private(g)' => row'[g] = "none" /\ purges'[g] = 0 /\ g \notin editing' /\ g \notin removing'
             /\ up'[g].pc = "undo" <=> up'[g].todo # << >>
             /\ up'[g].pc = "thumb" => g \in Photos /\ <<g, "file">> \in objects'
             /\ up'[g].pc = "save" => Keys(g) \subseteq objects'
  <2>1. CASE g = f
    BY <2>1
  <2>2. CASE g # f
    <3>1. /\ Private(g) => row[g] = "none" /\ purges[g] = 0 /\ g \notin editing /\ g \notin removing
          /\ up[g].pc = "undo" <=> up[g].todo # << >>
          /\ up[g].pc = "thumb" => g \in Photos /\ <<g, "file">> \in objects
          /\ up[g].pc = "save" => Keys(g) \subseteq objects
      BY DEF UploadOK
    <3>2. g \in Photos => <<g, "file">> \in Keys(g)
      BY Apart
    <3>3. Private(g)' => Private(g)
      BY <2>2 DEF Private
    <3> QED BY <2>2, <3>1, <3>2, <3>3
  <2> QED BY <2>1, <2>2
<1> QED BY <1>1 DEF UploadOK

LEMMA ReserveKeeps ==
  ASSUME IInv, NEW f \in Uploaded, Reserve(f)
  PROVE  IInv'
<1>0. TypeOK /\ UploadOK /\ CountOK /\ OutboxOK /\ IngestOK /\ PurgedOK /\ StoredOK
  BY DEF IInv
<1>1. /\ up[f].pc = "new" /\ up[f].todo = << >>
      /\ UNCHANGED <<unit, removing, editing, row, job, ingest, revoked, connected, objects, outbox, queue, purges, overlapped>>
  BY <1>0 DEF Reserve, download, bucket, UploadOK
<1>2. PICK q \in Quotas : \/ Fits(f, q) /\ used' = used + Bytes({f}) /\ (GotoUp(f, "put") \/ GotoUp(f, "done"))
                          \/ UNCHANGED used /\ GotoUp(f, "done")
  BY DEF Reserve
<1>3. f \notin Stored /\ Stored \subseteq Files /\ Holding \subseteq Files /\ InFlight \subseteq Holding /\ f \in Files
      /\ Bytes({f}) \in Nat /\ used \in Nat
  <2>1. f \notin Stored /\ Stored \subseteq Files /\ Holding \subseteq Files /\ InFlight \subseteq Holding /\ f \in Files
    BY <1>1, StoredIs
  <2>2. Bytes({f}) \in Nat
    BY <2>1, KeysFinite
  <2> QED BY <1>0, <2>1, <2>2 DEF TypeOK
<1>4. Stored' = Stored
  BY <1>1 DEF Stored
<1>5. PICK pc \in {"put", "done"} : up' = [up EXCEPT ![f].pc = pc]
  BY <1>2 DEF GotoUp
<1>6. /\ up' \in [Uploaded -> Upload]
      /\ up'[f].pc = pc /\ up'[f].todo = << >>
      /\ \A g \in Uploaded \ {f} : up'[g] = up[g]
  <2>1. pc \in UploadPcs /\ << >> \in Todos
    BY TodoOnce DEF UploadPcs
  <2> QED BY <1>0, <1>1, <1>5, <2>1, UpdateUp
<1>7. used' \in Nat
  BY <1>2, <1>3
<1>8. TypeOK'
  BY <1>0, <1>1, <1>6, <1>7 DEF TypeOK, Upload, UploadPcs
<1>9. UploadOK'
  <2>1. \A g \in Uploaded \ {f} : up'[g] = up[g]
    BY <1>6
  <2>2. up'[f].pc \notin {"undo", "thumb", "save"} /\ up'[f].todo = << >>
    BY <1>6
  <2>3. row[f] = "none" /\ purges[f] = 0 /\ f \notin editing /\ f \notin removing
    BY <1>1, StoredIs
  <2> QED BY <1>0, <1>1, <2>1, <2>2, <2>3, OthersKeep
<1>10. CountOK'
  <2>1. f \notin Holding /\ f \notin InFlight
    BY <1>1, TodoOnce DEF Holding, InFlight, Reserved
  <2>2. CASE Fits(f, q) /\ used' = used + Bytes({f}) /\ GotoUp(f, "put")
    <3>1. up'[f].pc = "put"
      <4>1. up' = [up EXCEPT ![f].pc = "put"]
        BY <2>2 DEF GotoUp
      <4> QED BY <1>0, <1>1, <4>1, TodoOnce, UpdateUp DEF UploadPcs
    <3>2. Holding' = Holding \cup {f} /\ InFlight' = InFlight \cup {f}
      BY <1>6, <3>1 DEF Holding, InFlight, Reserved
    <3>3. Bytes(Holding') = Bytes(Holding) + Bytes({f}) /\ Bytes(InFlight') = Bytes(InFlight) + Bytes({f})
      BY <1>3, <2>1, <3>2, BytesUnion
    <3>4. /\ Bytes(InFlight) <= Bytes(Holding) /\ Bytes(Stored \cap Uploaded) <= Bytes(Stored)
          /\ Bytes(InFlight) \in Nat /\ Bytes(Holding) \in Nat /\ Bytes(Stored \cap Uploaded) \in Nat /\ Bytes(Stored) \in Nat
      BY <1>3, BytesMore
    <3>5. q \in Nat /\ used + Bytes({f}) <= q
      BY <2>2 DEF Fits
    <3>6. ASSUME Bytes(Stored) + Bytes(Holding) <= used
          PROVE  /\ Bytes(Stored) + Bytes(Holding') <= used'
                 /\ Bytes(Stored \cap Uploaded) + Bytes(InFlight') <= q
      BY <1>3, <2>2, <3>3, <3>4, <3>5, <3>6
    <3> QED BY <1>0, <1>1, <1>4, <3>6 DEF CountOK, InFlight
  <2>3. CASE GotoUp(f, "done") /\ used' \in {used, used + Bytes({f})}
    <3>1. up'[f].pc = "done"
      <4>1. up' = [up EXCEPT ![f].pc = "done"]
        BY <2>3 DEF GotoUp
      <4> QED BY <1>0, <1>1, <4>1, TodoOnce, UpdateUp DEF UploadPcs
    <3>2. Holding' = Holding /\ InFlight' = InFlight
      BY <1>1, <1>6, <3>1, <2>1 DEF Holding, InFlight, Reserved
    <3>3. Bytes(Stored) \in Nat /\ Bytes(Holding) \in Nat
      BY <1>3, KeysFinite
    <3>4. Bytes(Stored) + Bytes(Holding) <= used => Bytes(Stored) + Bytes(Holding) <= used'
      BY <1>3, <2>3, <3>3
    <3> QED BY <1>0, <1>1, <1>4, <3>2, <3>4 DEF CountOK, InFlight
  <2> QED BY <1>2, <2>2, <2>3
<1>11. OutboxOK' /\ IngestOK' /\ PurgedOK' /\ StoredOK'
  BY <1>0, <1>1, <1>4, KeepOutbox, KeepIngest, KeepPurged, KeepStored DEF IngestOK
<1> QED BY <1>8, <1>9, <1>10, <1>11 DEF IInv

\* Less is reserved, and nothing else is counted differently.
LEMMA CountGoesOn ==
  ASSUME CountOK, Stored' = Stored, used' = used, overlapped' = overlapped, used \in Nat,
         Holding' \subseteq Holding, InFlight' \subseteq InFlight
  PROVE  CountOK'
<1>1. Holding \subseteq Files /\ Stored \subseteq Files /\ InFlight \subseteq Files /\ Stored \cap Uploaded \subseteq Files
  BY Apart DEF Holding, Stored, InFlight
<1>2. /\ Bytes(Holding') <= Bytes(Holding) /\ Bytes(InFlight') <= Bytes(InFlight)
      /\ Bytes(Holding') \in Nat /\ Bytes(Holding) \in Nat /\ Bytes(InFlight') \in Nat /\ Bytes(InFlight) \in Nat
      /\ Bytes(Stored) \in Nat /\ Bytes(Stored \cap Uploaded) \in Nat
  BY <1>1, BytesMore
<1>3. SUFFICES ASSUME overlapped = {}
               PROVE  /\ Bytes(Stored) + Bytes(Holding') <= used
                      /\ \E q \in Quotas : Bytes(Stored \cap Uploaded) + Bytes(InFlight') <= q
  BY DEF CountOK, InFlight
<1>4. /\ Bytes(Stored) + Bytes(Holding) <= used
      /\ \E q \in Quotas : Bytes(Stored \cap Uploaded) + Bytes(InFlight) <= q
  BY <1>3 DEF CountOK, InFlight
<1>5. \A q \in Quotas : q \in Nat
  OBVIOUS
<1> QED BY <1>2, <1>4, <1>5

\* What undoes the objects put so far.
PutTodos == {<<"release">>, <<"delete file", "release">>}

LEMMA Releases ==
  /\ PutTodos \subseteq Todos /\ <<"release">> \in PutTodos /\ <<"delete file", "release">> \in PutTodos
  /\ \A todo \in PutTodos : todo # << >> /\ Contains(todo, "release")
<1>1. \A x, y : <<x>> # << >> /\ <<x, y>> # << >> /\ Head(<<x>>) = x /\ Head(<<x, y>>) = x /\ Tail(<<x, y>>) = <<y>>
  OBVIOUS
<1>2. <<"release">> \in Todos /\ <<"delete file", "release">> \in Todos
  BY DEF Todos
<1>3. Contains(<<"release">>, "release")
  BY <1>1, <1>2, TodoOnce
<1>4. Head(<<"delete file", "release">>) # "release" /\ Tail(<<"delete file", "release">>) = <<"release">>
  BY <1>1
<1>5. Contains(<<"delete file", "release">>, "release")
  BY <1>1, <1>2, <1>3, <1>4, TodoOnce
<1> QED BY <1>1, <1>2, <1>3, <1>5 DEF PutTodos

LEMMA PutKeeps ==
  ASSUME IInv, NEW f \in Uploaded, up[f].pc \in {"put", "thumb"}, NEW part \in Parts(f),
         NEW next \in {"thumb", "save"}, NEW todo \in PutTodos,
         Put(f, part, next, todo),
         next = "thumb" => f \in Photos /\ part = "file",
         next = "save" => Keys(f) \subseteq objects \cup {<<f, part>>},
         UNCHANGED <<used, unit, removing, editing, row, job, ingest, revoked, connected, outbox, queue, purges, overlapped>>
  PROVE  IInv'
<1>0. TypeOK /\ UploadOK /\ CountOK /\ OutboxOK /\ IngestOK /\ PurgedOK /\ StoredOK
  BY DEF IInv
<1>1. /\ row[f] = "none" /\ purges[f] = 0 /\ f \notin Stored /\ f \in Files /\ f \notin editing /\ f \notin removing
      /\ up[f].todo = << >>
  BY <1>0, StoredIs DEF UploadOK
<1>2. Stored' = Stored
  BY DEF Stored
<1>3. \/ objects' = objects \cup {<<f, part>>} /\ up' = [up EXCEPT ![f].pc = next]
      \/ objects' \in {objects, objects \cup {<<f, part>>}} /\ up' = [up EXCEPT ![f].pc = "undo", ![f].todo = todo]
  <2>1. todo # << >>
    BY Releases
  <2> QED BY <2>1 DEF Put, UndoFrom, GotoUp
<1>4. todo \in Todos /\ todo # << >> /\ << >> \in Todos /\ Contains(todo, "release")
  BY Releases, TodoOnce
<1>5. /\ up' \in [Uploaded -> Upload] /\ \A g \in Uploaded \ {f} : up'[g] = up[g]
      /\ \/ up'[f].pc = next /\ up'[f].todo = << >> /\ objects' = objects \cup {<<f, part>>}
         \/ up'[f].pc = "undo" /\ up'[f].todo = todo
  <2>1. CASE objects' = objects \cup {<<f, part>>} /\ up' = [up EXCEPT ![f].pc = next]
    BY <1>0, <1>1, <1>4, <2>1, UpdateUp DEF UploadPcs
  <2>2. CASE up' = [up EXCEPT ![f].pc = "undo", ![f].todo = todo]
    BY <1>0, <1>4, <2>2, UpdateUp DEF UploadPcs
  <2> QED BY <1>3, <2>1, <2>2
<1>6. objects \subseteq objects' /\ objects' \subseteq objects \cup {<<f, part>>} /\ <<f, part>> \in Keys(f)
  BY <1>3 DEF Keys
<1>7. TypeOK'
  <2>1. objects' \subseteq UNION {Keys(g) : g \in Files}
    <3>1. objects \subseteq KeysOf(Files)
      BY <1>0 DEF TypeOK, KeysOf
    <3>2. <<f, part>> \in KeysOf(Files)
      BY <1>1, <1>6, KeysHas
    <3> QED BY <1>6, <3>1, <3>2 DEF KeysOf
  <2> QED BY <1>0, <1>5, <2>1 DEF TypeOK, Upload, UploadPcs
<1>8. UploadOK'
  <2>1. up'[f].pc = "undo" <=> up'[f].todo # << >>
    BY <1>4, <1>5
  <2>2. up'[f].pc = "thumb" => f \in Photos /\ <<f, "file">> \in objects'
    BY <1>5
  <2>3. up'[f].pc = "save" => Keys(f) \subseteq objects'
    BY <1>5
  <2> QED BY <1>0, <1>1, <1>5, <1>6, <2>1, <2>2, <2>3, OthersKeep
<1>9. CountOK'
  <2>1. Reserved(f) /\ f \in Holding
    <3>1. CASE up[f].pc = "put"
      BY <3>1 DEF Reserved, Holding
    <3>2. CASE up[f].pc = "thumb"
      BY <3>2 DEF Reserved, Holding
    <3> QED BY <3>1, <3>2
  <2>2. f \in InFlight
    BY DEF InFlight
  <2>3. Holding' \subseteq Holding
    BY <1>5, <2>1 DEF Holding, Reserved
  <2>4. InFlight' \subseteq InFlight
    BY <1>5, <2>2 DEF InFlight
  <2> QED BY <1>0, <1>2, <2>3, <2>4, CountGoesOn DEF TypeOK
<1>10. \A g \in Files : g # f => Keys(g) \cap objects' \subseteq objects
  <2>1. ASSUME NEW g \in Files, g # f, NEW k \in Keys(g), k = <<f, part>> PROVE FALSE
    <3>1. k[1] = g
      BY KeyIs
    <3>2. k[1] = f
      BY <2>1
    <3> QED BY <2>1, <3>1, <3>2
  <2> QED BY <1>6, <2>1
<1>11. OutboxOK'
  <2>1. ASSUME NEW id \in DOMAIN queue, KeyOf(id) \in objects' PROVE KeyOf(id) \in objects
    <3>1. id[1] \in Files /\ KeyOf(id) \in Keys(id[1]) /\ purges[id[1]] > 0
      BY <1>0, HadPurge
    <3>2. purges[f] = 0
      BY <1>1
    <3>3. id[1] # f
      BY <3>1, <3>2
    <3> QED BY <1>10, <2>1, <3>1, <3>3
  <2> QED BY <1>0, <2>1, KeepOutbox
<1>12. IngestOK'
  <2>1. \A g \in Inbound \ overlapped : \A w \in Workers : ingest[g][w] \in {"upload", "finalise"} => row[g] # "stored"
    BY <1>0 DEF IngestOK
  <2> QED BY <1>0, <1>6, <2>1, KeepIngest
<1>13. PurgedOK'
  <2>1. \A g \in Files : purges[g] > 0 => g # f
    BY <1>1
  <2> QED BY <1>0, <1>10, <2>1, KeepPurged
<1>14. StoredOK'
  BY <1>0, <1>2, <1>6, KeepStored
<1> QED BY <1>7, <1>8, <1>9, <1>11, <1>12, <1>13, <1>14 DEF IInv

LEMMA PutsKeep ==
  ASSUME IInv, NEW f \in Uploaded, PutFile(f) \/ PutThumb(f)
  PROVE  IInv'
<1>1. ASSUME PutFile(f) PROVE IInv'
  <2>1. CASE f \in Photos
    <3>1. /\ up[f].pc = "put" /\ Put(f, "file", "thumb", <<"release">>) /\ "file" \in Parts(f)
          /\ UNCHANGED <<used, unit, removing, editing, row, job, ingest, revoked, connected, outbox, queue, purges, overlapped>>
      BY <1>1, <2>1 DEF PutFile, download, Parts
    <3> QED BY <2>1, <3>1, PutKeeps, Releases
  <2>2. CASE f \notin Photos
    <3>1. /\ up[f].pc = "put" /\ Put(f, "file", "save", <<"release">>) /\ "file" \in Parts(f)
          /\ UNCHANGED <<used, unit, removing, editing, row, job, ingest, revoked, connected, outbox, queue, purges, overlapped>>
      BY <1>1, <2>2 DEF PutFile, download, Parts
    <3>2. Keys(f) \subseteq objects \cup {<<f, "file">>}
      BY <2>2, Apart
    <3> QED BY <3>1, <3>2, PutKeeps, Releases
  <2> QED BY <2>1, <2>2
<1>2. ASSUME PutThumb(f) PROVE IInv'
  <2>1. /\ up[f].pc = "thumb" /\ Put(f, "thumb", "save", <<"delete file", "release">>)
        /\ UNCHANGED <<used, unit, removing, editing, row, job, ingest, revoked, connected, outbox, queue, purges, overlapped>>
    BY <1>2 DEF PutThumb, download
  <2>2. f \in Photos /\ <<f, "file">> \in objects
    BY <2>1 DEF IInv, UploadOK
  <2>3. "thumb" \in Parts(f) /\ Keys(f) \subseteq objects \cup {<<f, "thumb">>}
    BY <2>2, Apart DEF Parts
  <2> QED BY <2>1, <2>3, PutKeeps, Releases
<1> QED BY <1>1, <1>2

LEMMA Released ==
  ASSUME NEW n \in Nat, used \in Nat, Release(n)
  PROVE  used' \in Nat /\ \A m \in Nat : m + n <= used => m <= used'
BY DEF Release

LEMMA UndoFromHas ==
  ASSUME TypeOK, NEW f \in Uploaded, NEW todo \in Todos, UndoFrom(f, todo)
  PROVE  /\ up' \in [Uploaded -> Upload]
         /\ up'[f].todo = todo /\ up'[f].pc \in {"undo", "done"} /\ (up'[f].pc = "undo" <=> todo # << >>)
         /\ \A g \in Uploaded \ {f} : up'[g] = up[g]
<1>1. PICK pc \in {"undo", "done"} : up' = [up EXCEPT ![f].pc = pc, ![f].todo = todo] /\ (pc = "undo" <=> todo # << >>)
  BY DEF UndoFrom
<1>2. pc \in UploadPcs
  BY DEF UploadPcs
<1>3. /\ up' \in [Uploaded -> Upload] /\ up'[f].pc = pc /\ up'[f].todo = todo
      /\ \A g \in Uploaded \ {f} : up'[g] = up[g]
  BY <1>1, <1>2, UpdateUp
<1> QED BY <1>1, <1>3

LEMMA UndoKeeps ==
  ASSUME IInv, NEW f \in Uploaded, up[f].pc \in {"save", "undo"}, NEW todo \in Todos, UndoFrom(f, todo),
         objects' \subseteq objects, \A g \in Files \ {f} : Keys(g) \cap objects \subseteq objects',
         \/ used' = used /\ (Contains(todo, "release") => Reserved(f))
         \/ Release(Bytes({f})) /\ Reserved(f) /\ ~Contains(todo, "release") /\ up[f].pc = "undo",
         UNCHANGED <<unit, removing, editing, row, job, ingest, revoked, connected, outbox, queue, purges, overlapped>>
  PROVE  IInv'
<1>0. TypeOK /\ UploadOK /\ CountOK /\ OutboxOK /\ IngestOK /\ PurgedOK /\ StoredOK
  BY DEF IInv
<1>1. /\ f \in Files /\ Stored \subseteq Files /\ Holding \subseteq Files
      /\ f \notin overlapped => row[f] = "none" /\ purges[f] = 0 /\ f \notin Stored /\ f \notin editing /\ f \notin removing
  <2>1. f \notin overlapped => Private(f)
    BY DEF Private
  <2> QED BY <2>1, StoredIs
<1>2. Stored' = Stored
  BY DEF Stored
<1>3. /\ up' \in [Uploaded -> Upload] /\ \A g \in Uploaded \ {f} : up'[g] = up[g]
      /\ up'[f].todo = todo /\ up'[f].pc \in {"undo", "done"} /\ (up'[f].pc = "undo" <=> todo # << >>)
  BY <1>0, UndoFromHas
<1>4. Bytes({f}) \in Nat /\ used \in Nat
  <2>1. Bytes({f}) \in Nat
    BY <1>1, KeysFinite
  <2> QED BY <1>0, <2>1 DEF TypeOK
<1>5. used' \in Nat
  BY <1>4, Released
<1>6. TypeOK'
  BY <1>0, <1>3, <1>5 DEF TypeOK, Upload, UploadPcs
<1>7. UploadOK'
  <2>1. \A g \in Uploaded \ {f} : row'[g] = row[g] /\ Keys(g) \cap objects \subseteq objects'
    BY Apart
  <2>2. up'[f].pc # "thumb" /\ up'[f].pc # "save" /\ (up'[f].pc = "undo" <=> up'[f].todo # << >>)
    BY <1>3
  <2>3. Private(f)' => row'[f] = "none" /\ purges[f] = 0 /\ f \notin editing /\ f \notin removing
    BY <1>1, <1>3 DEF Private
  <2> QED BY <1>0, <1>1, <1>3, <2>1, <2>2, <2>3, OthersKeep
<1>8. InFlight' \subseteq InFlight
  BY <1>3 DEF InFlight
<1>9. CountOK'
  <2>1. CASE used' = used /\ (Contains(todo, "release") => Reserved(f))
    <3>1. Holding' \subseteq Holding
      BY <1>3, <2>1 DEF Holding, Reserved
    <3> QED BY <1>0, <1>2, <1>4, <1>8, <2>1, <3>1, CountGoesOn
  <2>2. CASE Release(Bytes({f})) /\ Reserved(f) /\ ~Contains(todo, "release") /\ up[f].pc = "undo"
    <3>1. Holding' = Holding \ {f} /\ f \in Holding
      BY <1>3, <2>2 DEF Holding, Reserved
    <3>2. InFlight' = InFlight
      BY <1>3, <2>2 DEF InFlight
    <3>3. Bytes(Holding) = Bytes(Holding') + Bytes({f}) /\ Bytes(Holding') \in Nat /\ Bytes(Holding) \in Nat
      <4>1. {f} \subseteq Holding
        BY <3>1
      <4> QED BY <1>1, <3>1, <4>1, BytesWithout
    <3>4. Bytes(Stored) \in Nat
      BY <1>1, KeysFinite
    <3>5. ASSUME Bytes(Stored) + Bytes(Holding) <= used PROVE Bytes(Stored) + Bytes(Holding') <= used'
      <4>1. (Bytes(Stored) + Bytes(Holding')) + Bytes({f}) <= used /\ Bytes(Stored) + Bytes(Holding') \in Nat
        BY <1>4, <3>3, <3>4, <3>5
      <4> QED BY <1>4, <2>2, <4>1, Released
    <3> QED BY <1>0, <1>2, <3>2, <3>5 DEF CountOK, InFlight
  <2> QED BY <2>1, <2>2
<1>10. OutboxOK'
  BY <1>0, KeepOutbox
<1>11. IngestOK'
  <2>1. \A g \in Inbound \ overlapped : \A w \in Workers : ingest[g][w] \in {"upload", "finalise"} => row[g] # "stored"
    BY <1>0 DEF IngestOK
  <2>2. \A g \in Inbound : <<g, "file">> \in objects => <<g, "file">> \in objects'
    BY Apart
  <2> QED BY <1>0, <2>1, <2>2, KeepIngest
<1>12. PurgedOK'
  BY <1>0, KeepPurged
<1>13. StoredOK'
  BY <1>0, <1>1, <1>2, KeepStored
<1> QED BY <1>6, <1>7, <1>9, <1>10, <1>11, <1>12, <1>13 DEF IInv

LEMMA UndoStepKeeps ==
  ASSUME IInv, NEW f \in Uploaded, Undo(f)
  PROVE  IInv'
<1>1. /\ up[f].pc = "undo" /\ UndoFrom(f, Tail(up[f].todo))
      /\ UNCHANGED <<unit, removing, editing, row, job, ingest, revoked, connected, outbox, queue, purges, overlapped>>
  BY DEF Undo, download
<1>2. \/ Head(up[f].todo) = "release" /\ Release(Bytes({f})) /\ objects' = objects
      \/ Head(up[f].todo) # "release" /\ objects' \in {objects \ {<<f, "file">>}, objects \ {<<f, "thumb">>}} /\ used' = used
      \/ used' = used /\ objects' = objects
  BY DEF Undo
<1>3. up[f].todo \in Todos /\ up[f].todo # << >>
  <2>1. up[f] \in Upload
    BY DEF IInv, TypeOK, Upload, UploadPcs
  <2> QED BY <1>1, <2>1 DEF IInv, UploadOK, Upload
<1>4. PICK todo \in Todos : todo = Tail(up[f].todo)
  BY <1>3, TodoOnce
<1>5. /\ Head(up[f].todo) = "release" => ~Contains(todo, "release") /\ Contains(up[f].todo, "release")
      /\ Head(up[f].todo) # "release" => (Contains(todo, "release") <=> Contains(up[f].todo, "release"))
  BY <1>3, <1>4, TodoOnce
<1>6. objects' \subseteq objects /\ \A g \in Files \ {f} : Keys(g) \cap objects \subseteq objects'
  <2>1. \A g \in Files \ {f} : <<f, "file">> \notin Keys(g) /\ <<f, "thumb">> \notin Keys(g)
    <3>1. ASSUME NEW g \in Files \ {f}, NEW k \in Keys(g) PROVE k[1] # f
      BY KeyIs
    <3> QED BY <3>1
  <2> QED BY <1>2, <2>1
<1>7. \/ used' = used /\ (Contains(todo, "release") => Reserved(f))
      \/ Release(Bytes({f})) /\ Reserved(f) /\ ~Contains(todo, "release") /\ up[f].pc = "undo"
  BY <1>1, <1>2, <1>5 DEF Reserved
<1> QED BY <1>1, <1>4, <1>6, <1>7, UndoKeeps

LEMMA SaveRowKeeps ==
  ASSUME IInv, NEW f \in Uploaded, SaveRow(f)
  PROVE  IInv'
<1>0. TypeOK /\ UploadOK /\ CountOK /\ OutboxOK /\ IngestOK /\ PurgedOK /\ StoredOK
  BY DEF IInv
<1>1. /\ up[f].pc = "save"
      /\ UNCHANGED <<used, unit, removing, editing, job, ingest, revoked, connected, objects, outbox, queue, purges>>
  BY DEF SaveRow, download, bucket
<1>2. /\ row[f] = "none" /\ purges[f] = 0 /\ f \notin Stored /\ f \in Files /\ f \notin editing /\ f \notin removing
      /\ Stored \subseteq Files /\ Holding \subseteq Files /\ InFlight \subseteq Holding
      /\ up[f].todo = << >> /\ Keys(f) \subseteq objects
  BY <1>0, <1>1, StoredIs DEF UploadOK
<1>3. CASE /\ row' = [row EXCEPT ![f] = "stored"]
           /\ \/ GotoUp(f, "done") /\ overlapped' = overlapped
              \/ \E todo \in UndoSave(f) :
                   UndoFrom(f, todo) /\ overlapped' = IF todo = << >> THEN overlapped ELSE overlapped \cup {f}
  <2>1. /\ up' \in [Uploaded -> Upload] /\ \A g \in Uploaded \ {f} : up'[g] = up[g]
        /\ up'[f].pc \in {"done", "undo"} /\ (up'[f].pc = "undo" <=> up'[f].todo # << >>)
        /\ \/ up'[f].pc = "done" /\ up'[f].todo = << >> /\ overlapped' = overlapped
           \/ overlapped' = overlapped \cup {f}
    <3>1. CASE GotoUp(f, "done") /\ overlapped' = overlapped
      <4>1. up' = [up EXCEPT ![f].pc = "done"]
        BY <3>1 DEF GotoUp
      <4> QED BY <1>0, <1>2, <3>1, <4>1, TodoOnce, UpdateUp DEF UploadPcs
    <3>2. ASSUME NEW todo \in UndoSave(f), UndoFrom(f, todo),
                 overlapped' = IF todo = << >> THEN overlapped ELSE overlapped \cup {f}
          PROVE  /\ up' \in [Uploaded -> Upload] /\ \A g \in Uploaded \ {f} : up'[g] = up[g]
                 /\ up'[f].pc \in {"done", "undo"} /\ (up'[f].pc = "undo" <=> up'[f].todo # << >>)
                 /\ \/ up'[f].pc = "done" /\ up'[f].todo = << >> /\ overlapped' = overlapped
                    \/ overlapped' = overlapped \cup {f}
      <4>1. todo \in Todos
        BY DEF UndoSave, Todos
      <4>2. /\ up' \in [Uploaded -> Upload] /\ \A g \in Uploaded \ {f} : up'[g] = up[g]
            /\ up'[f].todo = todo /\ up'[f].pc \in {"undo", "done"} /\ (up'[f].pc = "undo" <=> todo # << >>)
        BY <1>0, <3>2, <4>1, UndoFromHas
      <4> QED BY <3>2, <4>2
    <3> QED BY <1>3, <3>1, <3>2
  <2>2. row' \in [Files -> RowStates] /\ row'[f] = "stored" /\ \A g \in Files \ {f} : row'[g] = row[g]
    <3>1. row \in [Files -> RowStates] /\ "stored" \in RowStates
      BY <1>0 DEF TypeOK, RowStates
    <3> QED BY <1>2, <1>3, <3>1
  <2>a. overlapped \subseteq overlapped' /\ overlapped' \subseteq Files
    BY <1>0, <1>2, <2>1 DEF TypeOK
  <2>3. TypeOK'
    BY <1>0, <1>1, <2>1, <2>2, <2>a DEF TypeOK, Upload, UploadPcs, RowStates
  <2>4. Stored' = Stored \cup {f}
    BY <1>2, <2>2 DEF Stored
  <2>5. UploadOK'
    <3>1. \A g \in Uploaded \ {f} : row'[g] = row[g] /\ Keys(g) \cap objects \subseteq objects'
      BY <1>1, <2>2, Apart
    <3>2. ~Private(f)'
      BY <2>1 DEF Private
    <3> QED BY <1>0, <1>1, <2>1, <2>a, <3>1, <3>2, OthersKeep
  <2>b. f \in overlapped' => CountOK'
    BY DEF CountOK
  <2>6. ASSUME up'[f].pc = "done" /\ up'[f].todo = << >> /\ overlapped' = overlapped PROVE CountOK'
    <3>1. Holding' = Holding \ {f} /\ f \in Holding
      BY <1>1, <2>1, <2>6, TodoOnce DEF Holding, Reserved
    <3>2. InFlight' = InFlight \ {f} /\ f \in InFlight
      BY <1>1, <2>1, <2>6 DEF InFlight
    <3>3. /\ Bytes(Holding) = Bytes(Holding') + Bytes({f}) /\ Bytes(Holding') \in Nat /\ Bytes({f}) \in Nat
          /\ Bytes(InFlight) = Bytes(InFlight') + Bytes({f}) /\ Bytes(InFlight') \in Nat
      <4>1. {f} \subseteq Holding /\ {f} \subseteq InFlight /\ InFlight \subseteq Files
        BY <1>2, <3>1, <3>2
      <4>2. Bytes(Holding) = Bytes(Holding') + Bytes({f}) /\ Bytes(Holding') \in Nat /\ Bytes({f}) \in Nat
        BY <1>2, <3>1, <4>1, BytesWithout
      <4>3. Bytes(InFlight) = Bytes(InFlight') + Bytes({f}) /\ Bytes(InFlight') \in Nat
        BY <3>2, <4>1, BytesWithout
      <4> QED BY <4>2, <4>3
    <3>4. /\ Bytes(Stored') = Bytes(Stored) + Bytes({f}) /\ Bytes(Stored) \in Nat
          /\ Bytes(Stored' \cap Uploaded) = Bytes(Stored \cap Uploaded) + Bytes({f}) /\ Bytes(Stored \cap Uploaded) \in Nat
      <4>1. Stored' \cap Uploaded = (Stored \cap Uploaded) \cup {f} /\ (Stored \cap Uploaded) \cap {f} = {} /\ Stored \cap {f} = {}
        BY <1>2, <2>4
      <4>2. {f} \subseteq Files /\ Stored \cap Uploaded \subseteq Files
        BY <1>2
      <4>3. Bytes(Stored') = Bytes(Stored) + Bytes({f})
        BY <1>2, <2>4, <4>1, <4>2, BytesUnion
      <4>4. Bytes(Stored' \cap Uploaded) = Bytes(Stored \cap Uploaded) + Bytes({f})
        BY <4>1, <4>2, BytesUnion
      <4>5. Bytes(Stored) \in Nat /\ Bytes(Stored \cap Uploaded) \in Nat
        BY <1>2, <4>2, KeysFinite
      <4> QED BY <4>3, <4>4, <4>5
    <3>5. used \in Nat
      BY <1>0 DEF TypeOK
    <3>6. \A q \in Quotas : q \in Nat
      OBVIOUS
    <3>7. Bytes(Stored) + Bytes(Holding) <= used => Bytes(Stored') + Bytes(Holding') <= used
      BY <3>3, <3>4, <3>5
    <3>8. ASSUME NEW q \in Quotas, Bytes(Stored \cap Uploaded) + Bytes(InFlight) <= q
          PROVE  Bytes(Stored' \cap Uploaded) + Bytes(InFlight') <= q
      BY <3>3, <3>4, <3>6, <3>8
    <3> QED BY <1>0, <1>1, <2>6, <3>7, <3>8 DEF CountOK, InFlight
  <2>c. CountOK'
    BY <2>1, <2>6, <2>b
  <2>7. OutboxOK'
    BY <1>0, <1>1, <2>a, KeepOutbox
  <2>8. IngestOK'
    <3>1. \A g \in Inbound : row'[g] = row[g]
      BY <2>2, Apart
    <3> QED BY <1>0, <1>1, <2>a, <3>1 DEF IngestOK
  <2>9. PurgedOK'
    <3>1. \A g \in Files : purges[g] > 0 => g # f
      BY <1>2
    <3> QED BY <1>0, <1>1, <2>2, <2>a, <3>1, KeepPurged
  <2>10. StoredOK'
    BY <1>0, <1>1, <1>2, <2>4, <2>a DEF StoredOK
  <2> QED BY <2>3, <2>5, <2>7, <2>8, <2>9, <2>10, <2>c DEF IInv
<1>4. CASE row' = row /\ overlapped' = overlapped /\ \E todo \in UndoSave(f) : UndoFrom(f, todo)
  <2>1. PICK todo \in UndoSave(f) : UndoFrom(f, todo)
    BY <1>4
  <2>2. todo \in Todos
    BY DEF UndoSave, Todos
  <2>3. Reserved(f)
    BY <1>1 DEF Reserved
  <2>4. used' = used /\ objects' = objects
    BY <1>1
  <2> QED BY <1>1, <1>4, <2>1, <2>2, <2>3, <2>4, UndoKeeps
<1> QED BY <1>3, <1>4 DEF SaveRow

-----------------------------------------------------------------------------
(* Deletion.                                                               *)

LEMMA PurgeKeeps ==
  ASSUME IInv, NEW S, S \subseteq Files, Purge(S), objects' = objects, overlapped \subseteq overlapped',
         \A f \in Files \ overlapped' : row'[f] \in {"stored", "pending"} => row'[f] = row[f] /\ f \notin S
  PROVE  /\ OutboxOK' /\ PurgedOK'
         /\ purges' \in [Files -> 0 .. MaxPurges]
         /\ outbox' \in [DOMAIN outbox' -> OutboxRow] /\ queue' \in [DOMAIN queue' -> Job]
         /\ DOMAIN outbox' \cup DOMAIN queue' \subseteq PurgeIds
         /\ \A f \in Files \ S : purges'[f] = purges[f]
<1>0. TypeOK /\ OutboxOK /\ PurgedOK
  BY DEF IInv
<1>1. /\ \A f \in S : purges[f] < MaxPurges
      /\ \A f \in Files : purges'[f] = IF f \in S THEN purges[f] + 1 ELSE purges[f]
      /\ \A f \in Files : purges[f] \in Nat
      /\ DOMAIN outbox' = NewIds(S) \cup DOMAIN outbox
      /\ \A id \in NewIds(S) : outbox'[id] = NewRow
      /\ \A id \in DOMAIN outbox \ NewIds(S) : outbox'[id] = outbox[id]
  BY <1>0, PurgeHas
<1>2. \/ queue' = queue
      \/ /\ DOMAIN queue' = NewIds(S) \cup DOMAIN queue
         /\ \A id \in NewIds(S) : queue'[id] = NewJob
         /\ \A id \in DOMAIN queue \ NewIds(S) : queue'[id] = queue[id]
  BY <1>0, PurgeHas
<1>3. /\ purges' \in [Files -> 0 .. MaxPurges]
      /\ outbox' \in [DOMAIN outbox' -> OutboxRow] /\ queue' \in [DOMAIN queue' -> Job]
      /\ DOMAIN outbox' \cup DOMAIN queue' \subseteq PurgeIds
  BY <1>0, PurgeHas
<1>4. /\ NewIds(S) \subseteq PurgeIds
      /\ \A id \in NewIds(S) : id[1] \in S /\ id[3] = purges[id[1]] + 1
      /\ \A f \in S : \A k \in Keys(f) : \E id \in NewIds(S) : KeyOf(id) = k
  BY <1>0, <1>1, NewIdsHas
<1>5. NewRow.status = "pending" /\ NewRow.attempts = 0 /\ NewJob.pc = "wait" /\ 0 < MaxAttempts
  BY DEF NewRow, NewJob
<1>6. \A id : KeyOf(id)' = KeyOf(id)
  BY DEF KeyOf
<1>7. OutboxOK'
  <2>1. \A id \in DOMAIN outbox' : outbox'[id].status = "pending" => outbox'[id].attempts < MaxAttempts
    <3>1. \A id \in DOMAIN outbox : outbox[id].status = "pending" => outbox[id].attempts < MaxAttempts
      BY <1>0 DEF OutboxOK
    <3> QED BY <1>1, <1>5, <3>1
  <2>2. \A id \in DOMAIN outbox' \cap DOMAIN queue' : outbox'[id].status = "pending"
    <3>1. \A id \in DOMAIN outbox \cap DOMAIN queue : outbox[id].status = "pending"
      BY <1>0 DEF OutboxOK
    <3> QED BY <1>1, <1>2, <1>5, <3>1
  <2>3. \A id \in DOMAIN outbox' \cup DOMAIN queue' : id[3] <= purges'[id[1]]
    <3> TAKE id \in DOMAIN outbox' \cup DOMAIN queue'
    <3>1. id \in NewIds(S) \/ id \in DOMAIN outbox \cup DOMAIN queue
      BY <1>1, <1>2
    <3>2. CASE id \in NewIds(S)
      <4>1. id[1] \in S /\ id[3] = purges[id[1]] + 1 /\ id[1] \in Files
        BY <1>4, <3>2
      <4>2. purges'[id[1]] = purges[id[1]] + 1 /\ purges[id[1]] \in Nat
        BY <1>1, <4>1
      <4> QED BY <4>1, <4>2
    <3>3. CASE id \in DOMAIN outbox \cup DOMAIN queue
      <4>1. id[3] <= purges[id[1]] /\ id[1] \in Files /\ id[3] \in Nat
        BY <1>0, <3>3, HadPurge DEF OutboxOK
      <4>2. purges'[id[1]] \in {purges[id[1]] + 1, purges[id[1]]} /\ purges[id[1]] \in Nat
        BY <1>1, <4>1
      <4> QED BY <4>1, <4>2
    <3> QED BY <3>1, <3>2, <3>3
  <2>4. \A id \in DOMAIN queue' : queue'[id].pc = "delete row" => id[1] \in overlapped' \/ KeyOf(id) \notin objects'
    <3>1. \A id \in DOMAIN queue : queue[id].pc = "delete row" => id[1] \in overlapped \/ KeyOf(id) \notin objects
      BY <1>0 DEF OutboxOK
    <3>2. CASE queue' = queue
      BY <3>1, <3>2
    <3>3. CASE /\ DOMAIN queue' = NewIds(S) \cup DOMAIN queue
               /\ \A id \in NewIds(S) : queue'[id] = NewJob
               /\ \A id \in DOMAIN queue \ NewIds(S) : queue'[id] = queue[id]
      BY <1>5, <3>1, <3>3
    <3> QED BY <1>2, <3>2, <3>3
  <2> QED BY <1>6, <2>1, <2>2, <2>3, <2>4 DEF OutboxOK
<1>8. PurgedOK'
  <2>1. SUFFICES ASSUME NEW f \in Files \ overlapped', purges'[f] > 0
                 PROVE  /\ row'[f] \notin {"stored", "pending"}
                        /\ \A k \in Keys(f) \cap objects : \E id \in DOMAIN outbox' : KeyOf(id) = k
    BY <1>6 DEF PurgedOK
  <2>2. CASE f \in S
    BY <1>1, <1>4, <2>1, <2>2
  <2>3. CASE f \notin S
    <3>1. purges[f] > 0 /\ f \in Files \ overlapped
      BY <1>1, <2>1, <2>3
    <3>2. /\ row[f] \notin {"stored", "pending"}
          /\ \A k \in Keys(f) \cap objects : \E id \in DOMAIN outbox : KeyOf(id) = k
      BY <1>0, <3>1 DEF PurgedOK
    <3> QED BY <1>1, <2>1, <3>2
  <2> QED BY <2>2, <2>3
<1>9. \A f \in Files \ S : purges'[f] = purges[f]
  BY <1>1
<1> QED BY <1>3, <1>7, <1>8, <1>9

LEMMA DropKeeps ==
  ASSUME IInv, NEW S, S \subseteq Files, Purge(S), Release(Bytes(S)),
         row' \in [Files -> RowStates], \A f \in S : row'[f] \in {"none", "deleted"}, \A f \in Files \ S : row'[f] = row[f],
         overlapped \subseteq overlapped', overlapped' \subseteq Files, S \ Stored \subseteq overlapped',
         \A f \in S \cap Uploaded : ~Private(f),
         removing' \in {removing, Idle}, unit' \in {"live", "gone"}, revoked' \in [Inbound -> {"no", "marked", "done"}],
         UNCHANGED <<up, editing, job, ingest, connected, objects>>
  PROVE  IInv'
<1>0. TypeOK /\ UploadOK /\ CountOK /\ OutboxOK /\ IngestOK /\ PurgedOK /\ StoredOK
  BY DEF IInv
<1>1. \A f \in Files \ overlapped' : row'[f] \in {"stored", "pending"} => row'[f] = row[f] /\ f \notin S
  OBVIOUS
<1>2. /\ OutboxOK' /\ PurgedOK'
      /\ purges' \in [Files -> 0 .. MaxPurges]
      /\ outbox' \in [DOMAIN outbox' -> OutboxRow] /\ queue' \in [DOMAIN queue' -> Job]
      /\ DOMAIN outbox' \cup DOMAIN queue' \subseteq PurgeIds
      /\ \A f \in Files \ S : purges'[f] = purges[f]
  BY <1>1, PurgeKeeps
<1>3. used \in Nat /\ Bytes(S) \in Nat
  <2>1. Bytes(S) \in Nat
    BY KeysFinite
  <2> QED BY <1>0, <2>1 DEF TypeOK
<1>4. used' \in Nat /\ \A m \in Nat : m + Bytes(S) <= used => m <= used'
  BY <1>3, Released
<1>5. TypeOK'
  <2>1. removing' = Idle \/ removing' \subseteq OnUnit
    BY <1>0 DEF TypeOK
  <2> QED BY <1>0, <1>2, <1>4, <2>1 DEF TypeOK, RowStates, OutboxRow, Job
<1>6. Stored' = Stored \ S /\ Stored \subseteq Files /\ Holding' = Holding /\ InFlight' = InFlight /\ Holding \subseteq Files
      /\ InFlight \subseteq Files
  BY Apart DEF Stored, Holding, InFlight, Reserved
<1>7. UploadOK'
  <2>1. \A f \in Uploaded : Private(f) => row'[f] = row[f] /\ purges'[f] = purges[f] /\ f \notin removing'
    <3>1. ASSUME NEW f \in Uploaded, Private(f)
          PROVE  row'[f] = row[f] /\ purges'[f] = purges[f] /\ f \notin removing'
      <4>1. f \notin S /\ f \in Files
        BY <3>1, Apart
      <4>2. f \notin removing
        BY <1>0, <3>1 DEF UploadOK
      <4>3. f \notin Idle
        BY <4>1 DEF Idle, FileAssumption
      <4> QED BY <1>2, <4>1, <4>2, <4>3
    <3> QED BY <3>1
  <2>2. \A f \in Uploaded : Private(f)' => Private(f)
    BY DEF Private
  <2> QED BY <1>0, <2>1, <2>2 DEF UploadOK
<1>8. CountOK'
  <2>1. SUFFICES ASSUME overlapped' = {}
                 PROVE  /\ Bytes(Stored') + Bytes(Holding) <= used'
                        /\ \E q \in Quotas : Bytes(Stored' \cap Uploaded) + Bytes(InFlight) <= q
    BY <1>6 DEF CountOK, InFlight
  <2>2. overlapped = {} /\ S \subseteq Stored
    BY <2>1
  <2>3. /\ Bytes(Stored) + Bytes(Holding) <= used
        /\ \E q \in Quotas : Bytes(Stored \cap Uploaded) + Bytes(InFlight) <= q
    BY <1>0, <2>2 DEF CountOK, InFlight
  <2>4. Bytes(Stored) = Bytes(Stored') + Bytes(S) /\ Bytes(Stored') \in Nat
    BY <1>6, <2>2, BytesWithout
  <2>5. Bytes(Holding) \in Nat /\ Bytes(InFlight) \in Nat
    BY <1>6, KeysFinite
  <2>6. (Bytes(Stored') + Bytes(Holding)) + Bytes(S) <= used /\ Bytes(Stored') + Bytes(Holding) \in Nat
    BY <1>3, <2>3, <2>4, <2>5
  <2>7. Bytes(Stored') + Bytes(Holding) <= used'
    BY <1>4, <2>6
  <2>8. /\ Bytes(Stored' \cap Uploaded) <= Bytes(Stored \cap Uploaded)
        /\ Bytes(Stored' \cap Uploaded) \in Nat /\ Bytes(Stored \cap Uploaded) \in Nat
    <3>1. Stored' \cap Uploaded \subseteq Stored \cap Uploaded /\ Stored \cap Uploaded \subseteq Files
      BY <1>6
    <3> QED BY <3>1, BytesMore
  <2>9. \A q \in Quotas : q \in Nat
    OBVIOUS
  <2>10. \E q \in Quotas : Bytes(Stored' \cap Uploaded) + Bytes(InFlight) <= q
    BY <2>3, <2>5, <2>8, <2>9
  <2> QED BY <2>7, <2>10
<1>9. IngestOK'
  <2>1. ASSUME NEW f \in Inbound \ overlapped', NEW w \in Workers, ingest[f][w] \in {"upload", "finalise"}
        PROVE  purges'[f] = purges[f] /\ row'[f] # "stored"
    <3>1. f \in Files /\ row[f] # "stored"
      BY <1>0, <2>1, Apart DEF IngestOK
    <3>2. f \notin Stored
      BY <3>1 DEF Stored
    <3>3. f \notin S
      BY <2>1, <3>2
    <3> QED BY <1>2, <3>1, <3>3
  <2> QED BY <1>0, <2>1, KeepIngest
<1>10. StoredOK'
  BY <1>0, <1>6, KeepStored
<1> QED BY <1>2, <1>5, <1>7, <1>8, <1>9, <1>10 DEF IInv

LEMMA DeleteKeeps ==
  ASSUME IInv, NEW f \in Files, Delete(f)
  PROVE  IInv'
<1>1. /\ row[f] = "stored" /\ row' = [row EXCEPT ![f] = IF f \in Messages THEN "deleted" ELSE "none"]
      /\ Purge({f}) /\ Release(Bytes({f}))
      /\ UNCHANGED <<unit, removing, revoked, overlapped, up, editing, job, ingest, connected, objects>>
  BY DEF Delete, uploads, download
<1>2. row \in [Files -> RowStates] /\ {"none", "deleted"} \subseteq RowStates
  BY DEF IInv, TypeOK, RowStates
<1>3. row' \in [Files -> RowStates] /\ row'[f] \in {"none", "deleted"} /\ \A g \in Files \ {f} : row'[g] = row[g]
  BY <1>1, <1>2
<1>4. f \in Uploaded => ~Private(f)
  BY <1>1 DEF IInv, UploadOK
<1>5. {f} \subseteq Stored
  BY <1>1 DEF Stored
<1>6. removing' = removing /\ unit' \in {"live", "gone"} /\ revoked' \in [Inbound -> {"no", "marked", "done"}] /\ overlapped' \subseteq Files
  BY <1>1 DEF IInv, TypeOK
<1>7. /\ \A g \in {f} : row'[g] \in {"none", "deleted"}
      /\ \A g \in {f} \cap Uploaded : ~Private(g)
  BY <1>3, <1>4
<1> QED BY <1>1, <1>3, <1>5, <1>6, <1>7, DropKeeps

LEMMA RemoveUnitKeeps ==
  ASSUME IInv, RemoveUnit
  PROVE  IInv'
<1>1. /\ removing # Idle /\ unit' = "gone" /\ removing' = Idle
      /\ row' = [f \in Files |-> IF f \in removing THEN "none" ELSE row[f]]
      /\ Purge(removing) /\ Release(Bytes(removing))
      /\ overlapped' = overlapped \cup (removing \ Stored)
      /\ UNCHANGED <<revoked, up, editing, job, ingest, connected, objects>>
  BY DEF RemoveUnit, UnitUnlocked, download
<1>2. removing \subseteq OnUnit /\ removing \subseteq Files
  BY <1>1, Apart DEF IInv, TypeOK
<1>3. row \in [Files -> RowStates] /\ "none" \in RowStates
  BY DEF IInv, TypeOK, RowStates
<1>4. /\ row' \in [Files -> RowStates] /\ \A f \in removing : row'[f] \in {"none", "deleted"}
      /\ \A f \in Files \ removing : row'[f] = row[f]
  BY <1>1, <1>2, <1>3
<1>5. \A f \in removing \cap Uploaded : ~Private(f)
  BY DEF IInv, UploadOK
<1>6. /\ overlapped \subseteq overlapped' /\ overlapped' \subseteq Files /\ removing \ Stored \subseteq overlapped'
      /\ unit' \in {"live", "gone"} /\ revoked' \in [Inbound -> {"no", "marked", "done"}]
  BY <1>1, <1>2 DEF IInv, TypeOK
<1>7. removing' \in {removing, Idle}
  BY <1>1
<1> QED BY <1>1, <1>2, <1>4, <1>5, <1>6, <1>7, DropKeeps

LEMMA FindUnitFilesKeeps ==
  ASSUME IInv, FindUnitFiles
  PROVE  IInv'
<1>0. TypeOK /\ UploadOK /\ CountOK /\ OutboxOK /\ IngestOK /\ PurgedOK /\ StoredOK
  BY DEF IInv
<1>1. /\ removing' = Stored \cap OnUnit
      /\ UNCHANGED <<used, unit, up, editing, row, job, ingest, revoked, connected, objects, outbox, queue, purges, overlapped>>
  BY DEF FindUnitFiles, download, bucket
<1>2. Stored' = Stored
  BY <1>1 DEF Stored
<1>3. TypeOK'
  BY <1>0, <1>1 DEF TypeOK
<1>4. UploadOK'
  <2>1. \A f \in Uploaded : Private(f) => f \notin removing'
    BY <1>0, <1>1 DEF UploadOK, Stored
  <2>2. \A f \in Uploaded : Private(f)' => Private(f)
    BY <1>1 DEF Private
  <2> QED BY <1>0, <1>1, <2>1, <2>2 DEF UploadOK
<1>5. CountOK' /\ OutboxOK'
  BY <1>0, <1>1, <1>2, KeepCount, KeepOutbox
<1>6. IngestOK' /\ PurgedOK' /\ StoredOK'
  BY <1>0, <1>1, <1>2, KeepPurged, KeepStored DEF IngestOK
<1> QED BY <1>3, <1>4, <1>5, <1>6 DEF IInv

LEMMA EditsKeep ==
  ASSUME IInv, NEW f \in OnUnit, ReadForEdit(f) \/ SaveEdit(f)
  PROVE  IInv'
<1>0. TypeOK /\ UploadOK /\ CountOK /\ OutboxOK /\ IngestOK /\ PurgedOK /\ StoredOK
  BY DEF IInv
<1>a. f \in Uploaded /\ f \in Files /\ f \notin Inbound
  BY Apart
<1>1. /\ UNCHANGED <<used, unit, removing, up, job, ingest, revoked, connected, objects, outbox, queue, purges>>
      /\ editing' \subseteq editing \cup {f}
      /\ \A g \in Uploaded : Private(g) => g \notin editing'
      /\ \/ row' = row /\ overlapped' = overlapped
         \/ row' = [row EXCEPT ![f] = "stored"] /\ overlapped' = overlapped \cup ({f} \ Stored) /\ ~Private(f)
  <2>1. CASE ReadForEdit(f)
    <3>1. /\ UNCHANGED <<used, unit, removing, up, job, ingest, revoked, connected, objects, outbox, queue, purges>>
          /\ editing' = editing \cup {f} /\ row[f] = "stored" /\ row' = row /\ overlapped' = overlapped
      BY <2>1 DEF ReadForEdit, download, bucket
    <3>2. \A g \in Uploaded : Private(g) => g \notin editing'
      BY <1>0, <3>1 DEF UploadOK
    <3> QED BY <3>1, <3>2
  <2>2. CASE SaveEdit(f)
    <3>1. /\ UNCHANGED <<used, unit, removing, up, job, ingest, revoked, connected, objects, outbox, queue, purges>>
          /\ editing' = editing \ {f} /\ f \in editing
          /\ \/ row' = row /\ overlapped' = overlapped
             \/ row' = [row EXCEPT ![f] = "stored"] /\ overlapped' = overlapped \cup ({f} \ Stored)
      BY <2>2 DEF SaveEdit, download, bucket
    <3>2. ~Private(f) /\ \A g \in Uploaded : Private(g) => g \notin editing'
      BY <1>0, <1>a, <3>1 DEF UploadOK
    <3> QED BY <3>1, <3>2
  <2> QED BY <2>1, <2>2
<1>2. row \in [Files -> RowStates] /\ "stored" \in RowStates
  BY <1>0 DEF TypeOK, RowStates
<1>3. /\ row' \in [Files -> RowStates] /\ \A g \in Files \ {f} : row'[g] = row[g]
      /\ row'[f] # row[f] => ~Private(f) /\ f \in overlapped'
      /\ overlapped \subseteq overlapped' /\ overlapped' \subseteq overlapped \cup {f}
      /\ overlapped' # overlapped => f \in overlapped'
  <2>1. CASE row' = row /\ overlapped' = overlapped
    BY <1>2, <2>1
  <2>2. CASE row' = [row EXCEPT ![f] = "stored"] /\ overlapped' = overlapped \cup ({f} \ Stored) /\ ~Private(f)
    <3>1. row[f] # "stored" => f \in overlapped'
      BY <2>2 DEF Stored
    <3> QED BY <1>2, <1>a, <2>2, <3>1
  <2> QED BY <1>1, <2>1, <2>2
<1>4. TypeOK'
  <2>1. editing' \subseteq OnUnit /\ overlapped' \subseteq Files
    BY <1>0, <1>1, <1>3, <1>a DEF TypeOK
  <2> QED BY <1>0, <1>1, <1>3, <2>1 DEF TypeOK, RowStates
<1>5. UploadOK'
  <2>1. \A g \in Uploaded : Private(g) => row'[g] = row[g]
    BY <1>3, Apart
  <2>2. \A g \in Uploaded : Private(g)' => Private(g)
    BY <1>1, <1>3 DEF Private
  <2> QED BY <1>0, <1>1, <2>1, <2>2 DEF UploadOK
<1>6. \A g \in Files \ overlapped' : row'[g] = row[g]
  BY <1>3
<1>7. CountOK'
  <2>1. CASE overlapped' = {}
    <3>1. Stored' = Stored /\ overlapped = {}
      BY <1>3, <1>6, <2>1 DEF Stored
    <3> QED BY <1>0, <1>1, <2>1, <3>1, KeepCount
  <2>2. CASE overlapped' # {}
    BY <2>2 DEF CountOK
  <2> QED BY <2>1, <2>2
<1>8. OutboxOK'
  BY <1>0, <1>1, <1>3, KeepOutbox
<1>9. IngestOK'
  <2>1. \A g \in Inbound : row'[g] = row[g]
    BY <1>3, <1>a, Apart
  <2> QED BY <1>0, <1>1, <1>3, <2>1 DEF IngestOK
<1>10. PurgedOK'
  BY <1>0, <1>1, <1>3, <1>6, KeepPurged
<1>11. StoredOK'
  <2>1. \A g \in Stored' \ overlapped' : g \in Stored \ overlapped
    BY <1>3, <1>6 DEF Stored
  <2> QED BY <1>0, <1>1, <2>1 DEF StoredOK
<1> QED BY <1>4, <1>5, <1>7, <1>8, <1>9, <1>10, <1>11 DEF IInv

-----------------------------------------------------------------------------
(* The purge queue.                                                        *)

\* A job may delete its object: the file is purged, so no row and no request
\* needs it.
LEMMA ObjectGoes ==
  ASSUME IInv, NEW id \in DOMAIN outbox \cup DOMAIN queue, objects' \in {objects, objects \ {KeyOf(id)}},
         UNCHANGED <<used, unit, removing, editing, row, up, job, ingest, revoked, connected, purges, overlapped>>
  PROVE  /\ objects' \subseteq objects
         /\ UploadOK' /\ CountOK' /\ IngestOK' /\ StoredOK'
<1>0. TypeOK /\ UploadOK /\ CountOK /\ OutboxOK /\ IngestOK /\ PurgedOK /\ StoredOK
  BY DEF IInv
<1>1. id[1] \in Files /\ KeyOf(id)[1] = id[1] /\ purges[id[1]] > 0
  BY <1>0, HadPurge
<1>2. \A f : f # id[1] => KeyOf(id) \notin Keys(f)
  BY <1>1, KeyIs
<1>3. \A f \in Files : f # id[1] => Keys(f) \cap objects \subseteq objects'
  BY <1>2
<1>4. Stored' = Stored
  BY DEF Stored
<1>5. UploadOK'
  <2>1. \A f \in Uploaded : Private(f) => f # id[1]
    <3>1. \A f \in Uploaded : Private(f) => purges[f] = 0
      BY <1>0 DEF UploadOK
    <3> QED BY <1>1, <3>1
  <2> QED BY <1>0, <1>3, <2>1, Apart, KeepUpload
<1>6. CountOK'
  BY <1>0, <1>4, KeepCount
<1>7. IngestOK'
  <2>1. \A f \in Inbound \ overlapped : \A w \in Workers : ingest[f][w] \in {"upload", "finalise"} =>
          purges[f] = 0 /\ row[f] # "stored" /\ f \in Files
    BY <1>0, Apart DEF IngestOK
  <2>2. \A f \in Inbound \ overlapped : \A w \in Workers : ingest[f][w] \in {"upload", "finalise"} => f # id[1]
    BY <1>1, <2>1
  <2>3. \A f \in Inbound : <<f, "file">> \in Keys(f)
    BY Apart
  <2> QED BY <1>0, <1>3, <2>1, <2>2, <2>3, KeepIngest
<1>8. StoredOK'
  <2>1. \A f \in Stored \ overlapped : f # id[1] /\ f \in Files
    BY <1>0, <1>1 DEF Stored, PurgedOK
  <2> QED BY <1>0, <1>3, <1>4, <2>1, KeepStored
<1>9. objects' \subseteq objects
  OBVIOUS
<1> QED BY <1>5, <1>6, <1>7, <1>8, <1>9

\* The queue after a job's step.
LEMMA JobSteps ==
  ASSUME TypeOK, NEW id \in DOMAIN queue
  PROVE  /\ queue' = Without(queue, id) =>
              /\ queue' \in [DOMAIN queue' -> Job] /\ DOMAIN queue' = DOMAIN queue \ {id}
              /\ \A i \in DOMAIN queue' : queue'[i] = queue[i]
         /\ RetryJob(id) =>
              /\ queue' \in [DOMAIN queue' -> Job] /\ DOMAIN queue' \subseteq DOMAIN queue
              /\ \A i \in DOMAIN queue' : queue'[i].pc = "delete row" => queue[i].pc = "delete row"
         /\ queue' = [queue EXCEPT ![id].pc = "delete row"] =>
              /\ queue' \in [DOMAIN queue' -> Job] /\ DOMAIN queue' = DOMAIN queue
              /\ \A i \in DOMAIN queue \ {id} : queue'[i] = queue[i]
<1>1. queue \in [DOMAIN queue -> Job] /\ queue[id] \in Job
  BY DEF TypeOK, Job
<1>a. queue[id].made \in 0 .. MaxAttempts - 1
  BY <1>1 DEF Job
<1>b. queue[id].made \in Nat /\ MaxAttempts \in Nat
  BY <1>a
<1>2. queue' = Without(queue, id) =>
              /\ queue' \in [DOMAIN queue' -> Job] /\ DOMAIN queue' = DOMAIN queue \ {id}
              /\ \A i \in DOMAIN queue' : queue'[i] = queue[i]
  <2>1. /\ DOMAIN Without(queue, id) = DOMAIN queue \ {id}
        /\ \A i \in DOMAIN queue \ {id} : Without(queue, id)[i] = queue[i]
        /\ Without(queue, id) \in [DOMAIN queue \ {id} -> Job]
    BY <1>1, WithoutHas
  <2> QED BY <2>1
<1>3. RetryJob(id) =>
              /\ queue' \in [DOMAIN queue' -> Job] /\ DOMAIN queue' \subseteq DOMAIN queue
              /\ \A i \in DOMAIN queue' : queue'[i].pc = "delete row" => queue[i].pc = "delete row"
  <2>1. CASE queue' = Without(queue, id)
    BY <1>2, <2>1
  <2>2. CASE queue[id].made + 1 < MaxAttempts /\ queue' = [queue EXCEPT ![id] = [made |-> @.made + 1, pc |-> "wait"]]
    <3>1. PICK r : r = [made |-> queue[id].made + 1, pc |-> "wait"]
      OBVIOUS
    <3>2. r \in Job /\ r.pc = "wait"
      <4>1. queue[id].made \in Nat /\ MaxAttempts \in Nat
        BY <1>b
      <4>2. queue[id].made + 1 \in 0 .. MaxAttempts - 1
        BY <2>2, <4>1
      <4> QED BY <3>1, <4>2 DEF Job
    <3>3. queue' = [queue EXCEPT ![id] = r]
      BY <2>2, <3>1
    <3>4. queue' \in [DOMAIN queue -> Job]
      BY <1>1, <3>2, <3>3
    <3>5. queue'[id] = r /\ \A i \in DOMAIN queue \ {id} : queue'[i] = queue[i]
      BY <3>3
    <3> QED BY <3>2, <3>4, <3>5
  <2>3. RetryJob(id) => \/ queue' = Without(queue, id)
                        \/ queue[id].made + 1 < MaxAttempts /\ queue' = [queue EXCEPT ![id] = [made |-> @.made + 1, pc |-> "wait"]]
    <3>2. queue[id].made + 1 >= MaxAttempts \/ queue[id].made + 1 < MaxAttempts
      BY <1>b
    <3> QED BY <3>2 DEF RetryJob
  <2> QED BY <2>1, <2>2, <2>3
<1>4. queue' = [queue EXCEPT ![id].pc = "delete row"] =>
              /\ queue' \in [DOMAIN queue' -> Job] /\ DOMAIN queue' = DOMAIN queue
              /\ \A i \in DOMAIN queue \ {id} : queue'[i] = queue[i]
  <2>1. PICK r : r = [queue[id] EXCEPT !.pc = "delete row"]
    OBVIOUS
  <2>2. r \in Job
    BY <1>1, <2>1 DEF Job
  <2>3. queue' = [queue EXCEPT ![id].pc = "delete row"] => queue' = [queue EXCEPT ![id] = r]
    BY <2>1
  <2>4. queue' = [queue EXCEPT ![id] = r] => queue' \in [DOMAIN queue -> Job]
    BY <1>1, <2>2
  <2>5. queue' = [queue EXCEPT ![id] = r] => \A i \in DOMAIN queue \ {id} : queue'[i] = queue[i]
    OBVIOUS
  <2> QED BY <2>3, <2>4, <2>5
<1> QED BY <1>2, <1>3, <1>4

\* Rows of the outbox stay as they are, and jobs are taken away or start again.
LEMMA OutboxGoesOn ==
  ASSUME OutboxOK, DOMAIN outbox' \subseteq DOMAIN outbox, DOMAIN queue' \subseteq DOMAIN queue,
         \A i \in DOMAIN outbox' : outbox'[i].status = "pending" => outbox'[i].attempts < MaxAttempts,
         \A i \in DOMAIN outbox' \cap DOMAIN queue' : outbox'[i].status = outbox[i].status,
         \A i \in DOMAIN queue' : queue'[i].pc = "delete row" =>
            queue[i].pc = "delete row" \/ KeyOf(i) \notin objects',
         purges' = purges, overlapped' = overlapped, objects' \subseteq objects
  PROVE  OutboxOK'
<1>1. \A id : KeyOf(id)' = KeyOf(id)
  BY DEF KeyOf
<1> QED BY <1>1 DEF OutboxOK

LEMMA PurgeObjectKeeps ==
  ASSUME IInv, NEW id \in PurgeIds, PurgeObject(id)
  PROVE  IInv'
<1>0. TypeOK /\ UploadOK /\ CountOK /\ OutboxOK /\ IngestOK /\ PurgedOK /\ StoredOK
  BY DEF IInv
<1>1. /\ id \in DOMAIN queue /\ objects' \in {objects, objects \ {KeyOf(id)}}
      /\ \/ objects' = objects \ {KeyOf(id)} /\ queue' = [queue EXCEPT ![id].pc = "delete row"]
         \/ queue' = Without(queue, id)
      /\ UNCHANGED <<used, unit, removing, editing, row, up, job, ingest, revoked, connected, outbox, purges, overlapped>>
  BY DEF PurgeObject, uploads, download
<1>2. objects' \subseteq objects /\ UploadOK' /\ CountOK' /\ IngestOK' /\ StoredOK'
  BY <1>1, ObjectGoes
<1>3. /\ queue' \in [DOMAIN queue' -> Job] /\ DOMAIN queue' \subseteq DOMAIN queue
      /\ \A i \in DOMAIN queue' : queue'[i].pc = "delete row" => queue[i].pc = "delete row" \/ KeyOf(i) \notin objects'
  <2>1. CASE objects' = objects \ {KeyOf(id)} /\ queue' = [queue EXCEPT ![id].pc = "delete row"]
    <3>1. /\ queue' \in [DOMAIN queue' -> Job] /\ DOMAIN queue' = DOMAIN queue
          /\ \A i \in DOMAIN queue \ {id} : queue'[i] = queue[i]
      BY <1>0, <1>1, <2>1, JobSteps
    <3> QED BY <2>1, <3>1
  <2>2. CASE queue' = Without(queue, id)
    <3>1. /\ queue' \in [DOMAIN queue' -> Job] /\ DOMAIN queue' = DOMAIN queue \ {id}
          /\ \A i \in DOMAIN queue' : queue'[i] = queue[i]
      BY <1>0, <1>1, <2>2, JobSteps
    <3> QED BY <3>1
  <2> QED BY <1>1, <2>1, <2>2
<1>4. TypeOK'
  BY <1>0, <1>1, <1>2, <1>3 DEF TypeOK, Job
<1>5. OutboxOK'
  <2>1. \A i \in DOMAIN outbox' : outbox'[i].status = "pending" => outbox'[i].attempts < MaxAttempts
    BY <1>0, <1>1 DEF OutboxOK
  <2> QED BY <1>0, <1>1, <1>2, <1>3, <2>1, OutboxGoesOn
<1>6. PurgedOK'
  BY <1>0, <1>1, <1>2, KeepPurged
<1> QED BY <1>2, <1>4, <1>5, <1>6 DEF IInv

LEMMA PurgeFailsKeeps ==
  ASSUME IInv, NEW id \in PurgeIds, PurgeFails(id)
  PROVE  IInv'
<1>0. TypeOK /\ UploadOK /\ CountOK /\ OutboxOK /\ IngestOK /\ PurgedOK /\ StoredOK
  BY DEF IInv
<1>1. /\ id \in DOMAIN queue /\ id \in DOMAIN outbox /\ objects' \in {objects, objects \ {KeyOf(id)}}
      /\ UNCHANGED <<used, unit, removing, editing, row, up, job, ingest, revoked, connected, purges, overlapped>>
  BY DEF PurgeFails, uploads, download
<1>2. \/ outbox' = GiveUp(id) /\ queue' = Without(queue, id)
      \/ /\ outbox' = [outbox EXCEPT ![id].attempts = @ + 1] /\ RetryJob(id)
         /\ ~(outbox[id].attempts + 1 >= MaxAttempts)
      \/ outbox' = outbox /\ RetryJob(id)
  BY DEF PurgeFails
<1>3. objects' \subseteq objects /\ UploadOK' /\ CountOK' /\ IngestOK' /\ StoredOK'
  BY <1>1, ObjectGoes
<1>4. /\ queue' \in [DOMAIN queue' -> Job] /\ DOMAIN queue' \subseteq DOMAIN queue
      /\ \A i \in DOMAIN queue' : queue'[i].pc = "delete row" => queue[i].pc = "delete row"
      /\ queue' = Without(queue, id) => id \notin DOMAIN queue'
  <2>1. CASE queue' = Without(queue, id)
    <3>1. /\ queue' \in [DOMAIN queue' -> Job] /\ DOMAIN queue' = DOMAIN queue \ {id}
          /\ \A i \in DOMAIN queue' : queue'[i] = queue[i]
      BY <1>0, <1>1, <2>1, JobSteps
    <3> QED BY <3>1
  <2>2. CASE RetryJob(id) /\ queue' # Without(queue, id)
    <3>1. /\ queue' \in [DOMAIN queue' -> Job] /\ DOMAIN queue' \subseteq DOMAIN queue
          /\ \A i \in DOMAIN queue' : queue'[i].pc = "delete row" => queue[i].pc = "delete row"
      BY <1>0, <1>1, <2>2, JobSteps
    <3> QED BY <2>2, <3>1
  <2> QED BY <1>2, <2>1, <2>2
<1>5. outbox \in [DOMAIN outbox -> OutboxRow] /\ outbox[id] \in OutboxRow
  BY <1>0, <1>1 DEF TypeOK, OutboxRow
<1>6. outbox[id].status = "pending" /\ outbox[id].attempts \in 0 .. MaxAttempts
  BY <1>0, <1>1, <1>5 DEF OutboxOK, OutboxRow
<1>7. outbox[id].attempts \in Nat /\ MaxAttempts \in Nat /\ outbox[id].attempts < MaxAttempts
  <2>1. outbox[id].attempts < MaxAttempts
    BY <1>0, <1>1, <1>6 DEF OutboxOK
  <2> QED BY <1>6, <2>1
<1>8. PICK r \in OutboxRow :
         /\ outbox' = [outbox EXCEPT ![id] = r]
         /\ r.status = "pending" => r.attempts < MaxAttempts
         /\ id \in DOMAIN queue' => r.status = "pending"
  <2>1. outbox[id].attempts + 1 \in 0 .. MaxAttempts
    BY <1>7
  <2>2. CASE outbox' = GiveUp(id) /\ queue' = Without(queue, id)
    <3>1. PICK r : r = [status |-> "failed", attempts |-> outbox[id].attempts + 1]
      OBVIOUS
    <3>2. r \in OutboxRow /\ r.status = "failed"
      BY <2>1, <3>1 DEF OutboxRow
    <3>3. outbox' = [outbox EXCEPT ![id] = r]
      BY <2>2, <3>1 DEF GiveUp
    <3> QED BY <1>4, <2>2, <3>2, <3>3
  <2>3. CASE outbox' = [outbox EXCEPT ![id].attempts = @ + 1] /\ ~(outbox[id].attempts + 1 >= MaxAttempts)
    <3>1. PICK r : r = [outbox[id] EXCEPT !.attempts = outbox[id].attempts + 1]
      OBVIOUS
    <3>2. r \in OutboxRow /\ r.status = "pending" /\ r.attempts = outbox[id].attempts + 1
      BY <1>5, <1>6, <2>1, <3>1 DEF OutboxRow
    <3>3. outbox' = [outbox EXCEPT ![id] = r]
      BY <2>3, <3>1
    <3>4. r.attempts < MaxAttempts
      BY <1>7, <2>3, <3>2
    <3> QED BY <3>2, <3>3, <3>4
  <2>4. CASE outbox' = outbox
    <3>1. outbox' = [outbox EXCEPT ![id] = outbox[id]]
      BY <1>5, <2>4
    <3> QED BY <1>5, <1>6, <1>7, <3>1
  <2> QED BY <1>2, <2>2, <2>3, <2>4
<1>9. outbox' \in [DOMAIN outbox -> OutboxRow] /\ DOMAIN outbox' = DOMAIN outbox /\ outbox'[id] = r
      /\ \A i \in DOMAIN outbox \ {id} : outbox'[i] = outbox[i]
  BY <1>1, <1>5, <1>8
<1>10. TypeOK'
  BY <1>0, <1>1, <1>3, <1>4, <1>9 DEF TypeOK, Job, OutboxRow
<1>11. OutboxOK'
  <2>1. \A i \in DOMAIN outbox' : outbox'[i].status = "pending" => outbox'[i].attempts < MaxAttempts
    <3>1. \A i \in DOMAIN outbox : outbox[i].status = "pending" => outbox[i].attempts < MaxAttempts
      BY <1>0 DEF OutboxOK
    <3> QED BY <1>8, <1>9, <3>1
  <2>2. \A i \in DOMAIN outbox' \cap DOMAIN queue' : outbox'[i].status = outbox[i].status
    BY <1>6, <1>8, <1>9
  <2> QED BY <1>0, <1>1, <1>3, <1>4, <1>9, <2>1, <2>2, OutboxGoesOn
<1>12. PurgedOK'
  BY <1>0, <1>1, <1>3, <1>9, KeepPurged
<1> QED BY <1>3, <1>10, <1>11, <1>12 DEF IInv

LEMMA PurgeRowKeeps ==
  ASSUME IInv, NEW id \in PurgeIds, PurgeRow(id)
  PROVE  IInv'
<1>0. TypeOK /\ UploadOK /\ CountOK /\ OutboxOK /\ IngestOK /\ PurgedOK /\ StoredOK
  BY DEF IInv
<1>1. /\ id \in DOMAIN queue /\ queue[id].pc = "delete row"
      /\ \/ outbox' = Without(outbox, id) /\ queue' = Without(queue, id)
         \/ outbox' \in {outbox, Without(outbox, id)} /\ RetryJob(id)
      /\ UNCHANGED <<used, unit, removing, editing, row, up, job, ingest, revoked, connected, objects, purges, overlapped>>
  BY DEF PurgeRow, uploads, download
<1>2. objects' \subseteq objects /\ UploadOK' /\ CountOK' /\ IngestOK' /\ StoredOK'
  <2>1. objects' \in {objects, objects \ {KeyOf(id)}}
    BY <1>1
  <2> QED BY <1>1, <2>1, ObjectGoes
<1>3. /\ queue' \in [DOMAIN queue' -> Job] /\ DOMAIN queue' \subseteq DOMAIN queue
      /\ \A i \in DOMAIN queue' : queue'[i].pc = "delete row" => queue[i].pc = "delete row"
  <2>1. CASE queue' = Without(queue, id)
    <3>1. /\ queue' \in [DOMAIN queue' -> Job] /\ DOMAIN queue' = DOMAIN queue \ {id}
          /\ \A i \in DOMAIN queue' : queue'[i] = queue[i]
      BY <1>0, <1>1, <2>1, JobSteps
    <3> QED BY <3>1
  <2>2. CASE RetryJob(id)
    BY <1>0, <1>1, <2>2, JobSteps
  <2> QED BY <1>1, <2>1, <2>2
<1>4. /\ outbox' \in [DOMAIN outbox' -> OutboxRow] /\ DOMAIN outbox \ {id} \subseteq DOMAIN outbox'
      /\ DOMAIN outbox' \subseteq DOMAIN outbox /\ \A i \in DOMAIN outbox' : outbox'[i] = outbox[i]
  <2>1. outbox \in [DOMAIN outbox -> OutboxRow]
    BY <1>0 DEF TypeOK, OutboxRow
  <2>2. /\ DOMAIN Without(outbox, id) = DOMAIN outbox \ {id}
        /\ \A i \in DOMAIN outbox \ {id} : Without(outbox, id)[i] = outbox[i]
        /\ Without(outbox, id) \in [DOMAIN outbox \ {id} -> OutboxRow]
    BY <2>1, WithoutHas
  <2>3. CASE outbox' = Without(outbox, id)
    BY <2>2, <2>3
  <2>4. CASE outbox' = outbox
    BY <2>1, <2>4
  <2> QED BY <1>1, <2>3, <2>4
<1>5. TypeOK'
  BY <1>0, <1>1, <1>2, <1>3, <1>4 DEF TypeOK, Job, OutboxRow
<1>6. OutboxOK'
  <2>1. \A i \in DOMAIN outbox : outbox[i].status = "pending" => outbox[i].attempts < MaxAttempts
    BY <1>0 DEF OutboxOK
  <2> QED BY <1>0, <1>1, <1>2, <1>3, <1>4, <2>1, OutboxGoesOn
<1>7. PurgedOK'
  <2>1. id[1] \in overlapped \/ KeyOf(id) \notin objects
    BY <1>0, <1>1 DEF OutboxOK
  <2>2. KeyOf(id)[1] = id[1]
    BY <1>0, <1>1, HadPurge
  <2>3. SUFFICES ASSUME NEW f \in Files \ overlapped, purges[f] > 0, NEW k \in Keys(f) \cap objects
                 PROVE  row[f] \notin {"stored", "pending"} /\ \E i \in DOMAIN outbox' : KeyOf(i) = k
    <3>1. \A i : KeyOf(i)' = KeyOf(i)
      BY DEF KeyOf
    <3>2. \A f \in Files \ overlapped : purges[f] > 0 => row[f] \notin {"stored", "pending"}
      BY <1>0 DEF PurgedOK
    <3> QED BY <1>1, <3>1, <3>2 DEF PurgedOK
  <2>4. row[f] \notin {"stored", "pending"} /\ \E i \in DOMAIN outbox : KeyOf(i) = k
    BY <1>0, <2>3 DEF PurgedOK
  <2>5. PICK i \in DOMAIN outbox : KeyOf(i) = k
    BY <2>4
  <2>6. k[1] = f
    BY KeyIs
  <2>7. i # id
    BY <2>1, <2>2, <2>5, <2>6
  <2> QED BY <1>4, <2>4, <2>5, <2>7
<1> QED BY <1>2, <1>5, <1>6, <1>7 DEF IInv

LEMMA RequeueKeeps ==
  ASSUME IInv, NEW id \in PurgeIds, Requeue(id)
  PROVE  IInv'
<1>0. TypeOK /\ UploadOK /\ CountOK /\ OutboxOK /\ IngestOK /\ PurgedOK /\ StoredOK
  BY DEF IInv
<1>1. /\ id \in DOMAIN outbox /\ outbox[id].status = "pending" /\ queue' = With(queue, {id}, NewJob)
      /\ UNCHANGED <<used, unit, removing, editing, row, up, job, ingest, revoked, connected, objects, outbox, purges, overlapped>>
  BY DEF Requeue, Requeues, uploads, download
<1>2. /\ DOMAIN queue' = {id} \cup DOMAIN queue /\ queue'[id] = NewJob
      /\ \A i \in DOMAIN queue \ {id} : queue'[i] = queue[i]
      /\ queue' \in [DOMAIN queue' -> Job]
  <2>1. queue \in [DOMAIN queue -> Job]
    BY <1>0 DEF TypeOK, Job
  <2>2. /\ DOMAIN With(queue, {id}, NewJob) = {id} \cup DOMAIN queue
        /\ \A i \in {id} : With(queue, {id}, NewJob)[i] = NewJob
        /\ \A i \in DOMAIN queue \ {id} : With(queue, {id}, NewJob)[i] = queue[i]
        /\ With(queue, {id}, NewJob) \in [{id} \cup DOMAIN queue -> Job]
    BY <2>1, NewOnes, WithHas
  <2> QED BY <1>1, <2>2
<1>3. TypeOK'
  BY <1>0, <1>1, <1>2 DEF TypeOK, Job
<1>4. OutboxOK'
  <2>1. NewJob.pc = "wait" /\ \A i : KeyOf(i)' = KeyOf(i)
    BY DEF NewJob, KeyOf
  <2> QED BY <1>0, <1>1, <1>2, <2>1 DEF OutboxOK
<1>5. UploadOK' /\ CountOK' /\ IngestOK' /\ StoredOK'
  <2>1. objects' \in {objects, objects \ {KeyOf(id)}}
    BY <1>1
  <2> QED BY <1>1, <2>1, ObjectGoes
<1>6. PurgedOK'
  BY <1>0, <1>1, KeepPurged
<1> QED BY <1>3, <1>4, <1>5, <1>6 DEF IInv

-----------------------------------------------------------------------------
(* Customers' media.                                                       *)

IngestPcs == {"idle", "upload", "finalise", "finish", "park"}
MediaJob == [state : {"none", "queued", "failed", "stranded"}, made : 0 .. MaxAttempts - 1]

LEMMA IngestGoes ==
  ASSUME TypeOK, NEW f \in Inbound, NEW w \in Workers, NEW pc \in IngestPcs, GotoIngest(f, w, pc)
  PROVE  /\ ingest' \in [Inbound -> [Workers -> IngestPcs]]
         /\ ingest'[f][w] = pc
         /\ \A v \in Workers \ {w} : ingest'[f][v] = ingest[f][v]
         /\ \A g \in Inbound \ {f} : ingest'[g] = ingest[g]
<1>1. ingest \in [Inbound -> [Workers -> IngestPcs]]
  BY DEF TypeOK, IngestPcs
<1>2. ingest' = [ingest EXCEPT ![f] = [ingest[f] EXCEPT ![w] = pc]]
  BY DEF GotoIngest
<1>3. ingest[f] \in [Workers -> IngestPcs]
  BY <1>1
<1>4. PICK r : r = [ingest[f] EXCEPT ![w] = pc]
  OBVIOUS
<1>5. r \in [Workers -> IngestPcs] /\ r[w] = pc /\ \A v \in Workers \ {w} : r[v] = ingest[f][v]
  BY <1>3, <1>4
<1>6. ingest' = [ingest EXCEPT ![f] = r]
  BY <1>2, <1>4
<1> QED BY <1>1, <1>5, <1>6

LEMMA IngestMoves ==
  ASSUME TypeOK, IngestOK, NEW f \in Inbound, NEW w \in Workers, NEW pc \in IngestPcs, GotoIngest(f, w, pc),
         overlapped \subseteq overlapped',
         f \notin overlapped' => \A v \in Workers \ {w} : ingest[f][v] = "idle",
         f \notin overlapped' /\ pc \in {"upload", "finalise"} => purges'[f] = 0 /\ row'[f] # "stored",
         f \notin overlapped' /\ pc = "finalise" => <<f, "file">> \in objects',
         \A g \in Inbound \ {f} : /\ purges'[g] = purges[g] /\ (row[g] # "stored" => row'[g] # "stored")
                                  /\ (<<g, "file">> \in objects => <<g, "file">> \in objects')
  PROVE  IngestOK'
<1>1. /\ ingest'[f][w] = pc
      /\ \A v \in Workers \ {w} : ingest'[f][v] = ingest[f][v]
      /\ \A g \in Inbound \ {f} : ingest'[g] = ingest[g]
  BY IngestGoes
<1>2. ASSUME NEW g \in Inbound \ overlapped'
      PROVE  /\ \A u, v \in Workers : ingest'[g][u] # "idle" /\ ingest'[g][v] # "idle" => u = v
             /\ \A v \in Workers : ingest'[g][v] \in {"upload", "finalise"} => purges'[g] = 0 /\ row'[g] # "stored"
             /\ \A v \in Workers : ingest'[g][v] = "finalise" => <<g, "file">> \in objects'
  <2>1. CASE g = f
    <3>1. \A v \in Workers \ {w} : ingest'[f][v] = "idle"
      BY <1>1, <1>2, <2>1
    <3> QED BY <1>1, <1>2, <2>1, <3>1
  <2>2. CASE g # f
    <3>1. g \in Inbound \ overlapped /\ ingest'[g] = ingest[g]
      BY <1>1, <1>2, <2>2
    <3>2. /\ \A u, v \in Workers : ingest[g][u] # "idle" /\ ingest[g][v] # "idle" => u = v
          /\ \A v \in Workers : ingest[g][v] \in {"upload", "finalise"} => purges[g] = 0 /\ row[g] # "stored"
          /\ \A v \in Workers : ingest[g][v] = "finalise" => <<g, "file">> \in objects
      BY <3>1 DEF IngestOK
    <3> QED BY <1>2, <2>2, <3>1, <3>2
  <2> QED BY <2>1, <2>2
<1> QED BY <1>2 DEF IngestOK

\* The media in a worker's hands.
LEMMA InHand ==
  ASSUME IInv, NEW f \in Inbound, NEW w \in Workers, ingest[f][w] # "idle"
  PROVE  /\ f \notin overlapped => \A v \in Workers \ {w} : ingest[f][v] = "idle"
         /\ f \notin overlapped /\ ingest[f][w] \in {"upload", "finalise"} => purges[f] = 0 /\ row[f] # "stored"
         /\ f \notin overlapped /\ ingest[f][w] = "finalise" => <<f, "file">> \in objects
BY DEF IInv, IngestOK

\* Rows may be closed; the bucket, the outbox and the uploads stay.
LEMMA QuietKeeps ==
  ASSUME IInv, Closing, overlapped \subseteq overlapped',
         UNCHANGED <<used, unit, removing, editing, up, objects, outbox, queue, purges>>
  PROVE  UploadOK' /\ CountOK' /\ OutboxOK' /\ PurgedOK' /\ StoredOK'
<1>0. TypeOK /\ UploadOK /\ CountOK /\ OutboxOK /\ IngestOK /\ PurgedOK /\ StoredOK
  BY DEF IInv
<1>1. /\ Stored' = Stored
      /\ \A f \in Files : row'[f] \in {"stored", "pending"} => row[f] = row'[f]
      /\ \A f \in Files : row[f] = "none" => row'[f] = "none"
  BY ClosingHas
<1>2. UploadOK'
  <2>1. \A f \in Uploaded : Private(f) => row[f] = "none" /\ row'[f] = "none"
    BY <1>0, <1>1, Apart DEF UploadOK
  <2> QED BY <1>0, <2>1, KeepUpload
<1>3. CountOK'
  <2>1. overlapped' = {} => overlapped = {}
    OBVIOUS
  <2> QED BY <1>0, <1>1, <2>1, KeepCount
<1>4. OutboxOK'
  BY <1>0, KeepOutbox
<1>5. PurgedOK'
  BY <1>0, <1>1, KeepPurged
<1>6. StoredOK'
  BY <1>0, <1>1, KeepStored
<1> QED BY <1>2, <1>3, <1>4, <1>5, <1>6

LEMMA MediaJobMoves ==
  ASSUME TypeOK, NEW f \in Inbound
  PROVE  /\ \A s \in {"none", "queued", "failed", "stranded"} : job' = [job EXCEPT ![f].state = s] => job' \in [Inbound -> MediaJob]
         /\ job[f].made + 1 < MaxAttempts /\ job' = [job EXCEPT ![f].made = @ + 1] => job' \in [Inbound -> MediaJob]
         /\ job[f].made \in Nat
<1>1. job \in [Inbound -> MediaJob] /\ job[f] \in MediaJob
  BY DEF TypeOK, MediaJob
<1>2. job[f].made \in 0 .. MaxAttempts - 1
  BY <1>1 DEF MediaJob
<1>3. ASSUME NEW s \in {"none", "queued", "failed", "stranded"}, job' = [job EXCEPT ![f].state = s]
      PROVE  job' \in [Inbound -> MediaJob]
  <2>1. PICK r : r = [job[f] EXCEPT !.state = s]
    OBVIOUS
  <2>2. r \in MediaJob
    BY <1>1, <2>1 DEF MediaJob
  <2>3. job' = [job EXCEPT ![f] = r]
    BY <1>3, <2>1
  <2> QED BY <1>1, <2>2, <2>3
<1>4. ASSUME job[f].made + 1 < MaxAttempts, job' = [job EXCEPT ![f].made = @ + 1]
      PROVE  job' \in [Inbound -> MediaJob]
  <2>1. job[f].made + 1 \in 0 .. MaxAttempts - 1
    BY <1>2, <1>4
  <2>2. PICK r : r = [job[f] EXCEPT !.made = job[f].made + 1]
    OBVIOUS
  <2>3. r \in MediaJob
    BY <1>1, <2>1, <2>2 DEF MediaJob
  <2>4. job' = [job EXCEPT ![f] = r]
    BY <1>4, <2>2
  <2> QED BY <1>1, <2>3, <2>4
<1> QED BY <1>2, <1>3, <1>4

LEMMA JobEnds ==
  ASSUME TypeOK, NEW f \in Inbound, NEW w \in Workers,
         Again(f, w) \/ \E s \in {"none", "queued", "failed", "stranded"} : EndJob(f, w, s)
  PROVE  GotoIngest(f, w, "idle") /\ job' \in [Inbound -> MediaJob]
<1>1. CASE Again(f, w)
  <2>1. GotoIngest(f, w, "idle") /\ job[f].made + 1 < MaxAttempts /\ job' = [job EXCEPT ![f].made = @ + 1]
    BY <1>1 DEF Again
  <2> QED BY <2>1, MediaJobMoves
<1>2. ASSUME NEW s \in {"none", "queued", "failed", "stranded"}, EndJob(f, w, s)
      PROVE  GotoIngest(f, w, "idle") /\ job' \in [Inbound -> MediaJob]
  <2>1. GotoIngest(f, w, "idle") /\ job' = [job EXCEPT ![f].state = s]
    BY <1>2 DEF EndJob
  <2> QED BY <2>1, MediaJobMoves
<1> QED BY <1>1, <1>2

LEMMA AttemptFailsHas ==
  ASSUME TypeOK, NEW f \in Inbound, NEW w \in Workers, AttemptFails(f, w)
  PROVE  GotoIngest(f, w, "idle") /\ job' \in [Inbound -> MediaJob] /\ Closing
<1>1. GotoIngest(f, w, "idle") /\ job' \in [Inbound -> MediaJob]
  BY JobEnds DEF AttemptFails
<1>2. row' = row \/ row' = IF Pending(f) THEN [row EXCEPT ![f] = "failed"] ELSE row
  BY DEF AttemptFails, Closed
<1>3. f \in Files
  BY Apart
<1> QED BY <1>1, <1>2, <1>3, ClosesOne

\* A worker's step that leaves the bucket alone, and may close the row.
LEMMA QuietMoveKeeps ==
  ASSUME IInv, NEW f \in Inbound, NEW w \in Workers, NEW pc \in IngestPcs, GotoIngest(f, w, pc), Closing,
         overlapped \subseteq overlapped', overlapped' \subseteq Files, job' \in [Inbound -> MediaJob],
         f \notin overlapped' => \A v \in Workers \ {w} : ingest[f][v] = "idle",
         f \notin overlapped' /\ pc = "upload" => purges[f] = 0 /\ row[f] # "stored",
         pc # "finalise",
         UNCHANGED <<used, unit, removing, editing, up, objects, outbox, queue, purges, revoked, connected>>
  PROVE  IInv'
<1>0. TypeOK /\ IngestOK
  BY DEF IInv
<1>1. UploadOK' /\ CountOK' /\ OutboxOK' /\ PurgedOK' /\ StoredOK'
  BY QuietKeeps
<1>2. ingest' \in [Inbound -> [Workers -> IngestPcs]]
  BY <1>0, IngestGoes
<1>3. TypeOK'
  BY <1>0, <1>2 DEF TypeOK, IngestPcs, MediaJob, Closing, RowStates
<1>4. \A g \in Inbound : row[g] # "stored" => row'[g] # "stored"
  BY ClosingHas, Apart
<1>5. IngestOK'
  BY <1>0, <1>4, IngestMoves
<1> QED BY <1>1, <1>3, <1>5 DEF IInv

LEMMA StartIngestKeeps ==
  ASSUME IInv, NEW f \in Inbound, NEW w \in Workers, StartIngest(f, w)
  PROVE  IInv'
<1>0. TypeOK /\ PurgedOK /\ f \in Files
  BY Apart DEF IInv
<1>1. /\ ingest[f][w] = "idle"
      /\ UNCHANGED <<used, unit, removing, editing, up, objects, outbox, queue, purges, job, revoked, connected>>
  BY DEF StartIngest, uploads, bucket
<1>2. /\ overlapped \subseteq overlapped' /\ overlapped' \subseteq Files
      /\ f \notin overlapped' => \A v \in Workers \ {w} : ingest[f][v] = "idle"
  <2>1. CASE \E v \in Workers : ingest[f][v] # "idle"
    <3>1. overlapped' = overlapped \cup {f}
      BY <2>1 DEF StartIngest
    <3> QED BY <1>0, <3>1 DEF TypeOK
  <2>2. CASE ~ \E v \in Workers : ingest[f][v] # "idle"
    <3>1. overlapped' = overlapped
      BY <2>2 DEF StartIngest
    <3> QED BY <1>0, <2>2, <3>1 DEF TypeOK
  <2> QED BY <2>1, <2>2
<1>3. PICK pc \in {"finish", "upload", "park"} :
        /\ GotoIngest(f, w, pc)
        /\ pc = "upload" => row[f] = "pending"
        /\ row' = row \/ row' = IF Pending(f) THEN [row EXCEPT ![f] = "deleted"] ELSE row
  <2>1. CASE Settled(f) /\ GotoIngest(f, w, "finish") /\ UNCHANGED row
    BY <2>1
  <2>2. CASE GotoIngest(f, w, "finish") /\ row' = IF Pending(f) THEN [row EXCEPT ![f] = "deleted"] ELSE row
    BY <2>2
  <2>3. CASE ~Settled(f) /\ GotoIngest(f, w, IF connected THEN "upload" ELSE "park") /\ UNCHANGED row
    <3>1. row[f] = "pending"
      BY <2>3 DEF Settled, Pending
    <3> QED BY <2>3, <3>1
  <2> QED BY <2>1, <2>2, <2>3 DEF StartIngest
<1>4. Closing
  BY <1>0, <1>3, ClosesOne
<1>5. pc \in IngestPcs /\ pc # "finalise"
  BY DEF IngestPcs
<1>6. f \notin overlapped' /\ pc = "upload" => purges[f] = 0 /\ row[f] # "stored"
  <2>1. SUFFICES ASSUME f \notin overlapped', pc = "upload" PROVE purges[f] = 0 /\ row[f] # "stored"
    OBVIOUS
  <2>2. f \notin overlapped /\ row[f] = "pending"
    BY <1>2, <1>3, <2>1
  <2>3. ~(purges[f] > 0)
    BY <1>0, <2>2 DEF PurgedOK
  <2>4. purges[f] \in 0 .. MaxPurges
    BY <1>0 DEF TypeOK
  <2> QED BY <2>2, <2>3, <2>4
<1>7. job' \in [Inbound -> MediaJob]
  BY <1>0, <1>1 DEF TypeOK, MediaJob
<1>8. GotoIngest(f, w, pc)
  BY <1>3
<1> QED BY <1>1, <1>2, <1>4, <1>5, <1>6, <1>7, <1>8, QuietMoveKeeps

LEMMA FinishIngestKeeps ==
  ASSUME IInv, NEW f \in Inbound, NEW w \in Workers,
         \/ FinishIngest(f, w)
         \/ /\ ingest[f][w] = "finalise" /\ AttemptFails(f, w)
            /\ UNCHANGED <<used, outbox, queue, purges, uploads, objects, revoked, connected, overlapped>>
  PROVE  IInv'
<1>0. TypeOK /\ f \in Files
  BY Apart DEF IInv
<1>1. /\ ingest[f][w] # "idle" /\ GotoIngest(f, w, "idle") /\ Closing /\ job' \in [Inbound -> MediaJob]
      /\ UNCHANGED <<used, unit, removing, editing, up, objects, outbox, queue, purges, revoked, connected, overlapped>>
  <2>1. CASE FinishIngest(f, w)
    <3>1. /\ ingest[f][w] \in {"finish", "park"} /\ row' = row
          /\ \E s \in {"none", "queued", "failed", "stranded"} : EndJob(f, w, s)
          /\ UNCHANGED <<used, unit, removing, editing, up, objects, outbox, queue, purges, revoked, connected, overlapped>>
      BY <2>1 DEF FinishIngest, uploads, bucket
    <3>2. Closing
      BY <1>0, <3>1, ClosesOne
    <3>3. GotoIngest(f, w, "idle") /\ job' \in [Inbound -> MediaJob]
      BY <1>0, <3>1, JobEnds
    <3> QED BY <3>1, <3>2, <3>3
  <2>2. CASE /\ ingest[f][w] = "finalise" /\ AttemptFails(f, w)
             /\ UNCHANGED <<used, outbox, queue, purges, uploads, objects, revoked, connected, overlapped>>
    BY <1>0, <2>2, AttemptFailsHas DEF uploads
  <2> QED BY <2>1, <2>2
<1>2. f \notin overlapped => \A v \in Workers \ {w} : ingest[f][v] = "idle"
  BY <1>1, InHand
<1>3. "idle" \in IngestPcs /\ "idle" # "finalise" /\ "idle" # "upload"
  BY DEF IngestPcs
<1>4. overlapped' \subseteq Files /\ overlapped \subseteq overlapped'
  BY <1>0, <1>1 DEF TypeOK
<1> QED BY <1>1, <1>2, <1>3, <1>4, QuietMoveKeeps

LEMMA UploadInboundKeeps ==
  ASSUME IInv, NEW f \in Inbound, NEW w \in Workers, UploadInbound(f, w)
  PROVE  IInv'
<1>0. TypeOK /\ UploadOK /\ CountOK /\ OutboxOK /\ IngestOK /\ PurgedOK /\ StoredOK
  BY DEF IInv
<1>a. f \in Files /\ f \notin Uploaded /\ Keys(f) = {<<f, "file">>}
  BY Apart
<1>1. /\ ingest[f][w] = "upload"
      /\ UNCHANGED <<used, unit, removing, editing, up, outbox, queue, purges, revoked, connected, overlapped>>
      /\ \/ objects' = objects \cup {<<f, "file">>} /\ GotoIngest(f, w, "finalise") /\ UNCHANGED <<job, row>>
         \/ AttemptFails(f, w) /\ objects' \in {objects, objects \cup {<<f, "file">>}, objects \ {<<f, "file">>}}
  BY DEF UploadInbound, uploads
<1>2. /\ f \notin overlapped => \A v \in Workers \ {w} : ingest[f][v] = "idle"
      /\ f \notin overlapped => purges[f] = 0 /\ row[f] # "stored"
  BY <1>1, InHand
<1>3. PICK pc \in {"finalise", "idle"} :
        /\ GotoIngest(f, w, pc)
        /\ pc = "finalise" => <<f, "file">> \in objects'
        /\ Closing /\ job' \in [Inbound -> MediaJob]
  <2>1. CASE objects' = objects \cup {<<f, "file">>} /\ GotoIngest(f, w, "finalise") /\ UNCHANGED <<job, row>>
    <3>1. row' = row /\ "failed" \in {"failed", "deleted"}
      BY <2>1
    <3>2. Closing
      BY <1>0, <1>a, <3>1, ClosesOne
    <3>3. job' \in [Inbound -> MediaJob]
      BY <1>0, <2>1 DEF TypeOK, MediaJob
    <3> QED BY <2>1, <3>2, <3>3
  <2>2. CASE AttemptFails(f, w)
    BY <1>0, <2>2, AttemptFailsHas
  <2> QED BY <1>1, <2>1, <2>2
<1>4. objects' \subseteq objects \cup {<<f, "file">>} /\ objects \ {<<f, "file">>} \subseteq objects'
  BY <1>1
<1>5. \A g \in Files \ {f} : Keys(g) \cap objects' = Keys(g) \cap objects
  <2>1. \A g \in Files \ {f} : <<f, "file">> \notin Keys(g)
    <3>1. ASSUME NEW g \in Files \ {f}, NEW k \in Keys(g) PROVE k[1] # f
      BY KeyIs
    <3> QED BY <3>1
  <2> QED BY <1>4, <2>1
<1>6. /\ Stored' = Stored
      /\ \A g \in Files : row'[g] \in {"stored", "pending"} => row[g] = row'[g]
      /\ \A g \in Files : row[g] = "none" => row'[g] = "none"
      /\ \A g \in Files : row[g] # "stored" => row'[g] # "stored"
  BY <1>3, ClosingHas
<1>7. TypeOK'
  <2>1. objects' \subseteq KeysOf(Files)
    <3>1. objects \subseteq KeysOf(Files)
      BY <1>0 DEF TypeOK, KeysOf
    <3>2. <<f, "file">> \in KeysOf(Files)
      BY <1>a, KeysHas
    <3> QED BY <1>4, <3>1, <3>2
  <2>2. ingest' \in [Inbound -> [Workers -> IngestPcs]]
    <3>1. pc \in IngestPcs
      BY DEF IngestPcs
    <3> QED BY <1>0, <1>3, <3>1, IngestGoes
  <2> QED BY <1>0, <1>1, <1>3, <2>1, <2>2 DEF TypeOK, IngestPcs, MediaJob, Closing, RowStates, KeysOf
<1>8. UploadOK'
  <2>1. \A g \in Uploaded : g \in Files \ {f}
    BY <1>a, Apart
  <2>2. \A g \in Uploaded : Private(g) => row[g] = "none" /\ row'[g] = "none"
    BY <1>0, <1>6, <2>1 DEF UploadOK
  <2> QED BY <1>0, <1>1, <1>5, <2>1, <2>2, KeepUpload
<1>9. CountOK'
  BY <1>0, <1>1, <1>6, KeepCount
<1>10. OutboxOK'
  <2>1. ASSUME NEW id \in DOMAIN queue, KeyOf(id) \in objects' PROVE KeyOf(id) \in objects \/ id[1] \in overlapped
    <3>1. id[1] \in Files /\ KeyOf(id) \in Keys(id[1]) /\ purges[id[1]] > 0
      BY <1>0, HadPurge
    <3>2. CASE id[1] # f
      BY <1>5, <2>1, <3>1, <3>2
    <3>3. CASE id[1] = f
      BY <1>2, <3>1, <3>3
    <3> QED BY <3>2, <3>3
  <2> QED BY <1>0, <1>1, <2>1, KeepOutbox
<1>11. IngestOK'
  <2>1. pc \in IngestPcs
    BY DEF IngestPcs
  <2>2. f \notin overlapped' /\ pc \in {"upload", "finalise"} => purges'[f] = 0 /\ row'[f] # "stored"
    BY <1>1, <1>2, <1>6, <1>a
  <2>3. \A g \in Inbound \ {f} : g \in Files \ {f} /\ <<g, "file">> \in Keys(g)
    BY Apart
  <2>4. \A g \in Inbound \ {f} : /\ purges'[g] = purges[g] /\ (row[g] # "stored" => row'[g] # "stored")
                                 /\ (<<g, "file">> \in objects => <<g, "file">> \in objects')
    BY <1>1, <1>5, <1>6, <2>3
  <2>5. overlapped \subseteq overlapped' /\ (f \notin overlapped' => \A v \in Workers \ {w} : ingest[f][v] = "idle")
    BY <1>1, <1>2
  <2>6. f \notin overlapped' /\ pc = "finalise" => <<f, "file">> \in objects'
    BY <1>3
  <2>7. GotoIngest(f, w, pc)
    BY <1>3
  <2> QED BY <1>0, <2>1, <2>2, <2>4, <2>5, <2>6, <2>7, IngestMoves
<1>12. PurgedOK'
  <2>1. \A g \in Files \ overlapped : purges[g] > 0 => g # f
    BY <1>2
  <2> QED BY <1>0, <1>1, <1>5, <1>6, <2>1, KeepPurged
<1>13. StoredOK'
  <2>1. \A g \in Stored \ overlapped : g \in Files \ {f}
    BY <1>2 DEF Stored
  <2> QED BY <1>0, <1>1, <1>5, <1>6, <2>1, KeepStored
<1> QED BY <1>7, <1>8, <1>9, <1>10, <1>11, <1>12, <1>13 DEF IInv

\* finalise commits, heard or not.
LEMMA FinalisedKeeps ==
  ASSUME IInv, NEW f \in Inbound, NEW w \in Workers, ingest[f][w] = "finalise", Finalised(f),
         NEW pc \in {"finish", "idle"}, GotoIngest(f, w, pc), job' \in [Inbound -> MediaJob],
         UNCHANGED <<unit, removing, editing, up, objects, revoked, connected, overlapped>>
  PROVE  IInv'
<1>0. TypeOK /\ UploadOK /\ CountOK /\ OutboxOK /\ IngestOK /\ PurgedOK /\ StoredOK
  BY DEF IInv
<1>a. f \in Files /\ f \notin Uploaded /\ Keys(f) = {<<f, "file">>} /\ {f} \subseteq Files
  BY Apart
<1>1. /\ ingest[f][w] = "finalise" /\ GotoIngest(f, w, pc) /\ job' \in [Inbound -> MediaJob]
      /\ UNCHANGED <<unit, removing, editing, up, objects, revoked, connected, overlapped>>
  OBVIOUS
<1>2. /\ f \notin overlapped => \A v \in Workers \ {w} : ingest[f][v] = "idle"
      /\ f \notin overlapped => purges[f] = 0 /\ row[f] # "stored" /\ <<f, "file">> \in objects
  BY <1>1, InHand
<1>3. /\ ingest' \in [Inbound -> [Workers -> IngestPcs]] /\ pc \in IngestPcs
  <2>1. pc \in IngestPcs
    BY DEF IngestPcs
  <2> QED BY <1>0, <1>1, <2>1, IngestGoes
<1>b. /\ f \notin overlapped' => \A v \in Workers \ {w} : ingest[f][v] = "idle"
      /\ overlapped \subseteq overlapped'
      /\ pc # "upload" /\ pc # "finalise"
  BY <1>1, <1>2
<1>4. CASE /\ row[f] = "pending" /\ row' = [row EXCEPT ![f] = "stored"] /\ used' = used + Bytes({f})
           /\ UNCHANGED <<outbox, queue, purges>>
  <2>1. row' \in [Files -> RowStates] /\ row'[f] = "stored" /\ \A g \in Files \ {f} : row'[g] = row[g]
    <3>1. row \in [Files -> RowStates] /\ "stored" \in RowStates
      BY <1>0 DEF TypeOK, RowStates
    <3> QED BY <1>4, <1>a, <3>1
  <2>2. Stored' = Stored \cup {f} /\ f \notin Stored /\ Stored \subseteq Files
    BY <1>4, <1>a, <2>1 DEF Stored
  <2>3. used \in Nat /\ Bytes({f}) \in Nat /\ used' \in Nat
    <3>1. Bytes({f}) \in Nat
      BY <1>a, KeysFinite
    <3>2. used \in Nat
      BY <1>0 DEF TypeOK
    <3> QED BY <1>4, <3>1, <3>2
  <2>4. TypeOK'
    BY <1>0, <1>1, <1>3, <1>4, <2>1, <2>3 DEF TypeOK, IngestPcs, MediaJob, RowStates
  <2>5. UploadOK'
    <3>1. \A g \in Uploaded : row'[g] = row[g]
      BY <1>a, <2>1, Apart
    <3> QED BY <1>0, <1>1, <1>4, <3>1, KeepUpload
  <2>6. CountOK'
    <3>1. Holding' = Holding /\ InFlight' = InFlight /\ Holding \subseteq Files
      BY <1>1, Apart DEF Holding, InFlight, Reserved
    <3>2. Stored' \cap Uploaded = Stored \cap Uploaded
      BY <1>a, <2>2
    <3>3. Bytes(Stored') = Bytes(Stored) + Bytes({f})
      <4>1. Stored \cap {f} = {}
        BY <2>2
      <4> QED BY <1>a, <2>2, <4>1, BytesUnion
    <3>4. Bytes(Stored) \in Nat /\ Bytes(Holding) \in Nat
      BY <2>2, <3>1, KeysFinite
    <3>5. Bytes(Stored) + Bytes(Holding) <= used => Bytes(Stored') + Bytes(Holding) <= used'
      BY <1>4, <2>3, <3>3, <3>4
    <3> QED BY <1>0, <1>1, <3>1, <3>2, <3>5 DEF CountOK, InFlight
  <2>7. OutboxOK'
    BY <1>0, <1>1, <1>4, KeepOutbox
  <2>8. IngestOK'
    <3>1. \A g \in Inbound \ {f} : /\ purges'[g] = purges[g] /\ (row[g] # "stored" => row'[g] # "stored")
                                   /\ (<<g, "file">> \in objects => <<g, "file">> \in objects')
      BY <1>1, <1>4, <2>1, Apart
    <3> QED BY <1>0, <1>1, <1>3, <1>b, <3>1, IngestMoves
  <2>9. PurgedOK'
    <3>1. \A g \in Files \ overlapped : purges[g] > 0 => g # f
      BY <1>2
    <3> QED BY <1>0, <1>1, <1>4, <2>1, <3>1, KeepPurged
  <2>10. StoredOK'
    <3>1. f \notin overlapped => Keys(f) \subseteq objects
      BY <1>2, <1>a
    <3> QED BY <1>0, <1>1, <2>2, <3>1 DEF StoredOK
  <2> QED BY <2>4, <2>5, <2>6, <2>7, <2>8, <2>9, <2>10 DEF IInv
<1>5. CASE /\ row' = IF Pending(f) THEN [row EXCEPT ![f] = "deleted"] ELSE row
           /\ Purge({f}) /\ UNCHANGED used
  <2>1. Closing
    BY <1>0, <1>5, <1>a, ClosesOne
  <2>2. /\ Stored' = Stored
        /\ \A g \in Files : row'[g] \in {"stored", "pending"} => row[g] = row'[g]
        /\ \A g \in Files : row[g] = "none" => row'[g] = "none"
        /\ \A g \in Files : row[g] # "stored" => row'[g] # "stored"
    BY <2>1, ClosingHas
  <2>3. f \notin overlapped => row'[f] \notin {"stored", "pending"}
    <3>1. row'[f] # "pending"
      <4>1. row \in [Files -> RowStates]
        BY <1>0 DEF TypeOK, RowStates
      <4>2. CASE row[f] = "pending"
        BY <1>5, <1>a, <4>1, <4>2 DEF Pending
      <4>3. CASE row[f] # "pending"
        BY <1>5, <4>3 DEF Pending
      <4> QED BY <4>2, <4>3
    <3> QED BY <1>2, <1>a, <2>2, <3>1
  <2>4. \A g \in Files \ overlapped' : row'[g] \in {"stored", "pending"} => row'[g] = row[g] /\ g \notin {f}
    BY <1>1, <2>2, <2>3
  <2>5. /\ OutboxOK' /\ PurgedOK'
        /\ purges' \in [Files -> 0 .. MaxPurges]
        /\ outbox' \in [DOMAIN outbox' -> OutboxRow] /\ queue' \in [DOMAIN queue' -> Job]
        /\ DOMAIN outbox' \cup DOMAIN queue' \subseteq PurgeIds
        /\ \A g \in Files \ {f} : purges'[g] = purges[g]
    BY <1>1, <1>5, <1>a, <2>4, PurgeKeeps
  <2>6. TypeOK'
    BY <1>0, <1>1, <1>3, <1>5, <2>1, <2>5 DEF TypeOK, IngestPcs, MediaJob, Closing, RowStates, OutboxRow, Job
  <2>7. UploadOK'
    <3>1. \A g \in Uploaded : g \in Files \ {f}
      BY <1>a, Apart
    <3>2. \A g \in Uploaded : Private(g) => row[g] = "none" /\ row'[g] = "none"
      BY <1>0, <2>2, <3>1 DEF UploadOK
    <3> QED BY <1>0, <1>1, <2>5, <3>1, <3>2, KeepUpload
  <2>8. CountOK' /\ StoredOK'
    BY <1>0, <1>1, <1>5, <2>2, KeepCount, KeepStored
  <2>9. IngestOK'
    <3>1. \A g \in Inbound \ {f} : /\ purges'[g] = purges[g] /\ (row[g] # "stored" => row'[g] # "stored")
                                   /\ (<<g, "file">> \in objects => <<g, "file">> \in objects')
      BY <1>1, <2>2, <2>5, Apart
    <3> QED BY <1>0, <1>1, <1>3, <1>b, <3>1, IngestMoves
  <2> QED BY <2>5, <2>6, <2>7, <2>8, <2>9 DEF IInv
<1> QED BY <1>4, <1>5 DEF Finalised, AddStorageUsage, Pending

LEMMA FinaliseKeeps ==
  ASSUME IInv, NEW f \in Inbound, NEW w \in Workers, Finalise(f, w) \/ FinaliseFails(f, w)
  PROVE  IInv'
<1>0. TypeOK
  BY DEF IInv
<1>1. CASE Finalise(f, w)
  <2>1. /\ ingest[f][w] = "finalise" /\ GotoIngest(f, w, "finish") /\ Finalised(f) /\ job' = job
        /\ UNCHANGED <<unit, removing, editing, up, objects, revoked, connected, overlapped>>
    BY <1>1 DEF Finalise, uploads
  <2>2. job' \in [Inbound -> MediaJob]
    BY <1>0, <2>1 DEF TypeOK, MediaJob
  <2> QED BY <2>1, <2>2, FinalisedKeeps
<1>2. CASE FinaliseFails(f, w)
  <2>1. CASE AttemptFails(f, w) /\ UNCHANGED <<used, outbox, queue, purges>>
    <3>1. /\ ingest[f][w] = "finalise"
          /\ UNCHANGED <<used, outbox, queue, purges, uploads, objects, revoked, connected, overlapped>>
      BY <1>2, <2>1 DEF FinaliseFails
    <3> QED BY <2>1, <3>1, FinishIngestKeeps
  <2>2. CASE Finalised(f) /\ (Again(f, w) \/ EndJob(f, w, "failed"))
    <3>1. /\ ingest[f][w] = "finalise"
          /\ UNCHANGED <<unit, removing, editing, up, objects, revoked, connected, overlapped>>
      BY <1>2 DEF FinaliseFails, uploads
    <3>2. GotoIngest(f, w, "idle") /\ job' \in [Inbound -> MediaJob]
      BY <1>0, <2>2, JobEnds
    <3> QED BY <2>2, <3>1, <3>2, FinalisedKeeps
  <2> QED BY <1>2, <2>1, <2>2 DEF FinaliseFails
<1> QED BY <1>1, <1>2

LEMMA QuietRestKeeps ==
  ASSUME IInv, Closing, job' \in [Inbound -> MediaJob],
         revoked' \in [Inbound -> {"no", "marked", "done"}], connected' \in BOOLEAN,
         UNCHANGED <<used, unit, removing, editing, up, objects, outbox, queue, purges, ingest, overlapped>>
  PROVE  IInv'
<1>0. TypeOK /\ IngestOK
  BY DEF IInv
<1>1. UploadOK' /\ CountOK' /\ OutboxOK' /\ PurgedOK' /\ StoredOK'
  BY QuietKeeps
<1>2. TypeOK'
  BY <1>0 DEF TypeOK, MediaJob, Closing, RowStates
<1>3. \A g \in Inbound : row[g] # "stored" => row'[g] # "stored"
  BY ClosingHas, Apart
<1>4. IngestOK'
  BY <1>0, <1>3 DEF IngestOK
<1> QED BY <1>1, <1>2, <1>4 DEF IInv

LEMMA RowsStay ==
  ASSUME TypeOK, row' = row
  PROVE  Closing
BY DEF TypeOK, Closing, RowStates

LEMMA RevokesKeep ==
  ASSUME IInv, NEW f \in Inbound, Revoke(f) \/ RevokeMedia(f)
  PROVE  IInv'
<1>0. TypeOK /\ f \in Files /\ f \notin Uploaded /\ {f} \subseteq Files
  BY Apart DEF IInv
<1>1. revoked \in [Inbound -> {"no", "marked", "done"}] /\ job \in [Inbound -> MediaJob] /\ connected \in BOOLEAN
      /\ unit \in {"live", "gone"} /\ overlapped \subseteq Files
  BY <1>0 DEF TypeOK, MediaJob
<1>2. CASE Revoke(f)
  <2>1. /\ revoked' = [revoked EXCEPT ![f] = "marked"] /\ row' = row /\ connected' = connected /\ job' = job
        /\ UNCHANGED <<used, unit, removing, editing, up, objects, outbox, queue, purges, ingest, overlapped>>
    BY <1>2 DEF Revoke, uploads, bucket
  <2>2. revoked' \in [Inbound -> {"no", "marked", "done"}]
    BY <1>1, <2>1
  <2>3. Closing
    BY <1>0, <2>1, RowsStay
  <2> QED BY <1>1, <2>1, <2>2, <2>3, QuietRestKeeps
<1>3. CASE RevokeMedia(f)
  <2>1. /\ revoked' = [revoked EXCEPT ![f] = "done"]
        /\ UNCHANGED <<unit, removing, up, editing, objects, job, ingest, connected, overlapped>>
        /\ \/ row[f] = "stored" /\ row' = [row EXCEPT ![f] = "deleted"] /\ Purge({f}) /\ Release(Bytes({f}))
           \/ /\ UNCHANGED <<used, outbox, queue, purges>>
              /\ row' = row \/ row' = IF Pending(f) THEN [row EXCEPT ![f] = "deleted"] ELSE row
    BY <1>3 DEF RevokeMedia, uploads
  <2>2. revoked' \in [Inbound -> {"no", "marked", "done"}]
    BY <1>1, <2>1
  <2>3. CASE row[f] = "stored" /\ row' = [row EXCEPT ![f] = "deleted"] /\ Purge({f}) /\ Release(Bytes({f}))
    <3>1. row \in [Files -> RowStates] /\ "deleted" \in RowStates
      BY <1>0 DEF TypeOK, RowStates
    <3>2. row' \in [Files -> RowStates] /\ row'[f] = "deleted" /\ \A g \in Files \ {f} : row'[g] = row[g]
      BY <1>0, <2>3, <3>1
    <3>3. {f} \ Stored = {} /\ {f} \cap Uploaded = {}
      BY <1>0, <2>3 DEF Stored
    <3>4. /\ \A g \in {f} : row'[g] \in {"none", "deleted"} /\ \A h \in {f} \cap Uploaded : ~Private(h)
          /\ removing' \in {removing, Idle} /\ unit' \in {"live", "gone"} /\ overlapped' \subseteq Files
          /\ overlapped \subseteq overlapped' /\ {f} \ Stored \subseteq overlapped'
      BY <1>1, <2>1, <3>2, <3>3
    <3> QED BY <1>0, <2>1, <2>2, <2>3, <3>2, <3>4, DropKeeps
  <2>4. CASE /\ UNCHANGED <<used, outbox, queue, purges>>
             /\ row' = row \/ row' = IF Pending(f) THEN [row EXCEPT ![f] = "deleted"] ELSE row
    <3>1. Closing
      BY <1>0, <2>4, ClosesOne
    <3> QED BY <1>1, <2>1, <2>2, <2>4, <3>1, QuietRestKeeps
  <2> QED BY <2>1, <2>3, <2>4
<1> QED BY <1>2, <1>3

LEMMA ConnectionKeeps ==
  ASSUME IInv, Disconnect \/ Reconnect
  PROVE  IInv'
<1>0. TypeOK
  BY DEF IInv
<1>1. revoked \in [Inbound -> {"no", "marked", "done"}] /\ job \in [Inbound -> MediaJob]
  BY <1>0 DEF TypeOK, MediaJob
<1>2. /\ row' = row /\ revoked' = revoked /\ connected' \in BOOLEAN
      /\ UNCHANGED <<used, unit, removing, editing, up, objects, outbox, queue, purges, ingest, overlapped>>
  BY DEF Disconnect, Reconnect, uploads, bucket
<1>3. job' \in [Inbound -> MediaJob]
  <2>1. CASE Disconnect
    BY <1>1, <2>1 DEF Disconnect
  <2>2. CASE Reconnect
    <3>1. [state |-> "queued", made |-> 0] \in MediaJob
      <4>1. 0 \in 0 .. MaxAttempts - 1
        OBVIOUS
      <4> QED BY <4>1 DEF MediaJob
    <3>2. job' = [f \in Inbound |-> IF Pending(f) /\ job[f].state # "queued"
                                    THEN [state |-> "queued", made |-> 0] ELSE job[f]]
      BY <2>2 DEF Reconnect
    <3> QED BY <1>1, <3>1, <3>2
  <2> QED BY <2>1, <2>2
<1>4. Closing
  BY <1>0, <1>2, RowsStay
<1> QED BY <1>1, <1>2, <1>3, <1>4, QuietRestKeeps

LEMMA BytesNone == Bytes({}) = 0
<1>1. KeysOf({}) = {}
  BY DEF KeysOf
<1> QED BY <1>1, KeysFinite, FS_EmptySet

LEMMA ReconcileKeeps ==
  ASSUME IInv, Reconcile
  PROVE  IInv'
<1>0. TypeOK /\ UploadOK /\ CountOK /\ OutboxOK /\ IngestOK /\ PurgedOK /\ StoredOK
  BY DEF IInv
<1>1. /\ used' = Bytes(Stored) /\ overlapped' = overlapped \cup Holding
      /\ UNCHANGED <<row, unit, removing, editing, up, objects, outbox, queue, purges, job, ingest, revoked, connected>>
  BY DEF Reconcile, RowBytes, Holding, uploads, download, bucket
<1>2. Stored' = Stored /\ Holding' = Holding /\ InFlight' = InFlight /\ Stored \subseteq Files /\ Holding \subseteq Files
  BY <1>1, Apart DEF Stored, Holding, InFlight, Reserved
<1>3. Bytes(Stored) \in Nat
  BY <1>2, KeysFinite
<1>4. TypeOK'
  BY <1>0, <1>1, <1>2, <1>3 DEF TypeOK
<1>5. CountOK'
  <2>1. ASSUME overlapped' = {} PROVE Bytes(Stored) + Bytes(Holding) <= used' /\ overlapped = {}
    <3>1. Holding = {} /\ overlapped = {}
      BY <1>1, <2>1
    <3>2. Bytes(Holding) = 0
      BY <3>1, BytesNone
    <3> QED BY <1>1, <1>3, <3>1, <3>2
  <2> QED BY <1>0, <1>2, <2>1 DEF CountOK, InFlight
<1>6. UploadOK' /\ OutboxOK' /\ PurgedOK' /\ StoredOK'
  <2>1. overlapped \subseteq overlapped'
    BY <1>1
  <2> QED BY <1>0, <1>1, <1>2, <2>1, KeepUpload, KeepOutbox, KeepPurged, KeepStored
<1>7. IngestOK'
  BY <1>0, <1>1 DEF IngestOK
<1> QED BY <1>4, <1>5, <1>6, <1>7 DEF IInv

LEMMA CrashKeeps ==
  ASSUME IInv, Crash
  PROVE  IInv'
<1>0. TypeOK /\ UploadOK /\ CountOK /\ OutboxOK /\ IngestOK /\ PurgedOK /\ StoredOK
  BY DEF IInv
<1>1. /\ up' = [f \in Uploaded |-> IF up[f].pc = "new" THEN up[f] ELSE NoUpload]
      /\ removing' = Idle /\ editing' = {}
      /\ queue' = [id \in DOMAIN queue |-> [queue[id] EXCEPT !.pc = "wait"]]
      /\ ingest' = [f \in Inbound |-> [w \in Workers |-> "idle"]]
      /\ revoked' = [f \in Inbound |-> IF revoked[f] = "marked" THEN "done" ELSE revoked[f]]
      /\ UNCHANGED <<used, unit, row, objects, outbox, purges, job, connected, overlapped>>
  BY DEF Crash
<1>2. /\ up' \in [Uploaded -> Upload]
      /\ \A f \in Uploaded : \/ up'[f] = up[f] /\ up[f].pc = "new"
                             \/ up'[f].pc = "done" /\ up'[f].todo = << >>
  <2>1. up \in [Uploaded -> Upload]
    BY <1>0 DEF TypeOK, Upload, UploadPcs
  <2>2. NoUpload \in Upload /\ NoUpload.pc = "done" /\ NoUpload.todo = << >>
    BY TodoOnce DEF NoUpload, Upload, UploadPcs
  <2> QED BY <1>1, <2>1, <2>2
<1>3. /\ queue' \in [DOMAIN queue -> Job] /\ DOMAIN queue' = DOMAIN queue
      /\ \A id \in DOMAIN queue : queue'[id].pc = "wait"
  <2>1. ASSUME NEW id \in DOMAIN queue PROVE [queue[id] EXCEPT !.pc = "wait"] \in Job /\ [queue[id] EXCEPT !.pc = "wait"].pc = "wait"
    <3>1. queue[id] \in Job
      BY <1>0 DEF TypeOK, Job
    <3> QED BY <3>1 DEF Job
  <2> QED BY <1>1, <2>1
<1>4. TypeOK'
  <2>1. revoked' \in [Inbound -> {"no", "marked", "done"}]
    <3>1. revoked \in [Inbound -> {"no", "marked", "done"}]
      BY <1>0 DEF TypeOK
    <3> QED BY <1>1, <3>1
  <2>2. ingest' \in [Inbound -> [Workers -> IngestPcs]]
    BY <1>1 DEF IngestPcs
  <2> QED BY <1>0, <1>1, <1>2, <1>3, <2>1, <2>2 DEF TypeOK, Upload, UploadPcs, Job, IngestPcs
<1>5. UploadOK'
  <2>1. \A f \in Uploaded : f \notin Idle
    BY Apart DEF Idle, FileAssumption
  <2>2. ASSUME NEW f \in Uploaded
        PROVE  /\ Private(f)' => row'[f] = "none" /\ purges'[f] = 0 /\ f \notin editing' /\ f \notin removing'
               /\ up'[f].pc = "undo" <=> up'[f].todo # << >>
               /\ up'[f].pc = "thumb" => f \in Photos /\ <<f, "file">> \in objects'
               /\ up'[f].pc = "save" => Keys(f) \subseteq objects'
    <3>1. CASE up'[f] = up[f] /\ up[f].pc = "new"
      <4>1. row[f] = "none" /\ purges[f] = 0 /\ (up[f].pc = "undo" <=> up[f].todo # << >>)
        BY <1>0, <3>1 DEF UploadOK, Private
      <4>2. up[f].pc # "thumb" /\ up[f].pc # "save"
        BY <3>1
      <4>3. row'[f] = "none" /\ purges'[f] = 0 /\ f \notin editing' /\ f \notin removing'
        BY <1>1, <2>1, <4>1
      <4> QED BY <3>1, <4>1, <4>2, <4>3
    <3>2. CASE up'[f].pc = "done" /\ up'[f].todo = << >>
      BY <3>2 DEF Private
    <3> QED BY <1>2, <3>1, <3>2
  <2> QED BY <2>2 DEF UploadOK
<1>6. Stored' = Stored
  BY <1>1 DEF Stored
<1>7. CountOK'
  <2>1. Holding' = {} /\ InFlight' = {}
    <3>1. ASSUME NEW f \in Uploaded PROVE ~Reserved(f)' /\ up'[f].pc \notin {"put", "thumb", "save"}
      <4>1. up'[f].pc \in {"new", "done"} /\ up'[f].todo = << >>
        BY <1>0, <1>2, ZenonT(30) DEF UploadOK
      <4>2. up'[f].pc \notin {"put", "thumb", "save"}
        BY <4>1
      <4>3. ~Contains(up'[f].todo, "release")
        BY <4>1, TodoOnce
      <4> QED BY <4>2, <4>3 DEF Reserved
    <3> QED BY <3>1 DEF Holding, InFlight
  <2> QED BY <1>0, <1>1, <1>6, <2>1, CountGoesOn DEF TypeOK
<1>8. OutboxOK'
  <2>1. \A i \in DOMAIN outbox : outbox[i].status = "pending" => outbox[i].attempts < MaxAttempts
    BY <1>0 DEF OutboxOK
  <2> QED BY <1>0, <1>1, <1>3, <2>1, OutboxGoesOn
<1>9. IngestOK'
  BY <1>1 DEF IngestOK
<1>10. PurgedOK' /\ StoredOK'
  BY <1>0, <1>1, <1>6, KeepPurged, KeepStored
<1> QED BY <1>4, <1>5, <1>7, <1>8, <1>9, <1>10 DEF IInv

-----------------------------------------------------------------------------
LEMMA InitHolds == Init => IInv
<1> SUFFICES ASSUME Init PROVE IInv
  OBVIOUS
<1>1. PICK S \in Cases :
        /\ up = [f \in Uploaded |-> IF f \in S THEN [NoUpload EXCEPT !.pc = "new"] ELSE NoUpload]
        /\ row = [f \in Files |-> IF f \in S \cap Inbound THEN "pending" ELSE "none"]
        /\ job = [f \in Inbound |-> IF f \in S THEN [NoJob EXCEPT !.state = "queued"] ELSE NoJob]
  BY DEF Init
<1>2. /\ used = 0 /\ unit = "live" /\ removing = Idle
      /\ objects = {} /\ outbox = << >> /\ queue = << >> /\ purges = [f \in Files |-> 0]
      /\ editing = {} /\ overlapped = {} /\ connected = TRUE
      /\ ingest = [f \in Inbound |-> [w \in Workers |-> "idle"]] /\ revoked = [f \in Inbound |-> "no"]
  BY DEF Init
<1>3. /\ up \in [Uploaded -> Upload]
      /\ \A f \in Uploaded : up[f].pc \in {"new", "done"} /\ up[f].todo = << >>
  <2>1. NoUpload \in Upload /\ NoUpload.pc = "done" /\ NoUpload.todo = << >>
    BY TodoOnce DEF NoUpload, Upload, UploadPcs
  <2>2. PICK r : r = [NoUpload EXCEPT !.pc = "new"]
    OBVIOUS
  <2>3. r \in Upload /\ r.pc = "new" /\ r.todo = << >>
    BY <2>2, TodoOnce DEF NoUpload, Upload, UploadPcs
  <2>4. up = [f \in Uploaded |-> IF f \in S THEN r ELSE NoUpload]
    BY <1>1, <2>2
  <2> QED BY <2>1, <2>3, <2>4
<1>4. job \in [Inbound -> MediaJob]
  <2>1. 0 \in 0 .. MaxAttempts - 1
    OBVIOUS
  <2>2. NoJob \in MediaJob /\ [NoJob EXCEPT !.state = "queued"] \in MediaJob
    BY <2>1 DEF NoJob, MediaJob
  <2> QED BY <1>1, <2>2
<1>5. row \in [Files -> RowStates] /\ \A f \in Files : row[f] # "stored"
  BY <1>1 DEF RowStates
<1>6. \A f \in Uploaded : row[f] = "none"
  BY <1>1, Apart
<1>7. purges \in [Files -> 0 .. MaxPurges] /\ \A f \in Files : purges[f] = 0
  <2>1. 0 \in 0 .. MaxPurges
    OBVIOUS
  <2> QED BY <1>2, <2>1
<1>8. DOMAIN outbox = {} /\ DOMAIN queue = {} /\ outbox \in [DOMAIN outbox -> OutboxRow] /\ queue \in [DOMAIN queue -> Job]
  BY <1>2
<1>9. TypeOK
  <2>1. ingest \in [Inbound -> [Workers -> IngestPcs]] /\ revoked \in [Inbound -> {"no", "marked", "done"}]
    BY <1>2 DEF IngestPcs
  <2>2. used \in Nat /\ connected \in BOOLEAN /\ unit \in {"live", "gone"}
    BY <1>2
  <2> QED BY <1>2, <1>3, <1>4, <1>5, <1>7, <1>8, <2>1, <2>2
          DEF TypeOK, Upload, UploadPcs, MediaJob, RowStates, OutboxRow, Job, IngestPcs
<1>10. UploadOK
  <2>1. ASSUME NEW f \in Uploaded
        PROVE  /\ f \notin editing /\ f \notin removing /\ row[f] = "none" /\ purges[f] = 0
               /\ up[f].pc = "undo" <=> up[f].todo # << >>
               /\ up[f].pc # "thumb" /\ up[f].pc # "save"
    <3>1. f \in Files /\ f \notin Idle
      BY Apart DEF Idle, FileAssumption
    <3>2. up[f].pc \in {"new", "done"} /\ up[f].todo = << >>
      BY <1>3
    <3>3. (up[f].pc = "undo" <=> up[f].todo # << >>) /\ up[f].pc # "thumb" /\ up[f].pc # "save"
      BY <3>2
    <3> QED BY <1>2, <1>6, <1>7, <3>1, <3>3
  <2> QED BY <2>1 DEF UploadOK
<1>11. Stored = {}
  BY <1>5 DEF Stored
<1>12. CountOK
  <2>1. Holding = {} /\ InFlight = {}
    <3>1. ASSUME NEW f \in Uploaded PROVE ~Reserved(f) /\ up[f].pc \notin {"put", "thumb", "save"}
      <4>1. up[f].pc \in {"new", "done"} /\ up[f].todo = << >>
        BY <1>3
      <4>2. up[f].pc \notin {"put", "thumb", "save"}
        BY <4>1
      <4>3. ~Contains(up[f].todo, "release")
        BY <4>1, TodoOnce
      <4> QED BY <4>2, <4>3 DEF Reserved
    <3> QED BY <3>1 DEF Holding, InFlight
  <2>2. Stored \cap Uploaded = {}
    BY <1>11
  <2>3. Bytes(Stored) = 0 /\ Bytes(Holding) = 0 /\ Bytes(Stored \cap Uploaded) = 0 /\ Bytes(InFlight) = 0
    BY <1>11, <2>1, <2>2, BytesNone
  <2>4. \E q \in Quotas : q \in Nat
    OBVIOUS
  <2>5. Bytes(Stored) + Bytes(Holding) <= used
    BY <1>2, <2>3
  <2>6. \E q \in Quotas : Bytes(Stored \cap Uploaded) + Bytes(InFlight) <= q
    BY <2>3, <2>4
  <2> QED BY <2>5, <2>6 DEF CountOK, InFlight
<1>13. OutboxOK
  BY <1>8 DEF OutboxOK
<1>14. IngestOK
  BY <1>2 DEF IngestOK
<1>15. PurgedOK
  BY <1>7 DEF PurgedOK
<1>16. StoredOK
  BY <1>11 DEF StoredOK
<1> QED BY <1>9, <1>10, <1>12, <1>13, <1>14, <1>15, <1>16 DEF IInv

LEMMA StutterKeeps ==
  ASSUME IInv, UNCHANGED vars
  PROVE  IInv'
<1>1. TypeOK
  BY DEF IInv
<1>2. UNCHANGED <<used, unit, removing, editing, up, objects, outbox, queue, purges, ingest, overlapped, row, job, revoked, connected>>
  BY DEF vars, uploads, download, bucket
<1>3. /\ job' \in [Inbound -> MediaJob] /\ revoked' \in [Inbound -> {"no", "marked", "done"}] /\ connected' \in BOOLEAN
  BY <1>1, <1>2 DEF TypeOK, MediaJob
<1>4. Closing
  BY <1>1, <1>2, RowsStay
<1> QED BY <1>2, <1>3, <1>4, QuietRestKeeps

LEMMA StepKeeps == IInv /\ [Next]_vars => IInv'
<1> SUFFICES ASSUME IInv, [Next]_vars PROVE IInv'
  OBVIOUS
<1>1. ASSUME NEW f \in Uploaded, UploadStep(f) PROVE IInv'
  BY <1>1, ReserveKeeps, PutsKeep, SaveRowKeeps, UndoStepKeeps DEF UploadStep
<1>2. ASSUME NEW f \in Files, Delete(f) PROVE IInv'
  BY <1>2, DeleteKeeps
<1>3. ASSUME NEW f \in OnUnit, ReadForEdit(f) \/ SaveEdit(f) PROVE IInv'
  BY <1>3, EditsKeep
<1>4. ASSUME NEW f \in Inbound, Revoke(f) \/ RevokeMedia(f) PROVE IInv'
  BY <1>4, RevokesKeep
<1>5. ASSUME NEW f \in Inbound, NEW w \in Workers, IngestStep(f, w) PROVE IInv'
  BY <1>5, StartIngestKeeps, UploadInboundKeeps, FinishIngestKeeps, FinaliseKeeps DEF IngestStep
<1>6. ASSUME NEW id \in PurgeIds, PurgeStep(id) \/ Requeue(id) PROVE IInv'
  BY <1>6, PurgeObjectKeeps, PurgeRowKeeps, PurgeFailsKeeps, RequeueKeeps DEF PurgeStep
<1>7. CASE FindUnitFiles
  BY <1>7, FindUnitFilesKeeps
<1>8. CASE RemoveUnit
  BY <1>8, RemoveUnitKeeps
<1>9. CASE Disconnect \/ Reconnect
  BY <1>9, ConnectionKeeps
<1>10. CASE Reconcile
  BY <1>10, ReconcileKeeps
<1>11. CASE Crash
  BY <1>11, CrashKeeps
<1>12. CASE UNCHANGED vars
  BY <1>12, StutterKeeps
<1> QED BY <1>1, <1>2, <1>3, <1>4, <1>5, <1>6, <1>7, <1>8, <1>9, <1>10, <1>11, <1>12 DEF Next

(* The types, the bytes and what is known of each file hold in every state *)
(* the model reaches.                                                      *)
THEOREM FilesHold == Spec => []IInv
BY InitHolds, StepKeeps, PTL DEF Spec

(* Every stored byte and every reservation is counted, and uploads never   *)
(* pass every quota, whatever failed, as long as no two unordered steps    *)
(* meet on a file, no recount erases a reservation and no row that         *)
(* committed unheard is undone (reserveStorage, releaseStorage).           *)
THEOREM CounterSound == Spec => []CounterHolds
<1>1. IInv => CounterHolds
  <2> SUFFICES ASSUME IInv PROVE CounterHolds
    OBVIOUS
  <2>1. TypeOK /\ CountOK
    BY DEF IInv
  <2>2. ASSUME overlapped = {}
        PROVE  /\ Bytes(Stored) + Bytes(InFlight) <= used
               /\ \E q \in Quotas : Bytes(Stored \cap Uploaded) + Bytes(InFlight) <= q
    <3>1. /\ Bytes(Stored) + Bytes(Holding) <= used
          /\ \E q \in Quotas : Bytes(Stored \cap Uploaded) + Bytes(InFlight) <= q
      BY <2>1, <2>2 DEF CountOK, InFlight
    <3>2. InFlight \subseteq Holding /\ Holding \subseteq Files /\ Stored \subseteq Files
      BY Apart DEF InFlight, Holding, Reserved, Stored
    <3>3. Bytes(InFlight) <= Bytes(Holding) /\ Bytes(InFlight) \in Nat /\ Bytes(Holding) \in Nat
      BY <3>2, BytesMore
    <3>4. Bytes(Stored) \in Nat
      BY <3>2, KeysFinite
    <3>5. used \in Nat
      BY <2>1 DEF TypeOK
    <3>6. Bytes(Stored) + Bytes(InFlight) <= used
      BY <3>1, <3>3, <3>4, <3>5
    <3> QED BY <3>1, <3>6
  <2> QED BY <2>1, <2>2 DEF CounterHolds, UsageCovers, QuotaHolds, InFlight
<1> QED BY <1>1, FilesHold, PTL

(* A file its row offers is in the bucket, whatever was undone, revoked,   *)
(* purged again or lost in a crash (storage-purge, whatsapp-media-ingest), *)
(* except a file in overlapped: one an edit brought back, one that two     *)
(* runs of its job had at once, one whose row committed unheard and was    *)
(* undone, and one whose reservation a recount erased.                     *)
THEOREM StoredIsThere == Spec => []StoredHasFile
<1>1. IInv => StoredHasFile
  BY DEF IInv, StoredOK, StoredHasFile
<1> QED BY <1>1, FilesHold, PTL

(* Every object of a deleted file is gone or still has its outbox row.     *)
THEOREM PurgesTracked == Spec => []PurgedIsTracked
<1>1. IInv => PurgedIsTracked
  BY DEF IInv, PurgedOK, PurgedIsTracked
<1> QED BY <1>1, FilesHold, PTL
=============================================================================
