------------------------ MODULE PanelGateway_proofs ------------------------
(***************************************************************************)
(* Lemmas about the steps of PanelGateway, whoever calls it.  The modules  *)
(* that prove theorems about a specification built on the gateway cite     *)
(* them for the gateway's own steps and for starting and leaving a call.   *)
(***************************************************************************)
EXTENDS PanelGateway, TLAPS

-----------------------------------------------------------------------------
(* What the pure operators return.                                         *)

\* A grant computes an integer expiry from integers.
LEMMA CalculateExpiryType ==
    ASSUME NEW old \in Int, NEW days \in Nat, NEW clock \in Nat, NEW enabled \in BOOLEAN
    PROVE  CalculateExpiry(old, days, clock, enabled) \in Int
  BY DEF CalculateExpiry, IsUnlimited

\* A grant never moves an expiry back, whatever the clock it counts from.
LEMMA GrantNeverShortens ==
    ASSUME NEW old \in Int, NEW days \in Nat, NEW clock \in Nat, NEW enabled \in BOOLEAN
    PROVE  CalculateExpiry(old, days, clock, enabled) >= old
  BY DEF CalculateExpiry, IsUnlimited

\* apply() turns a client into a client.
LEMMA AppliedType ==
    ASSUME NEW r \in Request, r.kind \in Mutations, NEW c \in Client, NEW clock \in Nat
    PROVE  Applied(r, c, clock) \in Client
  <1>1. c.expiry \in Int /\ c.enable \in BOOLEAN /\ r.arg \in Nat
    BY DEF Client, Request
  <1>2. CalculateExpiry(c.expiry, r.arg, clock, c.enable) \in Int
    BY <1>1, CalculateExpiryType
  <1>3. CASE r.kind = "set_enabled"
    BY <1>1, <1>3 DEF Applied, Client
  <1>4. CASE r.kind = "set_expiry_ms"
    BY <1>1, <1>4 DEF Applied, Client
  <1>5. CASE r.kind = "set_limits"
    BY <1>1, <1>5 DEF Applied, Client
  <1>6. CASE r.kind = "regenerate_sub_id"
    BY <1>1, <1>6 DEF Applied, Client
  <1>7. CASE r.kind = "grant_days"
    BY <1>1, <1>2, <1>7 DEF Applied, Client
  <1>8. QED
    BY <1>3, <1>4, <1>5, <1>6, <1>7 DEF Mutations

\* The client ensure_client adds is one.
LEMMA NewClientType ==
    ASSUME NEW r \in Request, NEW clock \in Nat
    PROVE  NewClient(r, clock) \in Client
  BY DEF NewClient, Client, Request

\* A snapshot gives a client or none for each user.
LEMMA SnapshotType ==
    ASSUME NEW s \in Snapshot, NEW u \in Users
    PROVE  s[u] \in Client \cup {NoClient}
  BY DEF Snapshot

\* Changing one entry of a snapshot leaves a snapshot.
LEMMA SnapshotExcept ==
    ASSUME NEW s \in Snapshot, NEW u \in Users, NEW c \in Client \cup {NoClient}
    PROVE  [s EXCEPT ![u] = c] \in Snapshot
  BY DEF Snapshot

-----------------------------------------------------------------------------
(* Type correctness.                                                       *)

USE DEF InFlight, Locked, Stages

\* The first state of the gateway is type correct.
LEMMA InitType ==
    ASSUME NEW clients \in Snapshot, NEW clock \in Nat, PanelInit(clients, clock)
    PROVE  PanelTypeOK
  BY DEF PanelInit, PanelTypeOK, CallTypeOK

\* Starting a read, from any moment at which the task is not inside a call.
LEMMA BeginGetType ==
    ASSUME PanelTypeOK, NEW t \in Tasks, NEW u \in Users,
           stage[t] \in {"idle", "done", "failed"}, BeginGet(t, u)
    PROVE  PanelTypeOK'
  <1> DEFINE r == [kind |-> "get_client", user |-> u, arg |-> 0]
  <1>1. r \in Request /\ r # NoRequest
    BY PanelAssumption DEF Request
  <1>2. CASE cache = NoCache
    BY <1>1, <1>2 DEF BeginGet, PanelTypeOK, CallTypeOK
  <1>3. CASE cache # NoCache
    <2>1. cache \in Snapshot
      BY <1>3 DEF PanelTypeOK
    <2>2. cache[u] \in Client \cup {NoClient}
      BY <2>1, SnapshotType
    <2>3. QED
      BY <1>1, <1>3, <2>2 DEF BeginGet, PanelTypeOK, CallTypeOK
  <1>4. QED
    BY <1>2, <1>3

\* Queueing for the lock.
LEMMA BeginWriteType ==
    ASSUME PanelTypeOK, NEW t \in Tasks, NEW r \in Request, r.kind \in Writes,
           stage[t] \in {"idle", "done", "failed"}, BeginWrite(t, r)
    PROVE  PanelTypeOK'
  <1>1. r # NoRequest
    BY PanelAssumption
  <1>2. QED
    BY <1>1 DEF BeginWrite, PanelTypeOK, CallTypeOK

\* Leaving a call.
LEMMA EndCallType ==
    ASSUME PanelTypeOK, NEW t \in Tasks,
           stage[t] \in {"idle", "done", "failed"}, EndCall(t)
    PROVE  PanelTypeOK'
  BY DEF EndCall, PanelTypeOK, CallTypeOK

\* Reaching the next stage of a call whose request allows it.
LEMMA GotoType ==
    ASSUME PanelTypeOK, NEW t \in Tasks, NEW s, NEW c \in Client \cup {NoClient},
           s \in {"read", "add", "write", "verify", "done", "failed"},
           request[t] # NoRequest,
           s \in Locked => request[t].kind \in Writes,
           s = "add" => request[t].kind = "ensure_client",
           s \in {"add", "write", "verify"} => c \in Client,
           s = "read" => c = NoClient,
           cache' \in Snapshot \cup {NoCache}, queue' \in Seq(Tasks),
           Goto(t, s, c)
    PROVE  PanelTypeOK'
  BY DEF Goto, PanelTypeOK, CallTypeOK

\* A task that is inside a call has a request.
LEMMA CallHasRequest ==
    ASSUME PanelTypeOK, NEW t \in Tasks, stage[t] # "idle"
    PROVE  request[t] # NoRequest /\ request[t] \in Request
  BY DEF PanelTypeOK, CallTypeOK, Stages

\* A read that was answered holds a snapshot, and a client or none in it.
LEMMA AnswerIsSnapshot ==
    ASSUME PanelTypeOK, NEW t \in Tasks, stage[t] \in {"fetch", "read", "verify"},
           answer[t] # NoAnswer
    PROVE  answer[t] \in Snapshot /\ Found(t) \in Client \cup {NoClient}
  <1>1. answer[t] \in Snapshot
    BY DEF PanelTypeOK, CallTypeOK
  <1>2. request[t].user \in Users
    BY CallHasRequest DEF Request
  <1>3. QED
    BY <1>1, <1>2, SnapshotType DEF Found

\* Releasing the lock leaves a queue of tasks, when someone holds it.
LEMMA ReleaseType ==
    ASSUME PanelTypeOK, queue # <<>>, Release
    PROVE  queue' \in Seq(Tasks)
  BY DEF PanelTypeOK, Release

\* What a write sends the panel is an effect.
LEMMA EffectType ==
    ASSUME PanelTypeOK, NEW t \in Tasks, Unanswered(t)
    PROVE  EffectOf(t) \in Effect
  <1>1. object[t] \in Client
    BY DEF Unanswered, PanelTypeOK, CallTypeOK
  <1>2. request[t].user \in Users
    BY CallHasRequest DEF Unanswered, Request
  <1>3. QED
    BY <1>1, <1>2 DEF EffectOf, Effect

\* A write leaves a snapshot behind.
LEMMA AfterType ==
    ASSUME PanelTypeOK, NEW e \in Effect
    PROVE  After(e) \in Snapshot
  <1> DEFINE c == CASE e.kind = "add"    -> [e.client EXCEPT !.enable = TRUE]
                    [] e.kind = "update" -> e.client
                    [] e.kind = "delete" -> NoClient
                    [] e.kind = "reset"  -> panel[e.user]
  <1>1. panel \in Snapshot /\ e.user \in Users /\ e.client \in Client
        /\ e.kind \in {"add", "update", "delete", "reset"}
    BY DEF PanelTypeOK, Effect
  <1>2. panel[e.user] \in Client \cup {NoClient}
    BY <1>1, SnapshotType
  <1>3. [e.client EXCEPT !.enable = TRUE] \in Client
    BY <1>1 DEF Client
  <1>4. c \in Client \cup {NoClient}
    BY <1>1, <1>2, <1>3
  <1> HIDE DEF c
  <1>5. [panel EXCEPT ![e.user] = c] \in Snapshot
    BY <1>1, <1>4, SnapshotExcept
  <1>6. QED
    BY <1>5 DEF After, c

\* The panel answers a read.
LEMMA PanelAnswersType ==
    ASSUME PanelTypeOK, NEW t \in Tasks, PanelAnswers(t)
    PROVE  PanelTypeOK'
  BY DEF PanelAnswers, PanelTypeOK, CallTypeOK

\* The panel carries out a write.
LEMMA PanelCommitsType ==
    ASSUME PanelTypeOK, NEW t \in Tasks, PanelCommits(t)
    PROVE  PanelTypeOK'
  <1>1. panel' \in Snapshot
    BY EffectType, AfterType DEF PanelCommits
  <1>2. QED
    BY <1>1 DEF PanelCommits, Unanswered, PanelTypeOK, CallTypeOK

\* The panel carries out a write nobody waits for any more.
LEMMA LateWriteLandsType ==
    ASSUME PanelTypeOK, NEW e \in late, LateWriteLands(e)
    PROVE  PanelTypeOK'
  <1>1. e \in Effect
    BY DEF PanelTypeOK
  <1>2. panel' \in Snapshot
    BY <1>1, AfterType DEF LateWriteLands, PanelTypeOK
  <1>3. QED
    BY <1>2 DEF LateWriteLands, PanelTypeOK, CallTypeOK

\* Who holds the lock is in the queue, so releasing it is possible.
LEMMA HolderQueues ==
    ASSUME LockInv, NEW t \in Tasks, stage[t] \in Locked
    PROVE  queue # <<>>
  BY DEF LockInv

\* What is known once the locked read was answered.
LEMMA ReadDoneType ==
    ASSUME PanelTypeOK, LockInv, NEW t \in Tasks, ReadDone(t)
    PROVE  /\ request[t] # NoRequest /\ request[t] \in Request
           /\ request[t].kind \in Writes /\ request[t].user \in Users
           /\ answer[t] \in Snapshot /\ Found(t) \in Client \cup {NoClient}
           /\ queue # <<>>
  <1>1. stage[t] = "read" /\ answer[t] # NoAnswer
    BY DEF ReadDone
  <1>2. request[t] # NoRequest /\ request[t] \in Request /\ request[t].user \in Users
    BY <1>1, CallHasRequest DEF Request
  <1>3. request[t].kind \in Writes
    BY <1>1 DEF PanelTypeOK, CallTypeOK
  <1>4. QED
    BY <1>1, <1>2, <1>3, AnswerIsSnapshot, HolderQueues

\* An unlocked read ends.
LEMMA FetchResumesType ==
    ASSUME PanelTypeOK, NEW t \in Tasks, FetchResumes(t)
    PROVE  PanelTypeOK'
  <1> DEFINE c == Found(t)
  <1>1. answer[t] \in Snapshot /\ c \in Client \cup {NoClient}
    BY AnswerIsSnapshot DEF FetchResumes
  <1>2. request[t] # NoRequest
    BY CallHasRequest DEF FetchResumes
  <1>3. Goto(t, "done", c) /\ cache' = answer[t] /\ queue' = queue
    BY DEF FetchResumes, Found
  <1>4. cache' \in Snapshot \cup {NoCache} /\ queue' \in Seq(Tasks)
    BY <1>1, <1>3 DEF PanelTypeOK
  <1> HIDE DEF c
  <1>5. QED
    BY <1>1, <1>2, <1>3, <1>4, GotoType

\* The lock is taken.
LEMMA AcquireType ==
    ASSUME PanelTypeOK, NEW t \in Tasks, Acquire(t)
    PROVE  PanelTypeOK'
  <1>1. stage[t] = "wait" /\ Goto(t, "read", NoClient) /\ cache' = cache /\ queue' = queue
    BY DEF Acquire
  <1>2. request[t] # NoRequest
    BY <1>1, CallHasRequest
  <1>3. request[t].kind \in Writes
    BY <1>1 DEF PanelTypeOK, CallTypeOK
  <1>4. cache' \in Snapshot \cup {NoCache} /\ queue' \in Seq(Tasks)
    BY <1>1 DEF PanelTypeOK
  <1>5. QED
    BY <1>1, <1>2, <1>3, <1>4, GotoType

\* The steps that follow the locked read.
LEMMA ReadResumesType ==
    ASSUME PanelTypeOK, LockInv, NEW t \in Tasks,
           ClientMissing(t) \/ NothingToWrite(t) \/ MutationApplies(t)
           \/ ClientRouteCalled(t) \/ EnsureAdds(t)
    PROVE  PanelTypeOK'
  <1>1. ReadDone(t)
    BY DEF ClientMissing, NothingToWrite, MutationApplies, ClientRouteCalled, EnsureAdds
  <1>2. /\ request[t] # NoRequest /\ request[t] \in Request
        /\ request[t].kind \in Writes /\ request[t].user \in Users
        /\ answer[t] \in Snapshot /\ Found(t) \in Client \cup {NoClient}
        /\ queue # <<>> /\ queue \in Seq(Tasks)
    BY <1>1, ReadDoneType DEF PanelTypeOK
  <1>3. CASE ClientMissing(t)
    <2>1. Goto(t, "failed", NoClient) /\ cache' = answer[t] /\ Release
      BY <1>3 DEF ClientMissing
    <2>2. QED
      BY <1>2, <2>1, GotoType, ReleaseType
  <1>4. CASE NothingToWrite(t)
    <2>1. Goto(t, "done", Found(t)) /\ cache' = answer[t] /\ Release
      BY <1>4 DEF NothingToWrite
    <2>2. QED
      BY <1>2, <2>1, GotoType, ReleaseType
  <1>5. CASE MutationApplies(t)
    <2> DEFINE c == Applied(request[t], Found(t), now)
    <2>1. Goto(t, "write", c) /\ queue' = queue /\ Found(t) # NoClient
          /\ request[t].kind \in Mutations
          /\ cache' = [answer[t] EXCEPT ![request[t].user] = c]
      BY <1>5 DEF MutationApplies
    <2>2. now \in Nat
      BY DEF PanelTypeOK
    <2>3. c \in Client
      BY <1>2, <2>1, <2>2, AppliedType
    <2> HIDE DEF c
    <2>4. cache' \in Snapshot
      BY <1>2, <2>1, <2>3, SnapshotExcept
    <2>5. QED
      BY <1>2, <2>1, <2>3, <2>4, GotoType
  <1>6. CASE ClientRouteCalled(t)
    <2>1. Goto(t, "write", Found(t)) /\ cache' = answer[t] /\ queue' = queue
          /\ Found(t) \in Client
      BY <1>2, <1>6 DEF ClientRouteCalled
    <2>2. QED
      BY <1>2, <2>1, GotoType
  <1>7. CASE EnsureAdds(t)
    <2> DEFINE c == NewClient(request[t], now)
    <2>1. Goto(t, "add", c) /\ cache' = answer[t] /\ queue' = queue
          /\ request[t].kind = "ensure_client"
      BY <1>7 DEF EnsureAdds
    <2>2. c \in Client
      BY <1>2, NewClientType DEF PanelTypeOK
    <2> HIDE DEF c
    <2>3. QED
      BY <1>2, <2>1, <2>2, GotoType
  <1>8. QED
    BY <1>3, <1>4, <1>5, <1>6, <1>7

\* The steps that follow a write and the verifying read.
LEMMA WriteResumesType ==
    ASSUME PanelTypeOK, LockInv, NEW t \in Tasks,
           EnsureUpdates(t) \/ WriteResumes(t) \/ VerifyResumes(t)
    PROVE  PanelTypeOK'
  <1>1. stage[t] \in {"add", "write", "verify"} /\ answer[t] # NoAnswer
    BY DEF EnsureUpdates, WriteResumes, VerifyResumes
  <1>2. request[t] # NoRequest /\ request[t].kind \in Writes /\ object[t] \in Client
        /\ cache \in Snapshot \cup {NoCache} /\ queue \in Seq(Tasks)
    BY <1>1, CallHasRequest DEF PanelTypeOK, CallTypeOK
  <1>3. CASE EnsureUpdates(t)
    <2>1. Goto(t, "write", object[t]) /\ cache' = cache /\ queue' = queue
      BY <1>3 DEF EnsureUpdates
    <2>2. QED
      BY <1>2, <2>1, GotoType
  <1>4. CASE WriteResumes(t)
    <2>1. Goto(t, "verify", object[t]) /\ cache' = NoCache /\ queue' = queue
      BY <1>4 DEF WriteResumes
    <2>2. QED
      BY <1>2, <2>1, GotoType
  <1>5. CASE VerifyResumes(t)
    <2>1. stage[t] = "verify" /\ cache' = answer[t] /\ Release
          /\ (Goto(t, "done", Found(t)) \/ Goto(t, "failed", NoClient))
      BY <1>5 DEF VerifyResumes
    <2>2. answer[t] \in Snapshot /\ Found(t) \in Client \cup {NoClient}
      BY <1>1, <2>1, AnswerIsSnapshot
    <2>3. queue' \in Seq(Tasks)
      BY <2>1, HolderQueues, ReleaseType
    <2>4. CASE Goto(t, "done", Found(t))
      BY <1>2, <2>1, <2>2, <2>3, <2>4, GotoType
    <2>5. CASE Goto(t, "failed", NoClient)
      BY <1>2, <2>1, <2>2, <2>3, <2>5, GotoType
    <2>6. QED
      BY <2>1, <2>4, <2>5
  <1>6. QED
    BY <1>3, <1>4, <1>5

\* A request fails.
LEMMA RequestFailsType ==
    ASSUME PanelTypeOK, LockInv, NEW t \in Tasks, RequestFails(t)
    PROVE  PanelTypeOK'
  <1>1. stage[t] \in InFlight
    BY PanelAssumption DEF RequestFails
  <1>2. queue' \in Seq(Tasks)
    <2>1. CASE stage[t] \in Locked
      BY <2>1, HolderQueues, ReleaseType DEF RequestFails
    <2>2. CASE stage[t] \notin Locked
      BY <2>2 DEF RequestFails, PanelTypeOK
    <2>3. QED
      BY <2>1, <2>2
  <1>3. late' \subseteq Effect
    BY EffectType DEF RequestFails, PanelTypeOK
  <1>4. request[t] # NoRequest
    BY <1>1, CallHasRequest
  <1>5. QED
    BY <1>1, <1>2, <1>3, <1>4 DEF RequestFails, PanelTypeOK, CallTypeOK

\* The cache grows too old.
LEMMA CacheExpiresType ==
    ASSUME PanelTypeOK, CacheExpires
    PROVE  PanelTypeOK'
  BY DEF CacheExpires, PanelTypeOK, CallTypeOK

\* Every step of the gateway preserves the types, given the lock's invariant.
LEMMA GatewayStepType ==
    ASSUME PanelTypeOK, LockInv, GatewayStep
    PROVE  PanelTypeOK'
  <1>1. ASSUME NEW t \in Tasks, Resumes(t)
        PROVE  PanelTypeOK'
    BY <1>1, FetchResumesType, AcquireType, ReadResumesType, WriteResumesType DEF Resumes
  <1>2. QED
    BY <1>1, PanelAnswersType, PanelCommitsType, LateWriteLandsType,
       RequestFailsType, CacheExpiresType DEF GatewayStep

-----------------------------------------------------------------------------
(* The lock.                                                               *)

\* Nobody holds the lock or waits for it at first.
LEMMA InitLock ==
    ASSUME NEW clients, NEW clock, PanelInit(clients, clock)
    PROVE  LockInv
  BY DEF PanelInit, LockInv

\* The holder moves on, or the head of the queue becomes the holder.
LEMMA LockKept ==
    ASSUME PanelTypeOK, LockInv, NEW t \in Tasks, NEW s, s \in Locked,
           stage[t] \notin Locked => stage[t] = "wait" /\ Head(queue) = t,
           stage' = [stage EXCEPT ![t] = s], queue' = queue
    PROVE  LockInv'
  <1>1. queue # <<>> /\ Head(queue) = t
    BY DEF LockInv, PanelTypeOK
  <1>2. QED
    BY <1>1 DEF LockInv, PanelTypeOK

\* A task that has nothing to do with the lock moves on.
LEMMA LockUntouched ==
    ASSUME PanelTypeOK, LockInv, NEW t \in Tasks, NEW s,
           stage[t] \notin Locked \cup {"wait"}, s \notin Locked \cup {"wait"},
           stage' = [stage EXCEPT ![t] = s], queue' = queue
    PROVE  LockInv'
  BY DEF LockInv, PanelTypeOK

\* The holder leaves, and the next in the queue may become the holder.
LEMMA LockReleased ==
    ASSUME PanelTypeOK, LockInv, NEW t \in Tasks, NEW s,
           stage[t] \in Locked, s \notin Locked \cup {"wait"},
           stage' = [stage EXCEPT ![t] = s], Release
    PROVE  LockInv'
  <1>1. /\ queue \in Seq(Tasks) /\ queue # <<>> /\ queue[1] = t
        /\ stage \in [Tasks -> Stages]
    BY DEF LockInv, PanelTypeOK
  <1>2. /\ queue' = Tail(queue) /\ Len(queue') = Len(queue) - 1
        /\ \A i \in 1..Len(queue') : queue'[i] = queue[i + 1]
    BY <1>1 DEF Release
  <1>3. \A x \in Tasks : stage'[x] \notin Locked
    BY <1>1 DEF LockInv
  <1>4. ASSUME NEW x \in Tasks
        PROVE  stage'[x] \in Locked \cup {"wait"}
                  <=> \E i \in 1..Len(queue') : queue'[i] = x
    <2>1. CASE x = t
      <3>1. stage'[x] = s
        BY <1>1, <2>1
      <3>2. ASSUME NEW i \in 1..Len(queue'), queue'[i] = t
            PROVE  FALSE
        <4>1. i + 1 \in 1..Len(queue) /\ 1 \in 1..Len(queue)
              /\ queue[i + 1] = queue[1] /\ i + 1 # 1
          BY <1>1, <1>2, <3>2
        <4>2. QED
          BY <4>1 DEF LockInv
      <3>3. QED
        BY <2>1, <3>1, <3>2
    <2>2. CASE x # t
      <3>1. stage'[x] = stage[x]
        BY <1>1, <2>2
      <3>2. ASSUME NEW i \in 1..Len(queue), queue[i] = x
            PROVE  \E j \in 1..Len(queue') : queue'[j] = x
        <4>1. i # 1
          BY <1>1, <2>2, <3>2
        <4>2. i - 1 \in 1..Len(queue') /\ queue'[i - 1] = x
          BY <1>1, <1>2, <3>2, <4>1
        <4>3. QED
          BY <4>2
      <3>3. ASSUME NEW j \in 1..Len(queue'), queue'[j] = x
            PROVE  \E i \in 1..Len(queue) : queue[i] = x
        <4>1. j + 1 \in 1..Len(queue) /\ queue[j + 1] = x
          BY <1>1, <1>2, <3>3
        <4>2. QED
          BY <4>1
      <3>4. QED
        BY <3>1, <3>2, <3>3 DEF LockInv
    <2>3. QED
      BY <2>1, <2>2
  <1>5. ASSUME NEW i \in 1..Len(queue'), NEW j \in 1..Len(queue'), queue'[i] = queue'[j]
        PROVE  i = j
    <2>1. i + 1 \in 1..Len(queue) /\ j + 1 \in 1..Len(queue)
          /\ queue[i + 1] = queue[j + 1]
      BY <1>1, <1>2, <1>5
    <2>2. i + 1 = j + 1
      BY <2>1 DEF LockInv
    <2>3. QED
      BY <1>1, <1>2, <2>2
  <1>6. QED
    BY <1>3, <1>4, <1>5 DEF LockInv

\* A task that is not in the queue joins its end.
LEMMA BeginWriteLock ==
    ASSUME PanelTypeOK, LockInv, NEW t \in Tasks, NEW r,
           stage[t] \in {"idle", "done", "failed"}, BeginWrite(t, r)
    PROVE  LockInv'
  <1>1. /\ queue \in Seq(Tasks) /\ stage \in [Tasks -> Stages]
        /\ stage' = [stage EXCEPT ![t] = "wait"] /\ queue' = Append(queue, t)
    BY DEF BeginWrite, PanelTypeOK
  <1>2. /\ Len(queue') = Len(queue) + 1 /\ queue'[Len(queue) + 1] = t
        /\ \A i \in 1..Len(queue) : queue'[i] = queue[i] /\ queue[i] # t
    BY <1>1 DEF LockInv
  <1>3. ASSUME NEW x \in Tasks, stage'[x] \in Locked
        PROVE  queue' # <<>> /\ Head(queue') = x
    <2>1. x # t /\ stage[x] \in Locked
      BY <1>1, <1>3
    <2>2. queue # <<>> /\ Head(queue) = x
      BY <2>1 DEF LockInv
    <2>3. QED
      BY <1>1, <1>2, <2>2
  <1>4. ASSUME NEW x \in Tasks
        PROVE  stage'[x] \in Locked \cup {"wait"}
                  <=> \E i \in 1..Len(queue') : queue'[i] = x
    <2>1. CASE x = t
      BY <1>1, <1>2, <2>1
    <2>2. CASE x # t
      <3>1. stage'[x] = stage[x]
        BY <1>1, <2>2
      <3>2. (\E i \in 1..Len(queue') : queue'[i] = x)
              <=> (\E i \in 1..Len(queue) : queue[i] = x)
        BY <1>1, <1>2, <2>2
      <3>3. QED
        BY <3>1, <3>2 DEF LockInv
    <2>3. QED
      BY <2>1, <2>2
  <1>5. ASSUME NEW i \in 1..Len(queue'), NEW j \in 1..Len(queue'), queue'[i] = queue'[j]
        PROVE  i = j
    BY <1>1, <1>2, <1>5 DEF LockInv
  <1>6. QED
    BY <1>3, <1>4, <1>5 DEF LockInv

\* Reads and the end of a call leave the lock alone.
LEMMA UnlockedCallsLock ==
    ASSUME PanelTypeOK, LockInv, NEW t \in Tasks,
           stage[t] \in {"idle", "done", "failed"},
           EndCall(t) \/ \E u \in Users : BeginGet(t, u)
    PROVE  LockInv'
  <1>1. PICK s \in {"idle", "fetch", "done"} :
           stage' = [stage EXCEPT ![t] = s] /\ queue' = queue
    BY DEF EndCall, BeginGet
  <1>2. QED
    BY <1>1, LockUntouched

\* Every step of the gateway preserves the lock's invariant.
LEMMA GatewayStepLock ==
    ASSUME PanelTypeOK, LockInv, GatewayStep
    PROVE  LockInv'
  <1>1. ASSUME NEW t \in Tasks, PanelAnswers(t) \/ PanelCommits(t)
        PROVE  LockInv'
    BY <1>1 DEF PanelAnswers, PanelCommits, LockInv
  <1>2. ASSUME NEW t \in Tasks, FetchResumes(t)
        PROVE  LockInv'
    BY <1>2, LockUntouched DEF FetchResumes, Goto
  <1>3. ASSUME NEW t \in Tasks, Acquire(t)
        PROVE  LockInv'
    BY <1>3, LockKept DEF Acquire, Goto
  <1>4. ASSUME NEW t \in Tasks, ClientMissing(t) \/ NothingToWrite(t)
        PROVE  LockInv'
    BY <1>4, LockReleased DEF ClientMissing, NothingToWrite, ReadDone, Goto
  <1>5. ASSUME NEW t \in Tasks,
               MutationApplies(t) \/ ClientRouteCalled(t) \/ EnsureAdds(t)
        PROVE  LockInv'
    <2>1. PICK s \in {"write", "add"} :
             stage[t] = "read" /\ stage' = [stage EXCEPT ![t] = s] /\ queue' = queue
      BY <1>5 DEF MutationApplies, ClientRouteCalled, EnsureAdds, ReadDone, Goto
    <2>2. s \in Locked /\ stage[t] \in Locked
      BY <2>1
    <2>3. QED
      BY <2>1, <2>2, LockKept
  <1>6. ASSUME NEW t \in Tasks, EnsureUpdates(t) \/ WriteResumes(t)
        PROVE  LockInv'
    <2>1. PICK s \in {"write", "verify"} :
             stage[t] \in {"add", "write"} /\ stage' = [stage EXCEPT ![t] = s]
             /\ queue' = queue
      BY <1>6 DEF EnsureUpdates, WriteResumes, Goto
    <2>2. s \in Locked /\ stage[t] \in Locked
      BY <2>1
    <2>3. QED
      BY <2>1, <2>2, LockKept
  <1>7. ASSUME NEW t \in Tasks, VerifyResumes(t)
        PROVE  LockInv'
    <2>1. PICK s \in {"done", "failed"} :
             stage[t] = "verify" /\ stage' = [stage EXCEPT ![t] = s] /\ Release
      BY <1>7 DEF VerifyResumes, Goto
    <2>2. QED
      BY <2>1, LockReleased
  <1>8. ASSUME NEW t \in Tasks, RequestFails(t)
        PROVE  LockInv'
    <2>1. stage[t] \in InFlight /\ stage' = [stage EXCEPT ![t] = "failed"]
      BY <1>8, PanelAssumption DEF RequestFails
    <2>2. CASE stage[t] \in Locked
      BY <1>8, <2>1, <2>2, LockReleased DEF RequestFails
    <2>3. CASE stage[t] \notin Locked
      BY <1>8, <2>1, <2>3, LockUntouched DEF RequestFails
    <2>4. QED
      BY <2>2, <2>3
  <1>9. CASE CacheExpires \/ \E e \in late : LateWriteLands(e)
    BY <1>9 DEF CacheExpires, LateWriteLands, LockInv
  <1>10. QED
    BY <1>1, <1>2, <1>3, <1>4, <1>5, <1>6, <1>7, <1>8, <1>9 DEF GatewayStep, Resumes

-----------------------------------------------------------------------------
(* Calls.                                                                  *)

\* The gateway neither starts nor ends a call.
LEMMA GatewayStepStages ==
    ASSUME PanelTypeOK, GatewayStep, NEW t \in Tasks
    PROVE  stage'[t] = "idle" <=> stage[t] = "idle"
  <1>1. ASSUME NEW x \in Tasks, NEW s \in Stages, NEW c, Goto(x, s, c),
               s # "idle", stage[x] # "idle"
        PROVE  stage'[t] = "idle" <=> stage[t] = "idle"
    BY <1>1 DEF Goto, PanelTypeOK
  <1>2. ASSUME NEW x \in Tasks, Resumes(x)
        PROVE  stage'[t] = "idle" <=> stage[t] = "idle"
    BY <1>1, <1>2 DEF Resumes, FetchResumes, Acquire, ClientMissing, NothingToWrite,
       MutationApplies, ClientRouteCalled, EnsureAdds, EnsureUpdates, WriteResumes,
       VerifyResumes, ReadDone
  <1>3. ASSUME NEW x \in Tasks, RequestFails(x)
        PROVE  stage'[t] = "idle" <=> stage[t] = "idle"
    BY <1>3, PanelAssumption DEF RequestFails, PanelTypeOK
  <1>4. CASE UNCHANGED stage
    BY <1>4
  <1>5. QED
    BY <1>2, <1>3, <1>4 DEF GatewayStep, PanelAnswers, PanelCommits, LateWriteLands,
       CacheExpires

\* Nor does it change what was asked for, or the clock.
LEMMA GatewayStepKeepsRequests ==
    ASSUME GatewayStep
    PROVE  UNCHANGED <<request, now>>
  BY DEF GatewayStep, PanelAnswers, PanelCommits, Resumes, FetchResumes, Acquire,
     ClientMissing, NothingToWrite, MutationApplies, ClientRouteCalled, EnsureAdds,
     EnsureUpdates, WriteResumes, VerifyResumes, RequestFails, LateWriteLands,
     CacheExpires, Goto

\* What a task does to its own call preserves the types and the lock, and is
\* nobody else's business.
LEMMA CallStep ==
    ASSUME PanelTypeOK, LockInv, NEW t \in Tasks, stage[t] \in {"idle", "done", "failed"},
           \/ EndCall(t)
           \/ \E u \in Users : BeginGet(t, u)
           \/ \E r \in Request : r.kind \in Writes /\ BeginWrite(t, r)
    PROVE  /\ PanelTypeOK' /\ LockInv' /\ UNCHANGED <<panel, cache, answer, late, now>>
           /\ \A x \in Tasks : x # t => /\ stage'[x] = stage[x] /\ request'[x] = request[x]
                                        /\ object'[x] = object[x]
  <1>1. /\ stage \in [Tasks -> Stages]
        /\ request \in [Tasks -> Request \cup {NoRequest}]
        /\ object \in [Tasks -> Client \cup {NoClient}]
    BY DEF PanelTypeOK
  <1>2. CASE EndCall(t)
    BY <1>1, <1>2, EndCallType, UnlockedCallsLock DEF EndCall
  <1>3. ASSUME NEW u \in Users, BeginGet(t, u)
        PROVE  /\ PanelTypeOK' /\ LockInv' /\ UNCHANGED <<panel, cache, answer, late, now>>
               /\ \A x \in Tasks : x # t => /\ stage'[x] = stage[x] /\ request'[x] = request[x]
                                            /\ object'[x] = object[x]
    BY <1>1, <1>3, BeginGetType, UnlockedCallsLock DEF BeginGet
  <1>4. ASSUME NEW r \in Request, r.kind \in Writes, BeginWrite(t, r)
        PROVE  /\ PanelTypeOK' /\ LockInv' /\ UNCHANGED <<panel, cache, answer, late, now>>
               /\ \A x \in Tasks : x # t => /\ stage'[x] = stage[x] /\ request'[x] = request[x]
                                            /\ object'[x] = object[x]
    <2>1. PanelTypeOK' /\ LockInv'
      BY <1>4, BeginWriteType, BeginWriteLock
    <2>2. QED
      BY <1>1, <1>4, <2>1 DEF BeginWrite
  <1>5. QED
    BY <1>2, <1>3, <1>4

-----------------------------------------------------------------------------
(* No lost update and no silent success: the gateway's own steps.          *)

\* No write is abandoned, and the clock has started.
Quiet == late = {} /\ now > 0

\* Two tasks never hold the lock together.
LEMMA OneHolder ==
    ASSUME LockInv, NEW t \in Tasks, NEW x \in Tasks,
           stage[t] \in Locked, stage[x] \in Locked
    PROVE  t = x
  BY DEF LockInv

\* A task moves to its next stage, and if that is the sending of a mutation
\* then the object it holds is the panel's client with the change applied.
LEMMA GotoCurrent ==
    ASSUME PanelTypeOK, ReadIsCurrent, NoLostUpdate, NEW t \in Tasks, NEW s, NEW c,
           Goto(t, s, c),
           s = "write" /\ request[t].kind \in Mutations
           => /\ panel[request[t].user] # NoClient
              /\ \E clock \in 0..now :
                   c = Applied(request[t], panel[request[t].user], clock)
    PROVE  ReadIsCurrent' /\ NoLostUpdate'
  BY DEF Goto, ReadIsCurrent, NoLostUpdate, PanelTypeOK

\* A step of the gateway keeps what was read current and loses no update.
LEMMA GatewayStepCurrent ==
    ASSUME ~LateWrites, PanelTypeOK, LockInv, Quiet, ReadIsCurrent, NoLostUpdate,
           GatewayStep
    PROVE  Quiet' /\ ReadIsCurrent' /\ NoLostUpdate'
  <1>1. ASSUME NEW t \in Tasks, PanelAnswers(t)
        PROVE  Quiet' /\ ReadIsCurrent' /\ NoLostUpdate'
    BY <1>1 DEF PanelAnswers, Quiet, ReadIsCurrent, NoLostUpdate, PanelTypeOK
  <1>2. ASSUME NEW t \in Tasks, PanelCommits(t)
        PROVE  Quiet' /\ ReadIsCurrent' /\ NoLostUpdate'
    <2>1. stage[t] \in {"add", "write"} /\ answer' = [answer EXCEPT ![t] = Ack]
          /\ UNCHANGED <<stage, request, object, late, now>>
      BY <1>2 DEF PanelCommits, Unanswered
    <2>2. \A x \in Tasks : x # t => stage[x] \notin Locked
      BY <2>1, OneHolder
    <2>3. Ack # NoAnswer
      BY PanelAssumption
    <2>4. QED
      BY <2>1, <2>2, <2>3 DEF Quiet, ReadIsCurrent, NoLostUpdate, PanelTypeOK
  <1>3. ASSUME NEW t \in Tasks, MutationApplies(t)
        PROVE  Quiet' /\ ReadIsCurrent' /\ NoLostUpdate'
    <2>1. Found(t) = panel[request[t].user]
      BY <1>3 DEF MutationApplies, ReadDone, Found, ReadIsCurrent
    <2>2. now \in 0..now
      BY DEF PanelTypeOK
    <2>3. Goto(t, "write", Applied(request[t], panel[request[t].user], now))
          /\ panel[request[t].user] # NoClient
      BY <1>3, <2>1 DEF MutationApplies
    <2>4. ReadIsCurrent' /\ NoLostUpdate'
      BY <2>2, <2>3, GotoCurrent
    <2>5. QED
      BY <2>3, <2>4 DEF Goto, Quiet
  <1>4. ASSUME NEW t \in Tasks, NEW s, NEW c, Goto(t, s, c),
               s = "write" => request[t].kind \notin Mutations
        PROVE  Quiet' /\ ReadIsCurrent' /\ NoLostUpdate'
    <2>1. ReadIsCurrent' /\ NoLostUpdate'
      BY <1>4, GotoCurrent
    <2>2. QED
      BY <1>4, <2>1 DEF Goto, Quiet
  <1>5. ASSUME NEW t \in Tasks, Resumes(t), ~MutationApplies(t)
        PROVE  \E s, c : Goto(t, s, c) /\ (s = "write" => request[t].kind \notin Mutations)
    <2>1. CASE ClientRouteCalled(t)
      BY <2>1 DEF ClientRouteCalled, Mutations
    <2>2. CASE EnsureUpdates(t)
      <3>1. request[t].kind = "ensure_client" /\ Goto(t, "write", object[t])
        BY <2>2 DEF EnsureUpdates, PanelTypeOK, CallTypeOK
      <3>2. QED
        BY <3>1 DEF Mutations
    <2>3. CASE FetchResumes(t) \/ Acquire(t) \/ ClientMissing(t) \/ NothingToWrite(t)
               \/ EnsureAdds(t) \/ WriteResumes(t) \/ VerifyResumes(t)
      <3>1. PICK s \in {"done", "read", "failed", "add", "verify"} : \E c : Goto(t, s, c)
        BY <2>3 DEF FetchResumes, Acquire, ClientMissing, NothingToWrite, EnsureAdds,
                    WriteResumes, VerifyResumes
      <3>2. QED
        BY <3>1
    <2>4. QED
      BY <1>5, <2>1, <2>2, <2>3 DEF Resumes
  <1>6. ASSUME NEW t \in Tasks, RequestFails(t)
        PROVE  Quiet' /\ ReadIsCurrent' /\ NoLostUpdate'
    BY <1>6 DEF RequestFails, Quiet, ReadIsCurrent, NoLostUpdate, PanelTypeOK
  <1>7. CASE CacheExpires
    BY <1>7 DEF CacheExpires, Quiet, ReadIsCurrent, NoLostUpdate
  <1>8. \A e \in late : ~LateWriteLands(e)
    BY DEF Quiet
  <1>9. QED
    BY <1>1, <1>2, <1>3, <1>4, <1>5, <1>6, <1>7, <1>8 DEF GatewayStep

\* Only a perpetual client is left alone by a grant: once the clock has started
\* every other client's new expiry is positive.
LEMMA OnlyPerpetualUnchanged ==
    ASSUME NEW r \in Request, r.kind \in Mutations, NEW c \in Client,
           NEW clock \in Nat, clock > 0, ~Changes(r, c, clock)
    PROVE  IsUnlimited(c.expiry, c.enable)
  <1>1. c.expiry \in Int /\ c.enable \in BOOLEAN /\ r.arg \in Nat
    BY DEF Client, Request
  <1>2. r.kind = "grant_days" /\ CalculateExpiry(c.expiry, r.arg, clock, c.enable) = 0
    BY <1>1 DEF Changes, Applied, Client
  <1>3. QED
    BY <1>1, <1>2 DEF CalculateExpiry

\* A call that returns from under the lock tells the truth about the panel.
LEMMA GatewayStepTruthful ==
    ASSUME PanelTypeOK, LockInv, Quiet, ReadIsCurrent, GatewayStep,
           NEW t \in Tasks, stage[t] \in Locked, stage'[t] = "done"
    PROVE  Holds(request[t], object[t], panel[request[t].user])
  <1>1. /\ request[t] \in Request /\ request[t].kind \in Writes
        /\ request[t].user \in Users /\ panel \in Snapshot /\ now \in Nat /\ now > 0
    BY CallHasRequest DEF PanelTypeOK, CallTypeOK, Request, Quiet
  <1>2. panel[request[t].user] \in Client \cup {NoClient}
    BY <1>1, SnapshotType
  <1>3. NothingToWrite(t) \/ VerifyResumes(t)
    <2>1. ASSUME NEW x \in Tasks, x # t, stage'[t] = stage[t]
          PROVE  FALSE
      BY <2>1
    <2>2. ASSUME NEW x \in Tasks, NEW s, stage' = [stage EXCEPT ![x] = s]
          PROVE  x = t /\ s = "done"
      BY <2>2 DEF PanelTypeOK
    <2>3. ASSUME NEW x \in Tasks, NEW s, NEW c, Goto(x, s, c)
          PROVE  x = t /\ s = "done"
      BY <2>2, <2>3 DEF Goto
    <2>4. stage' # stage
      OBVIOUS
    <2>5. ASSUME NEW x \in Tasks, RequestFails(x)
          PROVE  FALSE
      BY <2>2, <2>5 DEF RequestFails
    <2>6. ASSUME NEW x \in Tasks, Resumes(x)
          PROVE  NothingToWrite(t) \/ VerifyResumes(t)
      <3>1. CASE FetchResumes(x)
        BY <2>3, <3>1 DEF FetchResumes
      <3>2. CASE Acquire(x) \/ ClientMissing(x) \/ MutationApplies(x)
                 \/ ClientRouteCalled(x) \/ EnsureAdds(x) \/ EnsureUpdates(x)
                 \/ WriteResumes(x)
        <4>1. PICK s \in {"read", "failed", "write", "add", "verify"} :
                 \E c : Goto(x, s, c)
          BY <3>2 DEF Acquire, ClientMissing, MutationApplies, ClientRouteCalled,
                      EnsureAdds, EnsureUpdates, WriteResumes
        <4>2. QED
          BY <2>3, <4>1
      <3>3. CASE NothingToWrite(x) \/ VerifyResumes(x)
        <4>1. \E s, c : Goto(x, s, c)
          BY <3>3 DEF NothingToWrite, VerifyResumes
        <4>2. x = t
          BY <2>3, <4>1
        <4>3. QED
          BY <3>3, <4>2
      <3>4. QED
        BY <2>6, <3>1, <3>2, <3>3 DEF Resumes
    <2>7. ~CacheExpires /\ (\A x \in Tasks : ~PanelAnswers(x) /\ ~PanelCommits(x))
          /\ \A e \in late : ~LateWriteLands(e)
      BY <2>4 DEF CacheExpires, PanelAnswers, PanelCommits, LateWriteLands
    <2>8. QED
      BY <2>5, <2>6, <2>7 DEF GatewayStep
  <1>4. CASE NothingToWrite(t)
    <2>1. /\ Found(t) = panel[request[t].user] /\ Found(t) # NoClient
          /\ stage[t] = "read"
          /\ \/ request[t].kind = "ensure_client"
             \/ request[t].kind \in Mutations /\ ~Changes(request[t], Found(t), now)
      BY <1>4 DEF NothingToWrite, ReadDone, Found, ReadIsCurrent
    <2>2. object[t] = NoClient
      BY <2>1 DEF PanelTypeOK, CallTypeOK
    <2>3. CASE request[t].kind = "ensure_client"
      BY <2>1, <2>3 DEF Holds, Mutations
    <2>4. CASE request[t].kind \in Mutations /\ ~Changes(request[t], Found(t), now)
      <3>1. IsUnlimited(Found(t).expiry, Found(t).enable)
        BY <1>1, <1>2, <2>1, <2>4, OnlyPerpetualUnchanged
      <3>2. QED
        BY <2>1, <2>2, <2>4, <3>1 DEF Holds, Mutations
    <2>5. QED
      BY <2>1, <2>3, <2>4
  <1>5. CASE VerifyResumes(t)
    <2>1. /\ stage[t] = "verify" /\ answer[t] = panel
          /\ TRUE \in Verdicts(request[t], object[t], panel[request[t].user])
      <3>1. stage[t] = "verify" /\ answer[t] = panel
        BY <1>5 DEF VerifyResumes, ReadIsCurrent
      <3>2. PICK ok \in BOOLEAN :
               /\ ok \in Verdicts(request[t], object[t], Found(t))
               /\ IF ok THEN Goto(t, "done", Found(t)) ELSE Goto(t, "failed", NoClient)
        BY <1>5 DEF VerifyResumes
      <3>3. ok = TRUE
        BY <3>2 DEF Goto, PanelTypeOK
      <3>4. QED
        BY <3>1, <3>2, <3>3 DEF Found
    <2>2. object[t] \in Client /\ object[t] # NoClient
      BY <2>1, ClientAssumption DEF PanelTypeOK, CallTypeOK
    <2>3. CASE request[t].kind = "delete_client"
      BY <2>1, <2>3 DEF Verdicts, Holds, Mutations
    <2>4. CASE request[t].kind # "delete_client" /\ panel[request[t].user] = NoClient
      BY <2>1, <2>4 DEF Verdicts
    <2>5. CASE request[t].kind \in {"ensure_client", "reset_traffic"}
               /\ panel[request[t].user] # NoClient
      BY <2>5 DEF Holds, Mutations
    <2>6. CASE request[t].kind \in Mutations /\ panel[request[t].user] # NoClient
      <3>1. Persisted(request[t], object[t], panel[request[t].user])
        BY <2>1, <2>6 DEF Verdicts, Mutations
      <3>2. QED
        BY <2>2, <2>6, <3>1 DEF Holds, Mutations
    <2>7. QED
      BY <1>1, <2>3, <2>4, <2>5, <2>6 DEF Writes
  <1>6. QED
    BY <1>3, <1>4, <1>5
=============================================================================
