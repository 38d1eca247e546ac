---------------------------- MODULE PanelGateway ----------------------------
(***************************************************************************)
(* PanelGateway (app/services/panel.py): the only code that talks to the   *)
(* 3x-ui panel.  Handlers are tasks of one asyncio loop, so they interleave *)
(* only at awaits; every panel request is an await during which the panel  *)
(* answers (PanelAnswers, PanelCommits) and after which the task resumes.  *)
(* The module has no Next of its own: the modules that extend it say who   *)
(* calls the gateway, and include GatewayStep in their next-state relation. *)
(***************************************************************************)
EXTENDS Sequences, PanelData

CONSTANTS
    Tasks,      \* concurrently running handlers
    NoCache,    \* self._clients is None, or older than CACHE_TTL
    NoAnswer,   \* the panel has not answered the request in flight
    Ack,        \* the panel answered a write
    NoRequest,  \* the task is not inside a gateway call
    LateWrites, \* may a write land after wait_for gave up on it?
    FailAt      \* the requests that are allowed to fail

InFlight == {"fetch", "read", "add", "write", "verify"}
Locked   == InFlight \ {"fetch"}
Stages   == InFlight \cup {"idle", "wait", "done", "failed"}

\* A write request as the panel receives it.
Effect == [kind : {"add", "update", "delete", "reset"}, user : Users,
           client : Client]

ASSUME PanelAssumption ==
    /\ NoCache \notin Snapshot
    /\ NoAnswer \notin Snapshot \cup {Ack}
    /\ Ack \notin Snapshot
    /\ NoRequest \notin Request
    /\ LateWrites \in BOOLEAN
    /\ FailAt \subseteq InFlight

VARIABLES
    panel,   \* the panel's own settings.clients
    cache,   \* self._clients while it is fresh
    queue,   \* self._lock: the holder, then the waiters in FIFO order
    request, \* the call each task is in
    stage,   \* where in that call it is
    answer,  \* what the panel answered to its request in flight
    object,  \* the Client object the task holds, then the call's result
    late,    \* writes abandoned by wait_for that may still land
    now      \* the wall clock

panelVars == <<panel, cache, queue, request, stage, answer, object, late, now>>

\* What each stage of a call says of its request, its answer and its object.
CallTypeOK(t) ==
    /\ stage[t] = "idle" <=> request[t] = NoRequest
    /\ stage[t] = "fetch" => request[t].kind = "get_client"
    /\ stage[t] \in Locked \cup {"wait"} => request[t].kind \in Writes
    /\ stage[t] = "add" => request[t].kind = "ensure_client"
    /\ stage[t] \in {"add", "write", "verify"} => object[t] \in Client
    /\ stage[t] \in {"wait", "read"} => object[t] = NoClient
    /\ stage[t] \in {"add", "write"} => answer[t] \in {NoAnswer, Ack}
    /\ stage[t] \in {"fetch", "read", "verify"} => answer[t] \in Snapshot \cup {NoAnswer}
    /\ stage[t] \notin InFlight => answer[t] = NoAnswer

\* Type correctness of the gateway, and of every call in progress.
PanelTypeOK ==
    /\ panel   \in Snapshot
    /\ cache   \in Snapshot \cup {NoCache}
    /\ queue   \in Seq(Tasks)
    /\ request \in [Tasks -> Request \cup {NoRequest}]
    /\ stage   \in [Tasks -> Stages]
    /\ answer  \in [Tasks -> Snapshot \cup {NoAnswer, Ack}]
    /\ object  \in [Tasks -> Client \cup {NoClient}]
    /\ late    \subseteq Effect
    /\ now     \in Nat
    /\ \A t \in Tasks : CallTypeOK(t)

PanelInit(clients, clock) ==
    /\ panel   = clients
    /\ cache   = NoCache
    /\ queue   = <<>>
    /\ request = [t \in Tasks |-> NoRequest]
    /\ stage   = [t \in Tasks |-> "idle"]
    /\ answer  = [t \in Tasks |-> NoAnswer]
    /\ object  = [t \in Tasks |-> NoClient]
    /\ late    = {}
    /\ now     = clock

-----------------------------------------------------------------------------
(* Starting and leaving a call.                                            *)

\* get_client: O(1) from a fresh cache, otherwise one unlocked panel read.
BeginGet(t, u) ==
    /\ request' = [request EXCEPT ![t] = [kind |-> "get_client", user |-> u,
                                          arg |-> 0]]
    /\ IF cache = NoCache
       THEN /\ stage'  = [stage EXCEPT ![t] = "fetch"]
            /\ object' = [object EXCEPT ![t] = NoClient]
       ELSE /\ stage'  = [stage EXCEPT ![t] = "done"]
            /\ object' = [object EXCEPT ![t] = cache[u]]
    /\ UNCHANGED <<panel, cache, queue, answer, late, now>>

\* Every write method first queues for the global lock.
BeginWrite(t, r) ==
    /\ request' = [request EXCEPT ![t] = r]
    /\ stage'   = [stage EXCEPT ![t] = "wait"]
    /\ object'  = [object EXCEPT ![t] = NoClient]
    /\ queue'   = Append(queue, t)
    /\ UNCHANGED <<panel, cache, answer, late, now>>

\* The caller has used the result or handled the exception.
EndCall(t) ==
    /\ request' = [request EXCEPT ![t] = NoRequest]
    /\ stage'   = [stage EXCEPT ![t] = "idle"]
    /\ object'  = [object EXCEPT ![t] = NoClient]
    /\ UNCHANGED <<panel, cache, queue, answer, late, now>>

-----------------------------------------------------------------------------
(* The panel's side of a request (external to src/).                       *)

EffectOf(t) ==
    [kind   |-> CASE stage[t] = "add"                        -> "add"
                  [] request[t].kind = "delete_client"       -> "delete"
                  [] request[t].kind = "reset_traffic"       -> "reset"
                  [] OTHER                                   -> "update",
     user   |-> request[t].user,
     client |-> object[t]]

\* A write the panel has not carried out yet.
Unanswered(t) == stage[t] \in {"add", "write"} /\ answer[t] = NoAnswer

\* The panel refuses a second client with that email and an unknown id.
Accepts(e) == (panel[e.user] = NoClient) <=> (e.kind = "add")

\* add stores enable = TRUE whatever it is sent; update replaces the object.
After(e) ==
    [panel EXCEPT ![e.user] =
        CASE e.kind = "add"    -> [e.client EXCEPT !.enable = TRUE]
          [] e.kind = "update" -> e.client
          [] e.kind = "delete" -> NoClient
          [] e.kind = "reset"  -> @]

PanelAnswers(t) ==
    /\ stage[t] \in {"fetch", "read", "verify"} /\ answer[t] = NoAnswer
    /\ answer' = [answer EXCEPT ![t] = panel]
    /\ UNCHANGED <<panel, cache, queue, request, stage, object, late, now>>

PanelCommits(t) ==
    /\ Unanswered(t) /\ Accepts(EffectOf(t))
    /\ panel'  = After(EffectOf(t))
    /\ answer' = [answer EXCEPT ![t] = Ack]
    /\ UNCHANGED <<cache, queue, request, stage, object, late, now>>

\* A write wait_for gave up on reaches the panel after all.
LateWriteLands(e) ==
    /\ e \in late
    /\ late'  = late \ {e}
    /\ panel' = IF Accepts(e) THEN After(e) ELSE panel
    /\ UNCHANGED <<cache, queue, request, stage, answer, object, now>>

\* The process dies: only the panel and the requests under way survive it.
Reset ==
    /\ cache'   = NoCache
    /\ queue'   = <<>>
    /\ request' = [t \in Tasks |-> NoRequest]
    /\ stage'   = [t \in Tasks |-> "idle"]
    /\ answer'  = [t \in Tasks |-> NoAnswer]
    /\ object'  = [t \in Tasks |-> NoClient]
    /\ late'    = late \cup {EffectOf(t) : t \in {x \in Tasks : LateWrites /\ Unanswered(x)}}
    /\ UNCHANGED <<panel, now>>

-----------------------------------------------------------------------------
(* The bot's side: what a task does when its request is answered.          *)

\* The task goes to stage s holding client c, with no request in flight.
Goto(t, s, c) ==
    /\ stage'  = [stage EXCEPT ![t] = s]
    /\ object' = [object EXCEPT ![t] = c]
    /\ answer' = [answer EXCEPT ![t] = NoAnswer]
    /\ UNCHANGED <<panel, request, late, now>>

Release == queue' = Tail(queue)

\* The verdicts the re-read can lead to.  The traffic counters are not modelled:
\* bytes may flow between a reset and its re-read, so that check can fail.
Verdicts(r, sent, found) ==
    CASE r.kind = "delete_client" -> {found = NoClient}
      [] r.kind # "delete_client" /\ found = NoClient -> {FALSE}
      [] r.kind = "reset_traffic" /\ found # NoClient -> BOOLEAN
      [] r.kind = "ensure_client" /\ found # NoClient ->
            {~found.enable /\ found.sub # 0}
      [] r.kind \in Mutations /\ found # NoClient -> {Persisted(r, sent, found)}

\* The index of an unlocked reader arrives and becomes the cache.
FetchResumes(t) ==
    /\ stage[t] = "fetch" /\ answer[t] # NoAnswer
    /\ cache' = answer[t]
    /\ Goto(t, "done", answer[t][request[t].user])
    /\ UNCHANGED queue

\* Mutant: no lock.
AcquireAnyway(t) ==
    /\ stage[t] = "wait"
    /\ Goto(t, "read", NoClient)
    /\ UNCHANGED <<cache, queue>>

Acquire(t) ==
    /\ stage[t] = "wait" /\ Head(queue) = t
    /\ Goto(t, "read", NoClient)
    /\ UNCHANGED <<cache, queue>>

\* Mutant: the read under the lock does not bypass the cache.
FoundInCache(t) ==
    IF cache = NoCache THEN answer[t][request[t].user] ELSE cache[request[t].user]

\* The read under the lock bypasses the cache and refills it; what follows is
\* decided from the client it found, before the next await.
ReadDone(t) == stage[t] = "read" /\ answer[t] # NoAnswer
Found(t)    == answer[t][request[t].user]

\* _require_client raises ClientNotFound.
ClientMissing(t) ==
    /\ ReadDone(t) /\ Found(t) = NoClient /\ request[t].kind # "ensure_client"
    /\ cache' = answer[t]
    /\ Goto(t, "failed", NoClient)
    /\ Release

\* A grant to a perpetual client, or ensure_client on an existing one.
NothingToWrite(t) ==
    /\ ReadDone(t) /\ Found(t) # NoClient
    /\ \/ request[t].kind = "ensure_client"
       \/ request[t].kind \in Mutations /\ ~Changes(request[t], Found(t), now)
    /\ cache' = answer[t]
    /\ Goto(t, "done", Found(t))
    /\ Release

\* apply() changes the very object the cache now holds, then it is sent.
MutationApplies(t) ==
    LET changed == Applied(request[t], Found(t), now) IN
    /\ ReadDone(t) /\ Found(t) # NoClient /\ request[t].kind \in Mutations
    /\ Changes(request[t], Found(t), now)
    /\ cache' = [answer[t] EXCEPT ![request[t].user] = changed]
    /\ Goto(t, "write", changed)
    /\ UNCHANGED queue

\* reset_traffic and delete_client name the client by its id.
ClientRouteCalled(t) ==
    /\ ReadDone(t) /\ Found(t) # NoClient
    /\ request[t].kind \in {"reset_traffic", "delete_client"}
    /\ cache' = answer[t]
    /\ Goto(t, "write", Found(t))
    /\ UNCHANGED queue

\* Mutant: any write creates the client it does not find.
WriteAdds(t) ==
    /\ ReadDone(t) /\ Found(t) = NoClient
    /\ cache' = answer[t]
    /\ Goto(t, "add", NewClient(request[t], now))
    /\ UNCHANGED queue

EnsureAdds(t) ==
    /\ ReadDone(t) /\ Found(t) = NoClient /\ request[t].kind = "ensure_client"
    /\ cache' = answer[t]
    /\ Goto(t, "add", NewClient(request[t], now))
    /\ UNCHANGED queue

\* Mutant: the client is not switched off again.
EnsureVerifies(t) ==
    /\ stage[t] = "add" /\ answer[t] # NoAnswer
    /\ Goto(t, "verify", object[t])
    /\ UNCHANGED <<cache, queue>>

\* add ignored enable = FALSE: the same object is sent again as an update.
EnsureUpdates(t) ==
    /\ stage[t] = "add" /\ answer[t] # NoAnswer
    /\ Goto(t, "write", object[t])
    /\ UNCHANGED <<cache, queue>>

\* Only a write that returned drops the cache.
WriteResumes(t) ==
    /\ stage[t] = "write" /\ answer[t] # NoAnswer
    /\ cache' = NoCache
    /\ Goto(t, "verify", object[t])
    /\ UNCHANGED queue

VerifyResumes(t) == \E ok \in BOOLEAN :
    /\ stage[t] = "verify" /\ answer[t] # NoAnswer
    /\ ok \in Verdicts(request[t], object[t], Found(t))
    /\ cache' = answer[t]
    /\ IF ok THEN Goto(t, "done", Found(t)) ELSE Goto(t, "failed", NoClient)
    /\ Release

\* Mutants: a failed request leaves the lock taken; its exception is swallowed.
RequestSwallowed(t) ==
    /\ stage[t] \in FailAt
    /\ Goto(t, "done", object[t])
    /\ IF stage[t] \in Locked THEN Release ELSE UNCHANGED queue
    /\ UNCHANGED cache
RequestFailsLocked(t) ==
    /\ stage[t] \in FailAt
    /\ Goto(t, "failed", NoClient)
    /\ UNCHANGED <<cache, queue>>

\* The request in flight times out or breaks: PanelUnavailable.  Nothing repairs
\* the cache.  A write that was sent may already have landed, or land later.
RequestFails(t) ==
    /\ stage[t] \in FailAt
    /\ stage'  = [stage EXCEPT ![t] = "failed"]
    /\ object' = [object EXCEPT ![t] = NoClient]
    /\ answer' = [answer EXCEPT ![t] = NoAnswer]
    /\ IF stage[t] \in Locked THEN Release ELSE UNCHANGED queue
    /\ late' = IF LateWrites /\ Unanswered(t) THEN late \cup {EffectOf(t)} ELSE late
    /\ UNCHANGED <<panel, cache, request, now>>

\* CACHE_TTL passes.
CacheExpires ==
    /\ cache # NoCache
    /\ cache' = NoCache
    /\ UNCHANGED <<panel, queue, request, stage, answer, object, late, now>>

Resumes(t) ==
    \/ FetchResumes(t) \/ Acquire(t) \/ ClientMissing(t) \/ NothingToWrite(t)
    \/ MutationApplies(t) \/ ClientRouteCalled(t) \/ EnsureAdds(t)
    \/ EnsureUpdates(t) \/ WriteResumes(t) \/ VerifyResumes(t)

GatewayStep ==
    \/ \E t \in Tasks :
          \/ PanelAnswers(t) \/ PanelCommits(t) \/ Resumes(t) \/ RequestFails(t)
    \/ \E e \in late : LateWriteLands(e)
    \/ CacheExpires

-----------------------------------------------------------------------------
(* Correctness.                                                            *)

\* The global lock (panel.py:131) serialises read-modify-writes: the only task
\* between its locked read and its verifying read is the head of the queue.
LockInv ==
    /\ \A t \in Tasks : stage[t] \in Locked => queue # <<>> /\ Head(queue) = t
    /\ \A t \in Tasks : stage[t] \in Locked \cup {"wait"}
                           <=> \E i \in 1..Len(queue) : queue[i] = t
    /\ \A i, j \in 1..Len(queue) : queue[i] = queue[j] => i = j

\* What the holder of the lock has read under it is still what the panel holds
\* when the task resumes with it: the premise of every read-modify-write and of
\* every verifying re-read (panel.py:264-271).
ReadIsCurrent ==
    \A t \in Tasks :
        stage[t] \in {"read", "verify"} /\ answer[t] # NoAnswer => answer[t] = panel

\* The object a mutation is about to send is the panel's present client with
\* nothing but the requested change, so no other task's change is lost: the
\* promise of mutate() (panel.py:264) and of grant_days "adding up".
NoLostUpdate ==
    \A t \in Tasks :
        stage[t] = "write" /\ answer[t] = NoAnswer /\ request[t].kind \in Mutations
        => /\ panel[request[t].user] # NoClient
           /\ \E clock \in 0..now :
                object[t] = Applied(request[t], panel[request[t].user], clock)

\* What a normal return of a write call claims about the client; sent is the
\* object a mutation wrote, NoClient if it wrote nothing.
Holds(r, sent, c) ==
    CASE r.kind = "delete_client" -> c = NoClient
      [] r.kind \in {"ensure_client", "reset_traffic"} -> c # NoClient
      [] r.kind \in Mutations ->
            /\ c # NoClient
            /\ IF sent = NoClient THEN IsUnlimited(c.expiry, c.enable)
                                  ELSE Persisted(r, sent, c)

\* A write call returns normally only when the panel, at that moment and not
\* just when it was re-read, holds what was asked for: "no silent success"
\* (panel.py:270).
NoSilentSuccess ==
    [][\A t \in Tasks :
         stage[t] \in Locked /\ stage'[t] = "done"
         => Holds(request[t], object[t], panel[request[t].user])]_panelVars

\* An idle cache tells the truth: when no write is under way, whatever
\* get_client answers from the cache is what the panel holds.
CacheIsCurrent ==
    (\A t \in Tasks : stage[t] \notin Locked) => cache \in {panel, NoCache}

\* No call waits for the lock for ever, whatever the panel does and however often others
\* call again: the lock is FIFO and every request made under it ends by an answer or a
\* timeout, or the process dies with all of them (panel.py:131, 416).
EveryCallEnds ==
    \A t \in Tasks : stage[t] = "wait" ~> stage[t] \in {"idle", "done", "failed"}
=============================================================================
