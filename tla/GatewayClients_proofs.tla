----------------------- MODULE GatewayClients_proofs -----------------------
(***************************************************************************)
(* The theorems about GatewayClients.  TypeOK /\ LockInv is inductive.     *)
(* When no write lands after wait_for gave up on it, ReadIsCurrent and     *)
(* NoLostUpdate are inductive relative to it, and NoSilentSuccess follows; *)
(* every step then maps to a step or a stutter of AtomicPanel, and no      *)
(* grant is undone by a call that does not set the expiry.                 *)
(***************************************************************************)
EXTENDS GatewayClients, PanelGateway_proofs

-----------------------------------------------------------------------------
(* Types and the lock.                                                     *)

IInv == TypeOK /\ LockInv

\* Nobody is in a call when the process starts.
LEMMA InitIInv == ASSUME Init PROVE IInv
  <1>1. PICK clients \in Initial : PanelInit(clients, 1)
    BY DEF Init
  <1>2. clients \in Snapshot
    BY ClientsAssumption
  <1>3. PanelTypeOK /\ LockInv
    BY <1>1, <1>2, InitType, InitLock
  <1>4. calls \in [Tasks -> Nat]
    BY ClientsAssumption DEF Init
  <1>5. QED
    BY <1>3, <1>4 DEF IInv, TypeOK

\* A step of the handlers, of the gateway or of the clock preserves both.
LEMMA NextIInv == ASSUME IInv, [Next]_vars PROVE IInv'
  <1>1. PanelTypeOK /\ LockInv /\ calls \in [Tasks -> Nat]
    BY DEF IInv, TypeOK
  <1>2. ASSUME NEW t \in Tasks, Spend(t)
        PROVE  stage[t] = "idle" /\ calls' \in [Tasks -> Nat]
    BY <1>1, <1>2 DEF Spend
  <1>3. ASSUME NEW t \in Tasks, Reads(t)
        PROVE  IInv'
    BY <1>1, <1>2, <1>3, BeginGetType, UnlockedCallsLock DEF Reads, IInv, TypeOK
  <1>4. ASSUME NEW t \in Tasks, WritesTo(t)
        PROVE  IInv'
    <2>1. PICK r \in Requests : BeginWrite(t, r)
      BY <1>4 DEF WritesTo
    <2>2. r \in Request /\ r.kind \in Writes /\ Spend(t)
      BY <1>4, ClientsAssumption DEF WritesTo
    <2>3. QED
      BY <1>1, <1>2, <2>1, <2>2, BeginWriteType, BeginWriteLock DEF IInv, TypeOK
  <1>5. ASSUME NEW t \in Tasks, Returns(t)
        PROVE  IInv'
    BY <1>1, <1>5, EndCallType, UnlockedCallsLock DEF Returns, IInv, TypeOK
  <1>6. CASE GatewayStep /\ UNCHANGED calls
    BY <1>1, <1>6, GatewayStepType, GatewayStepLock DEF IInv, TypeOK
  <1>7. CASE Tick
    <2>1. now' \in Nat
      BY <1>1, <1>7 DEF Tick, PanelTypeOK
    <2>2. QED
      BY <1>1, <1>7, <2>1 DEF Tick, IInv, TypeOK, PanelTypeOK, CallTypeOK, LockInv
  <1>8. CASE UNCHANGED vars
    BY <1>1, <1>8 DEF vars, panelVars, IInv, TypeOK, PanelTypeOK, CallTypeOK, LockInv
  <1>9. QED
    BY <1>3, <1>4, <1>5, <1>6, <1>7, <1>8 DEF Next

\* The gateway's state, and every call in progress, is type correct.
THEOREM TypeCorrect == Spec => []TypeOK
  <1>1. IInv => TypeOK
    BY DEF IInv
  <1>2. QED
    BY InitIInv, NextIInv, <1>1, PTL DEF Spec

\* The lock of panel.py:131 excludes: whoever is between its locked read and
\* its verifying read is the head of the queue, and is there only once.
THEOREM LockCorrect == Spec => []LockInv
  <1>1. IInv => LockInv
    BY DEF IInv
  <1>2. QED
    BY InitIInv, NextIInv, <1>1, PTL DEF Spec

-----------------------------------------------------------------------------
(* No lost update.                                                         *)

USE DEF InFlight, Locked

\* Starting a call, ending one and the passing of time keep what was read current,
\* and lose no update; so does every step of the gateway.
LEMMA NextCurrent ==
    ASSUME ~LateWrites, IInv, Quiet, ReadIsCurrent, NoLostUpdate, [Next]_vars
    PROVE  Quiet' /\ ReadIsCurrent' /\ NoLostUpdate'
  <1>1. PanelTypeOK /\ LockInv
    BY DEF IInv, TypeOK
  <1>2. ASSUME NEW t \in Tasks, Reads(t) \/ WritesTo(t) \/ Returns(t)
        PROVE  Quiet' /\ ReadIsCurrent' /\ NoLostUpdate'
    <2>1. PICK s \in {"fetch", "done", "wait", "idle"} : \E r, c :
             /\ stage' = [stage EXCEPT ![t] = s] /\ request' = [request EXCEPT ![t] = r]
             /\ object' = [object EXCEPT ![t] = c]
             /\ UNCHANGED <<panel, answer, late, now>>
      BY <1>2 DEF Reads, WritesTo, Returns, BeginGet, BeginWrite, EndCall
    <2>2. QED
      BY <1>1, <2>1 DEF Quiet, ReadIsCurrent, NoLostUpdate, PanelTypeOK
  <1>3. CASE GatewayStep
    BY <1>1, <1>3, GatewayStepCurrent
  <1>4. CASE Tick
    <2>1. now' = now + 1 /\ now \in Nat
          /\ UNCHANGED <<panel, stage, answer, request, object, late>>
      BY <1>1, <1>4 DEF Tick, PanelTypeOK
    <2>2. 0..now \subseteq 0..now'
      BY <2>1
    <2>3. QED
      BY <2>1, <2>2 DEF Quiet, ReadIsCurrent, NoLostUpdate
  <1>5. CASE UNCHANGED vars
    BY <1>5 DEF vars, panelVars, Quiet, ReadIsCurrent, NoLostUpdate
  <1>6. QED
    BY <1>2, <1>3, <1>4, <1>5 DEF Next

\* At first nothing was read and nothing is about to be sent.
LEMMA InitCurrent == ASSUME Init PROVE Quiet /\ ReadIsCurrent /\ NoLostUpdate
  BY DEF Init, PanelInit, Quiet, ReadIsCurrent, NoLostUpdate

\* If a write that wait_for gave up on never lands later, what the holder of the
\* lock read is always what the panel holds.
THEOREM ReadsAreCurrent == ASSUME ~LateWrites PROVE Spec => []ReadIsCurrent
  <1>1. Init => IInv /\ Quiet /\ ReadIsCurrent /\ NoLostUpdate
    BY InitIInv, InitCurrent
  <1>2. IInv /\ Quiet /\ ReadIsCurrent /\ NoLostUpdate /\ [Next]_vars
        => (IInv /\ Quiet /\ ReadIsCurrent /\ NoLostUpdate)'
    BY NextIInv, NextCurrent
  <1>3. QED
    BY <1>1, <1>2, PTL DEF Spec

\* ... and then no mutation ever overwrites another task's change (panel.py:264):
\* the object it sends is the panel's present client with its own change only.
THEOREM NoUpdateIsLost == ASSUME ~LateWrites PROVE Spec => []NoLostUpdate
  <1>1. Init => IInv /\ Quiet /\ ReadIsCurrent /\ NoLostUpdate
    BY InitIInv, InitCurrent
  <1>2. IInv /\ Quiet /\ ReadIsCurrent /\ NoLostUpdate /\ [Next]_vars
        => (IInv /\ Quiet /\ ReadIsCurrent /\ NoLostUpdate)'
    BY NextIInv, NextCurrent
  <1>3. QED
    BY <1>1, <1>2, PTL DEF Spec

-----------------------------------------------------------------------------
(* No silent success.                                                      *)

\* Nobody but the gateway ends a call that is under the lock.
LEMMA NextTruthful ==
    ASSUME IInv, Quiet, ReadIsCurrent, [Next]_vars,
           NEW t \in Tasks, stage[t] \in Locked, stage'[t] = "done"
    PROVE  Holds(request[t], object[t], panel[request[t].user])
  <1>1. PanelTypeOK /\ LockInv
    BY DEF IInv, TypeOK
  <1>2. CASE GatewayStep
    BY <1>1, <1>2, GatewayStepTruthful
  <1>3. ASSUME NEW x \in Tasks, Reads(x) \/ WritesTo(x) \/ Returns(x)
        PROVE  FALSE
    <2>1. PICK s : stage[x] \in {"idle", "done", "failed"} /\ stage' = [stage EXCEPT ![x] = s]
      BY <1>3 DEF Reads, WritesTo, Returns, Spend, BeginGet, BeginWrite, EndCall
    <2>2. QED
      BY <1>1, <2>1 DEF PanelTypeOK
  <1>4. CASE Tick \/ UNCHANGED vars
    BY <1>4 DEF Tick, vars, panelVars
  <1>5. QED
    BY <1>2, <1>3, <1>4 DEF Next

\* If no abandoned write lands later, a write call returns normally only when
\* the panel holds, at that very step, what was asked for (panel.py:270).
THEOREM SuccessIsNeverSilent == ASSUME ~LateWrites PROVE Spec => NoSilentSuccess
  <1> DEFINE A == \A t \in Tasks :
                     stage[t] \in Locked /\ stage'[t] = "done"
                     => Holds(request[t], object[t], panel[request[t].user])
  <1>1. Init => IInv /\ Quiet /\ ReadIsCurrent /\ NoLostUpdate
    BY InitIInv, InitCurrent
  <1>2. IInv /\ Quiet /\ ReadIsCurrent /\ NoLostUpdate /\ [Next]_vars
        => (IInv /\ Quiet /\ ReadIsCurrent /\ NoLostUpdate)'
    BY NextIInv, NextCurrent
  <1>3. IInv /\ Quiet /\ ReadIsCurrent /\ [Next]_vars => [A]_panelVars
    BY NextTruthful
  <1>4. QED
    BY <1>1, <1>2, <1>3, PTL DEF Spec, NoSilentSuccess

-----------------------------------------------------------------------------
(* Every call is atomic: the gateway implements AtomicPanel.               *)

\* The client being added is new; after the panel added it, and until it is sent
\* again to switch it off, the panel holds it switched on; and a grant that is
\* sent has a date to give.
AddsNew(t) ==
    stage[t] = "add" => \E clock \in 0..now : object[t] = NewClient(request[t], clock)

WasCreated(t) ==
    \/ stage[t] = "add" /\ answer[t] = Ack
    \/ stage[t] = "write" /\ answer[t] = NoAnswer /\ request[t].kind = "ensure_client"

CreatedStays(t) ==
    WasCreated(t) => /\ ~object[t].enable
                     /\ panel[request[t].user] = [object[t] EXCEPT !.enable = TRUE]

GrantsADate(t) ==
    stage[t] = "write" /\ answer[t] = NoAnswer /\ request[t].kind = "grant_days"
    => object[t].expiry # 0

SendsWhatItDecided ==
    \A t \in Tasks : AddsNew(t) /\ CreatedStays(t) /\ GrantsADate(t)

\* The invariant behind the refinement.
Core == /\ IInv /\ Quiet /\ ReadIsCurrent /\ NoLostUpdate
        /\ SendsWhatItDecided

\* A task that did not move still sends what it decided, if the panel did not
\* change for it and the clock did not go back.
LEMMA OthersDecided ==
    ASSUME PanelTypeOK, SendsWhatItDecided, NEW x \in Tasks,
           now' \in Nat, now' >= now,
           stage'[x] = stage[x], answer'[x] = answer[x], object'[x] = object[x],
           request'[x] = request[x],
           stage[x] \in Locked => panel' = panel
    PROVE  AddsNew(x)' /\ CreatedStays(x)' /\ GrantsADate(x)'
  <1>1. AddsNew(x) /\ CreatedStays(x) /\ GrantsADate(x)
    BY DEF SendsWhatItDecided
  <1>2. 0..now \subseteq 0..now'
    BY DEF PanelTypeOK
  <1>3. AddsNew(x)'
    BY <1>1, <1>2 DEF AddsNew
  <1>4. CreatedStays(x)' /\ GrantsADate(x)'
    BY <1>1 DEF CreatedStays, WasCreated, GrantsADate
  <1>5. QED
    BY <1>3, <1>4

\* One task moves on without touching the panel.
LEMMA MoveDecided ==
    ASSUME PanelTypeOK, SendsWhatItDecided, NEW t \in Tasks,
           UNCHANGED <<panel, now>>,
           \A x \in Tasks : x # t => /\ stage'[x] = stage[x] /\ answer'[x] = answer[x]
                                     /\ object'[x] = object[x]
                                     /\ request'[x] = request[x],
           AddsNew(t)' /\ CreatedStays(t)' /\ GrantsADate(t)'
    PROVE  SendsWhatItDecided'
  <1>1. now' \in Nat /\ now' >= now
    BY DEF PanelTypeOK
  <1>2. ASSUME NEW x \in Tasks, x # t
        PROVE  AddsNew(x)' /\ CreatedStays(x)' /\ GrantsADate(x)'
    BY <1>1, <1>2, OthersDecided
  <1>3. QED
    BY <1>2 DEF SendsWhatItDecided

\* ... by a Goto: to a stage at which nothing is to be sent, or holding what
\* that stage demands.
LEMMA GotoDecided ==
    ASSUME PanelTypeOK, SendsWhatItDecided, NEW t \in Tasks, NEW s, NEW c, Goto(t, s, c),
           s = "add" => \E clock \in 0..now : c = NewClient(request[t], clock),
           s = "write" /\ request[t].kind = "ensure_client"
           => ~c.enable /\ panel[request[t].user] = [c EXCEPT !.enable = TRUE],
           s = "write" /\ request[t].kind = "grant_days" => c.expiry # 0
    PROVE  SendsWhatItDecided'
  <1>1. /\ stage'[t] = s /\ object'[t] = c /\ answer'[t] = NoAnswer
        /\ UNCHANGED <<panel, request, now>>
        /\ \A x \in Tasks : x # t => /\ stage'[x] = stage[x] /\ answer'[x] = answer[x]
                                     /\ object'[x] = object[x]
    BY DEF Goto, PanelTypeOK
  <1>2. Ack # NoAnswer
    BY PanelAssumption
  <1>3. AddsNew(t)' /\ CreatedStays(t)' /\ GrantsADate(t)'
    BY <1>1, <1>2 DEF AddsNew, CreatedStays, WasCreated, GrantsADate
  <1>4. QED
    BY <1>1, <1>3, MoveDecided

\* What the panel makes of the write it carries out.
LEMMA CommitChanges ==
    ASSUME PanelTypeOK, NEW t \in Tasks, PanelCommits(t)
    PROVE  /\ stage[t] = "add" =>
                /\ panel[request[t].user] = NoClient
                /\ panel' = [panel EXCEPT ![request[t].user] =
                                [object[t] EXCEPT !.enable = TRUE]]
           /\ stage[t] = "write" =>
                /\ panel[request[t].user] # NoClient
                /\ request[t].kind = "delete_client"
                   => panel' = [panel EXCEPT ![request[t].user] = NoClient]
                /\ request[t].kind = "reset_traffic" => panel' = panel
                /\ request[t].kind \notin {"delete_client", "reset_traffic"}
                   => panel' = [panel EXCEPT ![request[t].user] = object[t]]
  <1> DEFINE u == request[t].user
             k == request[t].kind
             e == EffectOf(t)
  <1>1. e.user = u /\ e.client = object[t]
    BY DEF EffectOf
  <1>2. stage[t] = "add" => e.kind = "add"
    <2>1. stage[t] = "add" => k = "ensure_client"
      BY DEF PanelTypeOK, CallTypeOK
    <2>2. QED
      BY <2>1 DEF EffectOf
  <1>3. stage[t] = "write" =>
           /\ k = "delete_client" => e.kind = "delete"
           /\ k = "reset_traffic" => e.kind = "reset"
           /\ k \notin {"delete_client", "reset_traffic"} => e.kind = "update"
    <2>1. CASE stage[t] = "write" /\ k = "delete_client"
      BY <2>1 DEF EffectOf
    <2>2. CASE stage[t] = "write" /\ k = "reset_traffic"
      BY <2>2 DEF EffectOf
    <2>3. CASE stage[t] = "write" /\ k \notin {"delete_client", "reset_traffic"}
      BY <2>3 DEF EffectOf
    <2>4. QED
      BY <2>1, <2>2, <2>3
  <1>4. panel' = After(e) /\ ((panel[e.user] = NoClient) <=> (e.kind = "add"))
        /\ stage[t] \in {"add", "write"} /\ panel \in Snapshot
    BY DEF PanelCommits, Unanswered, Accepts, PanelTypeOK
  <1> HIDE DEF e, u, k
  <1>5. panel' = [panel EXCEPT ![u] =
                     CASE e.kind = "add"    -> [object[t] EXCEPT !.enable = TRUE]
                       [] e.kind = "update" -> object[t]
                       [] e.kind = "delete" -> NoClient
                       [] e.kind = "reset"  -> panel[u]]
    BY <1>1, <1>4 DEF After
  <1>6. e.kind = "reset" => panel' = panel
    BY <1>4, <1>5 DEF Snapshot
  <1>7. QED
    BY <1>1, <1>2, <1>3, <1>4, <1>5, <1>6 DEF u, k

\* The panel carries out a write.
LEMMA PanelCommitsDecided ==
    ASSUME PanelTypeOK, LockInv, SendsWhatItDecided, NEW t \in Tasks, PanelCommits(t)
    PROVE  SendsWhatItDecided'
  <1>1. /\ stage[t] \in {"add", "write"} /\ answer[t] = NoAnswer
        /\ answer' = [answer EXCEPT ![t] = Ack] /\ panel' = After(EffectOf(t))
        /\ UNCHANGED <<stage, request, object, now>>
    BY DEF PanelCommits, Unanswered
  <1>2. now' \in Nat /\ now' >= now /\ Ack # NoAnswer
    BY <1>1, PanelAssumption DEF PanelTypeOK
  <1>3. ASSUME NEW x \in Tasks, x # t
        PROVE  AddsNew(x)' /\ CreatedStays(x)' /\ GrantsADate(x)'
    <2>1. stage[x] \notin Locked
      BY <1>1, <1>3, OneHolder
    <2>2. answer'[x] = answer[x]
      BY <1>1, <1>3 DEF PanelTypeOK
    <2>3. QED
      BY <1>1, <1>2, <2>1, <2>2, OthersDecided
  <1>4. AddsNew(t)' /\ GrantsADate(t)'
    BY <1>1, <1>2 DEF AddsNew, GrantsADate, SendsWhatItDecided, PanelTypeOK
  <1>5. CreatedStays(t)'
    <2>1. CASE stage[t] = "write"
      BY <1>1, <1>2, <2>1 DEF CreatedStays, WasCreated, PanelTypeOK
    <2>2. CASE stage[t] = "add"
      <3>1. PICK clock \in 0..now : object[t] = NewClient(request[t], clock)
        BY <2>2 DEF SendsWhatItDecided, AddsNew
      <3>2. ~object[t].enable
        BY <3>1 DEF NewClient
      <3>3. request[t].user \in Users /\ panel \in Snapshot
        BY <2>2, CallHasRequest DEF Request, PanelTypeOK
      <3>4. panel'[request[t].user] = [object[t] EXCEPT !.enable = TRUE]
        BY <2>2, <3>3, CommitChanges DEF Snapshot
      <3>5. QED
        BY <1>1, <3>2, <3>4 DEF CreatedStays
    <2>3. QED
      BY <1>1, <2>1, <2>2
  <1>6. QED
    BY <1>3, <1>4, <1>5 DEF SendsWhatItDecided

\* The task resumes with an answer.
LEMMA ResumesDecided ==
    ASSUME PanelTypeOK, SendsWhatItDecided, NEW t \in Tasks, Resumes(t)
    PROVE  SendsWhatItDecided'
  <1>1. CASE FetchResumes(t) \/ Acquire(t) \/ ClientMissing(t) \/ NothingToWrite(t)
             \/ WriteResumes(t) \/ VerifyResumes(t)
    <2>1. PICK s \in {"done", "read", "failed", "verify"} : \E c : Goto(t, s, c)
      BY <1>1 DEF FetchResumes, Acquire, ClientMissing, NothingToWrite,
                  WriteResumes, VerifyResumes
    <2>2. QED
      BY <2>1, GotoDecided
  <1>2. CASE MutationApplies(t)
    <2> DEFINE c == Applied(request[t], Found(t), now)
    <2>1. Goto(t, "write", c) /\ request[t].kind \in Mutations
          /\ Changes(request[t], Found(t), now)
      BY <1>2 DEF MutationApplies
    <2>2. request[t].kind # "ensure_client"
          /\ (request[t].kind = "grant_days" => c.expiry # 0)
      BY <2>1 DEF Mutations, Changes
    <2> HIDE DEF c
    <2>3. QED
      BY <2>1, <2>2, GotoDecided
  <1>3. CASE ClientRouteCalled(t)
    <2>1. Goto(t, "write", Found(t)) /\ request[t].kind \in {"reset_traffic", "delete_client"}
      BY <1>3 DEF ClientRouteCalled
    <2>2. QED
      BY <2>1, GotoDecided
  <1>4. CASE EnsureAdds(t)
    <2>1. Goto(t, "add", NewClient(request[t], now)) /\ now \in 0..now
      BY <1>4 DEF EnsureAdds, PanelTypeOK
    <2>2. QED
      BY <2>1, GotoDecided
  <1>5. CASE EnsureUpdates(t)
    <2>1. stage[t] = "add" /\ answer[t] = Ack /\ Goto(t, "write", object[t])
          /\ request[t].kind = "ensure_client"
      BY <1>5 DEF EnsureUpdates, PanelTypeOK, CallTypeOK
    <2>2. ~object[t].enable
          /\ panel[request[t].user] = [object[t] EXCEPT !.enable = TRUE]
      BY <2>1 DEF SendsWhatItDecided, CreatedStays, WasCreated
    <2>3. QED
      BY <2>1, <2>2, GotoDecided
  <1>6. QED
    BY <1>1, <1>2, <1>3, <1>4, <1>5 DEF Resumes

\* Every step keeps what the refinement rests on.
LEMMA NextCore == ASSUME ~LateWrites, Core, [Next]_vars PROVE Core'
  <1>1. /\ PanelTypeOK /\ LockInv /\ SendsWhatItDecided /\ Quiet
        /\ Ack # NoAnswer /\ now \in Nat
    BY PanelAssumption DEF Core, IInv, TypeOK, PanelTypeOK
  <1>2. IInv' /\ Quiet' /\ ReadIsCurrent' /\ NoLostUpdate'
    BY NextIInv, NextCurrent DEF Core
  <1>3. ASSUME NEW t \in Tasks, PanelAnswers(t)
        PROVE  SendsWhatItDecided'
    <2>1. /\ stage[t] \in {"fetch", "read", "verify"}
          /\ UNCHANGED <<panel, now, stage, object, request>>
          /\ \A x \in Tasks : x # t => answer'[x] = answer[x]
      BY <1>1, <1>3 DEF PanelAnswers, PanelTypeOK
    <2>2. AddsNew(t)' /\ CreatedStays(t)' /\ GrantsADate(t)'
      BY <2>1 DEF AddsNew, CreatedStays, WasCreated, GrantsADate
    <2>3. QED
      BY <1>1, <2>1, <2>2, MoveDecided
  <1>4. ASSUME NEW t \in Tasks, RequestFails(t) \/ Reads(t) \/ WritesTo(t) \/ Returns(t)
        PROVE  SendsWhatItDecided'
    <2>1. /\ stage'[t] \in {"failed", "fetch", "done", "wait", "idle"}
          /\ UNCHANGED <<panel, now>>
          /\ \A x \in Tasks : x # t => /\ stage'[x] = stage[x] /\ answer'[x] = answer[x]
                                       /\ object'[x] = object[x]
                                       /\ request'[x] = request[x]
      <3>1. CASE RequestFails(t)
        BY <1>1, <3>1 DEF RequestFails, PanelTypeOK
      <3>2. CASE Reads(t)
        BY <1>1, <3>2 DEF Reads, BeginGet, PanelTypeOK
      <3>3. CASE WritesTo(t)
        BY <1>1, <3>3 DEF WritesTo, BeginWrite, PanelTypeOK
      <3>4. CASE Returns(t)
        BY <1>1, <3>4 DEF Returns, EndCall, PanelTypeOK
      <3>5. QED
        BY <1>4, <3>1, <3>2, <3>3, <3>4
    <2>2. AddsNew(t)' /\ CreatedStays(t)' /\ GrantsADate(t)'
      BY <2>1 DEF AddsNew, CreatedStays, WasCreated, GrantsADate
    <2>3. QED
      BY <1>1, <2>1, <2>2, MoveDecided
  <1>5. CASE CacheExpires \/ Tick \/ UNCHANGED vars
    <2>1. /\ UNCHANGED <<panel, stage, answer, object, request>>
          /\ now' \in Nat /\ now' >= now
      BY <1>1, <1>5 DEF CacheExpires, Tick, vars, panelVars
    <2>2. ASSUME NEW x \in Tasks
          PROVE  AddsNew(x)' /\ CreatedStays(x)' /\ GrantsADate(x)'
      BY <1>1, <2>1, OthersDecided
    <2>3. SendsWhatItDecided'
      BY <2>2 DEF SendsWhatItDecided
    <2>4. QED
      BY <1>2, <2>3 DEF Core
  <1>6. CASE GatewayStep
    <2>1. \A e \in late : ~LateWriteLands(e)
      BY <1>1 DEF Quiet
    <2>2. QED
      BY <1>1, <1>2, <1>3, <1>4, <1>5, <1>6, <2>1, PanelCommitsDecided, ResumesDecided
      DEF GatewayStep, Core
  <1>7. QED
    BY <1>2, <1>4, <1>5, <1>6 DEF Next, Core

\* Nobody sends anything when the process starts.
LEMMA InitCore == ASSUME Init PROVE Core
  <1>1. \A t \in Tasks : stage[t] = "idle"
    BY DEF Init, PanelInit
  <1>2. SendsWhatItDecided
    BY <1>1 DEF SendsWhatItDecided, AddsNew, CreatedStays, WasCreated, GrantsADate
  <1>3. QED
    BY <1>2, InitIInv, InitCurrent DEF Core

\* Seen from its callers, a task takes a step of AtomicPanel or none.
LEMMA PhaseStep ==
    ASSUME NEW t \in Tasks, NEW from, NEW to, Phase(t) \in from, Phase(t)' = to,
           \A x \in Tasks : x # t => /\ stage'[x] = stage[x] /\ answer'[x] = answer[x]
                                     /\ request'[x] = request[x]
    PROVE  Atomic!Step(t, from, to)
  <1>1. \A x \in Tasks : x # t => Phase(x)' = Phase(x)
    BY DEF Phase
  <1>2. QED
    BY <1>1 DEF Atomic!Step

\* A step that leaves a call in its phase, and the panel alone, is no step of the abstract
\* panel.
LEMMA PhaseStutter ==
    ASSUME NEW t \in Tasks, Phase(t)' = Phase(t), UNCHANGED <<panel, request, now>>,
           \A x \in Tasks : x # t => stage'[x] = stage[x] /\ answer'[x] = answer[x]
    PROVE  UNCHANGED Atomic!vars
  <1>1. \A x \in Tasks : Phase(x)' = Phase(x)
    BY DEF Phase
  <1>2. QED
    BY <1>1 DEF Atomic!vars

\* The phase a Goto leads to.
LEMMA GotoPhase ==
    ASSUME PanelTypeOK, NEW t \in Tasks, NEW s, NEW c, Goto(t, s, c)
    PROVE  /\ s \in {"done", "failed"} => Phase(t)' = s
           /\ s \in {"read", "add"} => Phase(t)' = "pending"
           /\ s = "verify" => Phase(t)' = "applied"
           /\ s = "write" => Phase(t)' = IF request[t].kind = "ensure_client"
                                         THEN "created" ELSE "pending"
           /\ UNCHANGED <<panel, request, now>>
           /\ \A x \in Tasks : x # t => stage'[x] = stage[x] /\ answer'[x] = answer[x]
                                        /\ request'[x] = request[x]
  <1>1. /\ stage'[t] = s /\ answer'[t] = NoAnswer /\ NoAnswer # Ack
        /\ UNCHANGED <<panel, request, now>>
        /\ \A x \in Tasks : x # t => stage'[x] = stage[x] /\ answer'[x] = answer[x]
    BY PanelAssumption DEF Goto, PanelTypeOK
  <1>2. QED
    BY <1>1 DEF Phase

\* AtomicPanel speaks of the same requests, clients and changes.
LEMMA SameSets ==
    /\ Atomic!Mutations = Mutations /\ Atomic!Request = Request
    /\ Atomic!Snapshot = Snapshot
  BY DEF Atomic!Mutations, Mutations, Atomic!Request, Request, Atomic!Writes, Writes,
         Atomic!Snapshot, Snapshot, Atomic!Client, Client

\* Both panels compute the same changes.
LEMMA SameChanges ==
    ASSUME NEW r, NEW c, NEW clock
    PROVE  /\ Atomic!Applied(r, c, clock) = Applied(r, c, clock)
           /\ Atomic!Changes(r, c, clock) <=> Changes(r, c, clock)
           /\ Atomic!NewClient(r, clock) = NewClient(r, clock)
           /\ Atomic!IsUnlimited(c.expiry, c.enable) <=> IsUnlimited(c.expiry, c.enable)
  BY DEF Atomic!Applied, Applied, Atomic!Changes, Changes, Atomic!NewClient, NewClient,
         Atomic!CalculateExpiry, CalculateExpiry, Atomic!IsUnlimited, IsUnlimited

\* What a caller of a write holds about the panel while it is under the lock.
LEMMA CallTypes ==
    ASSUME PanelTypeOK, NEW t \in Tasks, stage[t] # "idle"
    PROVE  /\ request[t] \in Request /\ request[t].user \in Users
           /\ panel \in Snapshot /\ now \in Nat
           /\ panel[request[t].user] \in Client \cup {NoClient}
  BY CallHasRequest, SnapshotType DEF PanelTypeOK, Request

\* The panel's answer to a write is where the call takes effect.
LEMMA PanelCommitsAtomic ==
    ASSUME Core, NEW t \in Tasks, PanelCommits(t)
    PROVE  Atomic!Next
  <1>1. /\ stage[t] \in {"add", "write"} /\ answer[t] = NoAnswer /\ Ack # NoAnswer
        /\ stage'[t] = stage[t] /\ answer'[t] = Ack
        /\ UNCHANGED <<request, now>>
        /\ \A x \in Tasks : x # t => /\ stage'[x] = stage[x] /\ answer'[x] = answer[x]
                                     /\ request'[x] = request[x]
    BY PanelAssumption DEF Core, IInv, TypeOK, PanelTypeOK, PanelCommits, Unanswered
  <1>2. PanelTypeOK /\ NoLostUpdate /\ AddsNew(t) /\ CreatedStays(t) /\ GrantsADate(t)
    BY DEF Core, IInv, TypeOK, SendsWhatItDecided
  <1>3. /\ request[t] \in Request /\ request[t].user \in Users /\ panel \in Snapshot
        /\ now \in Nat /\ panel[request[t].user] \in Client \cup {NoClient}
    BY <1>1, <1>2, CallTypes
  <1>4. CASE stage[t] = "add"
    <2>1. Phase(t) \in {"pending"} /\ Phase(t)' = "created"
      BY <1>1, <1>4 DEF Phase
    <2>2. Atomic!Step(t, {"pending"}, "created")
      BY <1>1, <2>1, PhaseStep
    <2>3. PICK clock \in 0..now : object[t] = NewClient(request[t], clock)
      BY <1>2, <1>4 DEF AddsNew
    <2>4. /\ panel[request[t].user] = NoClient
          /\ panel' = [panel EXCEPT ![request[t].user] =
                          [NewClient(request[t], clock) EXCEPT !.enable = TRUE]]
      BY <1>2, <1>4, <2>3, CommitChanges
    <2>5. request[t].kind = "ensure_client"
      BY <1>2, <1>4 DEF PanelTypeOK, CallTypeOK
    <2>6. Atomic!Creates(t)
      BY <1>1, <2>2, <2>4, <2>5, SameChanges
      DEF Atomic!Creates, Atomic!Target, Atomic!Becomes
    <2>7. QED
      BY <2>6 DEF Atomic!Next
  <1>5. CASE stage[t] = "write" /\ request[t].kind = "ensure_client"
    <2>1. Phase(t) \in {"created"} /\ Phase(t)' = "applied"
      BY <1>1, <1>5 DEF Phase
    <2>2. Atomic!Step(t, {"created"}, "applied")
      BY <1>1, <2>1, PhaseStep
    <2>3. /\ ~object[t].enable /\ object[t] \in Client
          /\ panel[request[t].user] = [object[t] EXCEPT !.enable = TRUE]
          /\ panel' = [panel EXCEPT ![request[t].user] = object[t]]
      BY <1>1, <1>2, <1>5, CommitChanges
      DEF CreatedStays, WasCreated, PanelTypeOK, CallTypeOK
    <2>4. object[t] = [panel[request[t].user] EXCEPT !.enable = FALSE]
      BY <2>3 DEF Client
    <2>5. Atomic!SwitchesOff(t)
      BY <1>1, <2>2, <2>3, <2>4 DEF Atomic!SwitchesOff, Atomic!Target, Atomic!Becomes
    <2>6. QED
      BY <2>5 DEF Atomic!Next
  <1>6. CASE stage[t] = "write" /\ request[t].kind # "ensure_client"
    <2>1. Phase(t) \in {"pending"} /\ Phase(t)' = "applied"
      BY <1>1, <1>6 DEF Phase
    <2>2. Atomic!Step(t, {"pending"}, "applied")
      BY <1>1, <2>1, PhaseStep
    <2>3. panel[request[t].user] # NoClient
          /\ request[t].kind \in Mutations \cup {"reset_traffic", "delete_client"}
      BY <1>2, <1>6, CommitChanges DEF PanelTypeOK, CallTypeOK, Writes
    <2>4. CASE request[t].kind \in Mutations
      <3>1. PICK clock \in 0..now :
               object[t] = Applied(request[t], panel[request[t].user], clock)
        BY <1>1, <1>2, <1>6, <2>4 DEF NoLostUpdate
      <3>2. Changes(request[t], panel[request[t].user], clock)
        BY <1>1, <1>2, <1>6, <3>1 DEF GrantsADate, Changes
      <3>3. panel' = [panel EXCEPT ![request[t].user] =
                         Applied(request[t], panel[request[t].user], clock)]
        BY <1>2, <1>6, <2>4, <3>1, CommitChanges DEF Mutations
      <3>4. /\ request[t].kind \in Atomic!Mutations
            /\ Atomic!Changes(request[t], panel[request[t].user], clock)
            /\ panel' = [panel EXCEPT ![request[t].user] =
                            Atomic!Applied(request[t], panel[request[t].user], clock)]
        BY <2>4, <3>2, <3>3, SameSets, SameChanges
      <3>5. Atomic!TakesEffect(t)
        BY <1>1, <2>2, <2>3, <3>4 DEF Atomic!TakesEffect, Atomic!Target, Atomic!Becomes
      <3>6. QED
        BY <3>5 DEF Atomic!Next
    <2>5. CASE request[t].kind \in {"reset_traffic", "delete_client"}
      <3>1. Atomic!TakesEffect(t)
        BY <1>1, <1>2, <1>6, <2>2, <2>3, <2>5, CommitChanges
        DEF Atomic!TakesEffect, Atomic!Target, Atomic!Becomes
      <3>2. QED
        BY <3>1 DEF Atomic!Next
    <2>6. QED
      BY <2>3, <2>4, <2>5
  <1>7. QED
    BY <1>1, <1>4, <1>5, <1>6

\* A task that resumes stays where its callers see it, returns or raises.
LEMMA ResumesAtomic ==
    ASSUME Core, NEW t \in Tasks, Resumes(t)
    PROVE  Atomic!Next \/ UNCHANGED Atomic!vars
  <1>1. /\ PanelTypeOK /\ ReadIsCurrent /\ now > 0 /\ stage[t] # "idle"
        /\ Ack # NoAnswer
    BY PanelAssumption
    DEF Core, IInv, TypeOK, Quiet, Resumes, FetchResumes, Acquire, ClientMissing,
        NothingToWrite, MutationApplies, ClientRouteCalled, EnsureAdds, EnsureUpdates,
        WriteResumes, VerifyResumes, ReadDone
  <1>2. /\ request[t] \in Request /\ request[t].user \in Users /\ now \in Nat
        /\ panel[request[t].user] \in Client \cup {NoClient}
    BY <1>1, CallTypes
  <1>3. ASSUME NEW s \in {"done", "failed"}, NEW c, Goto(t, s, c),
               NEW from, Phase(t) \in from
        PROVE  Atomic!Step(t, from, s) /\ UNCHANGED <<panel, request, now>>
    <2>1. Phase(t)' = s
      BY <1>1, <1>3, GotoPhase
    <2>2. QED
      BY <1>1, <1>3, <2>1, GotoPhase, PhaseStep
  <1>4. ASSUME NEW s, NEW c, Goto(t, s, c), Phase(t)' = Phase(t)
        PROVE  UNCHANGED Atomic!vars
    BY <1>1, <1>4, GotoPhase, PhaseStutter
  <1>5. CASE FetchResumes(t)
    <2>1. /\ Goto(t, "done", answer[t][request[t].user]) /\ Phase(t) \in {"pending"}
          /\ request[t].kind = "get_client"
      BY <1>1, <1>5 DEF FetchResumes, Phase, PanelTypeOK, CallTypeOK
    <2>2. Atomic!ReturnsUnchanged(t)
      BY <1>3, <2>1 DEF Atomic!ReturnsUnchanged
    <2>3. QED
      BY <2>2 DEF Atomic!Next
  <1>6. CASE NothingToWrite(t)
    <2>1. /\ Goto(t, "done", Found(t)) /\ Phase(t) \in {"pending"}
          /\ Found(t) # NoClient /\ Found(t) = panel[request[t].user]
          /\ \/ request[t].kind = "ensure_client"
             \/ request[t].kind \in Mutations /\ ~Changes(request[t], Found(t), now)
      BY <1>1, <1>6 DEF NothingToWrite, ReadDone, Phase, Found, ReadIsCurrent
    <2>2. \/ request[t].kind = "ensure_client"
          \/ /\ request[t].kind = "grant_days"
             /\ Atomic!IsUnlimited(panel[request[t].user].expiry,
                                   panel[request[t].user].enable)
      <3>1. CASE request[t].kind \in Mutations /\ ~Changes(request[t], Found(t), now)
        <4>1. request[t].kind = "grant_days"
          BY <3>1 DEF Changes
        <4>2. IsUnlimited(panel[request[t].user].expiry, panel[request[t].user].enable)
          BY <1>1, <1>2, <2>1, <3>1, OnlyPerpetualUnchanged
        <4>3. QED
          BY <4>1, <4>2, SameChanges
      <3>2. QED
        BY <2>1, <3>1
    <2>3. Atomic!Step(t, {"pending"}, "done") /\ UNCHANGED <<panel, request, now>>
      BY <1>3, <2>1
    <2>4. Atomic!ReturnsUnchanged(t)
      BY <2>1, <2>2, <2>3 DEF Atomic!ReturnsUnchanged, Atomic!Target
    <2>5. QED
      BY <2>4 DEF Atomic!Next
  <1>7. CASE ClientMissing(t)
    <2>1. /\ Goto(t, "failed", NoClient)
          /\ Phase(t) \in {"pending", "created", "applied"}
      BY <1>7 DEF ClientMissing, ReadDone, Phase
    <2>2. Atomic!Raises(t)
      BY <1>3, <2>1 DEF Atomic!Raises
    <2>3. QED
      BY <2>2 DEF Atomic!Next
  <1>8. CASE VerifyResumes(t)
    <2>1. PICK s \in {"done", "failed"}, c \in {Found(t), NoClient} : Goto(t, s, c)
      BY <1>8 DEF VerifyResumes
    <2>2. Phase(t) \in {"applied"} /\ Phase(t) \in {"pending", "created", "applied"}
      BY <1>8 DEF VerifyResumes, Phase
    <2>3. Atomic!Returns(t) \/ Atomic!Raises(t)
      BY <1>3, <2>1, <2>2 DEF Atomic!Returns, Atomic!Raises
    <2>4. QED
      BY <2>3 DEF Atomic!Next
  <1>9. CASE Acquire(t) \/ EnsureAdds(t) \/ WriteResumes(t)
    <2>1. PICK s, c : /\ Goto(t, s, c) /\ s \in {"read", "add", "verify"}
                      /\ Phase(t) = IF s = "verify" THEN "applied" ELSE "pending"
      <3>1. CASE Acquire(t)
        BY <3>1 DEF Acquire, Phase
      <3>2. CASE EnsureAdds(t)
        BY <3>2 DEF EnsureAdds, ReadDone, Phase
      <3>3. CASE WriteResumes(t)
        <4>1. answer[t] = Ack
          BY <1>1, <3>3 DEF WriteResumes, PanelTypeOK, CallTypeOK
        <4>2. QED
          BY <3>3, <4>1 DEF WriteResumes, Phase
      <3>4. QED
        BY <1>9, <3>1, <3>2, <3>3
    <2>2. Phase(t)' = Phase(t)
      BY <1>1, <2>1, GotoPhase
    <2>3. QED
      BY <1>4, <2>1, <2>2
  <1>10. CASE MutationApplies(t) \/ ClientRouteCalled(t) \/ EnsureUpdates(t)
    <2>1. PICK c : /\ Goto(t, "write", c)
                   /\ Phase(t) = IF request[t].kind = "ensure_client"
                                 THEN "created" ELSE "pending"
      <3>1. CASE MutationApplies(t)
        BY <3>1 DEF MutationApplies, ReadDone, Phase, Mutations
      <3>2. CASE ClientRouteCalled(t)
        BY <3>2 DEF ClientRouteCalled, ReadDone, Phase
      <3>3. CASE EnsureUpdates(t)
        <4>1. answer[t] = Ack /\ request[t].kind = "ensure_client"
          BY <1>1, <3>3 DEF EnsureUpdates, PanelTypeOK, CallTypeOK
        <4>2. QED
          BY <3>3, <4>1 DEF EnsureUpdates, Phase
      <3>4. QED
        BY <1>10, <3>1, <3>2, <3>3
    <2>2. Phase(t)' = Phase(t)
      BY <1>1, <2>1, GotoPhase
    <2>3. QED
      BY <1>4, <2>1, <2>2
  <1>11. QED
    BY <1>5, <1>6, <1>7, <1>8, <1>9, <1>10 DEF Resumes

\* A request that fails raises.
LEMMA RequestFailsAtomic ==
    ASSUME Core, NEW t \in Tasks, RequestFails(t)
    PROVE  Atomic!Next
  <1>1. PanelTypeOK /\ stage[t] \in InFlight
    BY PanelAssumption DEF Core, IInv, TypeOK, RequestFails
  <1>2. Phase(t) \in {"pending", "created", "applied"}
    BY <1>1 DEF Phase, PanelTypeOK, CallTypeOK
  <1>3. /\ Phase(t)' = "failed" /\ UNCHANGED <<panel, request, now>>
        /\ \A x \in Tasks : x # t => stage'[x] = stage[x] /\ answer'[x] = answer[x]
    BY <1>1 DEF RequestFails, PanelTypeOK, Phase
  <1>4. Atomic!Step(t, {"pending", "created", "applied"}, "failed")
    BY <1>2, <1>3, PhaseStep
  <1>5. QED
    BY <1>3, <1>4 DEF Atomic!Raises, Atomic!Next

\* Starting a call and leaving one.
LEMMA CallersAtomic ==
    ASSUME PanelTypeOK, NEW t \in Tasks, Reads(t) \/ WritesTo(t) \/ Returns(t)
    PROVE  Atomic!Next
  <1>1. /\ UNCHANGED <<panel, now>>
        /\ \A x \in Tasks : x # t => /\ stage'[x] = stage[x] /\ answer'[x] = answer[x]
                                     /\ request'[x] = request[x]
    <2>1. CASE Reads(t)
      BY <2>1 DEF Reads, BeginGet, PanelTypeOK
    <2>2. CASE WritesTo(t)
      BY <2>2 DEF WritesTo, BeginWrite, PanelTypeOK
    <2>3. CASE Returns(t)
      BY <2>3 DEF Returns, EndCall, PanelTypeOK
    <2>4. QED
      BY <2>1, <2>2, <2>3
  <1>2. CASE Reads(t)
    <2>1. PICK u \in Users : BeginGet(t, u)
      BY <1>2 DEF Reads
    <2> DEFINE r == [kind |-> "get_client", user |-> u, arg |-> 0]
    <2>2. r \in Request /\ r.kind = "get_client"
      BY DEF Request
    <2>3. /\ request' = [request EXCEPT ![t] = r] /\ request'[t] = r
          /\ stage[t] = "idle" /\ stage'[t] \in {"fetch", "done"}
      BY <1>2, <2>1 DEF Reads, Spend, BeginGet, PanelTypeOK
    <2> HIDE DEF r
    <2>4. Phase(t) \in {"idle"} /\ Phase(t)' \in {"pending", "done"}
      BY <2>3 DEF Phase
    <2>5. Atomic!Step(t, {"idle"}, "pending") \/ Atomic!Step(t, {"idle"}, "done")
      BY <1>1, <2>4, PhaseStep
    <2>6. r \in Atomic!Request
      BY <2>2, SameSets
    <2>7. Atomic!Begin(t) \/ Atomic!Hit(t)
      BY <1>1, <2>2, <2>3, <2>5, <2>6 DEF Atomic!Begin, Atomic!Hit
    <2>8. QED
      BY <2>7 DEF Atomic!Next
  <1>3. CASE WritesTo(t)
    <2>1. PICK r \in Requests : BeginWrite(t, r)
      BY <1>3 DEF WritesTo
    <2>2. r \in Atomic!Request
      BY ClientsAssumption, SameSets
    <2>3. /\ request' = [request EXCEPT ![t] = r] /\ request'[t] = r
          /\ stage[t] = "idle" /\ stage'[t] = "wait"
      BY <1>3, <2>1 DEF WritesTo, Spend, BeginWrite, PanelTypeOK
    <2>4. Phase(t) \in {"idle"} /\ Phase(t)' = "pending"
      BY <2>3 DEF Phase
    <2>5. Atomic!Step(t, {"idle"}, "pending")
      BY <1>1, <2>4, PhaseStep
    <2>6. Atomic!Begin(t)
      BY <1>1, <2>2, <2>3, <2>5 DEF Atomic!Begin
    <2>7. QED
      BY <2>6 DEF Atomic!Next
  <1>4. CASE Returns(t)
    <2>1. /\ request' = [request EXCEPT ![t] = NoRequest]
          /\ stage[t] \in {"done", "failed"} /\ stage'[t] = "idle"
      BY <1>4 DEF Returns, EndCall, PanelTypeOK
    <2>2. Phase(t) \in {"done", "failed"} /\ Phase(t)' = "idle"
      BY <2>1 DEF Phase
    <2>3. Atomic!Step(t, {"done", "failed"}, "idle")
      BY <1>1, <2>2, PhaseStep
    <2>4. Atomic!Ends(t)
      BY <1>1, <2>1, <2>3 DEF Atomic!Ends
    <2>5. QED
      BY <2>4 DEF Atomic!Next
  <1>5. QED
    BY <1>2, <1>3, <1>4

\* Every step of the gateway is one of AtomicPanel's or a stutter.
LEMMA NextAtomic ==
    ASSUME Core, [Next]_vars
    PROVE  [Atomic!Next]_(Atomic!vars)
  <1>1. PanelTypeOK /\ Quiet
    BY DEF Core, IInv, TypeOK
  <1>2. ASSUME NEW t \in Tasks, PanelAnswers(t)
        PROVE  UNCHANGED Atomic!vars
    <2>1. /\ stage[t] \in {"fetch", "read", "verify"}
          /\ UNCHANGED <<panel, request, now, stage>>
          /\ \A x \in Tasks : x # t => answer'[x] = answer[x]
      BY <1>1, <1>2 DEF PanelAnswers, PanelTypeOK
    <2>2. Phase(t)' = Phase(t)
      BY <2>1 DEF Phase
    <2>3. QED
      BY <2>1, <2>2, PhaseStutter
  <1>3. CASE CacheExpires \/ UNCHANGED vars
    <2>1. UNCHANGED <<panel, request, now, stage, answer>>
      BY <1>3 DEF CacheExpires, vars, panelVars
    <2>2. \A x \in Tasks : Phase(x)' = Phase(x)
      BY <2>1 DEF Phase
    <2>3. QED
      BY <2>1, <2>2 DEF Atomic!vars
  <1>4. CASE Tick
    <2>1. UNCHANGED <<panel, request, stage, answer>> /\ now' = now + 1
      BY <1>4 DEF Tick
    <2>2. \A x \in Tasks : Phase(x)' = Phase(x)
      BY <2>1 DEF Phase
    <2>3. Atomic!Tick
      BY <2>1, <2>2 DEF Atomic!Tick
    <2>4. QED
      BY <2>3 DEF Atomic!Next
  <1>5. CASE GatewayStep
    <2>1. \A e \in late : ~LateWriteLands(e)
      BY <1>1 DEF Quiet
    <2>2. QED
      BY <1>2, <1>3, <1>5, <2>1, PanelCommitsAtomic, ResumesAtomic, RequestFailsAtomic
      DEF GatewayStep
  <1>6. QED
    BY <1>1, <1>3, <1>4, <1>5, CallersAtomic DEF Next

\* The process starts where AtomicPanel does.
LEMMA InitAtomic == ASSUME Init PROVE Atomic!Init
  <1>1. /\ panel \in Snapshot /\ request = [t \in Tasks |-> NoRequest]
        /\ stage = [t \in Tasks |-> "idle"] /\ now = 1
    BY ClientsAssumption DEF Init, PanelInit
  <1>2. \A t \in Tasks : Phase(t) = "idle"
    BY <1>1 DEF Phase
  <1>3. QED
    BY <1>1, <1>2, SameSets DEF Atomic!Init

\* If no abandoned write lands later, every call of the gateway is atomic
\* (panel.py:264-271): with its lock, its cache, its re-reads, its failures and
\* its timeouts, it implements AtomicPanel.
THEOREM CallsAtomic == ASSUME ~LateWrites PROVE Spec => CallsAreAtomic
  <1>1. Init => Core /\ Atomic!Init
    BY InitCore, InitAtomic
  <1>2. Core /\ [Next]_vars => Core'
    BY NextCore
  <1>3. Core /\ [Next]_vars => [Atomic!Next]_(Atomic!vars)
    BY NextAtomic
  <1>4. QED
    BY <1>1, <1>2, <1>3, PTL DEF Spec, CallsAreAtomic, Atomic!Spec

-----------------------------------------------------------------------------
(* Granted days are kept.                                                  *)

\* Of the mutations only set_expiry_ms can move an expiry back.
LEMMA OnlySetExpiryShortens ==
    ASSUME NEW r \in Request, r.kind \in Mutations, NEW c \in Client, NEW clock \in Nat,
           Applied(r, c, clock).expiry < c.expiry
    PROVE  r.kind = "set_expiry_ms"
  <1>1. c.expiry \in Int /\ c.enable \in BOOLEAN /\ r.arg \in Nat
    BY DEF Client, Request
  <1>2. CASE r.kind = "grant_days"
    <2>1. Applied(r, c, clock).expiry = CalculateExpiry(c.expiry, r.arg, clock, c.enable)
      BY <1>2 DEF Applied, Client
    <2> DEFINE e == CalculateExpiry(c.expiry, r.arg, clock, c.enable)
    <2>2. e \in Int /\ e >= c.expiry
      BY <1>1, GrantNeverShortens, CalculateExpiryType
    <2> HIDE DEF e
    <2>3. QED
      BY <1>1, <2>1, <2>2 DEF e
  <1>3. CASE r.kind \in {"set_enabled", "set_limits", "regenerate_sub_id"}
    <2>1. Applied(r, c, clock).expiry = c.expiry
      BY <1>3 DEF Applied, Client
    <2>2. QED
      BY <1>1, <2>1
  <1>4. QED
    BY <1>2, <1>3 DEF Mutations

\* The panel changes only when it carries out a write.
LEMMA OnlyCommitsChange ==
    ASSUME Core, [Next]_vars, panel' # panel
    PROVE  \E t \in Tasks : PanelCommits(t)
  <1>1. \A t \in Tasks : ~Reads(t) /\ ~WritesTo(t) /\ ~Returns(t)
    BY DEF Reads, WritesTo, Returns, BeginGet, BeginWrite, EndCall
  <1>2. ~Tick /\ vars' # vars
    BY DEF Tick, vars, panelVars
  <1>3. ASSUME NEW t \in Tasks, Resumes(t)
        PROVE  FALSE
    BY <1>3 DEF Resumes, FetchResumes, Acquire, ClientMissing, NothingToWrite,
                MutationApplies, ClientRouteCalled, EnsureAdds, EnsureUpdates,
                WriteResumes, VerifyResumes, Goto
  <1>4. /\ \A t \in Tasks : ~PanelAnswers(t) /\ ~RequestFails(t)
        /\ ~CacheExpires /\ \A e \in late : ~LateWriteLands(e)
    BY DEF PanelAnswers, RequestFails, CacheExpires, Core, Quiet
  <1>5. QED
    BY <1>1, <1>2, <1>3, <1>4 DEF Next, GatewayStep

\* Whoever moves an expiry back was asked to set it.
LEMMA NextKeepsGrants ==
    ASSUME Core, [Next]_vars, NEW u \in Users,
           panel[u] # NoClient, panel'[u] # NoClient,
           panel'[u].expiry < panel[u].expiry
    PROVE  \E t \in Tasks : /\ stage[t] = "write" /\ request[t].user = u
                            /\ request[t].kind = "set_expiry_ms"
  <1>1. /\ PanelTypeOK /\ NoLostUpdate /\ panel \in Snapshot
        /\ panel[u] \in Client /\ panel[u].expiry \in Int
    BY DEF Core, IInv, TypeOK, PanelTypeOK, Snapshot, Client
  <1>2. PICK t \in Tasks : PanelCommits(t)
    BY <1>1, OnlyCommitsChange
  <1>3. /\ stage[t] \in {"add", "write"} /\ answer[t] = NoAnswer /\ Ack # NoAnswer
        /\ request[t] \in Request /\ now \in Nat
        /\ AddsNew(t) /\ CreatedStays(t)
    BY <1>1, <1>2, CallTypes, PanelAssumption
    DEF PanelCommits, Unanswered, Core, SendsWhatItDecided
  <1>4. panel'[u] # panel[u]
    BY <1>1
  <1>5. request[t].user = u /\ stage[t] = "write"
    <2>1. PICK c : panel' = [panel EXCEPT ![request[t].user] = c] \/ panel' = panel
      BY <1>1, <1>2, <1>3, CommitChanges
    <2>2. request[t].user = u
      BY <1>1, <1>4, <2>1 DEF Snapshot
    <2>3. stage[t] # "add"
      BY <1>1, <1>2, <2>2, CommitChanges
    <2>4. QED
      BY <1>3, <2>2, <2>3
  <1>6. panel'[u] = object[t]
        /\ request[t].kind \in Mutations \cup {"ensure_client"}
    <2>1. request[t].kind \in Writes
      BY <1>1, <1>5 DEF PanelTypeOK, CallTypeOK
    <2>2. request[t].kind \notin {"delete_client", "reset_traffic"}
      BY <1>1, <1>2, <1>4, <1>5, CommitChanges DEF Snapshot
    <2>3. panel' = [panel EXCEPT ![u] = object[t]]
      BY <1>1, <1>2, <1>5, <2>2, CommitChanges
    <2>4. QED
      BY <1>1, <2>1, <2>2, <2>3 DEF Snapshot, Writes
  <1>7. CASE request[t].kind = "ensure_client"
    <2>1. panel[u] = [object[t] EXCEPT !.enable = TRUE] /\ object[t] \in Client
      BY <1>1, <1>3, <1>5, <1>7 DEF CreatedStays, WasCreated, PanelTypeOK, CallTypeOK
    <2>2. panel[u].expiry = object[t].expiry
      BY <2>1 DEF Client
    <2>3. QED
      BY <1>1, <1>6, <2>2
  <1>8. CASE request[t].kind \in Mutations
    <2>1. PICK clock \in 0..now : object[t] = Applied(request[t], panel[u], clock)
      BY <1>1, <1>3, <1>5, <1>8 DEF NoLostUpdate
    <2>2. request[t].kind = "set_expiry_ms"
      BY <1>1, <1>3, <1>6, <1>8, <2>1, OnlySetExpiryShortens
    <2>3. QED
      BY <1>5, <2>2
  <1>9. QED
    BY <1>6, <1>7, <1>8

\* If no abandoned write lands later, the days of every grant are kept: only a
\* set_expiry_ms ever moves an expiry back (subscriptions.py:5).
THEOREM GrantsAreKept == ASSUME ~LateWrites PROVE Spec => GrantsKept
  <1> DEFINE A == \A u \in Users :
                     /\ panel[u] # NoClient /\ panel'[u] # NoClient
                     /\ panel'[u].expiry < panel[u].expiry
                     => \E t \in Tasks : /\ stage[t] = "write" /\ request[t].user = u
                                        /\ request[t].kind = "set_expiry_ms"
  <1>1. Init => Core
    BY InitCore
  <1>2. Core /\ [Next]_vars => Core'
    BY NextCore
  <1>3. Core /\ [Next]_vars => [A]_vars
    BY NextKeepsGrants
  <1>4. QED
    BY <1>1, <1>2, <1>3, PTL DEF Spec, GrantsKept
=============================================================================
