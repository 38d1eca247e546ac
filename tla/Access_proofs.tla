---------------------------- MODULE Access_proofs ----------------------------
(***************************************************************************)
(* The theorems about Access, for any users, staff and clients, in four    *)
(* parts.  A refusal stands whatever the panel does: the argument is about *)
(* the users table and the handlers alone.  The types go with the gateway  *)
(* calls.  No call makes a client perpetual, because whoever computes a    *)
(* new client from what was read keeps its end.  And a ban that nobody     *)
(* crossed and that reported no error was carried out.                     *)
(***************************************************************************)
EXTENDS Access, PanelGateway_proofs

\* The users table and the handlers' locals have their types.
RowsTyped ==
    /\ status  \in [Users -> Statuses]
    /\ pc      \in [Tasks -> {"idle", "start", "request", "row", "panel", "look", "write"}]
    /\ job     \in [Tasks -> Jobs]
    /\ subject \in [Tasks -> Users \cup {NoUser}]

\* A handler that is about to write a row has read enough to be allowed to:
\* what it saw may have become a ban since, but never again a request or a refusal.
RowInv(t) ==
    pc[t] = "row" =>
        /\ subject[t] \in Users
        /\ job[t] \in {"start", "accept", "invite", "ban", "unban"}
        /\ job[t] = "start"  => status[subject[t]] \in {"none", "approved", "blocked"}
        /\ job[t] = "accept" => status[subject[t]] \in {"approved", "blocked"}

\* /start is about its own sender, so nobody else can insert his row meanwhile.
StartInv(t) ==
    /\ pc[t] \in {"start", "request"} => job[t] = "start"
    /\ job[t] = "start" => subject[t] = t
    /\ pc[t] \notin {"idle", "start", "request"} => subject[t] \in Users

RowsInv == RowsTyped /\ \A t \in Tasks : RowInv(t) /\ StartInv(t)

\* At the start nobody handles anything.
LEMMA InitRowsInv == Init => RowsInv
  <1> SUFFICES ASSUME Init
               PROVE  RowsInv
    OBVIOUS
  <1>1. PICK i \in Initial : status = i.status
    BY DEF Init
  <1>2. status \in [Users -> Statuses]
    BY <1>1, AccessAssumption
  <1>3. QED
    BY <1>2 DEF Init, RowsInv, RowsTyped, RowInv, StartInv, Jobs

\* One task's handler moves, and rows change only in ways no other handler's
\* reading forbids: then what every handler has read still stands.
LEMMA RowsPreserved ==
    ASSUME RowsInv, NEW t \in Tasks,
           RowsTyped', RowInv(t)', StartInv(t)',
           \A s \in Tasks \ {t} : /\ pc'[s] = pc[s] /\ job'[s] = job[s]
                                  /\ subject'[s] = subject[s],
           \A u \in Users :
               \/ status'[u] = status[u]
               \/ status'[u] \in {"approved", "blocked"}
               \/ status[u] = "pending"
               \/ status[u] = "none" /\ u = t /\ pc[t] = "request"
    PROVE  RowsInv'
  <1>1. SUFFICES ASSUME NEW s \in Tasks \ {t}
                 PROVE  RowInv(s)' /\ StartInv(s)'
    BY DEF RowsInv
  <1>2. RowInv(s) /\ StartInv(s) /\ StartInv(t)
    BY DEF RowsInv
  <1>3. StartInv(s)'
    BY <1>2 DEF StartInv
  <1>4. RowInv(s)'
    <2> SUFFICES ASSUME pc[s] = "row"
                 PROVE  /\ job[s] = "start" =>
                              status'[subject[s]] \in {"none", "approved", "blocked"}
                        /\ job[s] = "accept" =>
                              status'[subject[s]] \in {"approved", "blocked"}
      BY <1>2 DEF RowInv
    <2>1. subject[s] \in Users
      BY <1>2 DEF RowInv
    <2>2. job[s] = "start" => subject[s] # t
      BY <1>2 DEF StartInv
    <2>3. QED
      BY <1>2, <2>1, <2>2 DEF RowInv
  <1>5. QED
    BY <1>3, <1>4

\* Every step of the bot, and of the panel, preserves the invariant.
LEMMA NextRowsInv == RowsInv /\ [Next]_vars => RowsInv'
  <1> SUFFICES ASSUME RowsInv, [Next]_vars
               PROVE  RowsInv'
    OBVIOUS
  <1> USE AccessAssumption
  <1>1. ASSUME UNCHANGED rowVars
        PROVE  RowsInv'
    BY <1>1 DEF RowsInv, RowsTyped, RowInv, StartInv, rowVars, taskVars
  <1>2. ASSUME NEW u \in Users, Start(u)
        PROVE  RowsInv'
    <2>1. RowsTyped' /\ RowInv(u)' /\ StartInv(u)'
      BY <1>2 DEF RowsInv, RowsTyped, RowInv, StartInv, Start, Handles, Jobs
    <2>2. QED
      BY <1>2, <2>1, RowsPreserved DEF RowsInv, RowsTyped, Start, Handles
  <1>3. ASSUME NEW u \in Users, Redeem(u)
        PROVE  RowsInv'
    <2>1. RowsTyped' /\ RowInv(u)' /\ StartInv(u)'
      BY <1>3 DEF RowsInv, RowsTyped, RowInv, StartInv, Redeem, Jobs
    <2>2. QED
      BY <1>3, <2>1, RowsPreserved DEF RowsInv, RowsTyped, Redeem
  <1>4. ASSUME NEW u \in Users, ReopensMenu(u)
        PROVE  RowsInv'
    <2>1. RowsTyped' /\ RowInv(u)' /\ StartInv(u)'
      BY <1>4 DEF RowsInv, RowsTyped, RowInv, StartInv, ReopensMenu, Goes
    <2>2. QED
      BY <1>4, <2>1, RowsPreserved DEF RowsInv, RowsTyped, ReopensMenu, Goes
  <1>5. ASSUME NEW u \in Users, IsAnswered(u)
        PROVE  RowsInv'
    <2>1. RowsTyped' /\ RowInv(u)' /\ StartInv(u)'
      BY <1>5 DEF RowsInv, RowsTyped, RowInv, StartInv, IsAnswered, Leaves, Jobs
    <2>2. QED
      BY <1>5, <2>1, RowsPreserved DEF RowsInv, RowsTyped, IsAnswered, Leaves
  <1>6. ASSUME NEW u \in Users, StartsNew(u)
        PROVE  RowsInv'
    <2>1. PICK mode \in Modes :
              /\ pc[u] = "start" /\ status[u] = "none" /\ UNCHANGED status
              /\ \/ Goes(u, "row") \/ Goes(u, "request") \/ Leaves(u)
      BY <1>6 DEF StartsNew
    <2>2. RowsTyped' /\ RowInv(u)' /\ StartInv(u)'
      BY <2>1 DEF RowsInv, RowsTyped, RowInv, StartInv, Goes, Leaves, Jobs
    <2>3. \A s \in Tasks \ {u} : pc'[s] = pc[s] /\ job'[s] = job[s] /\ subject'[s] = subject[s]
      BY <2>1 DEF RowsInv, RowsTyped, Goes, Leaves
    <2>4. QED
      BY <2>1, <2>2, <2>3, RowsPreserved DEF RowsInv, RowsTyped
  <1>7. ASSUME NEW u \in Users, RequestAccess(u)
        PROVE  RowsInv'
    <2>1. RowsTyped' /\ RowInv(u)' /\ StartInv(u)'
      BY <1>7 DEF RowsInv, RowsTyped, RowInv, StartInv, RequestAccess, Leaves, Jobs, Statuses
    <2>2. QED
      BY <1>7, <2>1, RowsPreserved DEF RowsInv, RowsTyped, RequestAccess, Leaves
  <1>8. ASSUME NEW u \in Users, NEW a \in Reviewers, Refuse(a, u)
        PROVE  RowsInv'
    <2>1. RowsTyped' /\ \A v \in Users : status'[v] = status[v] \/ status[v] = "pending"
      BY <1>8 DEF RowsInv, RowsTyped, Refuse, Claim, taskVars, Statuses
    <2>2. UNCHANGED taskVars
      BY <1>8 DEF Refuse
    <2>3. RowInv(a)' /\ StartInv(a)'
      BY <2>1, <2>2 DEF RowsInv, RowInv, StartInv, taskVars
    <2>4. QED
      BY <2>1, <2>2, <2>3, RowsPreserved DEF taskVars
  <1>9. ASSUME NEW u \in Users, NEW a \in Reviewers, Accept(a, u)
        PROVE  RowsInv'
    <2>1. RowsTyped' /\ RowInv(a)' /\ StartInv(a)'
      BY <1>9 DEF RowsInv, RowsTyped, RowInv, StartInv, Accept, Claim, Handles, Jobs, Statuses
    <2>2. QED
      BY <1>9, <2>1, RowsPreserved DEF RowsInv, RowsTyped, Accept, Claim, Handles
  <1>10. ASSUME NEW u \in Users, NEW a \in Banners,
                Ban(a, u) \/ Unban(a, u) \/ UnbanProbes(a, u)
         PROVE  RowsInv'
    <2>1. RowsTyped' /\ RowInv(a)' /\ StartInv(a)' /\ UNCHANGED status
      BY <1>10 DEF RowsInv, RowsTyped, RowInv, StartInv, Ban, Unban, UnbanProbes, Handles, Jobs
    <2>2. \A s \in Tasks \ {a} : pc'[s] = pc[s] /\ job'[s] = job[s] /\ subject'[s] = subject[s]
      BY <1>10 DEF RowsInv, RowsTyped, Ban, Unban, UnbanProbes, Handles
    <2>3. QED
      BY <2>1, <2>2, RowsPreserved
  <1>11. ASSUME NEW t \in Tasks, Probed(t)
         PROVE  RowsInv'
    <2>1. RowsTyped' /\ RowInv(t)' /\ StartInv(t)' /\ UNCHANGED status
      BY <1>11 DEF RowsInv, RowsTyped, RowInv, StartInv, Probed, Leaves, Jobs
    <2>2. \A s \in Tasks \ {t} : pc'[s] = pc[s] /\ job'[s] = job[s] /\ subject'[s] = subject[s]
      BY <1>11 DEF RowsInv, RowsTyped, Probed, Leaves
    <2>3. QED
      BY <2>1, <2>2, RowsPreserved
  <1>12. ASSUME NEW t \in Tasks, SetRow(t)
         PROVE  RowsInv'
    <2>1. RowsTyped' /\ RowInv(t)' /\ StartInv(t)'
      BY <1>12 DEF RowsInv, RowsTyped, RowInv, StartInv, SetRow, Goes, Statuses
    <2>2. \A s \in Tasks \ {t} : pc'[s] = pc[s] /\ job'[s] = job[s] /\ subject'[s] = subject[s]
      BY <1>12 DEF RowsInv, RowsTyped, SetRow, Goes
    <2>3. \A u \in Users : status'[u] = status[u] \/ status'[u] \in {"approved", "blocked"}
      BY <1>12 DEF RowsInv, RowsTyped, SetRow
    <2>4. QED
      BY <2>1, <2>2, <2>3, RowsPreserved
  <1>13. ASSUME NEW t \in Tasks, Looks(t) \/ WritesPanel(t)
         PROVE  RowsInv'
    <2>1. RowsTyped' /\ RowInv(t)' /\ StartInv(t)' /\ UNCHANGED status
      BY <1>13 DEF RowsInv, RowsTyped, RowInv, StartInv, Looks, WritesPanel, Looked, Goes
    <2>2. \A s \in Tasks \ {t} : pc'[s] = pc[s] /\ job'[s] = job[s] /\ subject'[s] = subject[s]
      BY <1>13 DEF RowsInv, RowsTyped, Looks, WritesPanel, Goes
    <2>3. QED
      BY <2>1, <2>2, RowsPreserved
  <1>14. ASSUME NEW t \in Tasks, Returns(t)
         PROVE  RowsInv'
    <2>1. RowsTyped' /\ RowInv(t)' /\ StartInv(t)' /\ UNCHANGED status
      BY <1>14 DEF RowsInv, RowsTyped, RowInv, StartInv, Returns, Leaves, Jobs
    <2>2. \A s \in Tasks \ {t} : pc'[s] = pc[s] /\ job'[s] = job[s] /\ subject'[s] = subject[s]
      BY <1>14 DEF RowsInv, RowsTyped, Returns, Leaves
    <2>3. QED
      BY <2>1, <2>2, RowsPreserved
  <1>15. QED
    BY <1>1, <1>2, <1>3, <1>4, <1>5, <1>6, <1>7, <1>8, <1>9, <1>10, <1>11,
             <1>12, <1>13, <1>14 DEF Next, Continues, vars

\* Who changes a rejected row has redeemed an invite, bans or unbans.
LEMMA RejectedStep ==
    ASSUME RowsInv, [Next]_vars, NEW u \in Users,
           status[u] = "rejected", status'[u] # "rejected"
    PROVE  \E t \in Tasks : /\ pc[t] = "row" /\ subject[t] = u
                            /\ job[t] \in {"invite", "ban", "unban"}
  <1>1. CASE \E t \in Tasks : SetRow(t)
    <2>1. PICK t \in Tasks : SetRow(t)
      BY <1>1
    <2>2. pc[t] = "row" /\ subject[t] = u
      BY <2>1 DEF SetRow, RowsInv, RowsTyped
    <2>3. RowInv(t)
      BY DEF RowsInv
    <2>4. QED
      BY <2>2, <2>3 DEF RowInv
  <1>2. CASE \E v \in Users : \E a \in Reviewers : Refuse(a, v) \/ Accept(a, v)
    BY <1>2 DEF Refuse, Accept, Claim, RowsInv, RowsTyped
  <1>3. CASE \E v \in Users : RequestAccess(v)
    BY <1>3 DEF RequestAccess, RowsInv, RowsTyped
  <1>4. CASE UNCHANGED status
    BY <1>4
  <1>5. QED
    <2>1. ASSUME NEW v \in Users,
                 Start(v) \/ Redeem(v) \/ ReopensMenu(v) \/ IsAnswered(v) \/ StartsNew(v)
          PROVE  UNCHANGED status
      BY <2>1 DEF Start, Redeem, ReopensMenu, IsAnswered, StartsNew
    <2>2. ASSUME NEW v \in Users, NEW a \in Banners,
                 Ban(a, v) \/ Unban(a, v) \/ UnbanProbes(a, v)
          PROVE  UNCHANGED status
      BY <2>2 DEF Ban, Unban, UnbanProbes
    <2>3. ASSUME NEW t \in Tasks, Probed(t) \/ Looks(t) \/ WritesPanel(t) \/ Returns(t)
          PROVE  UNCHANGED status
      BY <2>3 DEF Probed, Looks, WritesPanel, Returns
    <2>4. UNCHANGED rowVars \/ UNCHANGED vars => UNCHANGED status
      BY DEF vars, rowVars
    <2>5. QED
      BY <1>1, <1>2, <1>3, <1>4, <2>1, <2>2, <2>3, <2>4 DEF Next, Continues

\* A refused request stays refused: no acceptance under way and no /start can
\* overturn it, whatever the panel does (users_repo.claim_pending).
THEOREM RefusalsStand == Spec => RejectionStands
  <1>1. RowsInv /\ [Next]_vars =>
            [\A u \in Users :
               status[u] = "rejected" /\ status'[u] # "rejected"
               => \E t \in Tasks : /\ pc[t] = "row" /\ subject[t] = u
                                  /\ job[t] \in {"invite", "ban", "unban"}]_vars
    BY RejectedStep
  <1>2. QED
    BY <1>1, InitRowsInv, NextRowsInv, PTL DEF Spec, RejectionStands

-----------------------------------------------------------------------------
(* Types.  The inductive invariant ties the place of each handler to the   *)
(* gateway call it is in, so that a handler starts a call only when it is  *)
(* in none, and always for its subject.                                    *)

USE DEF InFlight, Locked, Stages

RestTyped ==
    /\ uses \in Nat
    /\ acts \in [Tasks -> Nat]
    /\ warned \subseteq Users
    /\ lastBan \in [Users -> {"none", "running", "clean", "crossed"}]

\* The call a handler is in, by where it is and what it is doing.
Look(t)  == [kind |-> "get_client", user |-> subject[t], arg |-> 0]
Write(t) ==
    [kind |-> IF job[t] \in {"ban", "unban"} THEN "set_enabled" ELSE "ensure_client",
     user |-> subject[t],
     arg  |-> IF job[t] = "ban" THEN 0 ELSE 1]

CallInv(t) ==
    /\ pc[t] \in {"look", "write"} <=> stage[t] # "idle"
    /\ pc[t] = "panel" => job[t] \in {"start", "invite", "accept", "ban", "unban"}
    /\ pc[t] = "look"  => request[t] = Look(t) /\ job[t] # "none"
    /\ pc[t] = "write" => /\ request[t] = Write(t)
                          /\ job[t] \in {"start", "invite", "accept", "ban", "unban"}

CallsInv ==
    /\ PanelTypeOK /\ LockInv /\ now > 0
    /\ RowsInv /\ RestTyped
    /\ \A t \in Tasks : CallInv(t)

\* No call is under way at first.
LEMMA InitCalls == ASSUME Init PROVE CallsInv
  <1>1. PICK i \in Initial : PanelInit(i.panel, 2)
    BY DEF Init
  <1>2. i.panel \in Snapshot
    BY AccessAssumption
  <1>3. PanelTypeOK /\ LockInv /\ now > 0
    BY <1>1, <1>2, InitType, InitLock DEF PanelInit
  <1>4. RowsInv /\ RestTyped
    BY InitRowsInv, AccessAssumption DEF Init, RestTyped
  <1>5. \A t \in Tasks : CallInv(t)
    BY <1>1 DEF Init, PanelInit, CallInv
  <1>6. QED
    BY <1>3, <1>4, <1>5 DEF CallsInv

\* One handler moves, with its call or outside any.
LEMMA CallsPreserved ==
    ASSUME CallsInv, RowsInv', RestTyped', PanelTypeOK', LockInv', now' = now,
           NEW t \in Tasks, CallInv(t)',
           \A s \in Tasks : s # t => /\ pc'[s] = pc[s] /\ job'[s] = job[s]
                                     /\ subject'[s] = subject[s]
                                     /\ stage'[s] = stage[s] /\ request'[s] = request[s]
    PROVE  CallsInv'
  <1>1. \A s \in Tasks : s # t => CallInv(s)'
    BY DEF CallsInv, CallInv, Look, Write
  <1>2. QED
    BY <1>1 DEF CallsInv

\* The handlers that do not touch the panel in this step are in no call.
LEMMA RowStepsCalls ==
    ASSUME CallsInv, RowsInv', NEW u \in Users, NEW t \in Tasks,
           \/ Start(u) \/ Redeem(u) \/ ReopensMenu(u) \/ IsAnswered(u)
           \/ StartsNew(u) \/ RequestAccess(u)
           \/ t \in Reviewers /\ (Refuse(t, u) \/ Accept(t, u))
           \/ t \in Banners /\ (Ban(t, u) \/ Unban(t, u))
           \/ SetRow(t)
    PROVE  CallsInv'
  <1>1. /\ pc \in [Tasks -> {"idle", "start", "request", "row", "panel", "look", "write"}]
        /\ job \in [Tasks -> Jobs] /\ subject \in [Tasks -> Users \cup {NoUser}]
        /\ RestTyped /\ u \in Tasks
    BY AccessAssumption DEF CallsInv, RowsInv, RowsTyped
  <1>2. UNCHANGED panelVars
    BY DEF Start, Redeem, ReopensMenu, IsAnswered, StartsNew, RequestAccess,
           Refuse, Accept, Ban, Unban, SetRow
  <1>3. RestTyped'
    <2>1. uses' = uses \/ (uses > 0 /\ uses' = uses - 1)
      BY DEF Start, Redeem, ReopensMenu, IsAnswered, StartsNew, RequestAccess,
             Refuse, Accept, Ban, Unban, SetRow
    <2>2. acts' = acts \/ \E s \in Tasks : acts[s] > 0 /\ acts' = [acts EXCEPT ![s] = @ - 1]
      BY <1>1 DEF Start, Redeem, ReopensMenu, IsAnswered, StartsNew, RequestAccess,
             Refuse, Accept, Ban, Unban, SetRow, Handles
    <2>3. warned' \subseteq warned
      BY DEF Start, Redeem, ReopensMenu, IsAnswered, StartsNew, RequestAccess,
             Refuse, Accept, Ban, Unban, SetRow
    <2>4. uses' \in Nat /\ acts' \in [Tasks -> Nat]
      BY <1>1, <2>1, <2>2 DEF RestTyped
    <2>5. lastBan' = lastBan \/ \E j : Begins(u, j)
      BY DEF Start, Redeem, ReopensMenu, IsAnswered, StartsNew, RequestAccess,
             Refuse, Accept, Ban, Unban, SetRow, Handles
    <2>6. lastBan' \in [Users -> {"none", "running", "clean", "crossed"}]
      BY <1>1, <2>5 DEF RestTyped, Begins
    <2>7. QED
      BY <1>1, <2>3, <2>4, <2>6 DEF RestTyped
  <1>4. \A s \in Tasks :
           \/ pc'[s] = pc[s] /\ job'[s] = job[s] /\ subject'[s] = subject[s]
           \/ /\ pc[s] \notin {"look", "write"} /\ pc'[s] \notin {"look", "write"}
              /\ pc'[s] = "panel" => job'[s] \in {"start", "invite", "accept", "ban", "unban"}
    <2>1. CASE Start(u)
      BY <1>1, <2>1 DEF Start, Handles
    <2>2. CASE Redeem(u) \/ ReopensMenu(u) \/ IsAnswered(u) \/ StartsNew(u) \/ RequestAccess(u)
      <3>1. /\ pc[u] \in {"start", "request"}
            /\ \E l \in {"idle", "row", "request"} : pc' = [pc EXCEPT ![u] = l]
            /\ \A s \in Tasks : s # u => job'[s] = job[s] /\ subject'[s] = subject[s]
        BY <1>1, <2>2, AccessAssumption
           DEF Redeem, ReopensMenu, IsAnswered, StartsNew, RequestAccess, Goes, Leaves
      <3>2. QED
        BY <1>1, <3>1
    <2>3. CASE t \in Reviewers /\ (Refuse(t, u) \/ Accept(t, u))
      BY <1>1, <2>3 DEF Refuse, Accept, Handles, taskVars
    <2>4. CASE t \in Banners /\ (Ban(t, u) \/ Unban(t, u))
      BY <1>1, <2>4 DEF Ban, Unban, Handles
    <2>5. CASE SetRow(t)
      <3>1. job[t] \in {"start", "invite", "accept", "ban", "unban"}
        BY <2>5 DEF SetRow, CallsInv, RowsInv, RowInv
      <3>2. QED
        BY <1>1, <2>5, <3>1 DEF SetRow, Goes
    <2>6. QED
      BY <2>1, <2>2, <2>3, <2>4, <2>5
  <1>5. ASSUME NEW s \in Tasks
        PROVE  CallInv(s)'
    <2>1. CallInv(s) /\ stage'[s] = stage[s] /\ request'[s] = request[s]
      BY <1>2 DEF CallsInv, panelVars
    <2>2. QED
      BY <1>4, <2>1 DEF CallInv, Look, Write
  <1>6. PanelTypeOK' /\ LockInv' /\ now' > 0
    BY <1>2 DEF CallsInv, panelVars, PanelTypeOK, CallTypeOK, LockInv
  <1>7. QED
    BY <1>3, <1>5, <1>6 DEF CallsInv

\* Who is done with a row, or probes, is about a user.
LEMMA SubjectIsUser ==
    ASSUME CallsInv, NEW t \in Tasks, pc[t] \in {"panel", "look", "write"}
    PROVE  subject[t] \in Users
  BY DEF CallsInv, RowsInv, StartInv

\* A handler looks the client of its subject up.
LEMMA LookCalls ==
    ASSUME CallsInv, RowsInv', NEW t \in Tasks, NEW u \in Users,
           Looks(t) \/ (t \in Banners /\ UnbanProbes(t, u))
    PROVE  CallsInv'
  <1>1. /\ pc \in [Tasks -> {"idle", "start", "request", "row", "panel", "look", "write"}]
        /\ job \in [Tasks -> Jobs] /\ subject \in [Tasks -> Users \cup {NoUser}]
        /\ RestTyped /\ PanelTypeOK /\ LockInv /\ now > 0 /\ CallInv(t)
    BY DEF CallsInv, RowsInv, RowsTyped
  <1>2. /\ pc[t] \in {"idle", "panel"} /\ pc' = [pc EXCEPT ![t] = "look"]
        /\ \A s \in Tasks : s # t => job'[s] = job[s] /\ subject'[s] = subject[s]
        /\ subject'[t] \in Users /\ BeginGet(t, subject'[t]) /\ job'[t] # "none"
        /\ UNCHANGED <<uses, warned>>
        /\ UNCHANGED acts \/ (acts' = [acts EXCEPT ![t] = @ - 1] /\ acts[t] > 0)
        /\ UNCHANGED lastBan \/ \E j : Begins(u, j)
    <2>1. CASE Looks(t)
      <3>1. subject[t] \in Users /\ job[t] # "none"
        BY <1>1, <2>1, SubjectIsUser DEF Looks, CallInv
      <3>2. QED
        BY <1>1, <2>1, <3>1 DEF Looks, Goes
    <2>2. CASE UnbanProbes(t, u)
      BY <1>1, <2>2 DEF UnbanProbes, Handles
    <2>3. QED
      BY <2>1, <2>2
  <1>3. stage[t] = "idle"
    BY <1>1, <1>2 DEF CallInv
  <1>4. /\ PanelTypeOK' /\ LockInv' /\ UNCHANGED <<panel, cache, answer, late, now>>
        /\ \A s \in Tasks : s # t => stage'[s] = stage[s] /\ request'[s] = request[s]
    BY <1>1, <1>2, <1>3, CallStep
  <1>5. /\ request'[t] = [kind |-> "get_client", user |-> subject'[t], arg |-> 0]
        /\ stage'[t] # "idle"
    BY <1>1, <1>2 DEF BeginGet, PanelTypeOK
  <1>6. CallInv(t)'
    BY <1>1, <1>2, <1>5 DEF CallInv, Look
  <1>7. RestTyped'
    <2>1. lastBan' \in [Users -> {"none", "running", "clean", "crossed"}]
      BY <1>1, <1>2 DEF RestTyped, Begins
    <2>2. QED
      BY <1>1, <1>2, <2>1 DEF RestTyped
  <1>8. QED
    BY <1>1, <1>2, <1>4, <1>6, <1>7, CallsPreserved

\* What a handler that has looked may ask of the panel.
LEMMA NeededIsWrite ==
    ASSUME CallsInv, NEW t \in Tasks, NEW r \in Needed(t), Looked(t)
    PROVE  /\ r = Write(t) /\ r \in Request /\ r.kind \in {"ensure_client", "set_enabled"}
           /\ job[t] \in {"start", "invite", "accept", "ban", "unban"}
           /\ job[t] = "unban" => stage[t] = "done" /\ object[t] # NoClient /\ object[t].expiry > now
           /\ job[t] = "ban" => stage[t] = "failed" \/ object[t] # NoClient
  <1>1. subject[t] \in Users /\ job[t] \in Jobs /\ job[t] # "probe"
    BY SubjectIsUser DEF Looked, CallsInv, RowsInv, RowsTyped
  <1>2. CASE job[t] \in {"start", "invite", "accept"}
    BY <1>1, <1>2 DEF Needed, Write, Request, Writes
  <1>3. CASE job[t] = "ban"
    BY <1>1, <1>3 DEF Needed, Write, Request, Writes, Mutations
  <1>4. CASE job[t] = "unban"
    BY <1>1, <1>4 DEF Needed, Write, Request, Writes, Mutations, Unexpired
  <1>5. job[t] # "none"
    BY DEF CallsInv, CallInv, Looked
  <1>6. QED
    BY <1>1, <1>2, <1>3, <1>4, <1>5 DEF Jobs

\* A handler asks the panel for what its look has shown to be needed.
LEMMA WriteCalls ==
    ASSUME CallsInv, RowsInv', NEW t \in Tasks, WritesPanel(t)
    PROVE  CallsInv'
  <1>1. /\ pc \in [Tasks -> {"idle", "start", "request", "row", "panel", "look", "write"}]
        /\ RestTyped /\ PanelTypeOK /\ LockInv /\ now > 0 /\ CallInv(t)
    BY DEF CallsInv, RowsInv, RowsTyped
  <1>2. PICK r \in Needed(t) : BeginWrite(t, r)
    BY DEF WritesPanel
  <1>3. /\ Looked(t) /\ pc' = [pc EXCEPT ![t] = "write"]
        /\ UNCHANGED <<job, subject, uses, acts, warned, lastBan>>
    BY DEF WritesPanel, Goes
  <1>4. /\ r = Write(t) /\ r \in Request /\ r.kind \in Writes
        /\ job[t] \in {"start", "invite", "accept", "ban", "unban"}
    BY <1>3, NeededIsWrite DEF Writes, Mutations
  <1>5. stage[t] \in {"done", "failed"}
    BY <1>3 DEF Looked
  <1>6. /\ PanelTypeOK' /\ LockInv' /\ UNCHANGED <<panel, cache, answer, late, now>>
        /\ \A s \in Tasks : s # t => stage'[s] = stage[s] /\ request'[s] = request[s]
    BY <1>1, <1>2, <1>4, <1>5, CallStep
  <1>7. request'[t] = r /\ stage'[t] = "wait" /\ pc'[t] = "write"
    BY <1>1, <1>2, <1>3 DEF BeginWrite, PanelTypeOK
  <1>8. CallInv(t)'
    BY <1>3, <1>4, <1>7 DEF CallInv, Write
  <1>9. RestTyped'
    BY <1>1, <1>3 DEF RestTyped
  <1>10. QED
    BY <1>1, <1>3, <1>6, <1>8, <1>9, CallsPreserved

\* A handler takes the result of its call, and is done or goes on to the row.
LEMMA EndCalls ==
    ASSUME CallsInv, RowsInv', NEW t \in Tasks, Probed(t) \/ Returns(t)
    PROVE  CallsInv'
  <1>1. /\ pc \in [Tasks -> {"idle", "start", "request", "row", "panel", "look", "write"}]
        /\ job \in [Tasks -> Jobs] /\ subject \in [Tasks -> Users \cup {NoUser}]
        /\ RestTyped /\ PanelTypeOK /\ LockInv /\ now > 0 /\ CallInv(t)
    BY DEF CallsInv, RowsInv, RowsTyped
  <1>2. /\ stage[t] \in {"done", "failed"} /\ EndCall(t) /\ UNCHANGED <<uses, acts>>
        /\ pc[t] \in {"look", "write"}
    BY DEF Probed, Returns, Looked
  <1>3. /\ pc'[t] \in {"idle", "row"}
        /\ \A s \in Tasks : s # t => pc'[s] = pc[s] /\ job'[s] = job[s] /\ subject'[s] = subject[s]
    BY <1>1 DEF Probed, Returns, Leaves
  <1>4. warned' \subseteq Users
    <2>1. subject[t] \in Users
      BY <1>2, SubjectIsUser
    <2>2. QED
      BY <1>1, <2>1 DEF Probed, Returns, RestTyped
  <1>5. /\ PanelTypeOK' /\ LockInv' /\ UNCHANGED <<panel, cache, answer, late, now>>
        /\ \A s \in Tasks : s # t => stage'[s] = stage[s] /\ request'[s] = request[s]
    BY <1>1, <1>2, CallStep
  <1>6. stage'[t] = "idle"
    BY <1>1, <1>2 DEF EndCall, PanelTypeOK
  <1>7. CallInv(t)'
    BY <1>3, <1>6 DEF CallInv
  <1>8. RestTyped'
    <2>1. lastBan' \in [Users -> {"none", "running", "clean", "crossed"}]
      BY <1>1 DEF RestTyped, Probed, Returns, Concludes
    <2>2. QED
      BY <1>1, <1>2, <1>4, <2>1 DEF RestTyped
  <1>9. QED
    BY <1>1, <1>3, <1>5, <1>7, <1>8, CallsPreserved

\* Every step preserves it.
LEMMA NextCalls == ASSUME CallsInv, [Next]_vars PROVE CallsInv'
  <1>1. RowsInv'
    BY NextRowsInv DEF CallsInv
  <1>2. CASE GatewayStep /\ Overtakes /\ UNCHANGED rowVars
    <2>1. PanelTypeOK' /\ LockInv' /\ UNCHANGED <<request, now>>
      BY <1>2, GatewayStepType, GatewayStepLock, GatewayStepKeepsRequests DEF CallsInv
    <2>2. \A t \in Tasks : CallInv(t)'
      BY <1>2, <2>1, GatewayStepStages DEF CallsInv, CallInv, Look, Write, rowVars, taskVars
    <2>3. RestTyped'
      BY <1>2 DEF CallsInv, RestTyped, Overtakes, rowVars
    <2>4. QED
      BY <1>1, <2>1, <2>2, <2>3 DEF CallsInv
  <1>3. CASE UNCHANGED vars
    <2>1. UNCHANGED panelVars /\ UNCHANGED rowVars /\ UNCHANGED lastBan
      BY <1>3 DEF vars
    <2>2. PanelTypeOK' /\ LockInv' /\ now' > 0
      BY <2>1 DEF CallsInv, panelVars, PanelTypeOK, CallTypeOK, LockInv
    <2>3. \A t \in Tasks : CallInv(t)'
      BY <2>1 DEF CallsInv, CallInv, Look, Write, panelVars, rowVars, taskVars
    <2>4. QED
      BY <1>1, <2>1, <2>2, <2>3 DEF CallsInv, RestTyped, rowVars
  <1>4. ASSUME NEW u \in Users,
               \/ Start(u) \/ Redeem(u) \/ ReopensMenu(u) \/ IsAnswered(u)
               \/ StartsNew(u) \/ RequestAccess(u)
               \/ \E a \in Reviewers : Refuse(a, u) \/ Accept(a, u)
               \/ \E a \in Banners : Ban(a, u) \/ Unban(a, u)
        PROVE  CallsInv'
    <2>1. u \in Tasks /\ Reviewers \subseteq Tasks /\ Banners \subseteq Tasks
      BY AccessAssumption
    <2>2. QED
      BY <1>1, <1>4, <2>1, RowStepsCalls
  <1>5. ASSUME NEW u \in Users, NEW a \in Banners, UnbanProbes(a, u)
        PROVE  CallsInv'
    BY <1>1, <1>5, LookCalls, AccessAssumption
  <1>6. ASSUME NEW t \in Tasks, SetRow(t)
        PROVE  CallsInv'
    <2>1. RowInv(t)
      BY DEF CallsInv, RowsInv
    <2>2. \E u \in Users : TRUE
      BY <1>6, <2>1 DEF SetRow, RowInv
    <2>3. QED
      BY <1>1, <1>6, <2>2, RowStepsCalls
  <1>7. ASSUME NEW t \in Tasks, Looks(t)
        PROVE  CallsInv'
    <2>1. subject[t] \in Users
      BY <1>7, SubjectIsUser DEF Looks
    <2>2. QED
      BY <1>1, <1>7, <2>1, LookCalls
  <1>8. QED
    BY <1>1, <1>2, <1>3, <1>4, <1>5, <1>6, <1>7, WriteCalls, EndCalls
          DEF Next, Continues

\* Who may use the bot, and every gateway call made on the way, is type correct: no
\* call starts inside another, and every call is about the user a handler works on.
THEOREM AccessTypeCorrect == Spec => []TypeOK
  <1>1. CallsInv => TypeOK
    BY DEF CallsInv, RowsInv, RowsTyped, RestTyped, TypeOK
  <1>2. QED
    BY InitCalls, NextCalls, <1>1, PTL DEF Spec

-----------------------------------------------------------------------------
(* Expiries.  No handler of this module changes the expiry of a client that *)
(* is there: whatever was read, cached or sent agrees with the panel in it. *)

\* p has every client of s, with the expiry it has there.
Keeps(s, p) ==
    \A u \in Users : s[u] # NoClient => p[u] # NoClient /\ p[u].expiry = s[u].expiry

\* A write that may still reach a panel p: the client added has expired by the time
\* n, and only a client that has not is sent switched on.
EffectKeeps(e, p, n) ==
    /\ e.kind \in {"add", "update"}
    /\ e.kind = "add" => e.client.expiry \in 1..n
    /\ e.kind = "update" => /\ p[e.user] # NoClient /\ p[e.user].expiry = e.client.expiry
                            /\ e.client.enable => e.client.expiry > n

\* What a task in stage st with request r, object o and answer a knows of p.
TaskKeeps(st, r, o, a, p, n) ==
    /\ r # NoRequest /\ r.kind = "get_client" /\ st = "done" /\ o # NoClient
       => p[r.user] # NoClient /\ p[r.user].expiry = o.expiry
    /\ r # NoRequest /\ r.kind = "set_enabled" /\ r.arg = 1
       => p[r.user] # NoClient /\ p[r.user].expiry > n
    /\ st \in {"add", "write"} /\ r.kind = "ensure_client" => ~o.enable
    /\ st = "write" /\ r.kind = "set_enabled" => o.enable = (r.arg = 1)
    /\ st = "add" => /\ o.expiry \in 1..n
                     /\ a = Ack => p[r.user] # NoClient /\ p[r.user].expiry = o.expiry
    /\ st = "write" => p[r.user] # NoClient /\ p[r.user].expiry = o.expiry

KeepsOf(t) == TaskKeeps(stage[t], request[t], object[t], answer[t], panel, now)

DatesInv ==
    /\ cache # NoCache => Keeps(cache, panel)
    /\ \A t \in Tasks : answer[t] \in Snapshot => Keeps(answer[t], panel)
    /\ \A t \in Tasks : KeepsOf(t)
    /\ \A e \in late : EffectKeeps(e, panel, now)

\* Only these requests are made here.
LEMMA RequestKinds ==
    ASSUME CallsInv, NEW t \in Tasks, stage[t] # "idle"
    PROVE  /\ request[t] # NoRequest /\ request[t] \in Request
           /\ request[t].kind \in {"get_client", "ensure_client", "set_enabled"}
           /\ request[t].arg \in {0, 1} /\ request[t].user = subject[t]
           /\ subject[t] \in Users
  <1>1. CallInv(t) /\ PanelTypeOK
    BY DEF CallsInv
  <1>2. request[t] \in {Look(t), Write(t)} /\ pc[t] \in {"look", "write"}
    BY <1>1 DEF CallInv
  <1>3. subject[t] \in Users
    BY <1>2, SubjectIsUser
  <1>4. request[t] # NoRequest /\ request[t] \in Request
    BY <1>1, CallHasRequest
  <1>5. QED
    BY <1>2, <1>3, <1>4 DEF Look, Write

\* Agreement is a preorder.
LEMMA KeepsTransitive ==
    ASSUME NEW s, NEW p, NEW q, Keeps(s, p), Keeps(p, q)
    PROVE  Keeps(s, q)
  BY DEF Keeps

\* What a task knows, or a write in flight, survives any step that keeps the panel.
LEMMA TaskKeepsOn ==
    ASSUME NEW st, NEW r, r # NoRequest => r.user \in Users, NEW o, NEW a, NEW p, NEW q,
           NEW n, st \in {"add", "write"} => r # NoRequest,
           TaskKeeps(st, r, o, a, p, n), Keeps(p, q)
    PROVE  TaskKeeps(st, r, o, a, q, n)
  BY DEF TaskKeeps, Keeps

\* So does a write in flight.
LEMMA EffectKeepsOn ==
    ASSUME NEW e \in Effect, NEW p, NEW q, NEW n, EffectKeeps(e, p, n), Keeps(p, q)
    PROVE  EffectKeeps(e, q, n)
  BY DEF EffectKeeps, Keeps, Effect

\* A write that lands keeps the panel, and makes no client perpetual.
LEMMA AfterKeeps ==
    ASSUME PanelTypeOK, now > 0, NEW e \in Effect, EffectKeeps(e, panel, now), Accepts(e)
    PROVE  /\ Keeps(panel, After(e)) /\ After(e)[e.user] # NoClient
           /\ After(e)[e.user].expiry = e.client.expiry
           /\ \A u \in Users : u # e.user => After(e)[u] = panel[u]
           /\ After(e)[e.user].enable => e.client.expiry > 0
  <1>1. /\ panel \in Snapshot /\ e.user \in Users /\ e.client \in Client /\ now \in Nat
        /\ DOMAIN panel = Users /\ e.client.expiry \in Int
    BY DEF PanelTypeOK, Effect, Snapshot, Client
  <1>2. CASE e.kind = "add"
    <2> DEFINE c == [e.client EXCEPT !.enable = TRUE]
    <2>1. c \in Client /\ c.expiry = e.client.expiry /\ c # NoClient
      BY <1>1, ClientAssumption DEF Client
    <2>2. After(e) = [panel EXCEPT ![e.user] = c] /\ panel[e.user] = NoClient
      BY <1>2 DEF After, Accepts
    <2>3. e.client.expiry > 0
      BY <1>1, <1>2 DEF EffectKeeps
    <2> HIDE DEF c
    <2>4. QED
      BY <1>1, <2>1, <2>2, <2>3 DEF Keeps
  <1>3. CASE e.kind = "update"
    <2>1. After(e) = [panel EXCEPT ![e.user] = e.client] /\ e.client # NoClient
      BY <1>1, <1>3, ClientAssumption DEF After
    <2>2. panel[e.user].expiry = e.client.expiry /\ (e.client.enable => e.client.expiry > now)
      BY <1>3 DEF EffectKeeps
    <2>3. QED
      BY <1>1, <2>1, <2>2 DEF Keeps
  <1>4. QED
    BY <1>2, <1>3 DEF EffectKeeps

\* The write a task has sent, as what the task knows describes it.
LEMMA SentKeeps ==
    ASSUME CallsInv, DatesInv, NEW t \in Tasks, Unanswered(t)
    PROVE  EffectOf(t) \in Effect /\ EffectKeeps(EffectOf(t), panel, now)
  <1>1. stage[t] \in {"add", "write"} /\ object[t] \in Client /\ now \in Nat /\ PanelTypeOK
    BY DEF Unanswered, CallsInv, PanelTypeOK, CallTypeOK
  <1>2. EffectOf(t) \in Effect
    BY <1>1, EffectType
  <1>3. KeepsOf(t) /\ request[t].kind \in {"ensure_client", "set_enabled"}
    BY <1>1, RequestKinds DEF DatesInv, CallsInv, PanelTypeOK, CallTypeOK, Writes, Mutations
  <1>4. stage[t] = "add" => request[t].kind = "ensure_client"
    BY <1>1 DEF PanelTypeOK, CallTypeOK
  <1>5. /\ EffectOf(t).kind = IF stage[t] = "add" THEN "add" ELSE "update"
        /\ EffectOf(t).user = request[t].user /\ EffectOf(t).client = object[t]
    BY <1>1, <1>3 DEF EffectOf
  <1>6. object[t].expiry \in Int /\ object[t].enable \in BOOLEAN
    BY <1>1 DEF Client
  <1>7. request[t] # NoRequest /\ request[t].arg \in {0, 1}
    BY <1>1, RequestKinds
  <1>8. QED
    BY <1>1, <1>2, <1>3, <1>4, <1>5, <1>6, <1>7 DEF EffectKeeps, KeepsOf, TaskKeeps

\* One task moves, and the panel changes only in ways everybody can live with.
LEMMA DatesPreserved ==
    ASSUME CallsInv, DatesInv, PanelTypeOK', now' = now, Keeps(panel, panel'),
           NEW t \in Tasks, KeepsOf(t)',
           answer'[t] \in Snapshot => Keeps(answer'[t], panel'),
           cache' # NoCache => cache' = cache \/ Keeps(cache', panel'),
           \A e \in late' : e \in late \/ EffectKeeps(e, panel', now),
           \A x \in Tasks : x # t => /\ stage'[x] = stage[x] /\ request'[x] = request[x]
                                     /\ object'[x] = object[x] /\ answer'[x] = answer[x]
    PROVE  DatesInv'
  <1>1. cache' # NoCache => Keeps(cache', panel')
    BY KeepsTransitive DEF DatesInv
  <1>2. ASSUME NEW x \in Tasks, answer'[x] \in Snapshot
        PROVE  Keeps(answer'[x], panel')
    BY <1>2, KeepsTransitive DEF DatesInv
  <1>3. ASSUME NEW x \in Tasks
        PROVE  KeepsOf(x)'
    <2>1. CASE x = t
      BY <2>1
    <2>2. CASE x # t
      <3>1. request[x] # NoRequest => request[x].user \in Users
        BY DEF CallsInv, PanelTypeOK, Request
      <3>2. stage[x] \in {"add", "write"} => request[x] # NoRequest
        BY CallHasRequest DEF CallsInv
      <3>3. TaskKeeps(stage[x], request[x], object[x], answer[x], panel, now)
        BY DEF DatesInv, KeepsOf
      <3>4. TaskKeeps(stage[x], request[x], object[x], answer[x], panel', now)
        BY <3>1, <3>2, <3>3, TaskKeepsOn
      <3>5. QED
        BY <2>2, <3>4 DEF KeepsOf
    <2>3. QED
      BY <2>1, <2>2
  <1>4. ASSUME NEW e \in late'
        PROVE  EffectKeeps(e, panel', now)
    <2>1. e \in Effect
      BY DEF PanelTypeOK
    <2>2. QED
      BY <2>1, EffectKeepsOn DEF DatesInv
  <1>5. QED
    BY <1>1, <1>2, <1>3, <1>4 DEF DatesInv

\* Nothing changes on the panel in this step.
LEMMA KeepsItself == ASSUME UNCHANGED panel PROVE Keeps(panel, panel')
  BY DEF Keeps

\* A task takes a client from a list that agrees with the panel.
LEMMA FoundKeeps ==
    ASSUME CallsInv, DatesInv, NEW t \in Tasks, stage[t] \in {"fetch", "read", "verify"},
           answer[t] # NoAnswer
    PROVE  /\ answer[t] \in Snapshot /\ Keeps(answer[t], panel) /\ answer[t] # NoCache
           /\ Found(t) \in Client \cup {NoClient}
           /\ Found(t) # NoClient => /\ panel[request[t].user] # NoClient
                                     /\ panel[request[t].user].expiry = Found(t).expiry
  <1>1. answer[t] \in Snapshot /\ Found(t) \in Client \cup {NoClient}
    BY AnswerIsSnapshot DEF CallsInv
  <1>2. request[t].user \in Users
    BY RequestKinds
  <1>3. Keeps(answer[t], panel)
    BY <1>1 DEF DatesInv
  <1>4. QED
    BY <1>1, <1>2, <1>3, PanelAssumption DEF Keeps, Found

\* The panel answers a read or carries out a write.
LEMMA PanelStepsDates ==
    ASSUME CallsInv, DatesInv, PanelTypeOK', NEW t \in Tasks,
           PanelAnswers(t) \/ PanelCommits(t)
    PROVE  DatesInv'
  <1>1. KeepsOf(t) /\ PanelTypeOK /\ now > 0 /\ answer \in [Tasks -> Snapshot \cup {NoAnswer, Ack}]
    BY DEF DatesInv, CallsInv, PanelTypeOK
  <1>2. CASE PanelAnswers(t)
    <2>1. /\ answer' = [answer EXCEPT ![t] = panel] /\ stage[t] \notin {"add", "write"}
          /\ UNCHANGED <<panel, cache, request, stage, object, late, now>>
      BY <1>2 DEF PanelAnswers
    <2>2. KeepsOf(t)'
      BY <1>1, <2>1 DEF KeepsOf, TaskKeeps
    <2>3. answer'[t] = panel /\ Keeps(panel, panel')
      BY <1>1, <2>1, KeepsItself
    <2>4. QED
      BY <1>1, <2>1, <2>2, <2>3, DatesPreserved
  <1>3. CASE PanelCommits(t)
    <2> DEFINE e == EffectOf(t)
    <2>1. /\ e \in Effect /\ EffectKeeps(e, panel, now) /\ Accepts(e)
          /\ e.user = request[t].user /\ e.client = object[t]
      BY <1>3, SentKeeps DEF PanelCommits, EffectOf
    <2>2. /\ Unanswered(t) /\ panel' = After(e) /\ answer' = [answer EXCEPT ![t] = Ack]
          /\ UNCHANGED <<cache, request, stage, object, late, now>>
      BY <1>3 DEF PanelCommits
    <2>3. /\ Keeps(panel, panel') /\ panel'[request[t].user] # NoClient
          /\ panel'[request[t].user].expiry = object[t].expiry
      BY <1>1, <2>1, <2>2, AfterKeeps
    <2>4. /\ request[t] # NoRequest /\ request[t].user \in Users
      BY <2>2, RequestKinds DEF Unanswered
    <2>5. TaskKeeps(stage[t], request[t], object[t], answer[t], panel', now)
      BY <1>1, <2>3, <2>4, TaskKeepsOn DEF KeepsOf
    <2>6. KeepsOf(t)'
      BY <2>2, <2>3, <2>5 DEF KeepsOf, TaskKeeps
    <2>7. answer'[t] \notin Snapshot
      BY <1>1, <2>2, PanelAssumption
    <2> HIDE DEF e
    <2>8. QED
      BY <1>1, <2>2, <2>3, <2>6, <2>7, DatesPreserved
  <1>4. QED
    BY <1>2, <1>3

\* A task goes on with its call.
LEMMA GotoDates ==
    ASSUME CallsInv, DatesInv, PanelTypeOK', NEW t \in Tasks, NEW s, NEW c, Goto(t, s, c),
           cache' # NoCache => cache' = cache \/ Keeps(cache', panel),
           TaskKeeps(s, request[t], c, NoAnswer, panel, now)
    PROVE  DatesInv'
  <1>1. /\ stage'[t] = s /\ object'[t] = c /\ answer'[t] = NoAnswer
        /\ \A x \in Tasks : x # t => /\ stage'[x] = stage[x] /\ object'[x] = object[x]
                                     /\ answer'[x] = answer[x]
        /\ UNCHANGED <<panel, request, late, now>>
    BY DEF Goto, CallsInv, PanelTypeOK
  <1>2. KeepsOf(t)'
    BY <1>1 DEF KeepsOf
  <1>3. answer'[t] \notin Snapshot /\ Keeps(panel, panel')
    BY <1>1, PanelAssumption, KeepsItself
  <1>4. QED
    BY <1>1, <1>2, <1>3, DatesPreserved

\* A call that goes on reads, caches and sends expiries that agree with the panel.
LEMMA ResumesDates ==
    ASSUME CallsInv, DatesInv, PanelTypeOK', NEW t \in Tasks, Resumes(t)
    PROVE  DatesInv'
  <1>1. KeepsOf(t) /\ PanelTypeOK /\ now \in Nat /\ now > 0 /\ CallTypeOK(t)
    BY DEF DatesInv, CallsInv, PanelTypeOK
  <1>2. stage[t] # "idle"
    BY DEF Resumes, FetchResumes, Acquire, ClientMissing, NothingToWrite, MutationApplies,
           ClientRouteCalled, EnsureAdds, EnsureUpdates, WriteResumes, VerifyResumes, ReadDone
  <1>3. /\ request[t] # NoRequest /\ request[t].user \in Users /\ request[t].arg \in {0, 1}
        /\ request[t].kind \in {"get_client", "ensure_client", "set_enabled"}
    BY <1>2, RequestKinds
  <1>4. stage[t] \in {"wait", "read", "add", "write", "verify"}
           => request[t].kind \in {"ensure_client", "set_enabled"}
    BY <1>1, <1>3 DEF CallTypeOK, Writes, Mutations
  <1>5. CASE FetchResumes(t)
    <2>1. Goto(t, "done", Found(t)) /\ cache' = answer[t] /\ stage[t] = "fetch" /\ answer[t] # NoAnswer
      BY <1>5 DEF FetchResumes, Found
    <2>2. TaskKeeps("done", request[t], Found(t), NoAnswer, panel, now)
      BY <1>1, <2>1, FoundKeeps DEF KeepsOf, TaskKeeps
    <2>3. QED
      BY <2>1, <2>2, FoundKeeps, GotoDates
  <1>6. CASE Acquire(t)
    <2>1. Goto(t, "read", NoClient) /\ cache' = cache
      BY <1>6 DEF Acquire
    <2>2. TaskKeeps("read", request[t], NoClient, NoAnswer, panel, now)
      BY <1>1 DEF KeepsOf, TaskKeeps
    <2>3. QED
      BY <2>1, <2>2, GotoDates
  <1>7. CASE ClientMissing(t) \/ NothingToWrite(t)
    <2>1. PICK s \in {"done", "failed"} :
            /\ \E c : Goto(t, s, c)
            /\ cache' = answer[t] /\ stage[t] = "read" /\ answer[t] # NoAnswer
      BY <1>7 DEF ClientMissing, NothingToWrite, ReadDone
    <2>2. PICK c : Goto(t, s, c)
      BY <2>1
    <2>3. TaskKeeps(s, request[t], c, NoAnswer, panel, now)
      BY <1>1, <1>4, <2>1 DEF KeepsOf, TaskKeeps
    <2>4. QED
      BY <2>1, <2>2, <2>3, FoundKeeps, GotoDates
  <1>8. CASE MutationApplies(t)
    <2> DEFINE c == Applied(request[t], Found(t), now)
    <2>1. /\ Goto(t, "write", c) /\ cache' = [answer[t] EXCEPT ![request[t].user] = c]
          /\ stage[t] = "read" /\ answer[t] # NoAnswer /\ Found(t) # NoClient
          /\ request[t].kind \in Mutations
      BY <1>8 DEF MutationApplies, ReadDone
    <2>2. request[t].kind = "set_enabled"
      BY <1>3, <2>1 DEF Mutations
    <2>3. /\ Found(t) \in Client /\ Keeps(answer[t], panel) /\ answer[t] \in Snapshot
          /\ panel[request[t].user] # NoClient /\ panel[request[t].user].expiry = Found(t).expiry
      BY <2>1, FoundKeeps
    <2>4. c = [Found(t) EXCEPT !.enable = (request[t].arg = 1)]
      BY <2>2 DEF Applied
    <2>5. c.enable = (request[t].arg = 1) /\ c.expiry = Found(t).expiry
      BY <2>3, <2>4 DEF Client
    <2> HIDE DEF c
    <2>6. TaskKeeps("write", request[t], c, NoAnswer, panel, now)
      BY <1>1, <1>3, <2>2, <2>3, <2>5 DEF KeepsOf, TaskKeeps
    <2>7. Keeps(cache', panel)
      BY <1>3, <2>1, <2>3, <2>5 DEF Keeps, Snapshot
    <2>8. QED
      BY <2>1, <2>6, <2>7, GotoDates
  <1>9. CASE ClientRouteCalled(t)
    BY <1>3, <1>9 DEF ClientRouteCalled
  <1>10. CASE EnsureAdds(t)
    <2> DEFINE c == NewClient(request[t], now)
    <2>1. /\ Goto(t, "add", c) /\ cache' = answer[t] /\ stage[t] = "read" /\ answer[t] # NoAnswer
          /\ request[t].kind = "ensure_client"
      BY <1>10 DEF EnsureAdds, ReadDone
    <2>2. c.expiry = now /\ ~c.enable /\ now \in 1..now
      BY <1>1 DEF NewClient
    <2>3. Ack # NoAnswer
      BY PanelAssumption
    <2> HIDE DEF c
    <2>4. TaskKeeps("add", request[t], c, NoAnswer, panel, now)
      BY <1>1, <2>1, <2>2, <2>3 DEF KeepsOf, TaskKeeps
    <2>5. QED
      BY <2>1, <2>4, FoundKeeps, GotoDates
  <1>11. CASE EnsureUpdates(t)
    <2>1. /\ Goto(t, "write", object[t]) /\ cache' = cache /\ stage[t] = "add"
          /\ answer[t] = Ack /\ request[t].kind = "ensure_client"
      BY <1>1, <1>11 DEF EnsureUpdates, CallTypeOK
    <2>2. TaskKeeps("write", request[t], object[t], NoAnswer, panel, now)
      BY <1>1, <2>1 DEF KeepsOf, TaskKeeps
    <2>3. QED
      BY <2>1, <2>2, GotoDates
  <1>12. CASE WriteResumes(t)
    <2>1. Goto(t, "verify", object[t]) /\ cache' = NoCache
      BY <1>12 DEF WriteResumes
    <2>2. TaskKeeps("verify", request[t], object[t], NoAnswer, panel, now)
      BY <1>1 DEF KeepsOf, TaskKeeps
    <2>3. QED
      BY <2>1, <2>2, GotoDates
  <1>13. CASE VerifyResumes(t)
    <2>1. PICK s \in {"done", "failed"} :
            /\ \E c : Goto(t, s, c)
            /\ cache' = answer[t] /\ stage[t] = "verify" /\ answer[t] # NoAnswer
      BY <1>13 DEF VerifyResumes
    <2>2. PICK c : Goto(t, s, c)
      BY <2>1
    <2>3. TaskKeeps(s, request[t], c, NoAnswer, panel, now)
      BY <1>1, <1>4, <2>1 DEF KeepsOf, TaskKeeps
    <2>4. QED
      BY <2>1, <2>2, <2>3, FoundKeeps, GotoDates
  <1>14. QED
    BY <1>5, <1>6, <1>7, <1>8, <1>9, <1>10, <1>11, <1>12, <1>13 DEF Resumes

\* The gateway's other steps.
LEMMA GatewayDates ==
    ASSUME CallsInv, DatesInv, PanelTypeOK', GatewayStep
    PROVE  DatesInv'
  <1>1. ASSUME NEW t \in Tasks, RequestFails(t)
        PROVE  DatesInv'
    <2>1. /\ stage[t] \in InFlight /\ stage' = [stage EXCEPT ![t] = "failed"]
          /\ object' = [object EXCEPT ![t] = NoClient]
          /\ answer' = [answer EXCEPT ![t] = NoAnswer]
          /\ UNCHANGED <<panel, cache, request, now>>
          /\ late' = late \/ (Unanswered(t) /\ late' = late \cup {EffectOf(t)})
      BY <1>1, PanelAssumption DEF RequestFails
    <2>2. /\ stage'[t] = "failed" /\ answer'[t] = NoAnswer
          /\ \A x \in Tasks : x # t => /\ stage'[x] = stage[x] /\ object'[x] = object[x]
                                       /\ answer'[x] = answer[x]
      BY <2>1 DEF CallsInv, PanelTypeOK
    <2>3. KeepsOf(t)'
      BY <2>1, <2>2 DEF DatesInv, KeepsOf, TaskKeeps
    <2>4. \A e \in late' : e \in late \/ EffectKeeps(e, panel', now)
      BY <2>1, SentKeeps
    <2>5. answer'[t] \notin Snapshot /\ Keeps(panel, panel')
      BY <2>1, <2>2, PanelAssumption, KeepsItself
    <2>6. QED
      BY <2>1, <2>2, <2>3, <2>4, <2>5, DatesPreserved
  <1>2. ASSUME NEW e \in late, LateWriteLands(e)
        PROVE  DatesInv'
    <2>1. e \in Effect /\ EffectKeeps(e, panel, now)
      BY DEF DatesInv, CallsInv, PanelTypeOK
    <2>2. Keeps(panel, panel')
      BY <1>2, <2>1, AfterKeeps, KeepsItself DEF LateWriteLands, CallsInv
    <2>3. ASSUME NEW t \in Tasks
          PROVE  DatesInv'
      <3>1. /\ UNCHANGED <<cache, request, stage, answer, object, now>> /\ late' \subseteq late
        BY <1>2 DEF LateWriteLands
      <3>2. request[t] # NoRequest => request[t].user \in Users
        BY DEF CallsInv, PanelTypeOK, Request
      <3>3. stage[t] \in {"add", "write"} => request[t] # NoRequest
        BY CallHasRequest DEF CallsInv
      <3>4. TaskKeeps(stage[t], request[t], object[t], answer[t], panel', now)
        BY <2>2, <3>2, <3>3, TaskKeepsOn DEF DatesInv, KeepsOf
      <3>5. KeepsOf(t)'
        BY <3>1, <3>4 DEF KeepsOf
      <3>6. answer'[t] \in Snapshot => Keeps(answer'[t], panel')
        BY <2>2, <3>1, KeepsTransitive DEF DatesInv
      <3>7. QED
        BY <2>2, <3>1, <3>5, <3>6, DatesPreserved
    <2>4. CASE Tasks = {}
      <3>1. cache' # NoCache => Keeps(cache', panel')
        BY <1>2, <2>2, KeepsTransitive DEF LateWriteLands, DatesInv
      <3>2. \A x \in late' : EffectKeeps(x, panel', now)
        BY <1>2, <2>2, EffectKeepsOn DEF LateWriteLands, DatesInv, CallsInv, PanelTypeOK
      <3>3. QED
        BY <1>2, <2>4, <3>1, <3>2 DEF LateWriteLands, DatesInv
    <2>5. QED
      BY <2>3, <2>4
  <1>3. CASE CacheExpires
    BY <1>3 DEF CacheExpires, DatesInv, KeepsOf
  <1>4. QED
    BY <1>1, <1>2, <1>3, PanelStepsDates, ResumesDates DEF GatewayStep

\* Starting a call, for what was looked up, or leaving one.
LEMMA OwnCallDates ==
    ASSUME CallsInv, DatesInv, PanelTypeOK', NEW t \in Tasks, stage[t] \in {"idle", "done", "failed"},
           \/ EndCall(t)
           \/ \E u \in Users : BeginGet(t, u)
           \/ \E r \in Request : /\ r.kind \in Writes /\ BeginWrite(t, r)
                                 /\ r.kind = "set_enabled" /\ r.arg = 1
                                    => panel[r.user] # NoClient /\ panel[r.user].expiry > now
    PROVE  DatesInv'
  <1>1. /\ PanelTypeOK /\ LockInv /\ CallTypeOK(t)
        /\ stage \in [Tasks -> Stages] /\ object \in [Tasks -> Client \cup {NoClient}]
        /\ request \in [Tasks -> Request \cup {NoRequest}]
    BY DEF CallsInv, PanelTypeOK
  <1>2. /\ UNCHANGED <<panel, cache, answer, late, now>>
        /\ \A x \in Tasks : x # t => /\ stage'[x] = stage[x] /\ request'[x] = request[x]
                                     /\ object'[x] = object[x]
    BY <1>1, CallStep
  <1>3. KeepsOf(t)'
    <2>1. CASE EndCall(t)
      BY <1>1, <2>1 DEF EndCall, KeepsOf, TaskKeeps
    <2>2. ASSUME NEW u \in Users, BeginGet(t, u)
          PROVE  KeepsOf(t)'
      <3>1. /\ request'[t] = [kind |-> "get_client", user |-> u, arg |-> 0]
            /\ stage'[t] \in {"fetch", "done"}
            /\ stage'[t] = "done" => cache # NoCache /\ object'[t] = cache[u]
        BY <1>1, <2>2 DEF BeginGet
      <3>2. cache # NoCache => Keeps(cache, panel)
        BY DEF DatesInv
      <3>3. QED
        BY <1>2, <3>1, <3>2 DEF KeepsOf, TaskKeeps, Keeps
    <2>3. ASSUME NEW r \in Request, r.kind \in Writes, BeginWrite(t, r),
                 r.kind = "set_enabled" /\ r.arg = 1
                    => panel[r.user] # NoClient /\ panel[r.user].expiry > now
          PROVE  KeepsOf(t)'
      <3>1. request'[t] = r /\ stage'[t] = "wait" /\ object'[t] = NoClient
        BY <1>1, <2>3 DEF BeginWrite
      <3>2. r.kind # "get_client"
        BY <2>3 DEF Writes, Mutations
      <3>3. QED
        BY <1>2, <2>3, <3>1, <3>2 DEF KeepsOf, TaskKeeps
    <2>4. QED
      BY <2>1, <2>2, <2>3
  <1>4. Keeps(panel, panel') /\ (answer'[t] \in Snapshot => Keeps(answer'[t], panel'))
    BY <1>2, KeepsItself DEF DatesInv
  <1>5. QED
    BY <1>2, <1>3, <1>4, DatesPreserved

\* Nothing was read at first.
LEMMA InitDates == ASSUME Init PROVE DatesInv
  <1>1. PICK i \in Initial : PanelInit(i.panel, 2)
    BY DEF Init
  <1>2. \A t \in Tasks : answer[t] = NoAnswer /\ answer[t] \notin Snapshot
    BY <1>1, PanelAssumption DEF PanelInit
  <1>3. \A t \in Tasks : KeepsOf(t)
    BY <1>1 DEF PanelInit, KeepsOf, TaskKeeps
  <1>4. QED
    BY <1>1, <1>2, <1>3 DEF PanelInit, DatesInv

\* What each step does to the gateway's state.
LEMMA StepKinds ==
    ASSUME CallsInv, [Next]_vars
    PROVE  \/ UNCHANGED panelVars
           \/ GatewayStep
           \/ \E t \in Tasks :
                 /\ stage[t] \in {"idle", "done", "failed"}
                 /\ \/ EndCall(t)
                    \/ \E u \in Users : BeginGet(t, u)
                    \/ /\ Looked(t)
                       /\ \E r \in Needed(t) : r \in Request /\ r.kind \in Writes /\ BeginWrite(t, r)
  <1>1. ASSUME NEW t \in Tasks, WritesPanel(t)
        PROVE  /\ stage[t] \in {"idle", "done", "failed"} /\ Looked(t)
               /\ \E r \in Needed(t) : r \in Request /\ r.kind \in Writes /\ BeginWrite(t, r)
    <2>1. Looked(t) /\ \E r \in Needed(t) : BeginWrite(t, r)
      BY <1>1 DEF WritesPanel
    <2>2. \A r \in Needed(t) : r \in Request /\ r.kind \in Writes
      BY <2>1, NeededIsWrite DEF Writes, Mutations
    <2>3. QED
      BY <2>1, <2>2 DEF Looked
  <1>2. ASSUME NEW t \in Tasks, Probed(t) \/ Returns(t)
        PROVE  stage[t] \in {"idle", "done", "failed"} /\ EndCall(t)
    BY <1>2 DEF Probed, Returns, Looked
  <1>3. ASSUME NEW t \in Tasks, Looks(t)
        PROVE  stage[t] \in {"idle", "done", "failed"} /\ \E u \in Users : BeginGet(t, u)
    <2>1. subject[t] \in Users /\ CallInv(t) /\ pc[t] = "panel" /\ stage[t] \in Stages
      BY <1>3, SubjectIsUser DEF Looks, CallsInv, PanelTypeOK
    <2>2. QED
      BY <1>3, <2>1 DEF Looks, CallInv
  <1>4. ASSUME NEW a \in Banners, NEW u \in Users, UnbanProbes(a, u)
        PROVE  a \in Tasks /\ stage[a] \in {"idle", "done", "failed"} /\ BeginGet(a, u)
    <2>1. a \in Tasks /\ pc[a] = "idle"
      BY <1>4, AccessAssumption DEF UnbanProbes, Handles
    <2>2. QED
      BY <1>4, <2>1 DEF UnbanProbes, CallsInv, CallInv, PanelTypeOK
  <1>5. ASSUME NEW u \in Users, NEW a \in Tasks,
               \/ Start(u) \/ Redeem(u) \/ ReopensMenu(u) \/ IsAnswered(u)
               \/ StartsNew(u) \/ RequestAccess(u) \/ Refuse(a, u) \/ Accept(a, u)
               \/ Ban(a, u) \/ Unban(a, u) \/ SetRow(a)
        PROVE  UNCHANGED panelVars
    BY <1>5 DEF Start, Redeem, ReopensMenu, IsAnswered, StartsNew, RequestAccess,
                Refuse, Accept, Ban, Unban, SetRow
  <1>6. ASSUME NEW t \in Tasks, SetRow(t)
        PROVE  UNCHANGED panelVars
    BY <1>6 DEF SetRow
  <1>7. UNCHANGED vars => UNCHANGED panelVars
    BY DEF vars
  <1>8. Users \subseteq Tasks /\ Reviewers \subseteq Tasks /\ Banners \subseteq Tasks
    BY AccessAssumption
  <1>9. QED
    BY <1>1, <1>2, <1>3, <1>4, <1>5, <1>6, <1>7, <1>8 DEF Next, Continues

\* Every step keeps the agreement.
LEMMA NextDates == ASSUME CallsInv, DatesInv, [Next]_vars PROVE DatesInv'
  <1>1. PanelTypeOK'
    BY NextCalls DEF CallsInv
  <1>2. CASE UNCHANGED panelVars
    BY <1>2 DEF panelVars, DatesInv, KeepsOf
  <1>3. CASE GatewayStep
    BY <1>1, <1>3, GatewayDates
  <1>4. ASSUME NEW t \in Tasks, stage[t] \in {"idle", "done", "failed"},
               \/ EndCall(t)
               \/ \E u \in Users : BeginGet(t, u)
               \/ /\ Looked(t)
                  /\ \E r \in Needed(t) : r \in Request /\ r.kind \in Writes /\ BeginWrite(t, r)
        PROVE  DatesInv'
    <2>1. CASE EndCall(t) \/ \E u \in Users : BeginGet(t, u)
      BY <1>1, <1>4, <2>1, OwnCallDates
    <2>2. ASSUME Looked(t), NEW r \in Needed(t), r \in Request, r.kind \in Writes, BeginWrite(t, r)
          PROVE  DatesInv'
      <3>1. r.kind = "set_enabled" /\ r.arg = 1 => panel[r.user] # NoClient /\ panel[r.user].expiry > now
        <4> SUFFICES ASSUME r.kind = "set_enabled", r.arg = 1
                     PROVE  panel[r.user] # NoClient /\ panel[r.user].expiry > now
          OBVIOUS
        <4>1. r = Write(t) /\ (job[t] = "unban" => stage[t] = "done" /\ object[t] # NoClient
                                                   /\ object[t].expiry > now)
          BY <2>2, NeededIsWrite
        <4>2. job[t] = "unban" /\ r.user = subject[t]
          BY <4>1 DEF Write
        <4>3. request[t] = Look(t) /\ request[t] # NoRequest
          BY <2>2, <4>1, <4>2, RequestKinds DEF Looked, CallsInv, CallInv
        <4>4. QED
          BY <4>1, <4>2, <4>3 DEF DatesInv, KeepsOf, TaskKeeps, Look
      <3>2. QED
        BY <1>1, <1>4, <2>2, <3>1, OwnCallDates
    <2>3. QED
      BY <1>4, <2>1, <2>2
  <1>5. QED
    BY <1>2, <1>3, <1>4, StepKinds

\* A step makes no client perpetual.
PerpetualStep ==
    \A u \in Users :
       panel'[u] # NoClient /\ IsUnlimited(panel'[u].expiry, panel'[u].enable)
       => panel[u] # NoClient /\ IsUnlimited(panel[u].expiry, panel[u].enable)

\* While they agree, nothing is written over an expiry but itself.
LEMMA NextPerpetual == ASSUME CallsInv, DatesInv, [Next]_vars PROVE PerpetualStep
  <1>1. CASE UNCHANGED panel
    BY <1>1 DEF PerpetualStep
  <1>2. ASSUME NEW e \in Effect, EffectKeeps(e, panel, now), Accepts(e), panel' = After(e)
        PROVE  PerpetualStep
    <2>1. /\ After(e)[e.user].enable => e.client.expiry > 0
          /\ After(e)[e.user].expiry = e.client.expiry
          /\ \A u \in Users : u # e.user => After(e)[u] = panel[u]
      BY <1>2, AfterKeeps DEF CallsInv
    <2>2. e.client.expiry \in Int
      BY DEF Effect, Client
    <2>3. QED
      BY <1>2, <2>1, <2>2 DEF PerpetualStep, IsUnlimited
  <1>3. ASSUME NEW t \in Tasks, PanelCommits(t)
        PROVE  PerpetualStep
    <2>1. EffectOf(t) \in Effect /\ EffectKeeps(EffectOf(t), panel, now)
      BY <1>3, SentKeeps DEF PanelCommits
    <2>2. QED
      BY <1>2, <1>3, <2>1 DEF PanelCommits
  <1>4. ASSUME NEW e \in late, LateWriteLands(e)
        PROVE  PerpetualStep
    <2>1. e \in Effect /\ EffectKeeps(e, panel, now)
      BY DEF DatesInv, CallsInv, PanelTypeOK
    <2>2. QED
      BY <1>1, <1>2, <1>4, <2>1 DEF LateWriteLands
  <1>5. CASE GatewayStep
    BY <1>1, <1>3, <1>4, <1>5 DEF GatewayStep, PanelAnswers, Resumes, FetchResumes, Acquire,
       ClientMissing, NothingToWrite, MutationApplies, ClientRouteCalled, EnsureAdds,
       EnsureUpdates, WriteResumes, VerifyResumes, RequestFails, CacheExpires, Goto
  <1>6. UNCHANGED panelVars => UNCHANGED panel
    BY DEF panelVars
  <1>7. QED
    BY <1>1, <1>5, <1>6, StepKinds DEF EndCall, BeginGet, BeginWrite

\* No ban, unban, approval or invite makes a client perpetual, whichever requests
\* fail, and though a write may land after the bot gave up on it (users.py:11-13).
THEOREM NoneBecomesPerpetualHolds == Spec => NoneBecomesPerpetual
  <1>1. CallsInv /\ DatesInv /\ [Next]_vars => [PerpetualStep]_vars
    BY NextPerpetual
  <1>2. QED
    BY InitCalls, NextCalls, InitDates, NextDates, <1>1, PTL
          DEF Spec, NoneBecomesPerpetual, PerpetualStep

-----------------------------------------------------------------------------
(* Bans.  A ban that ran alone was carried out.  Two facts carry the proof: *)
(* who is missing from a list that was read, however old, has no client or *)
(* one that was added since, which expired as it was added; and a ban alone *)
(* with its user has set the row, and holds a client that is cut off once  *)
(* its write was taken by the panel.                                       *)

Gone(c)   == c = NoClient \/ c.expiry \in 1..now
CutOff(c) == c = NoClient \/ ~c.enable \/ c.expiry \in 1..now

Missing(s) == \A u \in Users : s[u] = NoClient => Gone(panel[u])

MissingInv ==
    /\ cache # NoCache => Missing(cache)
    /\ \A t \in Tasks : answer[t] \in Snapshot => Missing(answer[t])
    /\ \A t \in Tasks : stage[t] = "done" /\ request[t].kind = "get_client"
                        /\ object[t] = NoClient => Gone(panel[request[t].user])

\* The panel has taken the write of the task's call.
Taken(t) == stage[t] \in {"verify", "done"} \/ (stage[t] = "write" /\ answer[t] = Ack)

\* What holds of the only handler at work on a user while it bans him.
Bans(t) ==
    /\ job[t] = "ban"
    /\ pc[t] \in {"panel", "look", "write"} => status[subject[t]] = "blocked"
    /\ pc[t] = "write" /\ Taken(t) => CutOff(panel[subject[t]])

LastBanInv(u) ==
    /\ lastBan[u] # "crossed" => \A s, t \in Tasks : subject[s] = u /\ subject[t] = u => s = t
    /\ lastBan[u] = "running" => \A t \in Tasks : subject[t] = u => Bans(t)
    /\ lastBan[u] = "clean" => /\ status[u] = "blocked" /\ CutOff(panel[u])
                               /\ \A t \in Tasks : subject[t] # u

BansInv == MissingInv /\ \A u \in Users : LastBanInv(u)

\* Whatever changes the panel is a write some task sent, or one that was given up on.
LEMMA PanelWritten ==
    ASSUME CallsInv, DatesInv, GatewayStep
    PROVE  \/ UNCHANGED panel
           \/ \E e \in Effect :
                 /\ EffectKeeps(e, panel, now) /\ Accepts(e) /\ panel' = After(e)
                 /\ \/ e \in late \ late'
                    \/ \E t \in Tasks : PanelCommits(t) /\ e = EffectOf(t)
  <1>1. ASSUME NEW t \in Tasks, PanelCommits(t)
        PROVE  /\ EffectOf(t) \in Effect /\ EffectKeeps(EffectOf(t), panel, now)
               /\ Accepts(EffectOf(t)) /\ panel' = After(EffectOf(t))
    BY <1>1, SentKeeps DEF PanelCommits
  <1>2. ASSUME NEW e \in late, LateWriteLands(e)
        PROVE  /\ e \in Effect /\ EffectKeeps(e, panel, now) /\ e \notin late'
               /\ UNCHANGED panel \/ (Accepts(e) /\ panel' = After(e))
    BY <1>2 DEF LateWriteLands, DatesInv, CallsInv, PanelTypeOK
  <1>3. QED
    BY <1>1, <1>2 DEF GatewayStep, PanelAnswers, Resumes, FetchResumes, Acquire,
       ClientMissing, NothingToWrite, MutationApplies, ClientRouteCalled, EnsureAdds,
       EnsureUpdates, WriteResumes, VerifyResumes, RequestFails, CacheExpires, Goto

\* A client that is missing stays so, or is added already expired.
LEMMA GoneStays ==
    ASSUME CallsInv, DatesInv, GatewayStep, NEW u \in Users, Gone(panel[u])
    PROVE  Gone(panel[u])'
  <1>1. UNCHANGED now /\ PanelTypeOK /\ now > 0
    BY GatewayStepKeepsRequests DEF CallsInv
  <1>2. ASSUME NEW e \in Effect, EffectKeeps(e, panel, now), Accepts(e), panel' = After(e)
        PROVE  Gone(panel[u])'
    <2>1. /\ After(e)[e.user].expiry = e.client.expiry
          /\ \A v \in Users : v # e.user => After(e)[v] = panel[v]
      BY <1>1, <1>2, AfterKeeps
    <2>2. u = e.user => e.client.expiry \in 1..now
      BY <1>2 DEF EffectKeeps, Gone
    <2>3. QED
      BY <1>1, <1>2, <2>1, <2>2 DEF Gone
  <1>3. QED
    BY <1>1, <1>2, PanelWritten DEF Gone

\* Whatever is cached or answered came from the panel.
LEMMA ListsComeFromPanel ==
    ASSUME CallsInv, GatewayStep
    PROVE  /\ \/ cache' \in {cache, NoCache}
              \/ \E t \in Tasks :
                    /\ answer[t] \in Snapshot
                    /\ \A u \in Users : cache'[u] = NoClient => answer[t][u] = NoClient
           /\ \A t \in Tasks : answer'[t] \in {answer[t], NoAnswer, Ack, panel}
  <1>1. ASSUME NEW t \in Tasks,
               \/ FetchResumes(t) \/ ClientMissing(t) \/ NothingToWrite(t)
               \/ ClientRouteCalled(t) \/ EnsureAdds(t) \/ VerifyResumes(t)
        PROVE  answer[t] \in Snapshot /\ cache' = answer[t]
    BY <1>1, AnswerIsSnapshot
       DEF FetchResumes, ClientMissing, NothingToWrite, ClientRouteCalled, EnsureAdds,
           VerifyResumes, ReadDone, CallsInv
  <1>2. ASSUME NEW t \in Tasks, MutationApplies(t)
        PROVE  /\ answer[t] \in Snapshot
               /\ \A u \in Users : cache'[u] = NoClient => answer[t][u] = NoClient
    <2>1. stage[t] = "read" /\ answer[t] # NoAnswer /\ Found(t) # NoClient
      BY <1>2 DEF MutationApplies, ReadDone
    <2>2. /\ cache' = [answer[t] EXCEPT ![request[t].user] = Applied(request[t], Found(t), now)]
          /\ answer[t] \in Snapshot /\ Found(t) = answer[t][request[t].user]
      BY <1>2, <2>1, AnswerIsSnapshot DEF MutationApplies, Found, CallsInv
    <2>3. \A u \in Users : u # request[t].user => cache'[u] = answer[t][u]
      BY <2>2 DEF Snapshot
    <2>4. cache'[request[t].user] # NoClient
      <3>1. PanelTypeOK' /\ stage'[t] = "write" /\ request[t].user \in Users
            /\ object'[t] = cache'[request[t].user]
        <4>1. request[t].user \in Users
          BY <2>1, RequestKinds
        <4>2. PanelTypeOK'
          BY GatewayStepType DEF CallsInv
        <4>3. QED
          BY <1>2, <2>2, <4>1, <4>2 DEF MutationApplies, Goto, CallsInv, PanelTypeOK, Snapshot
      <3>2. object'[t] \in Client
        BY <3>1 DEF PanelTypeOK, CallTypeOK
      <3>3. QED
        BY <3>1, <3>2, ClientAssumption
    <2>5. QED
      BY <2>1, <2>2, <2>3, <2>4 DEF Found
  <1>3. ASSUME NEW t \in Tasks,
               \/ PanelAnswers(t) \/ PanelCommits(t) \/ RequestFails(t) \/ Acquire(t)
               \/ EnsureUpdates(t)
        PROVE  cache' = cache
    BY <1>3 DEF PanelAnswers, PanelCommits, RequestFails, Acquire, EnsureUpdates
  <1>4. ASSUME NEW t \in Tasks
        PROVE  answer'[t] \in {answer[t], NoAnswer, Ack, panel}
    <2>1. answer \in [Tasks -> Snapshot \cup {NoAnswer, Ack}]
      BY DEF CallsInv, PanelTypeOK
    <2>2. QED
      BY <2>1 DEF GatewayStep, PanelAnswers, PanelCommits, Resumes, FetchResumes,
         Acquire, ClientMissing, NothingToWrite, MutationApplies, ClientRouteCalled, EnsureAdds,
         EnsureUpdates, WriteResumes, VerifyResumes, RequestFails, LateWriteLands,
         CacheExpires, Goto
  <1>5. QED
    BY <1>1, <1>2, <1>3, <1>4 DEF GatewayStep, Resumes, WriteResumes, LateWriteLands, CacheExpires

\* A task that now holds no client of its get_client call has found none.
LEMMA LookFindsNone ==
    ASSUME CallsInv, DatesInv, MissingInv, GatewayStep, NEW t \in Tasks,
           stage'[t] = "done", request[t].kind = "get_client", object'[t] = NoClient
    PROVE  Gone(panel[request[t].user])
  <1>1. /\ PanelTypeOK /\ CallTypeOK(t) /\ stage \in [Tasks -> Stages]
        /\ object \in [Tasks -> Client \cup {NoClient}]
    BY DEF CallsInv, PanelTypeOK
  <1>2. request[t].kind \notin Writes
    BY DEF Writes, Mutations
  <1>3. stage[t] \notin {"wait", "read", "add", "write", "verify"}
    BY <1>1, <1>2 DEF CallTypeOK
  <1>4. CASE FetchResumes(t)
    <2>1. stage[t] = "fetch" /\ answer[t] # NoAnswer /\ object'[t] = Found(t)
      BY <1>1, <1>4 DEF FetchResumes, Goto, Found
    <2>2. answer[t] \in Snapshot /\ request[t].user \in Users
      BY <2>1, FoundKeeps, RequestKinds
    <2>3. QED
      BY <2>1, <2>2 DEF MissingInv, Missing, Found
  <1>5. CASE stage'[t] = stage[t] /\ object'[t] = object[t]
    BY <1>5 DEF MissingInv
  <1>6. ASSUME ~FetchResumes(t)
        PROVE  stage'[t] = stage[t] /\ object'[t] = object[t]
    BY <1>1, <1>3, <1>6 DEF GatewayStep, PanelAnswers, PanelCommits, Resumes, FetchResumes,
       Acquire, ClientMissing, NothingToWrite, MutationApplies, ClientRouteCalled, EnsureAdds,
       EnsureUpdates, WriteResumes, VerifyResumes, RequestFails, LateWriteLands,
       CacheExpires, Goto, ReadDone
  <1>7. QED
    BY <1>4, <1>5, <1>6

\* What was missing stays missing in every list, whatever the gateway does.
LEMMA GatewayMissing ==
    ASSUME CallsInv, DatesInv, MissingInv, GatewayStep
    PROVE  MissingInv'
  <1>1. \A u \in Users : Gone(panel[u]) => Gone(panel[u])'
    BY GoneStays
  <1>2. ASSUME NEW s, Missing(s)
        PROVE  \A u \in Users : s[u] = NoClient => Gone(panel[u])'
    BY <1>1, <1>2 DEF Missing
  <1>3. ASSUME cache' # NoCache
        PROVE  Missing(cache)'
    <2>1. CASE cache' = cache
      BY <1>2, <1>3, <2>1 DEF MissingInv, Missing
    <2>2. ASSUME NEW t \in Tasks, answer[t] \in Snapshot,
                 \A u \in Users : cache'[u] = NoClient => answer[t][u] = NoClient
          PROVE  Missing(cache)'
      BY <1>2, <2>2 DEF MissingInv, Missing
    <2>3. QED
      BY <1>3, <2>1, <2>2, ListsComeFromPanel
  <1>4. ASSUME NEW t \in Tasks, answer'[t] \in Snapshot
        PROVE  Missing(answer[t])'
    <2>1. answer'[t] \in {answer[t], panel}
      BY <1>4, ListsComeFromPanel, PanelAssumption
    <2>2. Missing(panel)
      BY DEF Missing, Gone
    <2>3. QED
      BY <1>2, <1>4, <2>1, <2>2 DEF MissingInv, Missing
  <1>5. ASSUME NEW t \in Tasks, stage'[t] = "done", request'[t].kind = "get_client",
               object'[t] = NoClient
        PROVE  Gone(panel[request[t].user])'
    <2>1. request' = request
      BY GatewayStepKeepsRequests DEF CallsInv
    <2>2. stage[t] # "idle"
      BY <1>5, GatewayStepStages DEF CallsInv
    <2>3. request[t].user \in Users
      BY <2>2, RequestKinds
    <2>4. QED
      BY <1>1, <1>5, <2>1, <2>3, LookFindsNone
  <1>6. QED
    BY <1>3, <1>4, <1>5 DEF MissingInv

\* A handler that bans is past its look in set_enabled(FALSE).
LEMMA BanCalls ==
    ASSUME CallsInv, NEW t \in Tasks, pc[t] = "write", job[t] = "ban"
    PROVE  /\ request[t] # NoRequest /\ subject[t] \in Users /\ request[t].user = subject[t]
           /\ request[t].kind = "set_enabled" /\ request[t].arg = 0
           /\ stage[t] \in {"wait", "read", "write", "verify", "done", "failed"}
  <1>1. CallInv(t) /\ CallTypeOK(t) /\ stage[t] \in Stages
    BY DEF CallsInv, PanelTypeOK
  <1>2. request[t] = Write(t) /\ stage[t] # "idle"
    BY <1>1 DEF CallInv
  <1>3. QED
    BY <1>1, <1>2, RequestKinds DEF Write, CallTypeOK

\* The write of a ban switches the client off.
LEMMA BanCommits ==
    ASSUME CallsInv, DatesInv, NEW t \in Tasks, pc[t] = "write", job[t] = "ban", PanelCommits(t),
           NEW u, subject[t] = u
    PROVE  CutOff(panel[u])'
  <1>1. /\ request[t].kind = "set_enabled" /\ request[t].arg = 0 /\ request[t] # NoRequest
        /\ request[t].user = subject[t] /\ subject[t] \in Users /\ stage[t] = "write"
    BY BanCalls DEF PanelCommits, Unanswered
  <1>2. /\ EffectOf(t).kind = "update" /\ EffectOf(t).user = subject[t]
        /\ EffectOf(t).client = object[t]
    BY <1>1 DEF EffectOf
  <1>3. panel' = [panel EXCEPT ![u] = object[t]]
    BY <1>2 DEF PanelCommits, After
  <1>4. panel'[u] = object[t]
    BY <1>1, <1>3 DEF CallsInv, PanelTypeOK, Snapshot
  <1>5. ~object[t].enable
    <2>1. KeepsOf(t) /\ object[t] \in Client
      BY <1>1 DEF DatesInv, CallsInv, PanelTypeOK, CallTypeOK
    <2>2. object[t].enable => request[t].arg = 1
      BY <1>1, <2>1 DEF KeepsOf, TaskKeeps
    <2>3. QED
      BY <1>1, <2>2
  <1>6. QED
    BY <1>4, <1>5 DEF CutOff

\* Nothing but the panel takes the write of a ban.
LEMMA BanTaken ==
    ASSUME CallsInv, GatewayStep, NEW t \in Tasks, pc[t] = "write", job[t] = "ban", Taken(t)'
    PROVE  Taken(t) \/ PanelCommits(t)
  <1>1. /\ stage \in [Tasks -> Stages] /\ answer \in [Tasks -> Snapshot \cup {NoAnswer, Ack}]
        /\ CallTypeOK(t) /\ NoAnswer # Ack
    BY PanelAssumption DEF CallsInv, PanelTypeOK
  <1>2. /\ request[t].kind = "set_enabled"
        /\ stage[t] \in {"wait", "read", "write", "verify", "done", "failed"}
    BY BanCalls
  <1>3. SUFFICES ASSUME stage[t] \in {"wait", "read", "failed"}
                        \/ (stage[t] = "write" /\ answer[t] = NoAnswer),
                        ~PanelCommits(t)
                 PROVE  FALSE
    BY <1>1, <1>2 DEF Taken, CallTypeOK
  <1>4. ~NothingToWrite(t)
    BY <1>2 DEF NothingToWrite, Changes
  <1>5. CASE stage'[t] = stage[t] /\ answer'[t] = answer[t]
    BY <1>1, <1>3, <1>5 DEF Taken
  <1>6. CASE PanelAnswers(t)
    BY <1>1, <1>3, <1>6 DEF PanelAnswers, Taken
  <1>7. CASE RequestFails(t)
    BY <1>1, <1>7 DEF RequestFails, Taken
  <1>8. CASE Resumes(t)
    BY <1>1, <1>2, <1>3, <1>4, <1>8 DEF Resumes, FetchResumes, Acquire, ClientMissing,
       MutationApplies, ClientRouteCalled, EnsureAdds, EnsureUpdates, WriteResumes,
       VerifyResumes, Goto, ReadDone, Taken
  <1>9. ASSUME NEW x \in Tasks, x # t,
               PanelAnswers(x) \/ PanelCommits(x) \/ Resumes(x) \/ RequestFails(x)
        PROVE  stage'[t] = stage[t] /\ answer'[t] = answer[t]
    BY <1>1, <1>9 DEF PanelAnswers, PanelCommits, Resumes, FetchResumes, Acquire,
       ClientMissing, NothingToWrite, MutationApplies, ClientRouteCalled, EnsureAdds,
       EnsureUpdates, WriteResumes, VerifyResumes, RequestFails, Goto
  <1>10. ASSUME CacheExpires \/ \E e \in late : LateWriteLands(e)
         PROVE  stage'[t] = stage[t] /\ answer'[t] = answer[t]
    BY <1>10 DEF CacheExpires, LateWriteLands
  <1>11. QED
    BY <1>3, <1>5, <1>6, <1>7, <1>8, <1>9, <1>10 DEF GatewayStep

\* What the panel does to a user is done for a handler of his, or late.
LEMMA GatewayBans ==
    ASSUME CallsInv, DatesInv, GatewayStep, Overtakes, UNCHANGED rowVars,
           NEW u \in Users, LastBanInv(u)
    PROVE  LastBanInv(u)'
  <1>1. SUFFICES ASSUME lastBan'[u] # "crossed"
                 PROVE  LastBanInv(u)'
    BY DEF LastBanInv
  <1>2. lastBan'[u] = lastBan[u] /\ \A e \in late \ late' : e.user # u
    BY <1>1 DEF Overtakes
  <1>3. UNCHANGED <<status, pc, job, subject, now>>
    BY GatewayStepKeepsRequests DEF rowVars, taskVars
  <1>4. panel'[u] = panel[u] \/ \E t \in Tasks : PanelCommits(t) /\ subject[t] = u
    <2>1. ASSUME NEW e \in Effect, EffectKeeps(e, panel, now), Accepts(e), panel' = After(e),
                 e.user # u
          PROVE  panel'[u] = panel[u]
      BY <2>1, AfterKeeps DEF CallsInv
    <2>2. ASSUME NEW t \in Tasks, PanelCommits(t)
          PROVE  EffectOf(t).user = subject[t]
      BY <2>2, RequestKinds DEF PanelCommits, Unanswered, EffectOf
    <2>3. QED
      BY <1>2, <2>1, <2>2, PanelWritten
  <1>5. CASE lastBan[u] = "clean"
    <2>1. panel'[u] = panel[u]
      BY <1>4, <1>5 DEF LastBanInv
    <2>2. QED
      BY <1>2, <1>3, <1>5, <2>1 DEF LastBanInv, CutOff
  <1>6. CASE lastBan[u] = "running"
    <2>1. ASSUME NEW t \in Tasks, subject[t] = u
          PROVE  Bans(t)'
      <3>1. Bans(t) /\ \A x \in Tasks : subject[x] = u => x = t
        BY <1>6, <2>1 DEF LastBanInv
      <3>2. ASSUME pc[t] = "write", Taken(t)'
            PROVE  CutOff(panel[u])'
        <4>1. CASE PanelCommits(t)
          BY <2>1, <3>1, <3>2, <4>1, BanCommits DEF Bans
        <4>2. CASE ~PanelCommits(t)
          <5>1. panel'[u] = panel[u]
            BY <1>4, <3>1, <4>2
          <5>2. Taken(t)
            BY <3>1, <3>2, <4>2, BanTaken DEF Bans
          <5>3. QED
            BY <1>3, <2>1, <3>1, <3>2, <5>1, <5>2 DEF Bans, CutOff
        <4>3. QED
          BY <4>1, <4>2
      <3>3. QED
        BY <1>3, <2>1, <3>1, <3>2 DEF Bans
    <2>2. QED
      BY <1>2, <1>3, <1>6, <2>1 DEF LastBanInv
  <1>7. QED
    BY <1>2, <1>3, <1>5, <1>6 DEF LastBanInv

\* A handler begins: what is known of everybody else stands, and its subject is its own
\* or was somebody's already.
LEMMA BeginningBans ==
    ASSUME RowsInv, RestTyped, NEW t \in Tasks, NEW u \in Users, NEW j, NEW l, Handles(t, u, j, l),
           UNCHANGED panel, UNCHANGED now, j = "ban" => l = "row",
           \A x \in Tasks : x # t => stage'[x] = stage[x] /\ answer'[x] = answer[x],
           \A v \in Users : v # u => status'[v] = status[v],
           NEW v \in Users, LastBanInv(v)
    PROVE  LastBanInv(v)'
  <1>1. /\ pc' = [pc EXCEPT ![t] = l] /\ job' = [job EXCEPT ![t] = j]
        /\ subject' = [subject EXCEPT ![t] = u] /\ Begins(u, j)
        /\ pc \in [Tasks -> {"idle", "start", "request", "row", "panel", "look", "write"}]
        /\ job \in [Tasks -> Jobs] /\ subject \in [Tasks -> Users \cup {NoUser}]
        /\ lastBan \in [Users -> {"none", "running", "clean", "crossed"}]
    BY DEF Handles, RowsInv, RowsTyped, RestTyped
  <1>2. /\ pc'[t] = l /\ job'[t] = j /\ subject'[t] = u
        /\ \A x \in Tasks : x # t => pc'[x] = pc[x] /\ job'[x] = job[x] /\ subject'[x] = subject[x]
    BY <1>1
  <1>3. CASE v # u
    <2>1. lastBan'[v] = lastBan[v] /\ status'[v] = status[v]
      BY <1>1, <1>3 DEF Begins
    <2>2. \A x \in Tasks : subject'[x] = v => x # t /\ subject[x] = v
      BY <1>2, <1>3
    <2>3. \A x \in Tasks : subject'[x] = v /\ Bans(x) => Bans(x)'
      BY <1>2, <2>1, <2>2 DEF Bans, Taken, CutOff
    <2>4. QED
      BY <2>1, <2>2, <2>3 DEF LastBanInv, CutOff
  <1>4. CASE v = u /\ \E x \in Tasks : subject[x] = u
    BY <1>1, <1>4 DEF Begins, LastBanInv
  <1>5. CASE v = u /\ ~\E x \in Tasks : subject[x] = u
    <2>1. /\ lastBan'[u] = IF j = "ban" THEN "running" ELSE "none"
          /\ \A x \in Tasks : subject'[x] = u => x = t
      BY <1>1, <1>2, <1>5 DEF Begins
    <2>2. j = "ban" => Bans(t)'
      BY <1>2 DEF Bans
    <2>3. QED
      BY <1>5, <2>1, <2>2 DEF LastBanInv
  <1>6. QED
    BY <1>3, <1>4, <1>5

\* A handler goes on: a ban stays on course, and nobody else sets a row that is decided.
LEMMA GoingBans ==
    ASSUME RowsInv, NEW t \in Tasks, UNCHANGED <<panel, now, lastBan>>,
           \A x \in Tasks : x # t => /\ pc'[x] = pc[x] /\ job'[x] = job[x]
                                     /\ subject'[x] = subject[x]
                                     /\ stage'[x] = stage[x] /\ answer'[x] = answer[x],
           subject'[t] \in {subject[t], NoUser},
           subject[t] \in Users /\ Bans(t) => Bans(t)',
           \A v \in Users : v = subject[t] \/ status'[v] = status[v] \/ status[v] = "pending",
           NEW u \in Users, LastBanInv(u)
    PROVE  LastBanInv(u)'
  <1>1. u # NoUser
    BY AccessAssumption
  <1>2. \A x \in Tasks : subject'[x] = u => subject[x] = u
    BY <1>1
  <1>3. CASE lastBan[u] = "clean"
    BY <1>2, <1>3 DEF LastBanInv, CutOff
  <1>4. CASE lastBan[u] = "running"
    <2>1. ASSUME NEW x \in Tasks, subject'[x] = u
          PROVE  Bans(x)'
      <3>1. subject[x] = u /\ Bans(x)
        BY <1>2, <1>4, <2>1 DEF LastBanInv
      <3>2. CASE x = t
        BY <3>1, <3>2
      <3>3. CASE x # t
        <4>1. subject[t] # u
          BY <1>4, <3>1, <3>3 DEF LastBanInv
        <4>2. status'[u] = status[u] \/ status[u] = "pending"
          BY <4>1
        <4>3. QED
          BY <3>1, <3>3, <4>2 DEF Bans, Taken, CutOff
      <3>4. QED
        BY <3>2, <3>3
    <2>2. QED
      BY <1>2, <1>4, <2>1 DEF LastBanInv
  <1>5. QED
    BY <1>2, <1>3, <1>4 DEF LastBanInv

\* The handlers of /start and the reviewers do not ban.
LEMMA CustomerBans ==
    ASSUME CallsInv, NEW u \in Users, NEW t \in Tasks,
           \/ t = u /\ (Redeem(u) \/ ReopensMenu(u) \/ IsAnswered(u) \/ StartsNew(u)
                        \/ RequestAccess(u))
           \/ Refuse(t, u),
           NEW v \in Users, LastBanInv(v)
    PROVE  LastBanInv(v)'
  <1>1. /\ pc \in [Tasks -> {"idle", "start", "request", "row", "panel", "look", "write"}]
        /\ job \in [Tasks -> Jobs] /\ subject \in [Tasks -> Users \cup {NoUser}]
        /\ status \in [Users -> Statuses] /\ RowsInv /\ StartInv(t)
    BY DEF CallsInv, RowsInv, RowsTyped
  <1>2. UNCHANGED <<panel, now, lastBan, stage, answer>>
    BY DEF Redeem, ReopensMenu, IsAnswered, StartsNew, RequestAccess, Refuse, panelVars
  <1>3. CASE Refuse(t, u)
    <2>1. UNCHANGED taskVars /\ \A x \in Users : status'[x] = status[x] \/ status[x] = "pending"
      BY <1>1, <1>3 DEF Refuse, Claim
    <2>2. subject[t] \in Users /\ Bans(t) => Bans(t)'
      BY <1>2, <2>1 DEF Bans, Taken, CutOff, taskVars
    <2>3. QED
      BY <1>1, <1>2, <2>1, <2>2, GoingBans DEF taskVars
  <1>4. CASE t = u /\ (Redeem(u) \/ ReopensMenu(u) \/ IsAnswered(u) \/ StartsNew(u)
                       \/ RequestAccess(u))
    <2>1. /\ pc[u] \in {"start", "request"}
          /\ \/ Goes(u, "row") \/ Goes(u, "request") \/ Leaves(u)
             \/ /\ pc' = [pc EXCEPT ![u] = "row"] /\ job' = [job EXCEPT ![u] = "invite"]
                /\ UNCHANGED subject
          /\ \A x \in Users : x # u => status'[x] = status[x]
      BY <1>1, <1>4, AccessAssumption DEF Redeem, ReopensMenu, IsAnswered, StartsNew, RequestAccess
    <2>2. ~Bans(u) /\ subject[u] = u
      BY <1>1, <1>4, <2>1 DEF StartInv, Bans
    <2>3. /\ subject'[u] \in {subject[u], NoUser}
          /\ \A x \in Tasks : x # u => /\ pc'[x] = pc[x] /\ job'[x] = job[x]
                                       /\ subject'[x] = subject[x]
      BY <1>1, <2>1, <1>4 DEF Goes, Leaves
    <2>4. QED
      BY <1>1, <1>2, <1>4, <2>1, <2>2, <2>3, GoingBans
  <1>5. QED
    BY <1>3, <1>4

\* Everybody's update finds its handler beginning.
LEMMA BeginBans ==
    ASSUME CallsInv, NEW t \in Tasks, NEW u \in Users,
           (Start(u) /\ t = u) \/ Accept(t, u) \/ Ban(t, u) \/ Unban(t, u) \/ UnbanProbes(t, u),
           NEW v \in Users, LastBanInv(v)
    PROVE  LastBanInv(v)'
  <1>1. RowsInv /\ RestTyped /\ status \in [Users -> Statuses]
        /\ PanelTypeOK /\ LockInv /\ CallInv(t)
    BY DEF CallsInv, RowsInv, RowsTyped
  <1>2. \A x \in Users : x # u => status'[x] = status[x]
    BY <1>1 DEF Start, Accept, Claim, Ban, Unban, UnbanProbes
  <1>3. CASE ~UnbanProbes(t, u)
    <2>1. UNCHANGED <<panel, now, stage, answer>>
      BY <1>3 DEF Start, Accept, Ban, Unban, panelVars
    <2>2. CASE Start(u) /\ t = u
      <3>1. Handles(t, u, "start", "start")
        BY <2>2 DEF Start
      <3>2. QED
        BY <1>1, <1>2, <2>1, <3>1, BeginningBans
    <2>3. CASE Accept(t, u) \/ Ban(t, u) \/ Unban(t, u)
      <3>1. \E j : Handles(t, u, j, "row")
        BY <2>3 DEF Accept, Ban, Unban
      <3>2. QED
        BY <1>1, <1>2, <2>1, <3>1, BeginningBans
    <2>4. QED
      BY <1>3, <2>2, <2>3
  <1>4. CASE UnbanProbes(t, u)
    <2>1. Handles(t, u, "probe", "look") /\ BeginGet(t, u) /\ stage[t] = "idle"
      BY <1>1, <1>4 DEF UnbanProbes, Handles, CallInv, PanelTypeOK
    <2>2. /\ UNCHANGED <<panel, answer, now>>
          /\ \A x \in Tasks : x # t => stage'[x] = stage[x]
      BY <1>1, <2>1, CallStep
    <2>3. QED
      BY <1>1, <1>2, <2>1, <2>2, BeginningBans
  <1>5. QED
    BY <1>3, <1>4

\* A ban sets its row, looks, and writes; whoever else does was not alone with the user.
LEMMA WorkingBans ==
    ASSUME CallsInv, NEW t \in Tasks, SetRow(t) \/ Looks(t) \/ WritesPanel(t) \/ Probed(t),
           NEW v \in Users, LastBanInv(v)
    PROVE  LastBanInv(v)'
  <1>1. /\ pc \in [Tasks -> {"idle", "start", "request", "row", "panel", "look", "write"}]
        /\ job \in [Tasks -> Jobs] /\ subject \in [Tasks -> Users \cup {NoUser}]
        /\ status \in [Users -> Statuses] /\ RowsInv /\ RowInv(t)
        /\ PanelTypeOK /\ LockInv /\ CallInv(t) /\ stage \in [Tasks -> Stages]
    BY DEF CallsInv, RowsInv, RowsTyped, PanelTypeOK
  <1>2. /\ UNCHANGED <<panel, now, lastBan, answer>>
        /\ \A x \in Tasks : x # t => stage'[x] = stage[x]
    <2>1. CASE SetRow(t)
      BY <2>1 DEF SetRow, panelVars
    <2>2. CASE ~SetRow(t)
      <3>1. lastBan' = lastBan
        BY <2>2 DEF Looks, WritesPanel, Probed
      <3>2. /\ stage[t] \in {"idle", "done", "failed"}
            /\ \/ EndCall(t)
               \/ \E u \in Users : BeginGet(t, u)
               \/ \E r \in Request : r.kind \in Writes /\ BeginWrite(t, r)
        <4>1. CASE Looks(t)
          BY <1>1, <4>1, SubjectIsUser DEF Looks, CallInv
        <4>2. CASE WritesPanel(t)
          BY <4>2, NeededIsWrite DEF WritesPanel, Looked, Writes, Mutations
        <4>3. CASE Probed(t)
          BY <4>3 DEF Probed
        <4>4. QED
          BY <2>2, <4>1, <4>2, <4>3
      <3>3. QED
        BY <1>1, <3>1, <3>2, CallStep
    <2>3. QED
      BY <2>1, <2>2
  <1>3. /\ \A x \in Tasks : x # t => /\ pc'[x] = pc[x] /\ job'[x] = job[x]
                                     /\ subject'[x] = subject[x]
        /\ subject'[t] \in {subject[t], NoUser}
        /\ \A x \in Users : x # subject[t] => status'[x] = status[x]
    BY <1>1 DEF SetRow, Looks, WritesPanel, Probed, Goes, Leaves
  <1>4. ASSUME subject[t] \in Users, Bans(t)
        PROVE  Bans(t)'
    <2>1. CASE SetRow(t)
      BY <1>1, <1>4, <2>1 DEF SetRow, Goes, Bans
    <2>2. CASE Looks(t)
      BY <1>1, <1>4, <2>2 DEF Looks, Goes, Bans
    <2>3. CASE WritesPanel(t)
      <3>1. /\ pc[t] = "look" /\ pc'[t] = "write" /\ UNCHANGED <<job, subject, status>>
            /\ \E r : BeginWrite(t, r)
        BY <1>1, <2>3 DEF WritesPanel, Looked, Goes
      <3>2. stage'[t] = "wait"
        BY <1>1, <3>1 DEF BeginWrite
      <3>3. QED
        BY <1>4, <3>1, <3>2 DEF Bans, Taken
    <2>4. CASE Probed(t)
      BY <1>4, <2>4 DEF Probed, Bans
    <2>5. QED
      BY <2>1, <2>2, <2>3, <2>4
  <1>5. QED
    BY <1>1, <1>2, <1>3, <1>4, GoingBans

\* A ban that returns without an error has found nobody, or had its write taken.
LEMMA ReturningBans ==
    ASSUME CallsInv, MissingInv, NEW t \in Tasks, Returns(t), NEW v \in Users, LastBanInv(v)
    PROVE  LastBanInv(v)'
  <1>1. /\ pc \in [Tasks -> {"idle", "start", "request", "row", "panel", "look", "write"}]
        /\ job \in [Tasks -> Jobs] /\ subject \in [Tasks -> Users \cup {NoUser}]
        /\ lastBan \in [Users -> {"none", "running", "clean", "crossed"}]
        /\ PanelTypeOK /\ LockInv /\ CallInv(t) /\ RowsInv /\ v # NoUser
    BY AccessAssumption DEF CallsInv, RowsInv, RowsTyped, RestTyped
  <1>2. /\ EndCall(t) /\ Leaves(t) /\ Concludes(t) /\ UNCHANGED status
        /\ pc[t] \in {"look", "write"} /\ stage[t] \in {"done", "failed"}
    BY DEF Returns, Looked
  <1>3. /\ UNCHANGED <<panel, now, answer>> /\ subject[t] \in Users
        /\ \A x \in Tasks : x # t => stage'[x] = stage[x]
    BY <1>1, <1>2, CallStep, SubjectIsUser
  <1>4. /\ \A x \in Tasks : x # t => /\ pc'[x] = pc[x] /\ job'[x] = job[x]
                                     /\ subject'[x] = subject[x]
        /\ subject'[t] = NoUser
    BY <1>1, <1>2 DEF Leaves
  <1>5. CASE lastBan' = lastBan /\ (v = subject[t] => ~Bans(t))
    <2>1. lastBan[v] = "running" => v # subject[t]
      BY <1>5 DEF LastBanInv
    <2>2. \A x \in Tasks : subject'[x] = v => x # t /\ subject[x] = v
      BY <1>1, <1>4
    <2>3. \A x \in Tasks : x # t /\ subject[x] = v /\ Bans(x) => Bans(x)'
      BY <1>2, <1>3, <1>4 DEF Bans, Taken, CutOff
    <2>4. QED
      BY <1>2, <1>3, <1>4, <1>5, <2>2, <2>3 DEF LastBanInv, CutOff
  <1>6. CASE job[t] = "ban" /\ lastBan[subject[t]] = "running"
    <2>1. CASE v # subject[t]
      <3>1. lastBan'[v] = lastBan[v]
        BY <1>2, <1>6, <2>1 DEF Concludes
      <3>2. \A x \in Tasks : subject'[x] = v => x # t /\ subject[x] = v
        BY <1>1, <1>4
      <3>3. \A x \in Tasks : x # t /\ subject[x] = v /\ Bans(x) => Bans(x)'
        BY <1>2, <1>3, <1>4 DEF Bans, Taken, CutOff
      <3>4. QED
        BY <1>2, <1>3, <1>4, <3>1, <3>2, <3>3 DEF LastBanInv, CutOff
    <2>2. CASE v = subject[t]
      <3>1. /\ Bans(t) /\ \A x \in Tasks : subject'[x] # v
            /\ lastBan'[v] = IF stage[t] = "failed" THEN "none" ELSE "clean"
        BY <1>1, <1>2, <1>4, <1>6, <2>2 DEF LastBanInv, Concludes
      <3>2. ASSUME stage[t] = "done"
            PROVE  status[v] = "blocked" /\ CutOff(panel[v])
        <4>1. status[v] = "blocked"
          BY <1>2, <2>2, <3>1 DEF Bans
        <4>2. CASE pc[t] = "write"
          BY <2>2, <3>1, <3>2, <4>1, <4>2 DEF Bans, Taken
        <4>3. CASE pc[t] = "look"
          <5>1. Needed(t) = {} /\ request[t] = Look(t)
            BY <1>1, <4>3 DEF Returns, CallInv
          <5>2. object[t] = NoClient
            BY <1>6, <3>2, <5>1 DEF Needed
          <5>3. Gone(panel[v])
            BY <2>2, <3>2, <5>1, <5>2 DEF MissingInv, Look
          <5>4. QED
            BY <4>1, <5>3 DEF Gone, CutOff
        <4>4. QED
          BY <1>2, <4>2, <4>3
      <3>3. QED
        BY <1>2, <1>3, <3>1, <3>2 DEF LastBanInv, CutOff
    <2>3. QED
      BY <2>1, <2>2
  <1>7. QED
    <2>1. ~(job[t] = "ban" /\ lastBan[subject[t]] = "running") => lastBan' = lastBan
      BY <1>2 DEF Concludes
    <2>2. CASE v = subject[t] /\ lastBan[v] # "running"
      <3>1. \A x \in Tasks : subject'[x] = v => x # t /\ subject[x] = v
        BY <1>1, <1>4
      <3>2. QED
        BY <1>2, <1>3, <2>1, <2>2, <3>1 DEF LastBanInv, CutOff
    <2>3. CASE v = subject[t] /\ lastBan[v] = "running"
      <3>1. job[t] = "ban"
        BY <2>3 DEF LastBanInv, Bans
      <3>2. QED
        BY <1>6, <2>3, <3>1
    <2>4. CASE v # subject[t]
      BY <1>5, <1>6, <2>1, <2>4
    <2>5. QED
      BY <2>2, <2>3, <2>4

\* What is known of the lists outlives every step of a handler.
LEMMA NextMissing == ASSUME CallsInv, DatesInv, MissingInv, [Next]_vars PROVE MissingInv'
  <1>1. CASE UNCHANGED panelVars
    BY <1>1 DEF panelVars, MissingInv, Missing, Gone
  <1>2. CASE GatewayStep
    BY <1>2, GatewayMissing
  <1>3. ASSUME NEW t \in Tasks, stage[t] \in {"idle", "done", "failed"},
               \/ EndCall(t)
               \/ \E u \in Users : BeginGet(t, u)
               \/ \E r \in Request : r.kind \in Writes /\ BeginWrite(t, r)
        PROVE  MissingInv'
    <2>1. /\ stage \in [Tasks -> Stages] /\ object \in [Tasks -> Client \cup {NoClient}]
          /\ request \in [Tasks -> Request \cup {NoRequest}] /\ PanelTypeOK /\ LockInv
      BY DEF CallsInv, PanelTypeOK
    <2>2. /\ UNCHANGED <<panel, cache, answer, now>>
          /\ \A x \in Tasks : x # t => /\ stage'[x] = stage[x] /\ request'[x] = request[x]
                                       /\ object'[x] = object[x]
      BY <1>3, <2>1, CallStep
    <2>3. ASSUME stage'[t] = "done", object'[t] = NoClient
          PROVE  Gone(panel[request'[t].user])
      <3>1. PICK u \in Users : BeginGet(t, u)
        BY <1>3, <2>1, <2>3 DEF EndCall, BeginWrite
      <3>2. cache # NoCache /\ cache[u] = NoClient /\ request'[t].user = u
        BY <2>1, <2>3, <3>1 DEF BeginGet
      <3>3. QED
        BY <3>2 DEF MissingInv, Missing
    <2>4. QED
      BY <2>2, <2>3 DEF MissingInv, Missing, Gone
  <1>4. QED
    BY <1>1, <1>2, <1>3, StepKinds

\* Every step keeps to what the last update about each user has come to.
LEMMA NextBans == ASSUME CallsInv, DatesInv, BansInv, [Next]_vars PROVE BansInv'
  <1>1. MissingInv'
    BY NextMissing DEF BansInv
  <1>2. ASSUME NEW v \in Users
        PROVE  LastBanInv(v)'
    <2>1. LastBanInv(v) /\ MissingInv
      BY DEF BansInv
    <2>2. CASE GatewayStep /\ Overtakes /\ UNCHANGED rowVars
      BY <2>1, <2>2, GatewayBans
    <2>3. CASE UNCHANGED vars
      BY <2>1, <2>3 DEF vars, panelVars, rowVars, taskVars, LastBanInv, Bans, Taken, CutOff
    <2>4. Users \subseteq Tasks /\ Reviewers \subseteq Tasks /\ Banners \subseteq Tasks
      BY AccessAssumption
    <2>5. ASSUME NEW u \in Users, NEW a \in Tasks,
                 \/ a = u /\ (Redeem(u) \/ ReopensMenu(u) \/ IsAnswered(u) \/ StartsNew(u)
                              \/ RequestAccess(u))
                 \/ Refuse(a, u)
          PROVE  LastBanInv(v)'
      BY <2>1, <2>5, CustomerBans
    <2>6. ASSUME NEW u \in Users, NEW a \in Tasks,
                 \/ (Start(u) /\ a = u) \/ Accept(a, u) \/ Ban(a, u) \/ Unban(a, u)
                 \/ UnbanProbes(a, u)
          PROVE  LastBanInv(v)'
      BY <2>1, <2>6, BeginBans
    <2>7. ASSUME NEW t \in Tasks, Continues(t)
          PROVE  LastBanInv(v)'
      BY <2>1, <2>7, WorkingBans, ReturningBans DEF Continues
    <2>8. QED
      BY <2>2, <2>3, <2>4, <2>5, <2>6, <2>7 DEF Next
  <1>3. QED
    BY <1>1, <1>2 DEF BansInv

\* At first nobody is at work on anybody.
LEMMA InitBans == ASSUME Init PROVE BansInv
  <1>1. PICK i \in Initial : PanelInit(i.panel, 2)
    BY DEF Init
  <1>2. \A t \in Tasks : answer[t] \notin Snapshot
    BY <1>1, PanelAssumption DEF PanelInit
  <1>3. MissingInv
    BY <1>1, <1>2 DEF PanelInit, MissingInv
  <1>4. \A u \in Users : LastBanInv(u)
    BY AccessAssumption DEF Init, LastBanInv
  <1>5. QED
    BY <1>3, <1>4 DEF BansInv

\* A ban that ran alone with its user and reported no error was carried out: for any
\* users, staff and clients to start with, any interleaving with other users' bans,
\* approvals and invites, any requests that fail before it or meanwhile, and writes that
\* land after the bot gave up on them (UserService.ban, users.py:251-278).
THEOREM BansAreCarriedOut == Spec => []BanIsCarriedOut
  <1>1. BansInv => BanIsCarriedOut
    BY DEF BansInv, LastBanInv, CutOff, BanIsCarriedOut
  <1>2. QED
    BY InitCalls, NextCalls, InitDates, NextDates, InitBans, NextBans, <1>1, PTL DEF Spec
=============================================================================
