---------------------------- MODULE Cards_proofs ----------------------------
(***************************************************************************)
(* Proofs about Cards: its types, the payer's notices, the retry button    *)
(* and the cards, for any reviewers, messages and number of crashes.       *)
(***************************************************************************)
EXTENDS Cards, WellFoundedInduction, TLAPS

-----------------------------------------------------------------------------
(* Types.                                                                  *)

\* The types, and what a task has still to reach.
TypesInv ==
    /\ status \in Statuses /\ applied \in BOOLEAN
    /\ shows \in [Messages -> Faces \cup {"unsent"}]
    /\ copies \in [Messages -> Messages \cup {NoMessage}]
    /\ pc \in [Tasks -> {"idle", "fan", "store", "claim", "apply",
                       "list", "sync", "point", "notify"}]
    /\ face \in [Tasks -> Faces]
    /\ held \in [Tasks -> Messages \cup {NoMessage}]
    /\ told \subseteq Verdicts
    /\ up \in BOOLEAN /\ crashes \in Nat
    /\ reached \in [Tasks -> BOOLEAN]
    /\ unheard \in BOOLEAN /\ torn \in BOOLEAN /\ excused \subseteq Messages
    /\ left \in [Tasks -> SUBSET (Staff \cup (Messages \X Messages))]
    /\ \A t \in Tasks :
          /\ pc[t] \in {"fan", "store"} => left[t] \subseteq Staff
          /\ pc[t] \in {"sync", "point"} => left[t] \subseteq Messages \X Messages
          /\ pc[t] \notin {"fan", "store", "sync", "point"} => left[t] = {}
          /\ pc[t] \in {"store", "point"} <=> held[t] # NoMessage
          /\ pc[t] \in {"list", "sync", "point"} => face[t] # "review"
          /\ pc[t] = "notify" => face[t] \in Verdicts

\* A set of numbers has a least one.
LEMMA LeastNatural ==
    ASSUME NEW S \in SUBSET Nat, S # {}
    PROVE  \E n \in S : \A k \in S : n <= k
  <1>1. PICK m \in S : \A k \in S : <<k, m>> \notin OpToRel(<, Nat)
    BY NatLessThanWellFounded, WFMin
  <1>2. ASSUME NEW k \in S
        PROVE  m <= k
    <2>1. <<k, m>> \notin OpToRel(<, Nat)
      BY <1>1
    <2>2. ~(k < m)
      BY <2>1 DEF OpToRel
    <2>3. QED
      BY <2>2
  <1>3. QED
    BY <1>2

\* A message that is sent was not there before, and is in the chat.
LEMMA SentIsFree ==
    ASSUME NEW c \in Staff, Free(c) # {}
    PROVE  Sent(c) \in Messages /\ Sent(c)[1] = c /\ shows[Sent(c)] = "unsent"
  <1>1. Free(c) \in SUBSET Nat
    BY DEF Free
  <1>2. \E n \in Free(c) : \A k \in Free(c) : n <= k
    BY <1>1, LeastNatural
  <1> DEFINE n == CHOOSE n \in Free(c) : \A k \in Free(c) : n <= k
  <1>3. n \in Free(c)
    BY <1>2
  <1>4. Sent(c) = <<c, n>>
    BY DEF Sent
  <1> HIDE DEF n
  <1>5. QED
    BY <1>3, <1>4 DEF Free, Messages

\* Reviewers, the payer and the startup are different tasks.
LEMMA People == /\ Staff \subseteq Tasks /\ Payer \in Tasks /\ Boot \in Tasks
                /\ NoMessage \notin Messages
                /\ Payer \notin Staff /\ Boot \notin Staff /\ Payer # Boot
                /\ \A m \in Messages : m[1] \in Staff
  BY CardsAssumption DEF Tasks, Messages

\* Nothing was sent at first.
LEMMA InitTypes == Init => TypesInv
  <1> SUFFICES ASSUME Init
               PROVE  TypesInv
    OBVIOUS
  <1>1. left \in [Tasks -> SUBSET (Staff \cup (Messages \X Messages))]
    BY DEF Init
  <1>2. shows \in [Messages -> Faces \cup {"unsent"}] /\ copies \in [Messages -> Messages \cup {NoMessage}]
    BY DEF Init
  <1>3. QED
    BY <1>1, <1>2 DEF Init, TypesInv, Statuses, Faces, Verdicts

\* Every step keeps the types.
LEMMA NextTypes == TypesInv /\ [Next]_vars => TypesInv'
  <1> SUFFICES ASSUME TypesInv, [Next]_vars
               PROVE  TypesInv'
    OBVIOUS
  <1> USE People
  <1>1. CASE Submit
    BY <1>1 DEF Submit, Idle, Claim, FansOut, Goes, Keeps, cardVars, ghosts, TypesInv, Statuses,
       Faces
  <1>2. CASE Cancel
    BY <1>2 DEF Cancel, Idle, Claim, AfterCancel, Syncs, Goes, Keeps, cardVars, taskVars, ghosts,
         TypesInv, Statuses, Faces, Verdicts
  <1>3. ASSUME NEW r \in Staff, Open(r)
        PROVE  TypesInv'
    BY <1>3 DEF Open, Idle, FansOut, Goes, Keeps, cardVars, ghosts, TypesInv, Faces
  <1>4. ASSUME NEW r \in Staff, Approve(r)
        PROVE  TypesInv'
    BY <1>4 DEF Approve, Idle, Claim, Goes, Keeps, cardVars, ghosts, TypesInv, Statuses, Faces,
         Verdicts
  <1>5. ASSUME NEW r \in Staff, Decline(r)
        PROVE  TypesInv'
    BY <1>5 DEF Decline, Idle, Claim, Syncs, Goes, Keeps, cardVars, ghosts, TypesInv, Statuses,
         Faces, Verdicts
  <1>6. ASSUME NEW r \in Staff, Retry(r)
        PROVE  TypesInv'
    BY <1>6 DEF Retry, Idle, Goes, Keeps, cardVars, ghosts, TypesInv, Faces
  <1>7. ASSUME NEW r \in Staff, Applied(r)
        PROVE  TypesInv'
    BY <1>7 DEF Applied, Syncs, Goes, Keeps, cardVars, ghosts, TypesInv, Faces, Verdicts
  <1>8. ASSUME NEW r \in Staff, ApplyFails(r)
        PROVE  TypesInv'
    <2>1. CASE face[r] = "retry"
      <3>1. /\ Ends(r)
            /\ UNCHANGED <<left, held, status, applied, shows, copies, told, up, crashes,
                           unheard, excused, torn>>
        BY <1>8, <2>1 DEF ApplyFails, ApplyFailed, Keeps, cardVars, ghosts
      <3>2. pc[r] = "apply" /\ r \in Tasks
        BY <1>8 DEF ApplyFails
      <3>3. QED
        BY <3>1, <3>2 DEF Ends, Goes, TypesInv, Faces
    <2>2. CASE face[r] # "retry"
      BY <1>8, <2>2 DEF ApplyFails, ApplyFailed, Syncs, Goes, Keeps, cardVars, ghosts, TypesInv,
         Faces
    <2>3. QED
      BY <2>1, <2>2
  <1>9. ASSUME NEW r \in Staff, ApplyRaises(r)
        PROVE  TypesInv'
    BY <1>9 DEF ApplyRaises, Ends, Goes, cardVars, Stored, TypesInv, Faces
  <1>10. ASSUME NEW t \in Tasks, NEW c \in Staff, Deliver(t, c)
         PROVE  TypesInv'
    <2>1. CASE UNCHANGED <<shows, held, pc>>
      BY <1>10, <2>1 DEF Deliver, ghosts, TypesInv
    <2>2. CASE Free(c) # {} /\ held' = [held EXCEPT ![t] = Sent(c)] /\ Goes(t, "store")
               /\ shows' = [shows EXCEPT ![Sent(c)] = "review"]
      BY <1>10, <2>2, SentIsFree DEF Deliver, Goes, ghosts, TypesInv, Faces
    <2>3. QED
      BY <1>10, <2>1, <2>2 DEF Deliver
  <1>11. ASSUME NEW t \in Tasks, Store(t)
         PROVE  TypesInv'
    BY <1>11 DEF Store, Goes, TypesInv
  <1>12. ASSUME NEW t \in Tasks, FannedOut(t)
         PROVE  TypesInv'
    BY <1>12 DEF FannedOut, Ends, Goes, Keeps, cardVars, ghosts, TypesInv, Faces
  <1>13. ASSUME NEW t \in Tasks, List(t)
         PROVE  TypesInv'
    BY <1>13 DEF List, Rows, Goes, cardVars, TypesInv
  <1>14. ASSUME NEW t \in Tasks, Point(t)
         PROVE  TypesInv'
    BY <1>14 DEF Point, PointsAt, Reaches, Goes, ghosts, TypesInv
  <1>15. ASSUME NEW t \in Tasks, Synced(t)
         PROVE  TypesInv'
    <2>1. unheard' \in BOOLEAN
      <3>1. unheard' = (~reached[t]) \/ unheard' = unheard
        BY <1>15 DEF Synced
      <3>2. (~reached[t]) \in BOOLEAN /\ unheard \in BOOLEAN
        BY DEF TypesInv
      <3>3. QED
        BY <3>1, <3>2, Zenon
    <2>2. CASE face[t] \in {"retry", "cancelled"}
      <3>1. /\ Ends(t) /\ left[t] = {}
            /\ UNCHANGED <<status, applied, shows, copies, left, held, told, up, crashes, excused, torn>>
        BY <1>15, <2>2 DEF Synced, cardVars
      <3>2. held[t] = NoMessage
        BY <1>15 DEF Synced, TypesInv
      <3>3. QED
        BY <2>1, <3>1, <3>2 DEF Ends, Goes, TypesInv, Faces
    <2>3. CASE face[t] \notin {"retry", "cancelled"}
      BY <1>15, <2>1, <2>3 DEF Synced, Goes, cardVars, TypesInv, Faces
    <2>4. QED
      BY <2>2, <2>3
  <1>16. ASSUME NEW t \in Tasks, Notify(t)
         PROVE  TypesInv'
    <2>1. face[t] \in Verdicts
      BY <1>16 DEF Notify, TypesInv
    <2>2. QED
      BY <1>16, <2>1 DEF Notify, Ends, Goes, cardVars, ghosts, TypesInv, Faces
  <1>17. ASSUME NEW t \in Tasks, NEW row \in left[t], Edit(t, row)
         PROVE  TypesInv'
    BY <1>17 DEF Edit, Reaches, TypesInv
  <1>18. ASSUME NEW t \in Tasks, NEW row \in left[t], Resend(t, row)
         PROVE  TypesInv'
    BY <1>18, SentIsFree DEF Resend, Goes, ghosts, TypesInv
  <1>19. ASSUME NEW t \in Tasks, NEW row \in left[t], Skip(t, row)
         PROVE  TypesInv'
    BY <1>19 DEF Skip, cardVars, TypesInv
  <1>20. CASE Crash
    <2>1. left' \in [Tasks -> SUBSET (Staff \cup (Messages \X Messages))]
      BY <1>20 DEF Crash
    <2>2. crashes' \in Nat /\ torn' \in BOOLEAN
      BY <1>20 DEF Crash, TypesInv, Quiet, Idle
    <2>3. QED
      BY <1>20, <2>1, <2>2 DEF Crash, cardVars, TypesInv, Faces
  <1>21. CASE ExpireStale
    BY <1>21 DEF ExpireStale, Idle, Claim, Syncs, Goes, Keeps, cardVars, ghosts, TypesInv,
         Statuses, Faces, Verdicts
  <1>22. CASE Restart
    BY <1>22 DEF Restart, Alerts, taskVars, TypesInv, Faces
  <1>23. CASE UNCHANGED vars
    BY <1>23 DEF vars, cardVars, taskVars, ghosts, TypesInv
  <1>24. QED
    BY <1>1, <1>2, <1>3, <1>4, <1>5, <1>6, <1>7, <1>8, <1>9, <1>10, <1>11, <1>12, <1>13, <1>14,
       <1>15,
       <1>16, <1>17, <1>18, <1>19, <1>20, <1>21, <1>22, <1>23 DEF Next
-----------------------------------------------------------------------------
(* Messages.                                                               *)

\* A stored copy is a message of the chat, in one row; a message a task has sent and
\* not stored is its own and in no row; a row it has to reach is there.
SeenInv ==
    /\ \A m \in Messages : copies[m] # NoMessage => shows[copies[m]] # "unsent" /\ shows[m] # "unsent"
    /\ \A m, n \in Messages : copies[m] = copies[n] /\ copies[m] # NoMessage => m = n
    /\ \A t \in Tasks : held[t] # NoMessage
         => /\ shows[held[t]] # "unsent" /\ copies[held[t]] = NoMessage
            /\ \A m \in Messages : copies[m] # held[t]
    /\ \A t, o \in Tasks : held[t] = held[o] /\ held[t] # NoMessage => t = o
    /\ \A t \in Tasks : pc[t] \in {"sync", "point"}
         => \A row \in left[t] : shows[row[2]] # "unsent" /\ copies[row[1]] # NoMessage

\* Steps that store nothing and send nothing a task holds.
LEMMA SeenFrame ==
    ASSUME TypesInv, SeenInv, UNCHANGED copies,
           \A m \in Messages : shows[m] # "unsent" => shows'[m] # "unsent",
           \A t \in Tasks : held'[t] \in {held[t], NoMessage},
           \A t \in Tasks : pc'[t] \in {"sync", "point"} =>
              pc[t] \in {"sync", "point"} /\ left'[t] \subseteq left[t]
    PROVE  SeenInv'
  <1> USE People
  <1>1. \A m \in Messages : copies'[m] # NoMessage => shows'[copies'[m]] # "unsent" /\ shows'[m] # "unsent"
    BY DEF SeenInv, TypesInv
  <1>2. \A t \in Tasks : held'[t] # NoMessage
           => /\ shows'[held'[t]] # "unsent" /\ copies'[held'[t]] = NoMessage
              /\ \A m \in Messages : copies'[m] # held'[t]
    BY DEF SeenInv, TypesInv
  <1>3. \A t \in Tasks : pc'[t] \in {"sync", "point"}
           => \A row \in left'[t] : shows'[row[2]] # "unsent" /\ copies'[row[1]] # NoMessage
    <2> SUFFICES ASSUME NEW t \in Tasks, pc'[t] \in {"sync", "point"}, NEW row \in left'[t]
                 PROVE  shows'[row[2]] # "unsent" /\ copies'[row[1]] # NoMessage
      OBVIOUS
    <2>1. row \in left[t] /\ pc[t] \in {"sync", "point"}
      OBVIOUS
    <2>2. row \in Messages \X Messages
      BY <2>1 DEF TypesInv
    <2>3. QED
      BY <2>1, <2>2 DEF SeenInv
  <1>4. QED
    BY <1>1, <1>2, <1>3 DEF SeenInv

\* No copy points anywhere at first.
LEMMA InitSeen == Init => SeenInv
  BY People DEF Init, SeenInv

\* The steps that send, and those that store.
LEMMA DeliverSeen ==
    ASSUME TypesInv, SeenInv, NEW t \in Tasks, NEW c \in Staff, Deliver(t, c)
    PROVE  SeenInv'
  <1> USE People
  <1>1. CASE UNCHANGED <<shows, held, pc>>
    BY <1>1, SeenFrame DEF Deliver, TypesInv
  <1>2. CASE /\ Free(c) # {} /\ held' = [held EXCEPT ![t] = Sent(c)] /\ Goes(t, "store")
             /\ shows' = [shows EXCEPT ![Sent(c)] = "review"]
    <2>1. Sent(c) \in Messages /\ shows[Sent(c)] = "unsent"
      BY <1>2, SentIsFree
    <2> DEFINE s == Sent(c)
    <2> HIDE DEF s
    <2>2. /\ s \in Messages /\ shows[s] = "unsent" /\ copies' = copies
          /\ held' = [held EXCEPT ![t] = s] /\ shows' = [shows EXCEPT ![s] = "review"]
          /\ pc' = [pc EXCEPT ![t] = "store"] /\ left' = [left EXCEPT ![t] = @ \ {c}]
      BY <1>2, <2>1 DEF Deliver, Goes, s
    <2>3. copies[s] = NoMessage /\ \A m \in Messages : copies[m] # s
      BY <2>2 DEF SeenInv, TypesInv
    <2>4. \A o \in Tasks : held[o] # s
      BY <2>2 DEF SeenInv, TypesInv
    <2>5. \A m \in Messages : copies'[m] # NoMessage => shows'[copies'[m]] # "unsent" /\ shows'[m] # "unsent"
      BY <2>2 DEF SeenInv, TypesInv
    <2>6. \A o \in Tasks : held'[o] # NoMessage
           => /\ shows'[held'[o]] # "unsent" /\ copies'[held'[o]] = NoMessage
              /\ \A m \in Messages : copies'[m] # held'[o]
      BY <2>2, <2>3 DEF SeenInv, TypesInv
    <2>7. \A x, o \in Tasks : held'[x] = held'[o] /\ held'[x] # NoMessage => x = o
      BY <2>2, <2>4 DEF SeenInv, TypesInv
    <2>8. ASSUME NEW o \in Tasks, pc'[o] \in {"sync", "point"}, NEW row \in left'[o]
          PROVE  shows'[row[2]] # "unsent" /\ copies'[row[1]] # NoMessage
      <3>1. row \in left[o] /\ pc[o] \in {"sync", "point"}
        BY <2>2, <2>8 DEF TypesInv
      <3>2. row \in Messages \X Messages
        BY <3>1 DEF TypesInv
      <3>3. QED
        BY <2>2, <3>1, <3>2 DEF SeenInv, TypesInv
    <2>9. QED
      BY <2>2, <2>5, <2>6, <2>7, <2>8 DEF SeenInv
  <1>3. QED
    BY <1>1, <1>2 DEF Deliver

\* A copy sent anew is there before anything points at it.
LEMMA ResendSeen ==
    ASSUME TypesInv, SeenInv, NEW t \in Tasks, NEW row \in left[t], Resend(t, row)
    PROVE  SeenInv'
  <1> USE People
  <1> DEFINE s == Sent(row[2][1])
  <1>1. row \in Messages \X Messages /\ row[2][1] \in Staff
    BY DEF Resend, TypesInv
  <1>2. s \in Messages /\ shows[s] = "unsent"
    BY <1>1, SentIsFree DEF Resend
  <1>3. /\ s \in Messages /\ shows[s] = "unsent" /\ copies' = copies /\ pc[t] = "sync"
        /\ held' = [held EXCEPT ![t] = s] /\ shows' = [shows EXCEPT ![s] = face[t]]
        /\ pc' = [pc EXCEPT ![t] = "point"] /\ left' = [left EXCEPT ![t] = (@ \ {row}) \cup {<<row[1], s>>}]
    BY <1>2 DEF Resend, Goes
  <1> HIDE DEF s
  <1>4. copies[s] = NoMessage /\ \A m \in Messages : copies[m] # s
    BY <1>3 DEF SeenInv, TypesInv
  <1>5. \A o \in Tasks : held[o] # s
    BY <1>3 DEF SeenInv, TypesInv
  <1>6. face[t] # "unsent"
    BY DEF TypesInv, Faces, Verdicts
  <1>7. \A m \in Messages : copies'[m] # NoMessage => shows'[copies'[m]] # "unsent" /\ shows'[m] # "unsent"
    BY <1>3, <1>6 DEF SeenInv, TypesInv
  <1>8. \A o \in Tasks : held'[o] # NoMessage
           => /\ shows'[held'[o]] # "unsent" /\ copies'[held'[o]] = NoMessage
              /\ \A m \in Messages : copies'[m] # held'[o]
    BY <1>3, <1>4, <1>6 DEF SeenInv, TypesInv
  <1>9. \A x, o \in Tasks : held'[x] = held'[o] /\ held'[x] # NoMessage => x = o
    BY <1>3, <1>5 DEF SeenInv, TypesInv
  <1>10. ASSUME NEW o \in Tasks, pc'[o] \in {"sync", "point"}, NEW r \in left'[o]
         PROVE  shows'[r[2]] # "unsent" /\ copies'[r[1]] # NoMessage
    <2>1. CASE r \in left[o] /\ pc[o] \in {"sync", "point"}
      <3>1. r \in Messages \X Messages
        BY <2>1 DEF TypesInv
      <3>2. QED
        BY <1>3, <1>6, <2>1, <3>1 DEF SeenInv, TypesInv
    <2>2. CASE o = t /\ r = <<row[1], s>>
      BY <1>1, <1>3, <1>6, <2>2 DEF SeenInv, TypesInv
    <2>3. CASE o # t
      BY <1>3, <1>10, <2>1, <2>3 DEF TypesInv
    <2>4. CASE o = t
      <3>1. r \in (left[t] \ {row}) \cup {<<row[1], s>>}
        BY <1>3, <1>10, <2>4 DEF TypesInv
      <3>2. QED
        BY <1>3, <2>1, <2>2, <2>4, <3>1
    <2>5. QED
      BY <2>3, <2>4
  <1>11. QED
    BY <1>3, <1>7, <1>8, <1>9, <1>10 DEF SeenInv

\* A row is stored for a message that was sent.
LEMMA StoreSeen ==
    ASSUME TypesInv, SeenInv, NEW t \in Tasks, Store(t)
    PROVE  SeenInv'
  <1> USE People
  <1> DEFINE m == held[t]
  <1>1. /\ m \in Messages /\ shows' = shows /\ left' = left /\ copies' \in {copies, [copies EXCEPT ![m] = m]}
        /\ held' = [held EXCEPT ![t] = NoMessage] /\ pc' = [pc EXCEPT ![t] = "fan"]
    BY DEF Store, Goes, TypesInv
  <1>2. shows[m] # "unsent" /\ copies[m] = NoMessage /\ \A n \in Messages : copies[n] # m
    BY <1>1 DEF SeenInv
  <1>3. \A o \in Tasks \ {t} : held[o] # m
    BY <1>1 DEF SeenInv
  <1> HIDE DEF m
  <1>4. CASE copies' = copies
    BY <1>1, <1>4, SeenFrame DEF TypesInv
  <1>5. CASE copies' = [copies EXCEPT ![m] = m]
    <2>1. \A n \in Messages : copies'[n] # NoMessage => shows'[copies'[n]] # "unsent" /\ shows'[n] # "unsent"
      BY <1>1, <1>2, <1>5 DEF SeenInv, TypesInv
    <2>2. \A n, k \in Messages : copies'[n] = copies'[k] /\ copies'[n] # NoMessage => n = k
      BY <1>1, <1>2, <1>5 DEF SeenInv, TypesInv
    <2>3. \A o \in Tasks : held'[o] # NoMessage
           => /\ shows'[held'[o]] # "unsent" /\ copies'[held'[o]] = NoMessage
              /\ \A n \in Messages : copies'[n] # held'[o]
      BY <1>1, <1>3, <1>5 DEF SeenInv, TypesInv
    <2>4. \A x, o \in Tasks : held'[x] = held'[o] /\ held'[x] # NoMessage => x = o
      BY <1>1 DEF SeenInv, TypesInv
    <2>5. ASSUME NEW o \in Tasks, pc'[o] \in {"sync", "point"}, NEW row \in left'[o]
          PROVE  shows'[row[2]] # "unsent" /\ copies'[row[1]] # NoMessage
      <3>1. row \in left[o] /\ pc[o] \in {"sync", "point"}
        BY <1>1, <2>5 DEF TypesInv
      <3>2. row \in Messages \X Messages
        BY <3>1 DEF TypesInv
      <3>3. QED
        BY <1>1, <1>5, <3>1, <3>2 DEF SeenInv, TypesInv
    <2>6. QED
      BY <2>1, <2>2, <2>3, <2>4, <2>5 DEF SeenInv
  <1>6. QED
    BY <1>1, <1>4, <1>5

\* A row is moved to a message that was sent.
LEMMA PointSeen ==
    ASSUME TypesInv, SeenInv, NEW t \in Tasks, Point(t)
    PROVE  SeenInv'
  <1> USE People
  <1>1. PICK row \in left[t] : row[2] = held[t] /\ PointsAt(row) /\ left' = [left EXCEPT ![t] = @ \ {row}]
    BY DEF Point
  <1> DEFINE m == held[t]
  <1>2. /\ m \in Messages /\ row \in Messages \X Messages /\ shows' = shows /\ copies' = [copies EXCEPT ![row[1]] = m]
        /\ held' = [held EXCEPT ![t] = NoMessage] /\ pc' = [pc EXCEPT ![t] = "sync"] /\ pc[t] = "point"
        /\ left' = [left EXCEPT ![t] = @ \ {row}]
    BY <1>1 DEF Point, PointsAt, Goes, TypesInv
  <1>3. shows[m] # "unsent" /\ copies[m] = NoMessage /\ \A n \in Messages : copies[n] # m
    BY <1>2 DEF SeenInv
  <1>4. \A o \in Tasks \ {t} : held[o] # m
    BY <1>2 DEF SeenInv
  <1>5. copies[row[1]] # NoMessage /\ shows[row[1]] # "unsent"
    BY <1>1, <1>2 DEF SeenInv
  <1> HIDE DEF m
  <1> DEFINE a == row[1]
  <1>6. /\ a \in Messages /\ copies[a] # NoMessage /\ shows[a] # "unsent"
        /\ copies' = [copies EXCEPT ![a] = m] /\ \A o \in Tasks : held[o] # a
    BY <1>2, <1>5 DEF SeenInv
  <1> HIDE DEF a
  <1>7. \A n \in Messages : copies'[n] # NoMessage => shows'[copies'[n]] # "unsent" /\ shows'[n] # "unsent"
    BY <1>2, <1>3, <1>6 DEF SeenInv, TypesInv
  <1>8. \A n, k \in Messages : copies'[n] = copies'[k] /\ copies'[n] # NoMessage => n = k
    BY <1>2, <1>3, <1>6 DEF SeenInv, TypesInv
  <1>9. \A o \in Tasks : held'[o] # NoMessage
          => /\ shows'[held'[o]] # "unsent" /\ copies'[held'[o]] = NoMessage
             /\ \A n \in Messages : copies'[n] # held'[o]
    BY <1>2, <1>4, <1>6 DEF SeenInv, TypesInv
  <1>10. \A x, o \in Tasks : held'[x] = held'[o] /\ held'[x] # NoMessage => x = o
    BY <1>2 DEF SeenInv, TypesInv
  <1>11. ASSUME NEW o \in Tasks, pc'[o] \in {"sync", "point"}, NEW r \in left'[o]
         PROVE  shows'[r[2]] # "unsent" /\ copies'[r[1]] # NoMessage
    <2>1. r \in left[o] /\ pc[o] \in {"sync", "point"}
      BY <1>2, <1>11 DEF TypesInv
    <2>2. r \in Messages \X Messages
      BY <2>1 DEF TypesInv
    <2>3. QED
      BY <1>2, <1>6, <2>1, <2>2 DEF SeenInv, TypesInv
  <1>12. QED
    BY <1>7, <1>8, <1>9, <1>10, <1>11 DEF SeenInv

\* Every step leaves the copies pointing at messages that were sent.
LEMMA NextSeen == TypesInv /\ SeenInv /\ [Next]_vars => SeenInv'
  <1> SUFFICES ASSUME TypesInv, SeenInv, [Next]_vars
               PROVE  SeenInv'
    OBVIOUS
  <1> USE People
  <1>1. CASE Submit
    BY <1>1, SeenFrame DEF Submit, FansOut, Goes, Keeps, cardVars, ghosts, TypesInv
  <1>2. CASE Cancel
    BY <1>2, SeenFrame DEF Cancel, AfterCancel, Syncs, Goes, Keeps, cardVars, taskVars, ghosts,
         TypesInv
  <1>3. ASSUME NEW r \in Staff, Open(r)
        PROVE  SeenInv'
    BY <1>3, SeenFrame DEF Open, FansOut, Goes, Keeps, cardVars, ghosts, TypesInv
  <1>4. ASSUME NEW r \in Staff, Approve(r)
        PROVE  SeenInv'
    BY <1>4, SeenFrame DEF Approve, Goes, Keeps, cardVars, ghosts, TypesInv
  <1>5. ASSUME NEW r \in Staff, Decline(r)
        PROVE  SeenInv'
    BY <1>5, SeenFrame DEF Decline, Syncs, Goes, Keeps, cardVars, ghosts, TypesInv
  <1>6. ASSUME NEW r \in Staff, Retry(r)
        PROVE  SeenInv'
    BY <1>6, SeenFrame DEF Retry, Goes, Keeps, cardVars, ghosts, TypesInv
  <1>7. ASSUME NEW r \in Staff, Applied(r)
        PROVE  SeenInv'
    BY <1>7, SeenFrame DEF Applied, Syncs, Goes, Keeps, cardVars, ghosts, TypesInv
  <1>8. ASSUME NEW r \in Staff, ApplyFails(r)
        PROVE  SeenInv'
    <2>1. UNCHANGED <<shows, copies, held, left>> /\ \E l \in {"idle", "list"} : pc' = [pc EXCEPT ![r] = l]
      BY <1>8 DEF ApplyFails, ApplyFailed, Ends, Syncs, Goes, Keeps, cardVars
    <2>2. QED
      BY <2>1, SeenFrame DEF TypesInv
  <1>9. ASSUME NEW r \in Staff, ApplyRaises(r)
        PROVE  SeenInv'
    BY <1>9, SeenFrame DEF ApplyRaises, Ends, Goes, cardVars, TypesInv
  <1>10. ASSUME NEW t \in Tasks, NEW c \in Staff, Deliver(t, c)
         PROVE  SeenInv'
    BY <1>10, DeliverSeen
  <1>11. ASSUME NEW t \in Tasks, Store(t)
         PROVE  SeenInv'
    BY <1>11, StoreSeen
  <1>12. ASSUME NEW t \in Tasks, FannedOut(t)
         PROVE  SeenInv'
    BY <1>12, SeenFrame DEF FannedOut, Ends, Goes, Keeps, cardVars, TypesInv
  <1>13. ASSUME NEW t \in Tasks, List(t)
         PROVE  SeenInv'
    <2>1. /\ UNCHANGED <<shows, copies, held>> /\ pc' = [pc EXCEPT ![t] = "sync"]
          /\ left' = [left EXCEPT ![t] = {<<m, copies[m]>> : m \in Rows}]
      BY <1>13 DEF List, Goes, cardVars
    <2>2. ASSUME NEW o \in Tasks, pc'[o] \in {"sync", "point"}, NEW row \in left'[o]
          PROVE  shows'[row[2]] # "unsent" /\ copies'[row[1]] # NoMessage
      <3>1. CASE o = t
        <4>1. PICK m \in Rows : row = <<m, copies[m]>>
          BY <2>1, <2>2, <3>1 DEF TypesInv
        <4>2. QED
          BY <2>1, <4>1 DEF Rows, SeenInv
      <3>2. CASE o # t
        <4>1. row \in left[o] /\ pc[o] \in {"sync", "point"}
          BY <2>1, <2>2, <3>2 DEF TypesInv
        <4>2. QED
          BY <2>1, <4>1 DEF SeenInv
      <3>3. QED
        BY <3>1, <3>2
    <2>3. QED
      BY <2>1, <2>2 DEF SeenInv
  <1>14. ASSUME NEW t \in Tasks, Point(t)
         PROVE  SeenInv'
    BY <1>14, PointSeen
  <1>15. ASSUME NEW t \in Tasks, Synced(t)
         PROVE  SeenInv'
    <2>1. UNCHANGED <<shows, copies, held, left>> /\ \E l \in {"idle", "notify"} : pc' = [pc EXCEPT ![t] = l]
      BY <1>15 DEF Synced, Ends, Goes, cardVars
    <2>2. QED
      BY <2>1, SeenFrame DEF TypesInv
  <1>16. ASSUME NEW t \in Tasks, Notify(t)
         PROVE  SeenInv'
    BY <1>16, SeenFrame DEF Notify, Ends, Goes, cardVars, TypesInv
  <1>17. ASSUME NEW t \in Tasks, NEW row \in left[t], Edit(t, row)
         PROVE  SeenInv'
    BY <1>17, SeenFrame DEF Edit, TypesInv, Faces, Verdicts
  <1>18. ASSUME NEW t \in Tasks, NEW row \in left[t], Resend(t, row)
         PROVE  SeenInv'
    BY <1>18, ResendSeen
  <1>19. ASSUME NEW t \in Tasks, NEW row \in left[t], Skip(t, row)
         PROVE  SeenInv'
    BY <1>19, SeenFrame DEF Skip, cardVars, TypesInv
  <1>20. CASE Crash
    BY <1>20, SeenFrame DEF Crash, cardVars, TypesInv
  <1>21. CASE ExpireStale
    BY <1>21, SeenFrame DEF ExpireStale, Syncs, Goes, Keeps, cardVars, ghosts, TypesInv
  <1>22. CASE Restart
    BY <1>22, SeenFrame DEF Restart, Alerts, taskVars, TypesInv
  <1>23. CASE UNCHANGED vars
    BY <1>23, SeenFrame DEF vars, cardVars, taskVars, ghosts, TypesInv
  <1>24. QED
    BY <1>1, <1>2, <1>3, <1>4, <1>5, <1>6, <1>7, <1>8, <1>9, <1>10, <1>11, <1>12, <1>13, <1>14,
       <1>15,
       <1>16, <1>17, <1>18, <1>19, <1>20, <1>21, <1>22, <1>23 DEF Next

\* The types of the messages, tasks and payment hold: what a stored copy points at was
\* sent.
THEOREM CardsTypeCorrect == Spec => []TypeOK
  <1>1. Init => TypesInv /\ SeenInv
    BY InitTypes, InitSeen
  <1>2. TypesInv /\ SeenInv /\ [Next]_vars => TypesInv' /\ SeenInv'
    BY NextTypes, NextSeen
  <1>3. TypesInv /\ SeenInv => TypeOK
    BY DEF TypesInv, SeenInv, TypeOK, Stored
  <1>4. QED
    BY <1>1, <1>2, <1>3, PTL DEF Spec

-----------------------------------------------------------------------------
(* The decision and the payer's notices.                                   *)

\* Nobody edits a card before the decision, everybody writes the decision afterwards or
\* offers a retry, and "approved" is written and told only when the days are there.
DecisionInv ==
    /\ status = "created" =>
         /\ \A t \in Tasks : pc[t] = "idle"
         /\ \A m \in Messages : copies[m] = NoMessage
    /\ status \in {"created", "pending"} =>
         /\ \A t \in Tasks : pc[t] \in {"idle", "fan", "store"}
         /\ \A m \in Messages : shows[m] \in {"unsent", "review"}
    /\ applied => status = "approved"
    /\ \A t \in Tasks :
         /\ pc[t] = "apply" => status = "approved" /\ face[t] \in {"review", "retry"}
         /\ pc[t] \in {"list", "sync", "point", "notify"}
              => \/ face[t] = "retry" /\ status = "approved"
                 \/ face[t] = status /\ status \in Verdicts /\ (status = "approved" => applied)
         /\ pc[t] = "notify" => face[t] # "retry"
    /\ told \subseteq {status} /\ ("approved" \in told => applied)

\* Nothing was decided at first.
LEMMA InitDecision == Init => DecisionInv
  BY DEF Init, DecisionInv

\* Every step keeps the faces on their way to what was decided.
LEMMA NextDecision == TypesInv /\ DecisionInv /\ [Next]_vars => DecisionInv'
  <1> SUFFICES ASSUME TypesInv, DecisionInv, [Next]_vars
               PROVE  DecisionInv'
    OBVIOUS
  <1> USE People
  <1>1. CASE Submit
    BY <1>1 DEF Submit, Claim, FansOut, Goes, Keeps, cardVars, ghosts, TypesInv, DecisionInv,
       Verdicts
  <1>2. CASE Cancel
    BY <1>2 DEF Cancel, Claim, AfterCancel, Syncs, Goes, Keeps, cardVars, taskVars, ghosts,
         TypesInv, DecisionInv, Verdicts
  <1>3. ASSUME NEW r \in Staff, Open(r)
        PROVE  DecisionInv'
    BY <1>3 DEF Open, Idle, FansOut, Goes, Keeps, cardVars, ghosts, TypesInv, DecisionInv, Verdicts
  <1>4. ASSUME NEW r \in Staff, Approve(r)
        PROVE  DecisionInv'
    BY <1>4 DEF Approve, Claim, Goes, Keeps, cardVars, ghosts, TypesInv, DecisionInv, Verdicts
  <1>5. ASSUME NEW r \in Staff, Decline(r)
        PROVE  DecisionInv'
    BY <1>5 DEF Decline, Claim, Syncs, Goes, Keeps, cardVars, ghosts, TypesInv, DecisionInv,
       Verdicts
  <1>6. ASSUME NEW r \in Staff, Retry(r)
        PROVE  DecisionInv'
    BY <1>6 DEF Retry, Goes, Keeps, cardVars, ghosts, TypesInv, DecisionInv, Verdicts
  <1>7. ASSUME NEW r \in Staff, Applied(r)
        PROVE  DecisionInv'
    BY <1>7 DEF Applied, Syncs, Goes, Keeps, cardVars, ghosts, TypesInv, DecisionInv, Verdicts
  <1>8. ASSUME NEW r \in Staff, ApplyFails(r)
        PROVE  DecisionInv'
    BY <1>8 DEF ApplyFails, ApplyFailed, Ends, Syncs, Goes, Keeps, cardVars, ghosts, TypesInv,
         DecisionInv, Verdicts
  <1>9. ASSUME NEW r \in Staff, ApplyRaises(r)
        PROVE  DecisionInv'
    BY <1>9 DEF ApplyRaises, Ends, Goes, cardVars, TypesInv, DecisionInv, Verdicts
  <1>10. ASSUME NEW t \in Tasks, NEW c \in Staff, Deliver(t, c)
         PROVE  DecisionInv'
    BY <1>10 DEF Deliver, Goes, ghosts, TypesInv, DecisionInv, Verdicts
  <1>11. ASSUME NEW t \in Tasks, Store(t)
         PROVE  DecisionInv'
    BY <1>11 DEF Store, Goes, TypesInv, DecisionInv, Verdicts
  <1>12. ASSUME NEW t \in Tasks, FannedOut(t)
         PROVE  DecisionInv'
    BY <1>12 DEF FannedOut, Ends, Goes, Keeps, cardVars, ghosts, TypesInv, DecisionInv, Verdicts
  <1>13. ASSUME NEW t \in Tasks, List(t)
         PROVE  DecisionInv'
    BY <1>13 DEF List, Goes, cardVars, TypesInv, DecisionInv, Verdicts
  <1>14. ASSUME NEW t \in Tasks, Point(t)
         PROVE  DecisionInv'
    BY <1>14 DEF Point, PointsAt, Goes, ghosts, TypesInv, DecisionInv, Verdicts
  <1>15. ASSUME NEW t \in Tasks, Synced(t)
         PROVE  DecisionInv'
    BY <1>15 DEF Synced, Ends, Goes, cardVars, TypesInv, DecisionInv, Verdicts
  <1>16. ASSUME NEW t \in Tasks, Notify(t)
         PROVE  DecisionInv'
    BY <1>16 DEF Notify, Ends, Goes, cardVars, ghosts, TypesInv, DecisionInv, Verdicts
  <1>17. ASSUME NEW t \in Tasks, NEW row \in left[t], Edit(t, row)
         PROVE  DecisionInv'
    BY <1>17 DEF Edit, Reaches, TypesInv, DecisionInv, Verdicts
  <1>18. ASSUME NEW t \in Tasks, NEW row \in left[t], Resend(t, row)
         PROVE  DecisionInv'
    BY <1>18 DEF Resend, Goes, ghosts, TypesInv, DecisionInv, Verdicts
  <1>19. ASSUME NEW t \in Tasks, NEW row \in left[t], Skip(t, row)
         PROVE  DecisionInv'
    BY <1>19 DEF Skip, cardVars, TypesInv, DecisionInv, Verdicts
  <1>20. CASE Crash
    BY <1>20 DEF Crash, cardVars, TypesInv, DecisionInv, Verdicts
  <1>21. CASE ExpireStale
    BY <1>21 DEF ExpireStale, Claim, Syncs, Goes, Keeps, cardVars, ghosts, TypesInv, DecisionInv,
         Verdicts
  <1>22. CASE Restart
    BY <1>22 DEF Restart, Alerts, taskVars, TypesInv, DecisionInv, Verdicts
  <1>23. CASE UNCHANGED vars
    BY <1>23 DEF vars, cardVars, taskVars, ghosts, TypesInv, DecisionInv, Verdicts
  <1>24. QED
    BY <1>1, <1>2, <1>3, <1>4, <1>5, <1>6, <1>7, <1>8, <1>9, <1>10, <1>11, <1>12, <1>13, <1>14,
       <1>15,
       <1>16, <1>17, <1>18, <1>19, <1>20, <1>21, <1>22, <1>23 DEF Next

\* The payer is never told what did not happen, nor two different things: whatever the
\* reviewers, the retries and the restarts, at most the one decision, and "approved"
\* only when the days are applied.
THEOREM NoticesAreTrue == Spec => []ToldTheTruth
  <1>1. Init => TypesInv /\ DecisionInv
    BY InitTypes, InitDecision
  <1>2. TypesInv /\ DecisionInv /\ [Next]_vars => TypesInv' /\ DecisionInv'
    BY NextTypes, NextDecision
  <1>3. DecisionInv => ToldTheTruth
    BY DEF DecisionInv, ToldTheTruth
  <1>4. QED
    BY <1>1, <1>2, <1>3, PTL DEF Spec

-----------------------------------------------------------------------------
(* The offer of a retry.                                                   *)

\* The approval, until its first failure is on its way to the cards.
Approving(p, f) == (p = "apply" /\ f # "retry") \/ (p = "list" /\ f = "retry")

\* A process that is down runs nothing but its start; an approval is alone, before any
\* message offers a retry.
ApprovalInv ==
    /\ ~up => \A t \in Tasks \ {Boot} : pc[t] = "idle"
    /\ \A t \in Tasks : Approving(pc[t], face[t]) =>
          /\ ~applied /\ \A m \in Messages : shows[m] # "retry"
          /\ \A o \in Tasks \ {t} : pc[o] \in {"idle", "fan", "store"}

\* Until the days are applied there is a retry button, or a task about to write one, or
\* the last offer reached nobody; a sync that says it reached a copy has written one.
RetryInv ==
    /\ status = "approved" /\ ~applied =>
         \/ ~up \/ unheard \/ \E m \in Messages : shows[m] = "retry"
         \/ \E t \in Tasks : \/ Approving(pc[t], face[t])
                             \/ pc[t] \in {"sync", "point"} /\ face[t] = "retry"
    /\ \A t \in Tasks : /\ pc[t] \in {"sync", "point"} /\ face[t] = "retry" /\ ~applied
                        /\ reached[t] \/ pc[t] = "point"
                        => \E m \in Messages : shows[m] = "retry"

\* A face somebody holds is on some message.
LEMMA HeldIsThere ==
    ASSUME NEW f
    PROVE  (\E r \in Staff : Holds(r, f)) <=> \E m \in Messages : shows[m] = f
  <1>1. ASSUME NEW m \in Messages, shows[m] = f
        PROVE  \E r \in Staff : Holds(r, f)
    <2>1. m[1] \in Staff /\ m[2] \in 1..MaxMessages /\ m = <<m[1], m[2]>>
      BY DEF Messages
    <2>2. QED
      BY <1>1, <2>1 DEF Holds
  <1>2. ASSUME NEW r \in Staff, Holds(r, f)
        PROVE  \E m \in Messages : shows[m] = f
    <2>1. PICK n \in 1..MaxMessages : shows[<<r, n>>] = f
      BY <1>2 DEF Holds
    <2>2. QED
      BY <2>1 DEF Messages
  <1>3. QED
    BY <1>1, <1>2

\* Nothing was approved at first.
LEMMA InitRetry == Init => ApprovalInv /\ RetryInv
  BY DEF Init, ApprovalInv, RetryInv, Approving

\* A handler that applies a payment works on an approved one.
LEMMA NextApproval == TypesInv /\ DecisionInv /\ ApprovalInv /\ [Next]_vars => ApprovalInv'
  <1> SUFFICES ASSUME TypesInv, DecisionInv, ApprovalInv, [Next]_vars
               PROVE  ApprovalInv'
    OBVIOUS
  <1> USE People
  <1>1. CASE Submit
    BY <1>1 DEF Submit, Claim, FansOut, Goes, Keeps, cardVars, ghosts, TypesInv, DecisionInv,
         ApprovalInv, Approving
  <1>2. CASE Cancel
    BY <1>2 DEF Cancel, Claim, AfterCancel, Syncs, Goes, Keeps, cardVars, taskVars, ghosts,
         TypesInv, DecisionInv, ApprovalInv, Approving
  <1>3. ASSUME NEW r \in Staff, Open(r)
        PROVE  ApprovalInv'
    BY <1>3 DEF Open, Idle, FansOut, Goes, Keeps, cardVars, ghosts, TypesInv, DecisionInv,
         ApprovalInv, Approving
  <1>4. ASSUME NEW r \in Staff, Approve(r)
        PROVE  ApprovalInv'
    BY <1>4 DEF Approve, Claim, Goes, Keeps, cardVars, ghosts, TypesInv, DecisionInv,
         ApprovalInv, Approving
  <1>5. ASSUME NEW r \in Staff, Decline(r)
        PROVE  ApprovalInv'
    BY <1>5 DEF Decline, Claim, Syncs, Goes, Keeps, cardVars, ghosts, TypesInv, DecisionInv,
         ApprovalInv, Approving
  <1>6. ASSUME NEW r \in Staff, Retry(r)
        PROVE  ApprovalInv'
    <2>1. \E m \in Messages : shows[m] = "retry"
      BY <1>6, HeldIsThere DEF Retry
    <2>2. QED
      BY <1>6, <2>1 DEF Retry, Goes, Keeps, cardVars, ghosts, TypesInv, DecisionInv,
         ApprovalInv, Approving
  <1>7. ASSUME NEW r \in Staff, Applied(r)
        PROVE  ApprovalInv'
    BY <1>7 DEF Applied, Syncs, Goes, Keeps, cardVars, ghosts, TypesInv, DecisionInv,
         ApprovalInv, Approving
  <1>8. ASSUME NEW r \in Staff, ApplyFails(r)
        PROVE  ApprovalInv'
    BY <1>8 DEF ApplyFails, ApplyFailed, Ends, Syncs, Goes, Keeps, cardVars, ghosts, TypesInv,
         DecisionInv, ApprovalInv, Approving
  <1>9. ASSUME NEW r \in Staff, ApplyRaises(r)
        PROVE  ApprovalInv'
    BY <1>9 DEF ApplyRaises, Ends, Goes, cardVars, TypesInv, DecisionInv, ApprovalInv, Approving
  <1>10. ASSUME NEW t \in Tasks, NEW c \in Staff, Deliver(t, c)
         PROVE  ApprovalInv'
    BY <1>10 DEF Deliver, Goes, ghosts, TypesInv, DecisionInv, ApprovalInv, Approving
  <1>11. ASSUME NEW t \in Tasks, Store(t)
         PROVE  ApprovalInv'
    BY <1>11 DEF Store, Goes, TypesInv, DecisionInv, ApprovalInv, Approving
  <1>12. ASSUME NEW t \in Tasks, FannedOut(t)
         PROVE  ApprovalInv'
    BY <1>12 DEF FannedOut, Ends, Goes, Keeps, cardVars, ghosts, TypesInv, DecisionInv,
         ApprovalInv, Approving
  <1>13. ASSUME NEW t \in Tasks, List(t)
         PROVE  ApprovalInv'
    BY <1>13 DEF List, Goes, cardVars, TypesInv, DecisionInv, ApprovalInv, Approving
  <1>14. ASSUME NEW t \in Tasks, Point(t)
         PROVE  ApprovalInv'
    BY <1>14 DEF Point, PointsAt, Goes, ghosts, TypesInv, DecisionInv, ApprovalInv, Approving
  <1>15. ASSUME NEW t \in Tasks, Synced(t)
         PROVE  ApprovalInv'
    BY <1>15 DEF Synced, Ends, Goes, cardVars, TypesInv, DecisionInv, ApprovalInv, Approving
  <1>16. ASSUME NEW t \in Tasks, Notify(t)
         PROVE  ApprovalInv'
    BY <1>16 DEF Notify, Ends, Goes, cardVars, ghosts, TypesInv, DecisionInv, ApprovalInv, Approving
  <1>17. ASSUME NEW t \in Tasks, NEW row \in left[t], Edit(t, row)
         PROVE  ApprovalInv'
    BY <1>17 DEF Edit, Reaches, TypesInv, DecisionInv, ApprovalInv, Approving
  <1>18. ASSUME NEW t \in Tasks, NEW row \in left[t], Resend(t, row)
         PROVE  ApprovalInv'
    BY <1>18 DEF Resend, Goes, ghosts, TypesInv, DecisionInv, ApprovalInv, Approving
  <1>19. ASSUME NEW t \in Tasks, NEW row \in left[t], Skip(t, row)
         PROVE  ApprovalInv'
    BY <1>19 DEF Skip, cardVars, TypesInv, DecisionInv, ApprovalInv, Approving
  <1>20. CASE Crash
    BY <1>20 DEF Crash, cardVars, TypesInv, DecisionInv, ApprovalInv, Approving
  <1>21. CASE ExpireStale
    BY <1>21 DEF ExpireStale, Claim, Syncs, Goes, Keeps, cardVars, ghosts, TypesInv, DecisionInv,
         ApprovalInv, Approving
  <1>22. CASE Restart
    <2>1. \A t \in Tasks : pc'[t] = "idle"
      BY <1>22 DEF Restart, Idle, taskVars, ApprovalInv
    <2>2. QED
      BY <1>22, <2>1 DEF Restart, ApprovalInv, Approving
  <1>23. CASE UNCHANGED vars
    BY <1>23 DEF vars, cardVars, taskVars, ghosts, TypesInv, DecisionInv, ApprovalInv, Approving
  <1>24. QED
    BY <1>1, <1>2, <1>3, <1>4, <1>5, <1>6, <1>7, <1>8, <1>9, <1>10, <1>11, <1>12, <1>13, <1>14,
       <1>15,
       <1>16, <1>17, <1>18, <1>19, <1>20, <1>21, <1>22, <1>23 DEF Next

\* Every step leaves a retry button, a handler at work or a torn step.
LEMMA NextRetry == TypesInv /\ DecisionInv /\ ApprovalInv /\ RetryInv /\ [Next]_vars => RetryInv'
  <1> SUFFICES ASSUME TypesInv, DecisionInv, ApprovalInv, RetryInv, [Next]_vars
               PROVE  RetryInv'
    OBVIOUS
  <1> USE People
  <1>1. CASE Submit
    BY <1>1 DEF Submit, Claim, FansOut, Goes, Keeps, cardVars, ghosts, TypesInv, DecisionInv,
         ApprovalInv, RetryInv, Approving
  <1>2. CASE Cancel
    BY <1>2 DEF Cancel, Claim, AfterCancel, Syncs, Goes, Keeps, cardVars, taskVars, ghosts,
         TypesInv, DecisionInv, ApprovalInv, RetryInv, Approving
  <1>3. ASSUME NEW r \in Staff, Open(r)
        PROVE  RetryInv'
    BY <1>3 DEF Open, Idle, FansOut, Goes, Keeps, cardVars, ghosts, TypesInv, DecisionInv,
         ApprovalInv, RetryInv, Approving
  <1>4. ASSUME NEW r \in Staff, Approve(r)
        PROVE  RetryInv'
    BY <1>4 DEF Approve, Claim, Goes, Keeps, cardVars, ghosts, TypesInv, DecisionInv,
         ApprovalInv, RetryInv, Approving
  <1>5. ASSUME NEW r \in Staff, Decline(r)
        PROVE  RetryInv'
    BY <1>5 DEF Decline, Claim, Syncs, Goes, Keeps, cardVars, ghosts, TypesInv, DecisionInv,
         ApprovalInv, RetryInv, Approving
  <1>6. ASSUME NEW r \in Staff, Retry(r)
        PROVE  RetryInv'
    <2>1. \E m \in Messages : shows[m] = "retry"
      BY <1>6, HeldIsThere DEF Retry
    <2>2. QED
      BY <1>6, <2>1 DEF Retry, Goes, Keeps, cardVars, ghosts, TypesInv, RetryInv
  <1>7. ASSUME NEW r \in Staff, Applied(r)
        PROVE  RetryInv'
    BY <1>7 DEF Applied, Syncs, Goes, Keeps, cardVars, ghosts, TypesInv, DecisionInv,
         ApprovalInv, RetryInv, Approving
  <1>8. ASSUME NEW r \in Staff, ApplyFails(r)
        PROVE  RetryInv'
    BY <1>8 DEF ApplyFails, ApplyFailed, Ends, Syncs, Goes, Keeps, cardVars, ghosts, TypesInv,
         DecisionInv, ApprovalInv, RetryInv, Approving
  <1>9. ASSUME NEW r \in Staff, ApplyRaises(r)
        PROVE  RetryInv'
    BY <1>9 DEF ApplyRaises, Ends, Goes, cardVars, TypesInv, DecisionInv, ApprovalInv, RetryInv,
         Approving
  <1>10. ASSUME NEW t \in Tasks, NEW c \in Staff, Deliver(t, c)
         PROVE  RetryInv'
    <2>1. ASSUME NEW m \in Messages, shows[m] = "retry"
          PROVE  shows'[m] = "retry"
      BY <1>10, <2>1, SentIsFree DEF Deliver, TypesInv
    <2>2. UNCHANGED <<status, applied, face, reached, up, unheard>> /\ pc[t] = "fan"
      BY <1>10 DEF Deliver, ghosts
    <2>3. pc' = pc \/ pc' = [pc EXCEPT ![t] = "store"]
      BY <1>10 DEF Deliver, Goes
    <2>4. QED
      BY <2>1, <2>2, <2>3 DEF TypesInv, RetryInv, Approving
  <1>11. ASSUME NEW t \in Tasks, Store(t)
         PROVE  RetryInv'
    BY <1>11 DEF Store, Goes, TypesInv, DecisionInv, ApprovalInv, RetryInv, Approving
  <1>12. ASSUME NEW t \in Tasks, FannedOut(t)
         PROVE  RetryInv'
    BY <1>12 DEF FannedOut, Ends, Goes, Keeps, cardVars, ghosts, TypesInv, DecisionInv,
         ApprovalInv, RetryInv, Approving
  <1>13. ASSUME NEW t \in Tasks, List(t)
         PROVE  RetryInv'
    BY <1>13 DEF List, Goes, cardVars, TypesInv, DecisionInv, ApprovalInv, RetryInv, Approving
  <1>14. ASSUME NEW t \in Tasks, Point(t)
         PROVE  RetryInv'
    BY <1>14 DEF Point, PointsAt, Goes, ghosts, TypesInv, DecisionInv, ApprovalInv, RetryInv,
         Approving
  <1>15. ASSUME NEW t \in Tasks, Synced(t)
         PROVE  RetryInv'
    BY <1>15 DEF Synced, Ends, Goes, cardVars, TypesInv, DecisionInv, ApprovalInv, RetryInv,
       Approving
  <1>16. ASSUME NEW t \in Tasks, Notify(t)
         PROVE  RetryInv'
    BY <1>16 DEF Notify, Ends, Goes, cardVars, ghosts, TypesInv, DecisionInv, ApprovalInv,
         RetryInv, Approving
  <1>17. ASSUME NEW t \in Tasks, NEW row \in left[t], Edit(t, row)
         PROVE  RetryInv'
    BY <1>17 DEF Edit, Reaches, TypesInv, DecisionInv, ApprovalInv, RetryInv, Approving
  <1>18. ASSUME NEW t \in Tasks, NEW row \in left[t], Resend(t, row)
         PROVE  RetryInv'
    <2> DEFINE s == Sent(row[2][1])
    <2>1. s \in Messages /\ shows[s] = "unsent"
      BY <1>18, SentIsFree DEF Resend, TypesInv
    <2>2. /\ UNCHANGED <<status, applied, face, reached, up, unheard>> /\ pc[t] = "sync"
          /\ pc' = [pc EXCEPT ![t] = "point"] /\ shows' = [shows EXCEPT ![s] = face[t]]
      BY <1>18 DEF Resend, Goes, ghosts
    <2> HIDE DEF s
    <2>3. ASSUME NEW m \in Messages, shows[m] = "retry"
          PROVE  shows'[m] = "retry"
      BY <2>1, <2>2, <2>3 DEF TypesInv
    <2>4. face[t] = "retry" => \E m \in Messages : shows'[m] = "retry"
      BY <2>1, <2>2 DEF TypesInv
    <2>5. QED
      BY <2>2, <2>3, <2>4 DEF TypesInv, RetryInv, Approving
  <1>19. ASSUME NEW t \in Tasks, NEW row \in left[t], Skip(t, row)
         PROVE  RetryInv'
    BY <1>19 DEF Skip, cardVars, TypesInv, DecisionInv, ApprovalInv, RetryInv, Approving
  <1>20. CASE Crash
    BY <1>20 DEF Crash, cardVars, TypesInv, DecisionInv, ApprovalInv, RetryInv, Approving
  <1>21. CASE ExpireStale
    BY <1>21 DEF ExpireStale, Claim, Syncs, Goes, Keeps, cardVars, ghosts, TypesInv, DecisionInv,
         ApprovalInv, RetryInv, Approving
  <1>22. CASE Restart
    <2>1. \A t \in Tasks : pc'[t] = "idle"
      BY <1>22 DEF Restart, Idle, taskVars, ApprovalInv
    <2>2. ASSUME status' = "approved", ~applied'
          PROVE  unheard' \/ \E m \in Messages : shows'[m] = "retry"
      <3>1. PICK chats \in SUBSET {c \in Staff : Free(c) # {}} : Alerts(chats) /\ unheard' = (chats = {})
        BY <1>22, <2>2 DEF Restart
      <3>2. CASE chats = {}
        BY <3>1, <3>2
      <3>3. ASSUME NEW c \in chats
            PROVE  \E m \in Messages : shows'[m] = "retry"
        <4>1. Sent(c) \in Messages /\ Sent(c)[1] = c
          BY SentIsFree
        <4>2. QED
          BY <3>1, <4>1 DEF Alerts
      <3>4. QED
        BY <3>2, <3>3
    <2>3. QED
      BY <2>1, <2>2 DEF RetryInv
  <1>23. CASE UNCHANGED vars
    BY <1>23 DEF vars, cardVars, taskVars, ghosts, TypesInv, DecisionInv, ApprovalInv, RetryInv,
         Approving
  <1>24. QED
    BY <1>1, <1>2, <1>3, <1>4, <1>5, <1>6, <1>7, <1>8, <1>9, <1>10, <1>11, <1>12, <1>13, <1>14,
       <1>15,
       <1>16, <1>17, <1>18, <1>19, <1>20, <1>21, <1>22, <1>23 DEF Next

\* An approved payment that is not applied leaves a retry button on somebody's screen,
\* unless the last offer of one reached nobody.
THEOREM RetryIsAlwaysHeld == Spec => []RetryIsHeld
  <1>1. Init => TypesInv /\ DecisionInv /\ ApprovalInv /\ RetryInv
    BY InitTypes, InitDecision, InitRetry
  <1>2. TypesInv /\ DecisionInv /\ ApprovalInv /\ RetryInv /\ [Next]_vars
          => TypesInv' /\ DecisionInv' /\ ApprovalInv' /\ RetryInv'
    BY NextTypes, NextDecision, NextApproval, NextRetry
  <1>3. RetryInv => RetryIsHeld
    BY HeldIsThere DEF RetryInv, RetryIsHeld, Quiet, Idle, Approving
  <1>4. QED
    BY <1>1, <1>2, <1>3, PTL DEF Spec

-----------------------------------------------------------------------------
(* The cards.                                                              *)

\* Somebody is about to write on every copy what is due, or to tell why he will not.
WillSync == \E t \in Tasks : (pc[t] = "apply" /\ face[t] # "retry") \/ pc[t] = "list"

Syncing(p) == p \in {"sync", "point"}

\* As long as no two syncs crossed and no crash cut one off: one sync at a time, which
\* writes what is due and knows what each row it has still to reach points at; and a
\* stored copy that does not show what is due is still to be reached.
TruthInv ==
    ~torn =>
      /\ \A t, o \in Tasks : Syncing(pc[t]) /\ Syncing(pc[o]) => t = o
      /\ \A t \in Tasks : Syncing(pc[t]) => face[t] = Due \/ WillSync
      /\ \A t \in Tasks : pc[t] = "sync" => \A row \in left[t] : copies[row[1]] = row[2]
      /\ \A t \in Tasks : pc[t] = "point" =>
           /\ shows[held[t]] = face[t]
           /\ \A a \in left[t] : a[2] = held[t] \/ copies[a[1]] = a[2]
           /\ \A a, b \in left[t] : a[1] = b[1] \/ (a[2] = held[t] /\ b[2] = held[t]) => a = b
      /\ \A k \in Messages : copies[k] # NoMessage /\ copies[k] \notin excused =>
           \/ shows[copies[k]] = Due
           \/ WillSync
           \/ \E t \in Tasks : Syncing(pc[t]) /\ \E row \in left[t] : row[1] = k

CardsInv == TypesInv /\ SeenInv /\ DecisionInv /\ ApprovalInv /\ RetryInv /\ TruthInv

\* A sync sets out to write what is due.
LEMMA ListIsDue ==
    ASSUME CardsInv, NEW t \in Tasks, pc[t] = "list"
    PROVE  face[t] = Due
  <1>1. CASE face[t] = "retry" /\ status = "approved"
    BY <1>1 DEF CardsInv, ApprovalInv, Approving, Due
  <1>2. CASE face[t] = status /\ status \in Verdicts /\ (status = "approved" => applied)
    BY <1>2 DEF Due, Verdicts
  <1>3. QED
    BY <1>1, <1>2 DEF CardsInv, DecisionInv

\* Steps outside a sync.
LEMMA TruthFrame ==
    ASSUME CardsInv, UNCHANGED <<copies, excused, torn>>,
           (Due' = Due /\ (WillSync => WillSync')) \/ WillSync',
           \A m \in Messages : shows[m] # "unsent" => shows'[m] = shows[m],
           \A t \in Tasks : Syncing(pc'[t]) \/ Syncing(pc[t]) =>
              pc'[t] = pc[t] /\ face'[t] = face[t] /\ left'[t] = left[t] /\ held'[t] = held[t]
    PROVE  TruthInv'
  <1> USE People DEF CardsInv
  <1> SUFFICES ASSUME ~torn
               PROVE  TruthInv'
    BY DEF TruthInv
  <1>1. ASSUME NEW t \in Tasks, NEW o \in Tasks, Syncing(pc'[t]), Syncing(pc'[o])
        PROVE  t = o
    BY <1>1 DEF TruthInv
  <1>2. ASSUME NEW t \in Tasks, Syncing(pc'[t])
        PROVE  face'[t] = Due' \/ WillSync'
    BY <1>2 DEF TruthInv
  <1>3. ASSUME NEW t \in Tasks, pc'[t] = "sync", NEW row \in left'[t]
        PROVE  copies'[row[1]] = row[2]
    BY <1>3 DEF TruthInv, Syncing
  <1>4. ASSUME NEW t \in Tasks, pc'[t] = "point"
        PROVE  /\ shows'[held'[t]] = face'[t]
               /\ \A a \in left'[t] : a[2] = held'[t] \/ copies'[a[1]] = a[2]
               /\ \A a, b \in left'[t] : a[1] = b[1] \/ (a[2] = held'[t] /\ b[2] = held'[t]) => a = b
    <2>1. pc[t] = "point" /\ face'[t] = face[t] /\ left'[t] = left[t] /\ held'[t] = held[t]
      BY <1>4 DEF Syncing
    <2>2. held[t] \in Messages /\ shows[held[t]] # "unsent"
      BY <2>1 DEF TypesInv, SeenInv
    <2>3. QED
      BY <2>1, <2>2 DEF TruthInv
  <1>5. ASSUME NEW k \in Messages, copies'[k] # NoMessage, copies'[k] \notin excused'
        PROVE  \/ shows'[copies'[k]] = Due'
               \/ WillSync'
               \/ \E t \in Tasks : Syncing(pc'[t]) /\ \E row \in left'[t] : row[1] = k
    <2>1. copies[k] \in Messages /\ shows[copies[k]] # "unsent"
      BY <1>5 DEF TypesInv, SeenInv
    <2>2. QED
      BY <1>5, <2>1 DEF TruthInv
  <1>6. QED
    BY <1>1, <1>2, <1>3, <1>4, <1>5 DEF TruthInv

\* The steps of a sync.
LEMMA ListTruth ==
    ASSUME CardsInv, NEW t \in Tasks, List(t)
    PROVE  TruthInv'
  <1> USE People DEF CardsInv
  <1> SUFFICES ASSUME ~torn'
               PROVE  TruthInv'
    BY DEF TruthInv
  <1>1. /\ UNCHANGED <<status, applied, shows, copies, face, held, excused>> /\ pc[t] = "list"
        /\ pc' = [pc EXCEPT ![t] = "sync"] /\ left' = [left EXCEPT ![t] = {<<m, copies[m]>> : m \in Rows}]
        /\ ~torn /\ \A o \in Tasks \ {t} : ~Syncing(pc[o])
    BY DEF List, Goes, cardVars, Syncing
  <1>2. face[t] = Due /\ Due' = Due
    BY <1>1, ListIsDue DEF Due
  <1>3. \A o \in Tasks : Syncing(pc'[o]) => o = t
    BY <1>1 DEF TypesInv
  <1>4. pc'[t] = "sync" /\ left'[t] = {<<m, copies[m]>> : m \in Rows}
    BY <1>1 DEF TypesInv
  <1>5. \A row \in left'[t] : copies'[row[1]] = row[2]
    BY <1>1, <1>4
  <1>6. \A k \in Messages : copies'[k] # NoMessage => \E row \in left'[t] : row[1] = k
    <2> SUFFICES ASSUME NEW k \in Messages, copies'[k] # NoMessage
                 PROVE  \E row \in left'[t] : row[1] = k
      OBVIOUS
    <2>1. k \in Rows
      BY <1>1 DEF Rows
    <2>2. <<k, copies[k]>> \in left'[t]
      BY <1>4, <2>1
    <2>3. QED
      BY <2>2
  <1>7. QED
    BY <1>1, <1>2, <1>3, <1>4, <1>5, <1>6 DEF TruthInv, Syncing

\* A card edited shows what it should.
LEMMA EditTruth ==
    ASSUME CardsInv, NEW t \in Tasks, NEW row \in left[t], Edit(t, row)
    PROVE  TruthInv'
  <1> USE People DEF CardsInv
  <1> SUFFICES ASSUME ~torn
               PROVE  TruthInv'
    BY DEF TruthInv, Edit
  <1>1. /\ UNCHANGED <<status, applied, copies, pc, face, held>> /\ pc[t] = "sync"
        /\ left' = [left EXCEPT ![t] = @ \ {row}] /\ shows' = [shows EXCEPT ![row[2]] = face[t]]
        /\ excused' = excused \ {row[2]} /\ row \in Messages \X Messages
    BY DEF Edit, TypesInv
  <1>2. copies[row[1]] = row[2] /\ \A o \in Tasks : Syncing(pc[o]) => o = t
    BY <1>1 DEF TruthInv, Syncing
  <1>3. Due' = Due /\ (WillSync' <=> WillSync)
    BY <1>1 DEF Due, WillSync
  <1>4. left'[t] = left[t] \ {row}
    BY <1>1 DEF TypesInv
  <1>5. \A a \in left'[t] : copies'[a[1]] = a[2]
    BY <1>1, <1>4 DEF TruthInv
  <1>6. ASSUME NEW k \in Messages, copies'[k] # NoMessage, copies'[k] \notin excused'
        PROVE  \/ shows'[copies'[k]] = Due'
               \/ WillSync'
               \/ \E a \in left'[t] : a[1] = k
    <2>1. CASE copies[k] = row[2]
      <3>1. shows'[copies'[k]] = face[t]
        BY <1>1, <2>1 DEF TypesInv
      <3>2. QED
        BY <1>1, <1>3, <3>1 DEF TruthInv, Syncing
    <2>2. CASE copies[k] # row[2]
      <3>1. shows'[copies'[k]] = shows[copies[k]] /\ k # row[1]
        BY <1>1, <1>2, <2>2 DEF TypesInv
      <3>2. copies[k] \notin excused
        BY <1>1, <1>6, <2>2
      <3>3. QED
        BY <1>1, <1>2, <1>3, <1>4, <1>6, <3>1, <3>2 DEF TruthInv
    <2>3. QED
      BY <2>1, <2>2
  <1>7. QED
    BY <1>1, <1>2, <1>3, <1>5, <1>6 DEF TruthInv, Syncing

\* A card that could not be edited is excused.
LEMMA SkipTruth ==
    ASSUME CardsInv, NEW t \in Tasks, NEW row \in left[t], Skip(t, row)
    PROVE  TruthInv'
  <1> USE People DEF CardsInv
  <1> SUFFICES ASSUME ~torn
               PROVE  TruthInv'
    BY DEF TruthInv, Skip
  <1>1. /\ UNCHANGED <<status, applied, shows, copies, pc, face, held>> /\ pc[t] = "sync"
        /\ left' = [left EXCEPT ![t] = @ \ {row}] /\ excused' = excused \cup {row[2]}
        /\ row \in Messages \X Messages
    BY DEF Skip, cardVars, TypesInv
  <1>2. copies[row[1]] = row[2] /\ \A o \in Tasks : Syncing(pc[o]) => o = t
    BY <1>1 DEF TruthInv, Syncing
  <1>3. Due' = Due /\ (WillSync' <=> WillSync)
    BY <1>1 DEF Due, WillSync
  <1>4. left'[t] = left[t] \ {row}
    BY <1>1 DEF TypesInv
  <1>5. \A a \in left'[t] : copies'[a[1]] = a[2]
    BY <1>1, <1>4 DEF TruthInv
  <1>6. ASSUME NEW k \in Messages, copies'[k] # NoMessage, copies'[k] \notin excused'
        PROVE  \/ shows'[copies'[k]] = Due'
               \/ WillSync'
               \/ \E a \in left'[t] : a[1] = k
    <2>1. copies[k] \notin excused /\ k # row[1]
      BY <1>1, <1>2, <1>6
    <2>2. QED
      BY <1>1, <1>2, <1>3, <1>4, <1>6, <2>1 DEF TruthInv
  <1>7. QED
    BY <1>1, <1>2, <1>3, <1>5, <1>6 DEF TruthInv, Syncing

\* A card sent anew shows what it should, and waits to be pointed at.
LEMMA ResendTruth ==
    ASSUME CardsInv, NEW t \in Tasks, NEW row \in left[t], Resend(t, row)
    PROVE  TruthInv'
  <1> USE People DEF CardsInv
  <1> SUFFICES ASSUME ~torn
               PROVE  TruthInv'
    BY DEF TruthInv, Resend, ghosts
  <1> DEFINE s == Sent(row[2][1])
  <1>1. row \in Messages \X Messages /\ row[2][1] \in Staff
    BY DEF Resend, TypesInv
  <1>2. s \in Messages /\ shows[s] = "unsent"
    BY <1>1, SentIsFree DEF Resend
  <1>3. /\ UNCHANGED <<status, applied, copies, face, excused>> /\ pc[t] = "sync"
        /\ held' = [held EXCEPT ![t] = s] /\ shows' = [shows EXCEPT ![s] = face[t]]
        /\ pc' = [pc EXCEPT ![t] = "point"] /\ left' = [left EXCEPT ![t] = (@ \ {row}) \cup {<<row[1], s>>}]
    BY DEF Resend, Goes, ghosts
  <1>4. s \in Messages /\ shows[s] = "unsent"
    BY <1>2
  <1> HIDE DEF s
  <1>5. \A o \in Tasks : Syncing(pc[o]) => o = t
    BY <1>3 DEF TruthInv, Syncing
  <1>6. Due' = Due /\ (WillSync => WillSync')
    BY <1>3 DEF Due, WillSync, TypesInv
  <1>7. \A o \in Tasks : Syncing(pc'[o]) => o = t
    BY <1>3, <1>5 DEF TypesInv
  <1>8. /\ pc'[t] = "point" /\ held'[t] = s /\ shows'[s] = face[t]
        /\ left'[t] = (left[t] \ {row}) \cup {<<row[1], s>>}
    BY <1>3, <1>4 DEF TypesInv
  <1>9. ASSUME NEW a \in left[t]
        PROVE  a[2] # s /\ copies[a[1]] = a[2] /\ a = <<a[1], a[2]>>
    <2>1. a \in Messages \X Messages
      BY <1>3 DEF TypesInv
    <2>2. QED
      BY <1>3, <1>4, <2>1 DEF TruthInv, SeenInv
  <1>10. \A a \in left'[t] : a[2] = held'[t] \/ copies'[a[1]] = a[2]
    BY <1>3, <1>8, <1>9
  <1>11. ASSUME NEW a \in left'[t], NEW b \in left'[t], a[1] = b[1] \/ (a[2] = held'[t] /\ b[2] = held'[t])
         PROVE  a = b
    <2>1. CASE a \in left[t] \ {row} /\ b \in left[t] \ {row}
      BY <1>8, <1>9, <1>11, <2>1
    <2>2. CASE a \in left[t] \ {row} /\ b = <<row[1], s>>
      <3>1. a[1] = row[1]
        BY <1>8, <1>9, <1>11, <2>2
      <3>2. a = row
        BY <1>9, <2>2, <3>1
      <3>3. QED
        BY <2>2, <3>2
    <2>3. CASE b \in left[t] \ {row} /\ a = <<row[1], s>>
      <3>1. b[1] = row[1]
        BY <1>8, <1>9, <1>11, <2>3
      <3>2. b = row
        BY <1>9, <2>3, <3>1
      <3>3. QED
        BY <2>3, <3>2
    <2>4. CASE a = <<row[1], s>> /\ b = <<row[1], s>>
      BY <2>4
    <2>5. QED
      BY <1>8, <2>1, <2>2, <2>3, <2>4
  <1>12. ASSUME NEW k \in Messages, copies'[k] # NoMessage, copies'[k] \notin excused'
         PROVE  \/ shows'[copies'[k]] = Due'
                \/ WillSync'
                \/ \E a \in left'[t] : a[1] = k
    <2>1. copies[k] \in Messages /\ shows'[copies'[k]] = shows[copies[k]]
      BY <1>3, <1>4, <1>12 DEF TypesInv, SeenInv
    <2>2. ASSUME NEW a \in left[t], a[1] = k
          PROVE  \E b \in left'[t] : b[1] = k
      <3>1. CASE a = row
        <4>1. <<row[1], s>> \in left'[t] /\ <<row[1], s>>[1] = k
          BY <1>8, <2>2, <3>1
        <4>2. QED
          BY <4>1
      <3>2. CASE a # row
        <4>1. a \in left'[t]
          BY <1>8, <2>2, <3>2
        <4>2. QED
          BY <2>2, <4>1
      <3>3. QED
        BY <3>1, <3>2
    <2>3. QED
      BY <1>3, <1>5, <1>6, <1>12, <2>1, <2>2 DEF TruthInv
  <1>13. face'[t] = Due' \/ WillSync'
    BY <1>3, <1>6 DEF TruthInv, Syncing
  <1>14. QED
    BY <1>3, <1>7, <1>8, <1>10, <1>11, <1>12, <1>13 DEF TruthInv, Syncing

\* The row that is moved to it shows the truth from then on.
LEMMA PointTruth ==
    ASSUME CardsInv, NEW t \in Tasks, Point(t)
    PROVE  TruthInv'
  <1> USE People DEF CardsInv
  <1> SUFFICES ASSUME ~torn
               PROVE  TruthInv'
    BY DEF TruthInv, Point, ghosts
  <1>1. PICK row \in left[t] : row[2] = held[t] /\ PointsAt(row) /\ left' = [left EXCEPT ![t] = @ \ {row}]
    BY DEF Point
  <1>2. /\ UNCHANGED <<status, applied, shows, face, excused>> /\ pc[t] = "point"
        /\ row \in Messages \X Messages /\ copies' = [copies EXCEPT ![row[1]] = held[t]]
        /\ pc' = [pc EXCEPT ![t] = "sync"] /\ left' = [left EXCEPT ![t] = @ \ {row}]
    BY <1>1 DEF Point, PointsAt, Goes, ghosts, TypesInv
  <1>3. \A o \in Tasks : Syncing(pc[o]) => o = t
    BY <1>2 DEF TruthInv, Syncing
  <1>4. Due' = Due /\ (WillSync => WillSync')
    BY <1>2 DEF Due, WillSync, TypesInv
  <1>5. \A o \in Tasks : Syncing(pc'[o]) => o = t
    BY <1>2, <1>3 DEF TypesInv
  <1>6. pc'[t] = "sync" /\ left'[t] = left[t] \ {row} /\ shows[held[t]] = face[t]
    BY <1>2 DEF TypesInv, TruthInv
  <1>7. ASSUME NEW a \in left'[t]
        PROVE  copies'[a[1]] = a[2]
    <2>1. a \in Messages \X Messages /\ a \in left[t] /\ a # row
      BY <1>2, <1>6 DEF TypesInv
    <2>2. a[1] # row[1] /\ a[2] # held[t]
      BY <1>1, <1>2, <2>1 DEF TruthInv
    <2>3. copies[a[1]] = a[2]
      BY <1>2, <2>1, <2>2 DEF TruthInv
    <2>4. QED
      BY <1>2, <2>1, <2>2, <2>3 DEF TypesInv
  <1>8. ASSUME NEW k \in Messages, copies'[k] # NoMessage, copies'[k] \notin excused'
        PROVE  \/ shows'[copies'[k]] = Due'
               \/ WillSync'
               \/ \E a \in left'[t] : a[1] = k
    <2>1. CASE k = row[1]
      <3>1. shows'[copies'[k]] = face[t]
        BY <1>2, <1>6, <2>1 DEF TypesInv
      <3>2. QED
        BY <1>2, <1>4, <3>1 DEF TruthInv, Syncing
    <2>2. CASE k # row[1]
      <3>1. copies'[k] = copies[k]
        BY <1>2, <2>2 DEF TypesInv
      <3>2. QED
        BY <1>2, <1>3, <1>4, <1>6, <1>8, <2>2, <3>1 DEF TruthInv
    <2>3. QED
      BY <2>1, <2>2
  <1>9. face'[t] = Due' \/ WillSync'
    BY <1>2, <1>4 DEF TruthInv, Syncing
  <1>10. QED
    BY <1>5, <1>6, <1>7, <1>8, <1>9 DEF TruthInv, Syncing

\* When no copy is left to edit, all that are not excused are right.
LEMMA SyncedTruth ==
    ASSUME CardsInv, NEW t \in Tasks, Synced(t)
    PROVE  TruthInv'
  <1> USE People DEF CardsInv
  <1> SUFFICES ASSUME ~torn
               PROVE  TruthInv'
    BY DEF TruthInv, Synced
  <1>1. /\ UNCHANGED <<status, applied, shows, copies, left, held, excused>> /\ pc[t] = "sync" /\ left[t] = {}
        /\ \E l \in {"idle", "notify"} : pc' = [pc EXCEPT ![t] = l]
        /\ face' \in {face, [face EXCEPT ![t] = "review"]}
    BY DEF Synced, Ends, Goes, cardVars
  <1>2. \A o \in Tasks : Syncing(pc[o]) => o = t
    BY <1>1 DEF TruthInv, Syncing
  <1>3. \A o \in Tasks : ~Syncing(pc'[o])
    BY <1>1, <1>2 DEF TypesInv, Syncing
  <1>4. WillSync => WillSync'
    BY <1>1 DEF WillSync, TypesInv
  <1>5. Due' = Due
    BY <1>1 DEF Due
  <1>6. \A k \in Messages : copies[k] # NoMessage /\ copies[k] \notin excused
          => shows[copies[k]] = Due \/ WillSync
    BY <1>1, <1>2 DEF TruthInv
  <1>7. QED
    BY <1>1, <1>3, <1>4, <1>5, <1>6 DEF TruthInv, Syncing

\* A copy that is stored late is right, or found too late to be.
LEMMA StoreTruth ==
    ASSUME CardsInv, NEW t \in Tasks, Store(t)
    PROVE  TruthInv'
  <1> USE People DEF CardsInv
  <1> SUFFICES ASSUME ~torn
               PROVE  TruthInv'
    BY DEF TruthInv, Store
  <1> DEFINE m == held[t]
  <1>1. /\ m \in Messages /\ UNCHANGED <<status, applied, shows, left, face>>
        /\ copies' \in {copies, [copies EXCEPT ![m] = m]} /\ pc[t] = "store"
        /\ excused' = IF status # "pending" THEN excused \cup {m} ELSE excused
        /\ held' = [held EXCEPT ![t] = NoMessage] /\ pc' = [pc EXCEPT ![t] = "fan"]
    BY DEF Store, Goes, TypesInv
  <1>2. shows[m] # "unsent" /\ copies[m] = NoMessage /\ \A n \in Messages : copies[n] # m
    BY <1>1 DEF SeenInv
  <1> HIDE DEF m
  <1>3. Due' = Due /\ (WillSync => WillSync')
    BY <1>1 DEF Due, WillSync, TypesInv
  <1>4. status = "pending" => shows[m] = Due
    BY <1>1, <1>2 DEF DecisionInv, Due
  <1>5. \A o \in Tasks : Syncing(pc'[o]) => o # t /\ pc'[o] = pc[o] /\ held'[o] = held[o]
    BY <1>1 DEF TypesInv, Syncing
  <1>6. \A o \in Tasks : Syncing(pc[o]) => pc'[o] = pc[o]
    BY <1>1 DEF TypesInv, Syncing
  <1>7. ASSUME NEW o \in Tasks, Syncing(pc'[o]), NEW a \in left'[o]
        PROVE  copies'[a[1]] = copies[a[1]]
    <2>1. a \in Messages \X Messages /\ copies[a[1]] # NoMessage
      BY <1>1, <1>5, <1>7 DEF TypesInv, SeenInv, Syncing
    <2>2. QED
      BY <1>1, <1>2, <2>1 DEF TypesInv
  <1>8. ASSUME NEW o \in Tasks, pc'[o] = "sync", NEW a \in left'[o]
        PROVE  copies'[a[1]] = a[2]
    BY <1>1, <1>5, <1>7, <1>8 DEF TruthInv, Syncing
  <1>9. ASSUME NEW o \in Tasks, pc'[o] = "point"
        PROVE  /\ shows'[held'[o]] = face'[o]
               /\ \A a \in left'[o] : a[2] = held'[o] \/ copies'[a[1]] = a[2]
               /\ \A a, b \in left'[o] : a[1] = b[1] \/ (a[2] = held'[o] /\ b[2] = held'[o]) => a = b
    BY <1>1, <1>5, <1>7, <1>9 DEF TruthInv, Syncing
  <1>10. ASSUME NEW k \in Messages, copies'[k] # NoMessage, copies'[k] \notin excused'
         PROVE  \/ shows'[copies'[k]] = Due'
                \/ WillSync'
                \/ \E o \in Tasks : Syncing(pc'[o]) /\ \E a \in left'[o] : a[1] = k
    <2>1. CASE copies'[k] = copies[k]
      BY <1>1, <1>3, <1>6, <1>10, <2>1 DEF TruthInv
    <2>2. CASE copies'[k] # copies[k]
      <3>1. copies'[k] = m
        BY <1>1, <2>2 DEF TypesInv
      <3>2. QED
        BY <1>1, <1>3, <1>4, <1>10, <3>1
    <2>3. QED
      BY <2>1, <2>2
  <1>11. \A o \in Tasks : Syncing(pc'[o]) => face'[o] = Due' \/ WillSync'
    BY <1>1, <1>3, <1>5 DEF TruthInv
  <1>12. \A o, x \in Tasks : Syncing(pc'[o]) /\ Syncing(pc'[x]) => o = x
    BY <1>5 DEF TruthInv
  <1>13. QED
    BY <1>8, <1>9, <1>10, <1>11, <1>12 DEF TruthInv

\* Nobody at work, every stored copy shows what is due, but for those excused.
LEMMA QuietTruth ==
    ASSUME CardsInv, ~torn, \A t \in Tasks : pc[t] = "idle",
           NEW k \in Messages, copies[k] # NoMessage, copies[k] \notin excused
    PROVE  shows[copies[k]] = Due
  BY DEF CardsInv, TruthInv, WillSync, Syncing

\* There are no cards at first.
LEMMA InitTruth == Init => TruthInv
  BY People DEF Init, TruthInv, Syncing

\* Every step keeps the cards right, on their way to it, or excused.
LEMMA NextTruth == CardsInv /\ [Next]_vars => TruthInv'
  <1> SUFFICES ASSUME CardsInv, [Next]_vars
               PROVE  TruthInv'
    OBVIOUS
  <1> USE People
  <1>1. CASE Submit
    BY <1>1, TruthFrame DEF Submit, Claim, FansOut, Goes, Keeps, cardVars, ghosts, Idle,
         CardsInv, TypesInv, DecisionInv, Due, WillSync, Syncing
  <1>2. CASE Cancel
    <2>1. UNCHANGED <<applied, shows, copies, left, held, excused, torn>>
      BY <1>2 DEF Cancel, AfterCancel, Syncs, Keeps, cardVars, taskVars, ghosts
    <2>2. CASE status = "pending"
      <3>1. status' = "cancelled" /\ pc[Payer] = "idle" /\ pc' = [pc EXCEPT ![Payer] = "list"]
            /\ face' = [face EXCEPT ![Payer] = "cancelled"]
        BY <1>2, <2>2 DEF Cancel, Claim, AfterCancel, Syncs, Goes, Idle
      <3>2. WillSync'
        BY <3>1 DEF WillSync, CardsInv, TypesInv
      <3>3. QED
        BY <2>1, <3>1, <3>2, TruthFrame DEF CardsInv, TypesInv, Syncing
    <2>3. CASE status = "created"
      <3>1. \A t \in Tasks : pc'[t] = "idle"
        BY <1>2, <2>3 DEF Cancel, AfterCancel, taskVars, CardsInv, DecisionInv
      <3>2. \A m \in Messages : copies'[m] = NoMessage
        BY <2>1, <2>3 DEF CardsInv, DecisionInv
      <3>3. QED
        BY <3>1, <3>2 DEF TruthInv, Syncing
    <2>4. QED
      BY <1>2, <2>2, <2>3 DEF Cancel, Claim
  <1>3. ASSUME NEW r \in Staff, Open(r)
        PROVE  TruthInv'
    BY <1>3, TruthFrame DEF Open, Idle, FansOut, Goes, Keeps, cardVars, ghosts, CardsInv,
         TypesInv, DecisionInv, Due, WillSync, Syncing
  <1>4. ASSUME NEW r \in Staff, Approve(r)
        PROVE  TruthInv'
    BY <1>4, TruthFrame DEF Approve, Claim, Goes, Keeps, cardVars, ghosts, Idle, CardsInv,
         TypesInv, DecisionInv, Due, WillSync, Syncing
  <1>5. ASSUME NEW r \in Staff, Decline(r)
        PROVE  TruthInv'
    BY <1>5, TruthFrame DEF Decline, Claim, Syncs, Goes, Keeps, cardVars, ghosts, Idle, CardsInv,
         TypesInv, DecisionInv, Due, WillSync, Syncing
  <1>6. ASSUME NEW r \in Staff, Retry(r)
        PROVE  TruthInv'
    BY <1>6, TruthFrame DEF Retry, Goes, Keeps, cardVars, ghosts, Idle, CardsInv, TypesInv,
         DecisionInv, Due, WillSync, Syncing
  <1>7. ASSUME NEW r \in Staff, Applied(r)
        PROVE  TruthInv'
    BY <1>7, TruthFrame DEF Applied, Syncs, Goes, Keeps, cardVars, ghosts, Idle, CardsInv,
         TypesInv, DecisionInv, Due, WillSync, Syncing
  <1>8. ASSUME NEW r \in Staff, ApplyFails(r)
        PROVE  TruthInv'
    BY <1>8, TruthFrame DEF ApplyFails, ApplyFailed, Ends, Syncs, Goes, Keeps, cardVars, ghosts,
         Idle, CardsInv, TypesInv, DecisionInv, Due, WillSync, Syncing
  <1>9. ASSUME NEW r \in Staff, ApplyRaises(r)
        PROVE  TruthInv'
    <2>1. /\ UNCHANGED <<status, applied, shows, copies, left, held, torn>> /\ pc[r] = "apply"
          /\ pc' = [pc EXCEPT ![r] = "idle"] /\ face' = [face EXCEPT ![r] = "review"]
          /\ excused' = IF face[r] # "retry" THEN excused \cup Stored ELSE excused
      BY <1>9 DEF ApplyRaises, Ends, Goes, cardVars
    <2>2. CASE face[r] = "retry"
      BY <2>1, <2>2, TruthFrame DEF CardsInv, TypesInv, Due, WillSync, Syncing
    <2>3. CASE face[r] # "retry"
      <3>1. \A t \in Tasks : ~Syncing(pc'[t])
        BY <2>1, <2>3 DEF CardsInv, TypesInv, ApprovalInv, Approving, Syncing
      <3>2. \A k \in Messages : copies'[k] # NoMessage => copies'[k] \in excused'
        BY <2>1, <2>3 DEF Stored
      <3>3. QED
        BY <3>1, <3>2 DEF TruthInv, Syncing
    <2>4. QED
      BY <2>2, <2>3
  <1>10. ASSUME NEW t \in Tasks, NEW c \in Staff, Deliver(t, c)
         PROVE  TruthInv'
    BY <1>10, SentIsFree, TruthFrame DEF Deliver, Goes, ghosts, CardsInv, TypesInv, Due,
         WillSync, Syncing
  <1>11. ASSUME NEW t \in Tasks, Store(t)
         PROVE  TruthInv'
    BY <1>11, StoreTruth
  <1>12. ASSUME NEW t \in Tasks, FannedOut(t)
         PROVE  TruthInv'
    BY <1>12, TruthFrame DEF FannedOut, Ends, Goes, Keeps, cardVars, ghosts, Idle, CardsInv,
         TypesInv, DecisionInv, Due, WillSync, Syncing
  <1>13. ASSUME NEW t \in Tasks, List(t)
         PROVE  TruthInv'
    BY <1>13, ListTruth
  <1>14. ASSUME NEW t \in Tasks, Point(t)
         PROVE  TruthInv'
    BY <1>14, PointTruth
  <1>15. ASSUME NEW t \in Tasks, Synced(t)
         PROVE  TruthInv'
    BY <1>15, SyncedTruth
  <1>16. ASSUME NEW t \in Tasks, Notify(t)
         PROVE  TruthInv'
    BY <1>16, TruthFrame DEF Notify, Ends, Goes, cardVars, ghosts, Idle, CardsInv, TypesInv,
         DecisionInv, Due, WillSync, Syncing
  <1>17. ASSUME NEW t \in Tasks, NEW row \in left[t], Edit(t, row)
         PROVE  TruthInv'
    BY <1>17, EditTruth
  <1>18. ASSUME NEW t \in Tasks, NEW row \in left[t], Resend(t, row)
         PROVE  TruthInv'
    BY <1>18, ResendTruth
  <1>19. ASSUME NEW t \in Tasks, NEW row \in left[t], Skip(t, row)
         PROVE  TruthInv'
    BY <1>19, SkipTruth
  <1>20. CASE Crash
    <2> SUFFICES ASSUME ~torn'
                 PROVE  TruthInv'
      BY DEF TruthInv
    <2>1. ~torn /\ Quiet /\ UNCHANGED <<status, applied, shows, copies, excused>> /\ \A t \in Tasks : pc'[t] = "idle"
      BY <1>20 DEF Crash, cardVars
    <2>2. \A k \in Messages : copies'[k] # NoMessage /\ copies'[k] \notin excused' => shows'[copies'[k]] = Due'
      BY <2>1, QuietTruth DEF Quiet, Idle, Due
    <2>3. QED
      BY <2>1, <2>2 DEF TruthInv, Syncing
  <1>21. CASE ExpireStale
    BY <1>21, TruthFrame DEF ExpireStale, Claim, Syncs, Goes, Keeps, cardVars, ghosts, Idle,
         CardsInv, TypesInv, DecisionInv, Due, WillSync, Syncing
  <1>22. CASE Restart
    <2> SUFFICES ASSUME ~torn
                 PROVE  TruthInv'
      BY <1>22 DEF Restart, TruthInv
    <2>1. UNCHANGED <<status, applied, copies, pc, excused>> /\ \A t \in Tasks : pc[t] = "idle"
      BY <1>22 DEF Restart, taskVars, Idle, CardsInv, ApprovalInv
    <2>2. \A m \in Messages : shows[m] # "unsent" => shows'[m] = shows[m]
      <3>1. CASE UNCHANGED shows
        BY <3>1
      <3>2. ASSUME NEW chats \in SUBSET {c \in Staff : Free(c) # {}}, Alerts(chats),
                   NEW m \in Messages, shows[m] # "unsent"
            PROVE  shows'[m] = shows[m]
        BY <3>2, SentIsFree DEF Alerts
      <3>3. QED
        BY <1>22, <3>1, <3>2 DEF Restart
    <2>3. \A k \in Messages : copies'[k] # NoMessage /\ copies'[k] \notin excused' => shows'[copies'[k]] = Due'
      <3> SUFFICES ASSUME NEW k \in Messages, copies[k] # NoMessage, copies[k] \notin excused
                   PROVE  shows'[copies[k]] = Due
        BY <2>1 DEF Due
      <3>1. shows[copies[k]] = Due
        BY <2>1, QuietTruth
      <3>2. copies[k] \in Messages /\ shows[copies[k]] # "unsent"
        BY DEF CardsInv, TypesInv, SeenInv
      <3>3. QED
        BY <2>2, <3>1, <3>2
    <2>4. QED
      BY <2>1, <2>3 DEF TruthInv, Syncing
  <1>23. CASE UNCHANGED vars
    BY <1>23, TruthFrame DEF vars, cardVars, taskVars, ghosts, Idle, CardsInv, TypesInv,
         DecisionInv, Due, WillSync, Syncing
  <1>24. QED
    BY <1>1, <1>2, <1>3, <1>4, <1>5, <1>6, <1>7, <1>8, <1>9, <1>10, <1>11, <1>12, <1>13, <1>14,
       <1>15,
       <1>16, <1>17, <1>18, <1>19, <1>20, <1>21, <1>22, <1>23 DEF Next

\* "Every copy can later be edited in place" (admin_cards.py:3): whoever decided, re-sent
\* or retried, when nobody is at work each stored copy shows what became of the payment,
\* but for those that no sync reached or that were stored too late, a failure nobody was
\* told of, crossed syncs and a crash in the middle of one.
THEOREM CardsAreTrue == Spec => []CardsTellTheTruth
  <1>1. Init => CardsInv
    BY InitTypes, InitSeen, InitDecision, InitRetry, InitTruth DEF CardsInv
  <1>2. CardsInv /\ [Next]_vars => CardsInv'
    <2> SUFFICES ASSUME CardsInv, [Next]_vars
                 PROVE  CardsInv'
      OBVIOUS
    <2>1. TypesInv' /\ SeenInv' /\ DecisionInv' /\ ApprovalInv' /\ RetryInv'
      BY NextTypes, NextSeen, NextDecision, NextApproval, NextRetry DEF CardsInv
    <2>2. QED
      BY <2>1, NextTruth DEF CardsInv
  <1>3. CardsInv => CardsTellTheTruth
    <2> SUFFICES ASSUME CardsInv, Quiet, ~torn, NEW m \in Stored \ excused
                 PROVE  shows[m] = Due
      BY DEF CardsTellTheTruth
    <2>1. PICK k \in Messages : m = copies[k] /\ copies[k] # NoMessage
      BY DEF Stored
    <2>2. QED
      BY <2>1, QuietTruth DEF Quiet, Idle
  <1>4. QED
    BY <1>1, <1>2, <1>3, PTL DEF Spec

=============================================================================
