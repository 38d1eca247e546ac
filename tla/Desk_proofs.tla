----------------------------- MODULE Desk_proofs -----------------------------
(***************************************************************************)
(* The theorems about Desk, for any number of accounts, users, tokens,     *)
(* texts and broadcasts under way.  The inductive invariant has a part for *)
(* each of its promises: the prompts, the tokens, the long handlers that   *)
(* hold the throttle's lock, and the texts that are sent.                  *)
(***************************************************************************)
EXTENDS Desk, TLAPS

-----------------------------------------------------------------------------
(* Types.                                                                  *)

\* What each group of steps leaves alone, or changes within its type.
SlotTypeOK == slot \in [Accounts -> Slots]
              /\ asked \in [Accounts -> States \X (Users \cup {Nobody})]
LinkTypeOK == renewing \subseteq Tokens /\ cooling \subseteq Accounts
              /\ links \in [Accounts -> Nat]
CastTypeOK == /\ loop \in [Loops -> SendLoops \cup {NoLoop}]
              /\ audiences \in [Accounts -> SUBSET Texts]
              /\ previews \in [Accounts -> SUBSET Previews]
              /\ typed \subseteq Texts
              /\ got \in [Users -> [Texts -> Nat]]
LockTypeOK == locked \subseteq Accounts /\ late \subseteq Accounts
BankTypeOK == bank \in BankDetails \cup {NoBank}

\* The types, part by part.
LEMMA TypeParts ==
    /\ TypeOK => /\ ConfirmTypeOK /\ SlotTypeOK /\ LinkTypeOK
                 /\ CastTypeOK /\ LockTypeOK /\ BankTypeOK
    /\ /\ ConfirmTypeOK' /\ SlotTypeOK' /\ LinkTypeOK'
       /\ CastTypeOK' /\ LockTypeOK' /\ BankTypeOK'
       => TypeOK'
  BY DEF TypeOK, SlotTypeOK, LinkTypeOK, CastTypeOK, LockTypeOK, BankTypeOK

\* A part whose variables do not change keeps its type.
LEMMA UntouchedTypes ==
    /\ ConfirmTypeOK /\ UNCHANGED confirmVars => ConfirmTypeOK'
    /\ SlotTypeOK /\ UNCHANGED slotVars => SlotTypeOK'
    /\ LinkTypeOK /\ UNCHANGED linkVars => LinkTypeOK'
    /\ CastTypeOK /\ UNCHANGED castVars => CastTypeOK'
    /\ LockTypeOK /\ UNCHANGED lockVars => LockTypeOK'
    /\ BankTypeOK /\ UNCHANGED bank => BankTypeOK'
  BY DEF confirmVars, slotVars, linkVars, castVars, lockVars, ConfirmTypeOK, SlotTypeOK,
         LinkTypeOK, CastTypeOK, LockTypeOK, BankTypeOK

\* The steps of the store of confirmations.
LEMMA ConfirmTypes ==
    ASSUME ConfirmTypeOK, NEW t \in Tokens, NEW a \in Accounts,
           \/ \E action \in Actions : Mint(t, a, action)
           \/ Confirmed(t, a) \/ Refused(t, a) \/ Cancelled(t, a) \/ Expires(t)
    PROVE  ConfirmTypeOK'
  <1>1. ASSUME NEW action \in Actions, Mint(t, a, action)
        PROVE  ConfirmTypeOK'
    <2>1. [admin |-> a, action |-> action] \in Cards
          /\ [admin |-> a, action |-> action] # NoCard
      BY ConfirmAssumption DEF Cards
    <2>2. QED
      BY <1>1, <2>1 DEF Mint, Creates, Purged, ConfirmTypeOK
  <1>2. CASE Confirmed(t, a)
    BY <1>2 DEF Confirmed, Consumes, Purged, ConfirmTypeOK
  <1>3. CASE Refused(t, a) \/ Cancelled(t, a) \/ Expires(t)
    BY <1>3 DEF Refused, Cancelled, Expires, Purged, ConfirmTypeOK
  <1>4. QED
    BY <1>1, <1>2, <1>3

\* A state, a prompt and an empty slot fit the slot of an account.
LEMMA SlotTypes ==
    ASSUME SlotTypeOK, NEW a \in Accounts, NEW s \in Slots,
           slot' = [slot EXCEPT ![a] = s],
           NEW st \in States, NEW u \in Users \cup {Nobody}, Asks(a, <<st, u>>)
    PROVE  SlotTypeOK'
  BY DEF SlotTypeOK, Asks

\* An account that was asked nothing has a slot too.
LEMMA EmptyIsSlot == Empty \in Slots
  BY DEF Empty, Slots, States

\* What a prompt or the leaving of one does to the slot: it never brings a text.
LEMMA SlotStep ==
    ASSUME SlotTypeOK, NEW a \in Accounts, Prompted(a) \/ Left(a)
    PROVE  /\ SlotOnly(a)
           /\ \E s \in Slots, st \in States, u \in Users \cup {Nobody} :
                 /\ slot' = [slot EXCEPT ![a] = s]
                 /\ Asks(a, <<st, u>>)
                 /\ s.text = slot[a].text \/ s.text = NoText
                 /\ s.state # "none" => s.state = st
                 /\ s.state = "grant" => s.grantTo = u
                 /\ s.state = "write" => s.writeTo = u
  <1>1. slot[a] \in Slots
    BY DEF SlotTypeOK
  <1>2. ASSUME NEW u \in Users, PromptGrant(a, u)
        PROVE  SlotOnly(a) /\ slot' = [slot EXCEPT ![a] = [slot[a] EXCEPT !.state = "grant", !.grantTo = u]]
               /\ Asks(a, <<"grant", u>>)
    BY <1>2 DEF PromptGrant, PromptsGrant
  <1>3. ASSUME NEW u \in Users, PromptWrite(a, u)
        PROVE  SlotOnly(a) /\ slot' = [slot EXCEPT ![a] = [slot[a] EXCEPT !.state = "write", !.writeTo = u]]
               /\ Asks(a, <<"write", u>>)
    BY <1>3 DEF PromptWrite
  <1>4. ASSUME NEW st \in {"search", "bank", "broadcast", "help"}, Prompts(a, st)
        PROVE  SlotOnly(a) /\ slot' = [slot EXCEPT ![a] = [slot[a] EXCEPT !.state = st]]
               /\ Asks(a, <<st, Nobody>>)
    BY <1>4 DEF Prompts, SetState
  <1>5. ASSUME Leaves(a)
        PROVE  SlotOnly(a) /\ slot' = [slot EXCEPT ![a] = Empty] /\ Asks(a, <<"none", Nobody>>)
    BY <1>5 DEF Leaves, ClearState, Nothing
  <1>6. \/ \E u \in Users : PromptGrant(a, u) \/ PromptWrite(a, u)
        \/ \E st \in {"search", "bank", "broadcast", "help"} : Prompts(a, st)
        \/ Leaves(a)
    BY DEF Prompted, Left, PromptSearch, PromptBank, PromptBroadcast, EnterSupport,
           OpenCard, OpenList, OpenSettings, OpenDashboard, TypeDays, TypeQuery,
           TypeNothing, LeaveSupport, LeaveWriting
  <1>7. ASSUME NEW u \in Users
        PROVE  /\ [slot[a] EXCEPT !.state = "grant", !.grantTo = u] \in Slots
               /\ [slot[a] EXCEPT !.state = "write", !.writeTo = u] \in Slots
               /\ {"grant", "write"} \subseteq States
    BY <1>1 DEF Slots, States
  <1>8. ASSUME NEW st \in {"search", "bank", "broadcast", "help"}
        PROVE  [slot[a] EXCEPT !.state = st] \in Slots /\ st \in States
    BY <1>1 DEF Slots, States
  <1>9. CASE \E u \in Users : PromptGrant(a, u)
    BY <1>1, <1>2, <1>7, <1>9 DEF Slots
  <1>10. CASE \E u \in Users : PromptWrite(a, u)
    BY <1>1, <1>3, <1>7, <1>10 DEF Slots
  <1>11. CASE \E st \in {"search", "bank", "broadcast", "help"} : Prompts(a, st)
    BY <1>1, <1>4, <1>8, <1>11 DEF Slots
  <1>12. CASE Leaves(a)
    BY <1>5, <1>12, EmptyIsSlot DEF Empty, States
  <1>13. QED
    BY <1>6, <1>9, <1>10, <1>11, <1>12

\* The buttons and messages that mint a token.
LEMMA MintStep ==
    ASSUME NEW a \in Accounts, NEW t \in Tokens,
           \/ \E v \in BankDetails : TypeBank(a, v, t)
           \/ \E action \in PanelActions : RequestPanelAction(a, action, t)
           \/ RequestNewlink(a, t)
    PROVE  /\ \E action \in Actions : Mint(t, a, action)
           /\ UNCHANGED <<linkVars, castVars, lockVars, bank>>
           /\ \/ UNCHANGED slotVars
              \/ ClearState(a) /\ Asks(a, Nothing)
  BY DeskAssumption DEF TypeBank, RequestPanelAction, RequestNewlink, Requests, ValueWaits,
         PanelActions

\* A cf: button, whatever becomes of it.
LEMMA ButtonTypes ==
    ASSUME TypeOK, NEW a \in Accounts, NEW t \in Tokens, Asked(a, t)
    PROVE  TypeOK'
  <1>1. CASE \/ \E v \in BankDetails : TypeBank(a, v, t)
             \/ \E action \in PanelActions : RequestPanelAction(a, action, t)
             \/ RequestNewlink(a, t)
    <2>1. SlotTypeOK'
      <3>1. CASE UNCHANGED slotVars
        BY <3>1, TypeParts, UntouchedTypes
      <3>2. CASE ClearState(a) /\ Asks(a, Nothing)
        BY <3>2, TypeParts, SlotTypes, EmptyIsSlot DEF ClearState, Nothing, States
      <3>3. QED
        BY <1>1, <3>1, <3>2, MintStep
    <2>2. QED
      BY <1>1, <2>1, MintStep, ConfirmTypes, TypeParts, UntouchedTypes
  <1>2. CASE ConfirmBank(a, t)
    <2>1. BankTypeOK'
      BY <1>2, TypeParts DEF ConfirmBank, BankTypeOK
    <2>2. QED
      BY <1>2, <2>1, ConfirmTypes, TypeParts, UntouchedTypes DEF ConfirmBank
  <1>3. CASE ConfirmPanelAction(a, t) \/ Declined(a, t)
    BY <1>3, ConfirmTypes, TypeParts, UntouchedTypes DEF ConfirmPanelAction, Declined
  <1>4. CASE ConfirmNewlink(a, t)
    <2>1. LinkTypeOK' /\ LockTypeOK'
      BY <1>4, TypeParts DEF ConfirmNewlink, LinkTypeOK, LockTypeOK
    <2>2. CastTypeOK' /\ SlotTypeOK' /\ BankTypeOK'
      BY <1>4, TypeParts, UntouchedTypes DEF ConfirmNewlink
    <2>3. QED
      BY <1>4, <2>1, <2>2, ConfirmTypes, TypeParts DEF ConfirmNewlink
  <1>5. QED
    BY <1>1, <1>2, <1>3, <1>4 DEF Asked

\* The screens of the broadcast.
LEMMA CastTypes ==
    ASSUME TypeOK, NEW a \in Accounts,
           CancelBroadcast(a) \/ \E x \in Texts : Announced(a, x)
    PROVE  TypeOK'
  <1>1. SlotTypeOK /\ CastTypeOK /\ LockTypeOK
    BY TypeParts
  <1>2. ASSUME NEW x \in Texts, TypeText(a, x)
        PROVE  TypeOK'
    <2>1. SlotTypeOK'
      <3>1. [slot[a] EXCEPT !.state = "broadcast", !.text = x] \in Slots
        BY <1>1 DEF SlotTypeOK, Slots, States
      <3>2. slot' = [slot EXCEPT ![a] = [slot[a] EXCEPT !.state = "broadcast", !.text = x]]
            /\ Asks(a, <<"broadcast", Nobody>>)
        BY <1>2 DEF TypeText
      <3>3. QED
        BY <1>1, <3>1, <3>2, SlotTypes DEF States
    <2>2. CastTypeOK'
      BY <1>1, <1>2 DEF TypeText, CastTypeOK
    <2>3. QED
      BY <1>2, <2>1, <2>2, TypeParts, UntouchedTypes DEF TypeText
  <1>3. CASE CancelBroadcast(a)
    <2>1. SlotTypeOK'
      BY <1>1, <1>3, SlotTypes, EmptyIsSlot DEF CancelBroadcast, ClearState, Nothing, States
    <2>2. CastTypeOK'
      BY <1>1, <1>3 DEF CancelBroadcast, CastTypeOK
    <2>3. QED
      BY <1>3, <2>1, <2>2, TypeParts, UntouchedTypes DEF CancelBroadcast
  <1>4. ASSUME NEW x \in Texts, NEW found \in BOOLEAN, PickAudience(a, x, found)
        PROVE  TypeOK'
    <2>1. slot[a].text \in Texts \cup {NoText}
      BY <1>1 DEF SlotTypeOK, Slots
    <2>2. [card |-> x, text |-> slot[a].text] \in Previews
      BY <1>4, <2>1 DEF PickAudience, HasText, Previews
    <2>3. CastTypeOK'
      BY <1>1, <1>4, <2>2 DEF PickAudience, CastTypeOK
    <2>4. QED
      BY <1>4, <2>3, TypeParts, UntouchedTypes DEF PickAudience
  <1>5. ASSUME NEW p \in previews[a], NEW l \in Loops, NEW targets \in SUBSET Users,
               PressSend(a, p, l, targets)
        PROVE  TypeOK'
    <2>1. CASE targets = {}
      <3>1. SlotTypeOK'
        BY <1>1, <1>5, <2>1, SlotTypes, EmptyIsSlot DEF PressSend, ClearState, Nothing, States
      <3>2. CastTypeOK' /\ LockTypeOK'
        BY <1>1, <1>5, <2>1 DEF PressSend, CastTypeOK, LockTypeOK
      <3>3. QED
        BY <1>5, <3>1, <3>2, TypeParts, UntouchedTypes DEF PressSend
    <2>2. CASE targets # {}
      <3> DEFINE run == [by |-> a, text |-> slot[a].text, left |-> targets, index |-> 0,
                         from |-> p]
      <3>1. slot[a].text \in Texts /\ p \in Previews
        BY <1>1, <1>5 DEF SlotTypeOK, Slots, PressSend, HasText, CastTypeOK
      <3>2. run \in SendLoops
        BY <3>1 DEF SendLoops
      <3>3. /\ loop' = [loop EXCEPT ![l] = run] /\ locked' = locked \cup {a}
            /\ UNCHANGED <<slotVars, previews, audiences, typed, got, late>>
        BY <1>5, <2>2 DEF PressSend
      <3> HIDE DEF run
      <3>4. CastTypeOK' /\ LockTypeOK'
        BY <1>1, <3>2, <3>3 DEF CastTypeOK, LockTypeOK
      <3>5. QED
        BY <1>5, <3>3, <3>4, TypeParts, UntouchedTypes DEF PressSend
    <2>3. QED
      BY <2>1, <2>2
  <1>6. QED
    BY <1>2, <1>3, <1>4, <1>5 DEF Announced

\* A broadcast under way.
LEMMA LoopTypes ==
    ASSUME TypeOK, NEW l \in Loops, EndSend(l) \/ \E u \in Users : SendOne(l, u)
    PROVE  TypeOK'
  <1>1. /\ SlotTypeOK /\ CastTypeOK /\ LockTypeOK
        /\ loop[l] \in SendLoops /\ loop[l].by \in Accounts
    BY TypeParts DEF EndSend, SendOne, CastTypeOK, SendLoops
  <1>2. CASE EndSend(l)
    <2>1. SlotTypeOK'
      BY <1>1, <1>2, EmptyIsSlot DEF EndSend, EndsCleared, ClearState, SlotTypeOK
    <2>2. CastTypeOK' /\ LockTypeOK'
      BY <1>1, <1>2 DEF EndSend, CastTypeOK, LockTypeOK
    <2>3. QED
      BY <1>2, <2>1, <2>2, TypeParts, UntouchedTypes DEF EndSend
  <1>3. ASSUME NEW u \in Users, SendOne(l, u)
        PROVE  TypeOK'
    <2>1. /\ [loop[l] EXCEPT !.left = @ \ {u}, !.index = @ + 1] \in SendLoops
          /\ loop[l].text \in Texts
      <3>1. loop[l].left \ {u} \in SUBSET Users /\ loop[l].index + 1 \in Nat
            /\ loop[l].text \in Texts
        BY <1>1 DEF SendLoops
      <3>2. QED
        BY <1>1, <3>1 DEF SendLoops
    <2>2. loop' = [loop EXCEPT ![l] = [loop[l] EXCEPT !.left = @ \ {u}, !.index = @ + 1]]
          /\ got' \in {got, [got EXCEPT ![u][loop[l].text] = @ + 1]}
          /\ UNCHANGED <<audiences, typed>>
      BY <1>3 DEF SendOne
    <2>3. loop' \in [Loops -> SendLoops \cup {NoLoop}]
      BY <1>1, <2>1, <2>2 DEF CastTypeOK
    <2>4. previews' \in [Accounts -> SUBSET Previews]
      <3>1. [previews EXCEPT ![loop[l].by] = @ \ {loop[l].from}]
               \in [Accounts -> SUBSET Previews]
        BY <1>1 DEF CastTypeOK
      <3>2. QED
        BY <1>1, <1>3, <3>1 DEF SendOne, CastTypeOK
    <2>5. got' \in [Users -> [Texts -> Nat]]
      <3> DEFINE x == loop[l].text
      <3>1. got \in [Users -> [Texts -> Nat]] /\ got[u] \in [Texts -> Nat] /\ x \in Texts
        BY <1>1, <2>1 DEF CastTypeOK
      <3>2. got' \in {got, [got EXCEPT ![u] = [got[u] EXCEPT ![x] = @ + 1]]}
        BY <2>2
      <3> HIDE DEF x
      <3>3. [got[u] EXCEPT ![x] = @ + 1] \in [Texts -> Nat]
        BY <3>1
      <3>4. QED
        BY <3>1, <3>2, <3>3
    <2>6. CastTypeOK'
      BY <1>1, <2>2, <2>3, <2>4, <2>5 DEF CastTypeOK
    <2>7. QED
      BY <1>3, <2>6, TypeParts, UntouchedTypes DEF SendOne
  <1>4. QED
    BY <1>2, <1>3

\* A renewal under way was asked for by a card.
RenewingMinted == \A t \in renewing : card[t] # NoCard

\* Every step preserves the types.
LEMMA NextTypes == ASSUME TypeOK, RenewingMinted, [Next]_vars PROVE TypeOK'
  <1>1. ASSUME NEW a \in Accounts, Prompted(a) \/ Left(a)
        PROVE  TypeOK'
    <2>1. SlotOnly(a) /\ SlotTypeOK'
      BY <1>1, SlotStep, SlotTypes, TypeParts
    <2>2. QED
      BY <2>1, TypeParts, UntouchedTypes DEF SlotOnly
  <1>2. ASSUME NEW a \in Accounts, LockExpires(a) \/ CooldownEnds(a)
        PROVE  TypeOK'
    <2>1. LinkTypeOK' /\ LockTypeOK'
      BY <1>2, TypeParts DEF LockExpires, CooldownEnds, LinkTypeOK, LockTypeOK, linkVars, lockVars
    <2>2. QED
      BY <1>2, <2>1, TypeParts, UntouchedTypes DEF LockExpires, CooldownEnds
  <1>3. ASSUME NEW t \in Tokens, TokenExpires(t)
        PROVE  TypeOK'
    <2>1. ConfirmTypeOK'
      BY <1>3, TypeParts DEF TokenExpires, Expires, ConfirmTypeOK
    <2>2. QED
      BY <1>3, <2>1, TypeParts, UntouchedTypes DEF TokenExpires
  <1>4. ASSUME NEW t \in Tokens, Renewed(t)
        PROVE  TypeOK'
    <2>1. renewing' \subseteq Tokens /\ cooling' \subseteq Accounts
          /\ LockTypeOK'
      <3>1. card[t] \in Cards
        BY <1>4, TypeParts DEF Renewed, RenewingMinted, ConfirmTypeOK
      <3>2. card[t].admin \in Accounts
        BY <3>1 DEF Cards
      <3>3. QED
        BY <1>4, <3>2, TypeParts DEF Renewed, LinkTypeOK, LockTypeOK
    <2>2. links' \in [Accounts -> Nat]
      BY <1>4, TypeParts DEF Renewed, LinkTypeOK
    <2>3. LinkTypeOK' /\ LockTypeOK'
      BY <2>1, <2>2 DEF LinkTypeOK
    <2>4. QED
      BY <1>4, <2>3, TypeParts, UntouchedTypes DEF Renewed
  <1>5. CASE Restart
    <2>1. ConfirmTypeOK' /\ BankTypeOK' /\ LockTypeOK'
      BY <1>5, TypeParts
      DEF Restart, Forgotten, ConfirmTypeOK, BankTypeOK, LockTypeOK
    <2>2. SlotTypeOK'
      BY <1>5, EmptyIsSlot DEF Restart, SlotTypeOK, Nothing, States
    <2>3. LinkTypeOK' /\ CastTypeOK'
      BY <1>5, TypeParts DEF Restart, LinkTypeOK, CastTypeOK
    <2>4. QED
      BY <2>1, <2>2, <2>3, TypeParts
  <1>6. CASE UNCHANGED vars
    BY <1>6, TypeParts, UntouchedTypes DEF vars
  <1>7. QED
    BY <1>1, <1>2, <1>3, <1>4, <1>5, <1>6, ButtonTypes, CastTypes, LoopTypes DEF Next

-----------------------------------------------------------------------------
(* A typed message goes where the account was last asked.                  *)

\* The slot of an account does not move, is dropped, or moves with its prompt.
LEMMA PromptKept ==
    ASSUME SlotTypeOK, TypedWhereAsked, NEW a \in Accounts, NEW s, NEW what,
           slot' = [slot EXCEPT ![a] = s],
           \/ UNCHANGED asked /\ s.state = "none"
           \/ /\ Asks(a, what)
              /\ s.state # "none" => s.state = what[1]
              /\ s.state = "grant" => s.grantTo = what[2]
              /\ s.state = "write" => s.writeTo = what[2]
    PROVE  TypedWhereAsked'
  BY DEF TypedWhereAsked, SlotTypeOK, Asks

\* A text is only ever held where one was asked for.
LEMMA NextPrompts == ASSUME TypeOK, TypedWhereAsked, [Next]_vars PROVE TypedWhereAsked'
  <1>1. SlotTypeOK /\ CastTypeOK /\ Empty.state = "none"
    BY TypeParts DEF Empty
  <1>2. ASSUME NEW a \in Accounts, ClearState(a), UNCHANGED asked \/ Asks(a, Nothing)
        PROVE  TypedWhereAsked'
    BY <1>1, <1>2, PromptKept DEF ClearState
  <1>3. ASSUME UNCHANGED slotVars
        PROVE  TypedWhereAsked'
    BY <1>3 DEF slotVars, TypedWhereAsked
  <1>4. ASSUME NEW a \in Accounts, Prompted(a) \/ Left(a)
        PROVE  TypedWhereAsked'
    <2>1. PICK s \in Slots, st \in States, u \in Users \cup {Nobody} :
             /\ slot' = [slot EXCEPT ![a] = s] /\ Asks(a, <<st, u>>)
             /\ s.state # "none" => s.state = st
             /\ s.state = "grant" => s.grantTo = u
             /\ s.state = "write" => s.writeTo = u
      BY <1>1, <1>4, SlotStep
    <2> DEFINE what == <<st, u>>
    <2>2. what[1] = st /\ what[2] = u
      OBVIOUS
    <2> HIDE DEF what
    <2>3. QED
      BY <1>1, <2>1, <2>2, PromptKept DEF what
  <1>5. ASSUME NEW a \in Accounts, NEW t \in Tokens, Asked(a, t)
        PROVE  TypedWhereAsked'
    <2>1. CASE \/ \E v \in BankDetails : TypeBank(a, v, t)
               \/ \E action \in PanelActions : RequestPanelAction(a, action, t)
               \/ RequestNewlink(a, t)
      BY <1>2, <1>3, <2>1, MintStep
    <2>2. CASE ConfirmBank(a, t) \/ ConfirmPanelAction(a, t) \/ ConfirmNewlink(a, t)
               \/ Declined(a, t)
      BY <1>3, <2>2 DEF ConfirmBank, ConfirmPanelAction, ConfirmNewlink, Declined
    <2>3. QED
      BY <1>5, <2>1, <2>2 DEF Asked
  <1>6. ASSUME NEW a \in Accounts, NEW x \in Texts, TypeText(a, x)
        PROVE  TypedWhereAsked'
    <2> DEFINE s == [slot[a] EXCEPT !.state = "broadcast", !.text = x]
    <2>1. slot' = [slot EXCEPT ![a] = s] /\ Asks(a, <<"broadcast", Nobody>>)
      BY <1>6 DEF TypeText
    <2>2. s.state = "broadcast"
      BY <1>1 DEF SlotTypeOK, Slots
    <2> HIDE DEF s
    <2>3. QED
      BY <1>1, <2>1, <2>2, PromptKept
  <1>7. ASSUME NEW a \in Accounts, NEW x \in Texts, Announced(a, x), ~TypeText(a, x)
        PROVE  TypedWhereAsked'
    <2>1. CASE \E found \in BOOLEAN : PickAudience(a, x, found)
      BY <1>3, <2>1 DEF PickAudience
    <2>2. CASE \E p \in previews[a], l \in Loops, targets \in SUBSET Users :
                  PressSend(a, p, l, targets)
      BY <1>2, <1>3, <2>2 DEF PressSend
    <2>3. QED
      BY <1>7, <2>1, <2>2 DEF Announced
  <1>8. ASSUME NEW a \in Accounts, CancelBroadcast(a) \/ LockExpires(a) \/ CooldownEnds(a)
        PROVE  TypedWhereAsked'
    BY <1>2, <1>3, <1>8 DEF CancelBroadcast, LockExpires, CooldownEnds
  <1>9. ASSUME NEW l \in Loops, EndSend(l)
        PROVE  TypedWhereAsked'
    <2>1. loop[l].by \in Accounts
      BY <1>1, <1>9 DEF EndSend, CastTypeOK, SendLoops
    <2>2. QED
      BY <1>2, <1>9, <2>1 DEF EndSend, EndsCleared
  <1>10. ASSUME NEW l \in Loops, NEW u \in Users, SendOne(l, u)
         PROVE  TypedWhereAsked'
    BY <1>3, <1>10 DEF SendOne
  <1>11. ASSUME NEW t \in Tokens, TokenExpires(t) \/ Renewed(t)
         PROVE  TypedWhereAsked'
    BY <1>3, <1>11 DEF TokenExpires, Renewed
  <1>12. CASE Restart
    BY <1>1, <1>12 DEF Restart, TypedWhereAsked
  <1>13. CASE UNCHANGED vars
    BY <1>3, <1>13 DEF vars
  <1>14. QED
    BY <1>4, <1>5, <1>6, <1>7, <1>8, <1>9, <1>10, <1>11, <1>12, <1>13 DEF Next

-----------------------------------------------------------------------------
(* A token's action runs once.                                             *)

\* The store holds what the message shows, and nobody has run what a live token holds,
\* nor what was never asked.
TokensRunOnce ==
    \A t \in Tokens :
        /\ pending[t] # NoCard => pending[t] = card[t]
        /\ pending[t] # NoCard \/ card[t] = NoCard => runs[t] = 0

\* What any step does to the store of confirmations.
LEMMA StoreStep ==
    ASSUME [Next]_vars
    PROVE  \/ UNCHANGED confirmVars
           \/ Forgotten
           \/ \E t \in Tokens, a \in Accounts :
                 \/ \E action \in Actions : Mint(t, a, action)
                 \/ Confirmed(t, a) /\ ConfirmBank(a, t)
                 \/ (Confirmed(t, a) \/ Refused(t, a) \/ Cancelled(t, a)) /\ UNCHANGED bank
           \/ \E t \in Tokens : Expires(t)
  <1>1. ASSUME NEW a \in Accounts, Prompted(a) \/ Left(a)
        PROVE  UNCHANGED confirmVars
    <2>1. SlotOnly(a)
      BY <1>1
      DEF Prompted, Left, PromptGrant, PromptWrite, PromptSearch, PromptBank,
          PromptBroadcast, EnterSupport, Prompts, OpenCard, OpenList, OpenSettings,
          OpenDashboard, TypeDays, TypeQuery, TypeNothing, LeaveSupport, LeaveWriting,
          Leaves
    <2>2. QED
      BY <2>1 DEF SlotOnly
  <1>2. ASSUME NEW a \in Accounts, NEW x \in Texts, Announced(a, x)
        PROVE  UNCHANGED confirmVars
    BY <1>2 DEF Announced, TypeText, PickAudience, PressSend
  <1>3. ASSUME NEW a \in Accounts, CancelBroadcast(a) \/ LockExpires(a) \/ CooldownEnds(a)
        PROVE  UNCHANGED confirmVars
    BY <1>3 DEF CancelBroadcast, LockExpires, CooldownEnds
  <1>4. ASSUME NEW l \in Loops, EndSend(l) \/ \E u \in Users : SendOne(l, u)
        PROVE  UNCHANGED confirmVars
    BY <1>4 DEF EndSend, SendOne
  <1>5. ASSUME NEW t \in Tokens, TokenExpires(t) \/ Renewed(t)
        PROVE  Expires(t) \/ UNCHANGED confirmVars
    BY <1>5 DEF TokenExpires, Renewed
  <1>6. ASSUME NEW a \in Accounts, NEW t \in Tokens, Asked(a, t)
        PROVE  \/ \E action \in Actions : Mint(t, a, action)
               \/ Confirmed(t, a) /\ ConfirmBank(a, t)
               \/ (Confirmed(t, a) \/ Refused(t, a) \/ Cancelled(t, a)) /\ UNCHANGED bank
    <2>1. CASE \/ \E v \in BankDetails : TypeBank(a, v, t)
               \/ \E action \in PanelActions : RequestPanelAction(a, action, t)
               \/ RequestNewlink(a, t)
      BY <2>1, MintStep
    <2>2. CASE ConfirmBank(a, t) \/ ConfirmPanelAction(a, t) \/ ConfirmNewlink(a, t)
               \/ Declined(a, t)
      BY <2>2 DEF ConfirmBank, ConfirmPanelAction, ConfirmNewlink, Declined
    <2>3. QED
      BY <1>6, <2>1, <2>2 DEF Asked
  <1>7. CASE Restart
    BY <1>7 DEF Restart
  <1>8. CASE UNCHANGED vars
    BY <1>8 DEF vars
  <1>9. QED
    BY <1>1, <1>2, <1>3, <1>4, <1>5, <1>6, <1>7, <1>8 DEF Next

\* A token that is run was live, not overdue and not run before, and is gone.
RunStep == \A t \in Tokens : runs'[t] > runs[t] =>
              runs[t] = 0 /\ Purged[t] # NoCard /\ pending'[t] = NoCard

\* Cards are for good.
CardsStay == \A t \in Tokens : card[t] # NoCard => card'[t] = card[t]

\* A token leaves its card once, and runs at most once.
LEMMA NextTokens ==
    ASSUME TypeOK, TokensRunOnce, [Next]_vars
    PROVE  TokensRunOnce' /\ RunStep /\ CardsStay
  <1>1. ConfirmTypeOK
    BY TypeParts
  <1>2. CASE UNCHANGED confirmVars \/ Forgotten \/ \E t \in Tokens : Expires(t)
    BY <1>1, <1>2
    DEF confirmVars, Forgotten, Expires, ConfirmTypeOK, TokensRunOnce, RunStep, CardsStay
  <1>3. ASSUME NEW t \in Tokens, NEW a \in Accounts, NEW action \in Actions,
               Mint(t, a, action)
        PROVE  TokensRunOnce' /\ RunStep /\ CardsStay
    <2> DEFINE c == [admin |-> a, action |-> action]
    <2>1. /\ card[t] = NoCard /\ c # NoCard /\ runs[t] = 0
          /\ UNCHANGED runs /\ \A k \in Tokens : runs[k] \in Nat
      BY <1>1, <1>3, ConfirmAssumption DEF Mint, Cards, ConfirmTypeOK, TokensRunOnce
    <2> HIDE DEF c
    <2>2. /\ card'[t] = c /\ pending'[t] = c
          /\ \A k \in Tokens : k # t =>
                card'[k] = card[k] /\ pending'[k] \in {pending[k], NoCard}
      BY <1>1, <1>3 DEF Mint, Creates, Purged, ConfirmTypeOK, c
    <2>3. QED
      BY <2>1, <2>2 DEF TokensRunOnce, RunStep, CardsStay
  <1>4. ASSUME NEW t \in Tokens, NEW a \in Accounts, Confirmed(t, a)
        PROVE  TokensRunOnce' /\ RunStep /\ CardsStay
    <2>1. /\ Purged[t] # NoCard /\ pending[t] # NoCard /\ card[t] # NoCard /\ runs[t] = 0
          /\ UNCHANGED card
      BY <1>1, <1>4 DEF Confirmed, Valid, Purged, ConfirmTypeOK, TokensRunOnce
    <2>2. /\ pending'[t] = NoCard
          /\ \A k \in Tokens : k # t =>
                pending'[k] \in {pending[k], NoCard} /\ runs'[k] = runs[k]
      BY <1>1, <1>4 DEF Confirmed, Consumes, Purged, ConfirmTypeOK
    <2>3. \A k \in Tokens : runs[k] \in Nat
      BY <1>1 DEF ConfirmTypeOK
    <2>4. QED
      BY <2>1, <2>2, <2>3 DEF TokensRunOnce, RunStep, CardsStay
  <1>5. ASSUME NEW t \in Tokens, NEW a \in Accounts, Refused(t, a) \/ Cancelled(t, a)
        PROVE  TokensRunOnce' /\ RunStep /\ CardsStay
    <2>1. UNCHANGED <<card, runs>> /\ \A k \in Tokens : pending'[k] \in {pending[k], NoCard}
      BY <1>1, <1>5 DEF Refused, Cancelled, Purged, ConfirmTypeOK
    <2>2. QED
      BY <1>1, <2>1 DEF TokensRunOnce, RunStep, CardsStay, ConfirmTypeOK
  <1>6. QED
    BY <1>2, <1>3, <1>4, <1>5, StoreStep

-----------------------------------------------------------------------------
(* The throttle's lock and the two handlers that are long.                 *)

\* A broadcast or a renewal under way holds its account's lock, and two of one
\* account are never under way together, unless a lock expired under its holder.
OneJobEach ==
    /\ \A l \in Loops : loop[l] # NoLoop => loop[l].by \in locked \cup late
    /\ \A t \in renewing : card[t].admin \in locked \cup late
    /\ \A l, m \in Loops :
          loop[l] # NoLoop /\ loop[m] # NoLoop /\ loop[l].by = loop[m].by
          => l = m \/ loop[l].by \in late
    /\ \A t, k \in renewing :
          card[t].admin = card[k].admin => t = k \/ card[t].admin \in late
    /\ \A l \in Loops, t \in renewing :
          loop[l] # NoLoop /\ loop[l].by = card[t].admin => loop[l].by \in late

\* Nobody renews while the renewal before cools down.
RenewsWhenCool ==
    \A t \in renewing : card[t].admin \notin cooling \/ card[t].admin \in late

JobsInv == RenewingMinted /\ OneJobEach /\ RenewsWhenCool

\* A step that starts and ends none of them.
LEMMA JobsKept ==
    ASSUME TypeOK, JobsInv, CardsStay, UNCHANGED <<renewing, late>>, locked \subseteq locked',
           cooling' \subseteq cooling,
           \A l \in Loops : loop'[l] # NoLoop => loop[l] # NoLoop /\ loop'[l].by = loop[l].by
    PROVE  JobsInv'
  <1>1. renewing \subseteq Tokens
    BY DEF TypeOK
  <1>2. \A t \in renewing : card[t] # NoCard /\ card'[t] = card[t]
    BY <1>1 DEF JobsInv, RenewingMinted, CardsStay
  <1>3. RenewingMinted' /\ RenewsWhenCool'
    BY <1>2 DEF JobsInv, RenewingMinted, RenewsWhenCool
  <1>4. OneJobEach'
    BY <1>2 DEF JobsInv, OneJobEach
  <1>5. QED
    BY <1>3, <1>4 DEF JobsInv

\* A renewal starts, if any.
LEMMA ConfirmNewlinkJobs ==
    ASSUME TypeOK, TokensRunOnce, JobsInv, NEW a \in Accounts, NEW t \in Tokens,
           ConfirmNewlink(a, t)
    PROVE  JobsInv'
  <1>1. /\ a \notin locked /\ card[t] # NoCard /\ card[t].admin = a
        /\ UNCHANGED <<card, loop, cooling, late>>
    BY DEF ConfirmNewlink, Admitted, Confirmed, Valid, Purged, castVars, TokensRunOnce
  <1>2. CASE UNCHANGED <<renewing, locked>>
    BY <1>1, <1>2 DEF JobsInv, RenewingMinted, OneJobEach, RenewsWhenCool
  <1>3. CASE a \notin cooling /\ renewing' = renewing \cup {t} /\ locked' = locked \cup {a}
    <2>1. /\ \A l \in Loops : loop[l] # NoLoop /\ loop[l].by = a => a \in late
          /\ \A k \in renewing : card[k].admin = a => a \in late
      BY <1>1 DEF JobsInv, OneJobEach
    <2>2. RenewingMinted' /\ RenewsWhenCool'
      BY <1>1, <1>3 DEF JobsInv, RenewingMinted, RenewsWhenCool
    <2>3. OneJobEach'
      BY <1>1, <1>3, <2>1 DEF JobsInv, OneJobEach
    <2>4. QED
      BY <2>2, <2>3 DEF JobsInv
  <1>4. QED
    BY <1>2, <1>3 DEF ConfirmNewlink, Allowed

\* A renewal ends.
LEMMA RenewedJobs ==
    ASSUME TypeOK, JobsInv, NEW t \in Tokens, Renewed(t)
    PROVE  JobsInv'
  <1> DEFINE a == card[t].admin
  <1>1. /\ t \in renewing /\ renewing' = renewing \ {t} /\ locked' = locked \ {a}
        /\ cooling' \in {cooling, cooling \cup {a}}
        /\ UNCHANGED <<card, loop, late>>
    BY DEF Renewed, confirmVars, castVars
  <1>2. /\ \A l \in Loops : loop[l] # NoLoop /\ loop[l].by = a => a \in late
        /\ \A k \in renewing' : card[k].admin = a => a \in late
    BY <1>1 DEF JobsInv, OneJobEach
  <1> HIDE DEF a
  <1>3. RenewingMinted' /\ RenewsWhenCool'
    BY <1>1, <1>2 DEF JobsInv, RenewingMinted, RenewsWhenCool
  <1>4. OneJobEach'
    BY <1>1, <1>2 DEF JobsInv, OneJobEach
  <1>5. QED
    BY <1>3, <1>4 DEF JobsInv

\* A broadcast starts, if any.
LEMMA PressSendJobs ==
    ASSUME TypeOK, JobsInv, NEW a \in Accounts, NEW p, NEW l \in Loops, NEW targets,
           PressSend(a, p, l, targets)
    PROVE  JobsInv'
  <1>1. a \notin locked /\ UNCHANGED <<card, renewing, cooling, late>>
        /\ loop \in [Loops -> SendLoops \cup {NoLoop}]
    BY DEF PressSend, Admitted, confirmVars, linkVars, TypeOK
  <1>2. CASE UNCHANGED <<locked, loop>>
    BY <1>1, <1>2 DEF JobsInv, RenewingMinted, OneJobEach, RenewsWhenCool
  <1>3. ASSUME NEW run, run.by = a, loop' = [loop EXCEPT ![l] = run],
               locked' = locked \cup {a}
        PROVE  JobsInv'
    <2>1. /\ \A m \in Loops : loop[m] # NoLoop /\ loop[m].by = a => a \in late
          /\ \A k \in renewing : card[k].admin = a => a \in late
      BY <1>1 DEF JobsInv, OneJobEach
    <2>2. loop'[l] = run /\ \A m \in Loops : m # l => loop'[m] = loop[m]
      BY <1>1, <1>3
    <2>3. OneJobEach'
      BY <1>1, <1>3, <2>1, <2>2 DEF JobsInv, OneJobEach
    <2>4. QED
      BY <1>1, <2>3 DEF JobsInv, RenewingMinted, RenewsWhenCool
  <1>4. QED
    <2> DEFINE run == [by |-> a, text |-> slot[a].text, left |-> targets, index |-> 0,
                       from |-> p]
    <2>1. run.by = a
      OBVIOUS
    <2>2. \/ UNCHANGED <<locked, loop>>
          \/ loop' = [loop EXCEPT ![l] = run] /\ locked' = locked \cup {a}
      BY DEF PressSend
    <2> HIDE DEF run
    <2>3. QED
      BY <1>2, <1>3, <2>1, <2>2

\* A broadcast ends.
LEMMA EndSendJobs ==
    ASSUME TypeOK, JobsInv, NEW l \in Loops, EndSend(l)
    PROVE  JobsInv'
  <1> DEFINE a == loop[l].by
  <1>1. /\ loop[l] # NoLoop /\ loop' = [loop EXCEPT ![l] = NoLoop]
        /\ locked' = locked \ {a} /\ UNCHANGED <<card, renewing, cooling, late>>
        /\ loop \in [Loops -> SendLoops \cup {NoLoop}]
    BY DEF EndSend, confirmVars, linkVars, TypeOK
  <1>2. /\ loop'[l] = NoLoop /\ \A m \in Loops : m # l => loop'[m] = loop[m]
    BY <1>1
  <1>3. /\ \A m \in Loops : m # l /\ loop[m] # NoLoop /\ loop[m].by = a => a \in late
        /\ \A k \in renewing : card[k].admin = a => a \in late
    BY <1>1 DEF JobsInv, OneJobEach
  <1> HIDE DEF a
  <1>4. OneJobEach'
    BY <1>1, <1>2, <1>3 DEF JobsInv, OneJobEach
  <1>5. QED
    BY <1>1, <1>4 DEF JobsInv, RenewingMinted, RenewsWhenCool

\* The lock of an account expires.
LEMMA LockExpiresJobs ==
    ASSUME TypeOK, JobsInv, NEW a \in Accounts, LockExpires(a)
    PROVE  JobsInv'
  <1>1. /\ locked' = locked \ {a} /\ late' = late \cup {a}
        /\ UNCHANGED <<card, loop, renewing, cooling>>
    BY DEF LockExpires, confirmVars, linkVars, castVars
  <1>2. OneJobEach'
    BY <1>1 DEF JobsInv, OneJobEach
  <1>3. QED
    BY <1>1, <1>2 DEF JobsInv, RenewingMinted, RenewsWhenCool

\* Every step keeps the jobs in hand tied to a card, to one admin each and to its wait.
LEMMA NextJobs ==
    ASSUME TypeOK, TokensRunOnce, JobsInv, CardsStay, [Next]_vars
    PROVE  JobsInv'
  <1>1. loop \in [Loops -> SendLoops \cup {NoLoop}]
    BY DEF TypeOK
  <1>2. ASSUME UNCHANGED <<renewing, late, locked, loop>>, cooling' \subseteq cooling
        PROVE  JobsInv'
    BY <1>2, JobsKept
  <1>3. ASSUME NEW a \in Accounts, Prompted(a) \/ Left(a)
        PROVE  JobsInv'
    <2>1. SlotOnly(a)
      BY <1>3, SlotStep, TypeParts
    <2>2. QED
      BY <1>2, <2>1 DEF SlotOnly, linkVars, castVars, lockVars
  <1>4. ASSUME NEW a \in Accounts, NEW t \in Tokens, Asked(a, t), ~ConfirmNewlink(a, t)
        PROVE  JobsInv'
    <2>1. UNCHANGED <<linkVars, castVars, lockVars>>
      BY <1>4, MintStep DEF Asked, ConfirmBank, ConfirmPanelAction, Declined
    <2>2. QED
      BY <1>2, <2>1 DEF linkVars, castVars, lockVars
  <1>5. ASSUME NEW a \in Accounts, NEW x \in Texts, Announced(a, x)
        PROVE  JobsInv'
    <2>1. CASE TypeText(a, x) \/ \E found \in BOOLEAN : PickAudience(a, x, found)
      BY <1>2, <2>1 DEF TypeText, PickAudience, linkVars, lockVars
    <2>2. QED
      BY <1>5, <2>1, PressSendJobs DEF Announced
  <1>6. ASSUME NEW a \in Accounts, CancelBroadcast(a) \/ CooldownEnds(a)
        PROVE  JobsInv'
    BY <1>2, <1>6 DEF CancelBroadcast, CooldownEnds, linkVars, castVars, lockVars
  <1>7. ASSUME NEW l \in Loops, NEW u \in Users, SendOne(l, u)
        PROVE  JobsInv'
    <2> DEFINE run == [loop[l] EXCEPT !.left = @ \ {u}, !.index = @ + 1]
    <2>1. /\ loop[l] # NoLoop /\ loop' = [loop EXCEPT ![l] = run]
          /\ UNCHANGED <<renewing, late, locked, cooling>>
      BY <1>7 DEF SendOne, linkVars, lockVars
    <2>2. run.by = loop[l].by
      BY <1>1, <2>1 DEF SendLoops
    <2> HIDE DEF run
    <2>3. QED
      BY <1>1, <2>1, <2>2, JobsKept
  <1>8. ASSUME NEW t \in Tokens, TokenExpires(t)
        PROVE  JobsInv'
    BY <1>2, <1>8 DEF TokenExpires, linkVars, castVars, lockVars
  <1>9. CASE Restart
    <2>1. renewing' = {} /\ \A l \in Loops : loop'[l] = NoLoop
      BY <1>9 DEF Restart
    <2>2. QED
      BY <2>1 DEF JobsInv, RenewingMinted, OneJobEach, RenewsWhenCool
  <1>10. CASE UNCHANGED vars
    BY <1>2, <1>10 DEF vars, linkVars, castVars, lockVars
  <1>11. QED
    BY <1>3, <1>4, <1>5, <1>6, <1>7, <1>8, <1>9, <1>10, ConfirmNewlinkJobs, RenewedJobs,
       EndSendJobs, LockExpiresJobs DEF Next

-----------------------------------------------------------------------------
(* What was typed and what was received.                                   *)

\* A text is in one slot at most, and nobody received what nobody typed.
TextsTypedOnce ==
    /\ \A a \in Accounts : slot[a].text # NoText => slot[a].text \in typed
    /\ \A a, b \in Accounts : slot[a].text = slot[b].text => a = b \/ slot[a].text = NoText
    /\ \A l \in Loops : loop[l] # NoLoop => loop[l].text \in typed
    /\ \A u \in Users, x \in Texts : x \notin typed => got[u][x] = 0

\* A broadcast sends the text of its account's slot, those it has left did not receive
\* it, and nobody received the text of an account that is not sending.
NotYetReceived ==
    /\ \A l \in Loops : loop[l] # NoLoop =>
          /\ slot[loop[l].by].text = loop[l].text /\ loop[l].text # NoText
          /\ \A u \in loop[l].left : got[u][loop[l].text] = 0
    /\ \A a \in Accounts :
          slot[a].text # NoText /\ (\A l \in Loops : loop[l] # NoLoop => loop[l].by # a)
          => \A u \in Users : got[u][slot[a].text] = 0

TextsInv == TextsTypedOnce /\ (late = {} => NotYetReceived) /\ OneCopyEach

\* Nothing is typed and nothing received: slots lose their texts and broadcasts end, an
\* ended one with its slot's text, and none under way loses its own.
LEMMA TextsKept ==
    ASSUME TypeOK, TextsInv, UNCHANGED <<typed, got>>, late \subseteq late',
           \A a \in Accounts : slot'[a].text = slot[a].text \/ slot'[a].text = NoText,
           \A l \in Loops : loop'[l] = loop[l] \/ loop'[l] = NoLoop,
           \A l \in Loops : loop[l] # NoLoop /\ loop'[l] = NoLoop
              => slot'[loop[l].by].text = NoText,
           late' = {} => \A l \in Loops : loop'[l] # NoLoop
              => slot'[loop[l].by].text = slot[loop[l].by].text
    PROVE  TextsInv'
  <1>1. TextsTypedOnce' /\ OneCopyEach'
    BY DEF TextsInv, TextsTypedOnce, OneCopyEach
  <1>2. ASSUME late' = {}
        PROVE  NotYetReceived'
    <2>1. NotYetReceived
      BY <1>2 DEF TextsInv
    <2>2. ASSUME NEW l \in Loops, loop'[l] # NoLoop
          PROVE  /\ slot'[loop'[l].by].text = loop'[l].text /\ loop'[l].text # NoText
                 /\ \A u \in loop'[l].left : got'[u][loop'[l].text] = 0
      BY <1>2, <2>1, <2>2 DEF NotYetReceived
    <2>3. ASSUME NEW a \in Accounts, slot'[a].text # NoText,
                 \A l \in Loops : loop'[l] # NoLoop => loop'[l].by # a,
                 NEW u \in Users
          PROVE  got'[u][slot'[a].text] = 0
      BY <2>1, <2>3 DEF NotYetReceived
    <2>4. QED
      BY <2>2, <2>3 DEF NotYetReceived
  <1>3. QED
    BY <1>1, <1>2 DEF TextsInv

\* What an admitted update does to its own slot touches no broadcast under way.
LEMMA AdmittedTexts ==
    ASSUME TypeOK, JobsInv, TextsInv, NEW a \in Accounts, Admitted(a),
           UNCHANGED <<typed, got, loop, late>>,
           NEW s \in Slots, slot' = [slot EXCEPT ![a] = s],
           s.text = slot[a].text \/ s.text = NoText
    PROVE  TextsInv'
  <1>1. slot'[a] = s /\ \A b \in Accounts : b # a => slot'[b] = slot[b]
    BY DEF TypeOK
  <1>2. late' = {} => \A l \in Loops : loop[l] # NoLoop => loop[l].by # a
    BY DEF Admitted, JobsInv, OneJobEach
  <1>3. \A l \in Loops : loop[l] # NoLoop => loop[l].by \in Accounts
    BY DEF TypeOK, SendLoops
  <1>4. QED
    BY <1>1, <1>2, <1>3, TextsKept

\* A step that touches neither a slot nor a broadcast.
LEMMA UntouchedTexts ==
    ASSUME TypeOK, TextsInv, UNCHANGED <<typed, got, loop, slot>>, late \subseteq late'
    PROVE  TextsInv'
  BY TextsKept

\* A text that was not used up is typed.
LEMMA TypeTextTexts ==
    ASSUME TypeOK, JobsInv, TextsInv, NEW a \in Accounts, NEW x \in Texts, TypeText(a, x)
    PROVE  TextsInv'
  <1>1. /\ x \notin typed /\ typed' = typed \cup {x} /\ UNCHANGED <<loop, got, late>>
        /\ slot'[a].text = x /\ \A b \in Accounts : b # a => slot'[b] = slot[b]
    BY DEF TypeText, TypeOK, Slots, lockVars
  <1>2. /\ \A l \in Loops : loop[l] # NoLoop => loop[l].by \in Accounts
        /\ late = {} => \A l \in Loops : loop[l] # NoLoop => loop[l].by # a
    BY DEF TypeOK, SendLoops, TypeText, Admitted, JobsInv, OneJobEach
  <1>3. TextsTypedOnce'
    BY <1>1 DEF TextsInv, TextsTypedOnce
  <1>4. late' = {} => NotYetReceived'
    <2>1. \A u \in Users : got[u][x] = 0
      BY <1>1 DEF TextsInv, TextsTypedOnce
    <2>2. QED
      BY <1>1, <1>2, <2>1 DEF TextsInv, NotYetReceived
  <1>5. OneCopyEach'
    BY <1>1 DEF TextsInv, OneCopyEach
  <1>6. QED
    BY <1>3, <1>4, <1>5 DEF TextsInv

\* A broadcast starts, or ends before it starts.
LEMMA PressSendTexts ==
    ASSUME TypeOK, JobsInv, TextsInv, NEW a \in Accounts, NEW p \in previews[a],
           NEW l \in Loops, NEW targets \in SUBSET Users, PressSend(a, p, l, targets)
    PROVE  TextsInv'
  <1>1. /\ a \notin locked /\ slot[a].text # NoText /\ loop[l] = NoLoop
        /\ UNCHANGED <<typed, got, late>>
        /\ loop \in [Loops -> SendLoops \cup {NoLoop}]
    BY DEF PressSend, Admitted, HasText, TypeOK
  <1>2. CASE targets = {}
    BY <1>1, <1>2, EmptyIsSlot, AdmittedTexts DEF PressSend, ClearState, Empty
  <1>3. CASE targets # {}
    <2> DEFINE run == [by |-> a, text |-> slot[a].text, left |-> targets, index |-> 0,
                       from |-> p]
    <2>1. loop' = [loop EXCEPT ![l] = run] /\ UNCHANGED slot
      BY <1>3 DEF PressSend, slotVars
    <2>2. run.by = a /\ run.text = slot[a].text /\ run.left = targets
      OBVIOUS
    <2> HIDE DEF run
    <2>3. loop'[l] = run /\ \A m \in Loops : m # l => loop'[m] = loop[m]
      BY <1>1, <2>1
    <2>4. TextsTypedOnce' /\ OneCopyEach'
      BY <1>1, <2>1, <2>2, <2>3 DEF TextsInv, TextsTypedOnce, OneCopyEach
    <2>5. ASSUME late' = {}
          PROVE  NotYetReceived'
      <3>1. NotYetReceived /\ late = {}
        BY <1>1, <2>5 DEF TextsInv
      <3>2. \A m \in Loops : loop[m] # NoLoop => loop[m].by # a
        BY <1>1, <3>1 DEF JobsInv, OneJobEach
      <3>3. \A u \in Users : got[u][slot[a].text] = 0
        BY <1>1, <3>1, <3>2 DEF NotYetReceived
      <3>4. run # NoLoop
        <4>1. slot[a].text \in Texts /\ p \in Previews
          BY <1>1 DEF TypeOK, Slots
        <4>2. run \in SendLoops
          BY <4>1 DEF run, SendLoops
        <4>3. QED
          BY <4>2, LoopAssumption
      <3>5. QED
        BY <1>1, <2>1, <2>2, <2>3, <3>1, <3>3, <3>4 DEF NotYetReceived
    <2>6. QED
      BY <2>4, <2>5 DEF TextsInv
  <1>4. QED
    BY <1>2, <1>3

\* A copy is sent, and arrives or not.
LEMMA SendOneTexts ==
    ASSUME TypeOK, JobsInv, TextsInv, NEW l \in Loops, NEW u \in Users, SendOne(l, u)
    PROVE  TextsInv'
  <1> DEFINE run == [loop[l] EXCEPT !.left = @ \ {u}, !.index = @ + 1]
             x   == loop[l].text
  <1>1. /\ loop[l] \in SendLoops /\ loop[l] # NoLoop /\ u \in loop[l].left
        /\ loop' = [loop EXCEPT ![l] = run]
        /\ got' = got \/ got' = [got EXCEPT ![u][x] = @ + 1]
        /\ UNCHANGED <<slot, typed, late>>
        /\ loop \in [Loops -> SendLoops \cup {NoLoop}] /\ got \in [Users -> [Texts -> Nat]]
    BY DEF SendOne, TypeOK, slotVars, lockVars
  <1>2. /\ run.by = loop[l].by /\ run.text = x /\ run.left = loop[l].left \ {u}
        /\ x \in Texts /\ loop[l].by \in Accounts /\ loop[l].left \subseteq Users
    BY <1>1 DEF SendLoops
  <1> HIDE DEF run, x
  <1>3. loop'[l] = run /\ \A m \in Loops : m # l => loop'[m] = loop[m]
    BY <1>1
  <1>4. /\ got'[u][x] = got[u][x] \/ got'[u][x] = got[u][x] + 1
        /\ \A v \in Users, y \in Texts : v # u \/ y # x => got'[v][y] = got[v][y]
    BY <1>1, <1>2
  <1>5. TextsTypedOnce'
    <2>1. x \in typed
      BY <1>1 DEF TextsInv, TextsTypedOnce, x
    <2>2. \A m \in Loops : loop'[m] # NoLoop => loop'[m].text \in typed
      BY <1>1, <1>2, <1>3, <2>1 DEF TextsInv, TextsTypedOnce
    <2>3. \A v \in Users, y \in Texts : y \notin typed => got'[v][y] = 0
      BY <1>4, <2>1 DEF TextsInv, TextsTypedOnce
    <2>4. QED
      BY <1>1, <2>2, <2>3 DEF TextsInv, TextsTypedOnce
  <1>6. ASSUME late = {}
        PROVE  NotYetReceived' /\ got[u][x] = 0
    <2>1. NotYetReceived
      BY <1>6 DEF TextsInv
    <2>2. got[u][x] = 0 /\ slot[loop[l].by].text = x /\ x # NoText
      BY <1>1, <2>1 DEF NotYetReceived, x
    <2>3. ASSUME NEW m \in Loops, m # l, loop[m] # NoLoop
          PROVE  loop[m].text # x
      <3>1. loop[m].by \in Accounts /\ loop[m].by # loop[l].by
        BY <1>1, <1>6, <2>3 DEF JobsInv, OneJobEach, SendLoops
      <3>2. slot[loop[m].by].text = loop[m].text
        BY <2>1, <2>3 DEF NotYetReceived
      <3>3. QED
        BY <1>2, <2>2, <3>1, <3>2 DEF TextsInv, TextsTypedOnce
    <2>4. ASSUME NEW m \in Loops, loop'[m] # NoLoop
          PROVE  /\ slot[loop'[m].by].text = loop'[m].text /\ loop'[m].text # NoText
                 /\ \A v \in loop'[m].left : got'[v][loop'[m].text] = 0
      <3>1. CASE m = l
        <4>1. \A v \in loop[l].left : got[v][x] = 0
          BY <1>1, <2>1 DEF NotYetReceived, x
        <4>2. QED
          BY <1>2, <1>3, <1>4, <2>2, <3>1, <4>1
      <3>2. CASE m # l
        <4>1. /\ loop'[m] = loop[m] /\ loop[m].text # x
              /\ loop[m].text \in Texts /\ loop[m].left \subseteq Users
          BY <1>1, <1>3, <2>3, <2>4, <3>2 DEF SendLoops
        <4>2. QED
          BY <1>4, <2>1, <2>4, <4>1 DEF NotYetReceived
      <3>3. QED
        BY <3>1, <3>2
    <2>5. ASSUME NEW a \in Accounts, slot[a].text # NoText,
                 \A m \in Loops : loop'[m] # NoLoop => loop'[m].by # a, NEW v \in Users
          PROVE  got'[v][slot[a].text] = 0
      <3>1. run # NoLoop
        <4>1. loop[l].left \ {u} \in SUBSET Users /\ loop[l].index + 1 \in Nat
          BY <1>1 DEF SendLoops
        <4>2. run \in SendLoops
          BY <1>1, <4>1 DEF run, SendLoops
        <4>3. QED
          BY <4>2, LoopAssumption
      <3>2. \A m \in Loops : loop[m] # NoLoop => loop[m].by # a
        BY <1>2, <1>3, <2>5, <3>1
      <3>3. slot[a].text # x
        BY <1>1, <1>2, <2>2, <3>2 DEF TextsInv, TextsTypedOnce
      <3>4. slot[a].text \in Texts
        BY <2>5 DEF TypeOK, Slots
      <3>5. QED
        BY <1>4, <2>1, <2>5, <3>2, <3>3, <3>4 DEF NotYetReceived
    <2>6. QED
      BY <1>1, <2>2, <2>4, <2>5 DEF NotYetReceived
  <1>7. OneCopyEach'
    <2>1. CASE late = {}
      BY <1>1, <1>4, <1>6, <2>1 DEF TextsInv, OneCopyEach
    <2>2. CASE late # {}
      BY <1>1, <2>2 DEF TypeOK, OneCopyEach
    <2>3. QED
      BY <2>1, <2>2
  <1>8. QED
    BY <1>1, <1>5, <1>6, <1>7 DEF TextsInv

\* Every step.
LEMMA NextTexts == ASSUME TypeOK, JobsInv, TextsInv, [Next]_vars PROVE TextsInv'
  <1>1. ASSUME NEW a \in Accounts, Admitted(a), ClearState(a),
               UNCHANGED <<typed, got, loop, late>>
        PROVE  TextsInv'
    BY <1>1, EmptyIsSlot, AdmittedTexts DEF ClearState, Empty
  <1>2. ASSUME NEW a \in Accounts, Prompted(a) \/ Left(a)
        PROVE  TextsInv'
    <2>1. Admitted(a) /\ UNCHANGED <<typed, got, loop, late>>
      BY <1>2, SlotStep, TypeParts DEF SlotOnly, castVars, lockVars
    <2>2. QED
      BY <1>2, <2>1, SlotStep, TypeParts, AdmittedTexts
  <1>3. ASSUME NEW a \in Accounts, NEW t \in Tokens, Asked(a, t)
        PROVE  TextsInv'
    <2>1. CASE \/ \E v \in BankDetails : TypeBank(a, v, t)
               \/ \E action \in PanelActions : RequestPanelAction(a, action, t)
               \/ RequestNewlink(a, t)
      <3>1. Admitted(a) /\ UNCHANGED <<typed, got, loop, late>>
        BY <2>1, MintStep
        DEF TypeBank, RequestPanelAction, RequestNewlink, Requests, castVars, lockVars
      <3>2. QED
        BY <1>1, <2>1, <3>1, MintStep, UntouchedTexts DEF slotVars
    <2>2. CASE ConfirmBank(a, t) \/ ConfirmPanelAction(a, t) \/ ConfirmNewlink(a, t)
               \/ Declined(a, t)
      BY <2>2, UntouchedTexts
      DEF ConfirmBank, ConfirmPanelAction, ConfirmNewlink, Declined, slotVars, castVars,
          lockVars
    <2>3. QED
      BY <1>3, <2>1, <2>2 DEF Asked
  <1>4. ASSUME NEW a \in Accounts, CancelBroadcast(a)
        PROVE  TextsInv'
    BY <1>1, <1>4 DEF CancelBroadcast, lockVars
  <1>5. ASSUME NEW a \in Accounts, NEW x \in Texts, Announced(a, x)
        PROVE  TextsInv'
    <2>1. CASE \E found \in BOOLEAN : PickAudience(a, x, found)
      BY <2>1, UntouchedTexts DEF PickAudience, slotVars, lockVars
    <2>2. QED
      BY <1>5, <2>1, TypeTextTexts, PressSendTexts DEF Announced
  <1>6. ASSUME NEW a \in Accounts, LockExpires(a) \/ CooldownEnds(a)
        PROVE  TextsInv'
    BY <1>6, UntouchedTexts DEF LockExpires, CooldownEnds, slotVars, castVars, lockVars
  <1>7. ASSUME NEW l \in Loops, EndSend(l)
        PROVE  TextsInv'
    <2>1. /\ loop[l] # NoLoop /\ loop[l].by \in Accounts
          /\ loop' = [loop EXCEPT ![l] = NoLoop]
          /\ slot' = [slot EXCEPT ![loop[l].by] = Empty]
          /\ UNCHANGED <<typed, got, late>>
      BY <1>7 DEF EndSend, EndsCleared, ClearState, TypeOK, SendLoops
    <2>2. /\ loop'[l] = NoLoop /\ \A m \in Loops : m # l => loop'[m] = loop[m]
          /\ slot'[loop[l].by].text = NoText
          /\ \A b \in Accounts : b # loop[l].by => slot'[b] = slot[b]
      BY <2>1 DEF TypeOK, Empty
    <2>3. late = {} => \A m \in Loops : m # l /\ loop[m] # NoLoop
             => loop[m].by # loop[l].by /\ loop[m].by \in Accounts
      BY <2>1 DEF JobsInv, OneJobEach, TypeOK, SendLoops
    <2>4. QED
      BY <2>1, <2>2, <2>3, TextsKept
  <1>8. ASSUME NEW t \in Tokens, TokenExpires(t) \/ Renewed(t)
        PROVE  TextsInv'
    BY <1>8, UntouchedTexts DEF TokenExpires, Renewed, slotVars, castVars, lockVars
  <1>9. CASE Restart
    <2>1. /\ \A a \in Accounts : slot'[a].text = NoText
          /\ \A l \in Loops : loop'[l] = NoLoop
          /\ UNCHANGED <<typed, got, late>>
      BY <1>9 DEF Restart, Empty
    <2>2. \A l \in Loops : loop[l] # NoLoop => loop[l].by \in Accounts
      BY DEF TypeOK, SendLoops
    <2>3. QED
      BY <2>1, <2>2, TextsKept
  <1>10. CASE UNCHANGED vars
    BY <1>10, UntouchedTexts DEF vars, slotVars, castVars, lockVars
  <1>11. QED
    BY <1>2, <1>3, <1>4, <1>5, <1>6, <1>7, <1>8, <1>9, <1>10, SendOneTexts DEF Next

-----------------------------------------------------------------------------
(* Bank details and links.                                                 *)

\* A step that changes the bank details runs one token, sets what its card shows, and
\* leaves every other live token what its card shows.
BankStep ==
    bank' # bank => \E t \in Tokens :
        /\ runs' = [runs EXCEPT ![t] = @ + 1]
        /\ bank' = card[t].action
        /\ \A k \in Tokens \ {t} : Purged[k] # NoCard => pending'[k] = card[k]

\* A step that makes an account a link ends a renewal of its own.
LinkStep == \A a \in Accounts : links'[a] > links[a] => a \notin cooling \/ a \in late

\* Details are stored only as the card showed them.
LEMMA NextBank == ASSUME TypeOK, TokensRunOnce, [Next]_vars PROVE BankStep
  <1>1. ASSUME NEW a \in Accounts, NEW t \in Tokens, ConfirmBank(a, t)
        PROVE  BankStep
    <2>1. /\ pending \in [Tokens -> Cards \cup {NoCard}]
          /\ bank' \in {bank, pending[t].action}
          /\ runs' = [runs EXCEPT ![t] = @ + 1]
      BY <1>1 DEF ConfirmBank, Confirmed, TypeOK, ConfirmTypeOK
    <2>2. pending[t] = card[t]
      BY <1>1 DEF ConfirmBank, Confirmed, Valid, Purged, TokensRunOnce
    <2>3. \A k \in Tokens \ {t} : Purged[k] # NoCard => pending'[k] = card[k]
      BY <1>1, <2>1 DEF ConfirmBank, Confirmed, Consumes, Purged, TokensRunOnce
    <2>4. QED
      BY <2>1, <2>2, <2>3 DEF BankStep
  <1>2. ASSUME NEW a \in Accounts, Prompted(a) \/ Left(a)
        PROVE  UNCHANGED bank
    BY <1>2, SlotStep, TypeParts DEF SlotOnly
  <1>3. ASSUME NEW a \in Accounts, NEW t \in Tokens, Asked(a, t), ~ConfirmBank(a, t)
        PROVE  UNCHANGED bank
    BY <1>3, MintStep DEF Asked, ConfirmPanelAction, ConfirmNewlink, Declined
  <1>4. ASSUME NEW a \in Accounts, NEW x \in Texts, Announced(a, x)
        PROVE  UNCHANGED bank
    BY <1>4 DEF Announced, TypeText, PickAudience, PressSend
  <1>5. ASSUME NEW a \in Accounts, CancelBroadcast(a) \/ LockExpires(a) \/ CooldownEnds(a)
        PROVE  UNCHANGED bank
    BY <1>5 DEF CancelBroadcast, LockExpires, CooldownEnds
  <1>6. ASSUME NEW l \in Loops, EndSend(l) \/ \E u \in Users : SendOne(l, u)
        PROVE  UNCHANGED bank
    BY <1>6 DEF EndSend, SendOne
  <1>7. ASSUME NEW t \in Tokens, TokenExpires(t) \/ Renewed(t)
        PROVE  UNCHANGED bank
    BY <1>7 DEF TokenExpires, Renewed
  <1>8. CASE Restart \/ UNCHANGED vars
    BY <1>8 DEF Restart, vars, BankStep
  <1>9. QED
    BY <1>1, <1>2, <1>3, <1>4, <1>5, <1>6, <1>7, <1>8 DEF Next, BankStep

\* A link is made by a renewal of the account, one at a time, after its wait.
LEMMA NextLinks == ASSUME TypeOK, JobsInv, [Next]_vars PROVE LinkStep
  <1>1. ASSUME UNCHANGED links
        PROVE  LinkStep
    BY <1>1 DEF LinkStep, TypeOK
  <1>2. ASSUME NEW t \in Tokens, Renewed(t)
        PROVE  LinkStep
    <2>1. \A a \in Accounts : links'[a] # links[a] => a = card[t].admin
      BY <1>2 DEF Renewed, TypeOK
    <2>2. card[t].admin \notin cooling \/ card[t].admin \in late
      BY <1>2 DEF Renewed, JobsInv, RenewsWhenCool
    <2>3. QED
      BY <2>1, <2>2 DEF LinkStep, TypeOK
  <1>3. ASSUME NEW a \in Accounts, Prompted(a) \/ Left(a)
        PROVE  UNCHANGED links
    BY <1>3, SlotStep, TypeParts DEF SlotOnly, linkVars
  <1>4. ASSUME NEW a \in Accounts, NEW t \in Tokens, Asked(a, t)
        PROVE  UNCHANGED links
    BY <1>4, MintStep
    DEF Asked, ConfirmBank, ConfirmPanelAction, ConfirmNewlink, Declined, linkVars
  <1>5. ASSUME NEW a \in Accounts, NEW x \in Texts, Announced(a, x)
        PROVE  UNCHANGED links
    BY <1>5 DEF Announced, TypeText, PickAudience, PressSend, linkVars
  <1>6. ASSUME NEW a \in Accounts, CancelBroadcast(a) \/ LockExpires(a) \/ CooldownEnds(a)
        PROVE  UNCHANGED links
    BY <1>6 DEF CancelBroadcast, LockExpires, CooldownEnds, linkVars
  <1>7. ASSUME NEW l \in Loops, EndSend(l) \/ \E u \in Users : SendOne(l, u)
        PROVE  UNCHANGED links
    BY <1>7 DEF EndSend, SendOne, linkVars
  <1>8. ASSUME NEW t \in Tokens, TokenExpires(t)
        PROVE  UNCHANGED links
    BY <1>8 DEF TokenExpires, linkVars
  <1>9. CASE Restart \/ UNCHANGED vars
    BY <1>1, <1>9 DEF Restart, vars, linkVars
  <1>10. QED
    BY <1>1, <1>2, <1>3, <1>4, <1>5, <1>6, <1>7, <1>8, <1>9 DEF Next

-----------------------------------------------------------------------------
(* The theorems.                                                           *)

DeskInv == TypeOK /\ TypedWhereAsked /\ TokensRunOnce /\ JobsInv /\ TextsInv

\* The desk starts empty.
LEMMA InitDesk == Init => DeskInv
  <1> SUFFICES ASSUME Init
               PROVE  DeskInv
    OBVIOUS
  <1>1. TypeOK
    BY EmptyIsSlot
    DEF Init, ConfirmInit, TypeOK, ConfirmTypeOK, Nothing, States
  <1>2. \A a \in Accounts : slot[a] = Empty /\ slot[a].state = "none" /\ slot[a].text = NoText
    BY DEF Init, Empty
  <1>3. TypedWhereAsked /\ TokensRunOnce
    BY <1>2 DEF Init, ConfirmInit, TypedWhereAsked, TokensRunOnce
  <1>4. JobsInv
    BY DEF Init, JobsInv, RenewingMinted, OneJobEach, RenewsWhenCool
  <1>5. TextsInv
    BY <1>2 DEF Init, TextsInv, TextsTypedOnce, NotYetReceived, OneCopyEach
  <1>6. QED
    BY <1>1, <1>3, <1>4, <1>5 DEF DeskInv

\* Every step keeps all of it.
LEMMA NextDesk ==
    DeskInv /\ [Next]_vars => DeskInv' /\ RunStep /\ BankStep /\ LinkStep
  <1> SUFFICES ASSUME DeskInv, [Next]_vars
               PROVE  DeskInv' /\ RunStep /\ BankStep /\ LinkStep
    OBVIOUS
  <1>1. TypeOK /\ TypedWhereAsked /\ TokensRunOnce /\ JobsInv /\ TextsInv
    BY DEF DeskInv
  <1>2. TypeOK'
    BY <1>1, NextTypes DEF JobsInv
  <1>3. TypedWhereAsked'
    BY <1>1, NextPrompts
  <1>4. TokensRunOnce' /\ RunStep /\ CardsStay
    BY <1>1, NextTokens
  <1>5. JobsInv' /\ TextsInv'
    BY <1>1, <1>4, NextJobs, NextTexts
  <1>6. BankStep /\ LinkStep
    BY <1>1, NextBank, NextLinks
  <1>7. QED
    BY <1>2, <1>3, <1>4, <1>5, <1>6 DEF DeskInv

\* So it always holds.
LEMMA DeskInvariant == Spec => []DeskInv
  <1>1. QED
    BY InitDesk, NextDesk, PTL DEF Spec

\* Types: the state storage, the store of confirmations and the broadcasts under way.
THEOREM DeskTypeCorrect == Spec => []TypeOK
  <1>1. DeskInv => TypeOK
    BY DEF DeskInv
  <1>2. QED
    BY <1>1, DeskInvariant, PTL

\* A message typed into a prompt is taken for what the account was last asked, and for
\* the user it was asked about (set_state, delete_state and the data of telebot's slot,
\* user_card.py, users.py, settings_screen.py, support.py, broadcast.py).
THEOREM PromptsAreHonest == Spec => []TypedWhereAsked
  <1>1. DeskInv => TypedWhereAsked
    BY DEF DeskInv
  <1>2. QED
    BY <1>1, DeskInvariant, PTL

\* Nobody receives an announcement twice unless a broadcast outlived the throttle's lock
\* (_send and the lock of middlewares/throttle.py).
THEOREM OneCopyOnly == Spec => []OneCopyEach
  <1>1. DeskInv => OneCopyEach
    BY DEF DeskInv, TextsInv
  <1>2. QED
    BY <1>1, DeskInvariant, PTL

\* A confirmed action runs once per card, and never from a token that is overdue, cancelled
\* or older than the process (Confirmations.consume, cancel and purge, callbacks.py).
THEOREM TokensAreConsumed == Spec => ConfirmedOnce
  <1>1. RunStep => \A t \in Tokens : runs'[t] > runs[t] =>
                      runs[t] = 0 /\ Purged[t] # NoCard /\ pending'[t] = NoCard
    BY DEF RunStep
  <1>2. QED
    BY <1>1, NextDesk, DeskInvariant, PTL DEF Spec, ConfirmedOnce

\* The bank details become what the card whose button was pressed shows, though the value
\* comes from the store and the store keeps nothing of the card: of all the tokens alive
\* only that one is used up, and the others go on holding what their cards show
\* (Confirmations.create, consume, cancel and purge, callbacks.py; bank_action,
\* settings_screen.py).
THEOREM BankIsWhatWasShown == Spec => BankAsShown
  <1>1. BankStep => (bank' # bank => \E t \in Tokens :
                        /\ runs' = [runs EXCEPT ![t] = @ + 1]
                        /\ bank' = card[t].action
                        /\ \A k \in Tokens \ {t} :
                              Purged[k] # NoCard => pending'[k] = card[k])
    BY DEF BankStep
  <1>2. QED
    BY <1>1, NextDesk, DeskInvariant, PTL DEF Spec, BankAsShown

\* An account renews its link once per cool-down unless a renewal outlived its lock
\* (_regen_allowed and _confirm_newlink, profile.py).
THEOREM LinksAreRare == Spec => LinksAreSpaced
  <1>1. LinkStep => \A a \in Accounts : links'[a] > links[a] => a \notin cooling \/ a \in late
    BY DEF LinkStep
  <1>2. QED
    BY <1>1, NextDesk, DeskInvariant, PTL DEF Spec, LinksAreSpaced
=============================================================================
