-------------------------------- MODULE Desk --------------------------------
(***************************************************************************)
(* An account at the desk: the prompts that wait for a typed message       *)
(* (handlers/admin/user_card.py, users.py, settings_screen.py, support.py),*)
(* the broadcast (handlers/broadcast.py) and what is confirmed by a button *)
(* (Confirmations), the renewal of its own link (handlers/profile.py) too. *)
(* All prompts of an account share one slot of telebot's FSM storage:      *)
(* set_state leaves the slot's data, delete_state drops both.  The throttle*)
(* admits one update of an account at a time, until the lock of a long one *)
(* is taken for leaked; every handler but the send loop and the renewal is *)
(* short, and one step.                                                    *)
(***************************************************************************)
EXTENDS Confirmations

CONSTANTS
    Users,         \* the customers
    Texts,         \* announcements, each typed once
    BankDetails,   \* Actions of ACTION_BANK, by the value they would store
    Newlink,       \* the Action of ACTION_NEWLINK: the account's own link
    Loops,         \* bound: broadcasts that run at once
    ProgressEvery, \* PROGRESS_EVERY
    Nobody, NoText, NoLoop, NoBank

\* The card's and the server's actions, on a user or on Xray, are calls of the gateway.
PanelActions == Actions \ (BankDetails \cup {Newlink})

ASSUME DeskAssumption ==
    /\ ProgressEvery \in Nat \ {0}
    /\ BankDetails \subseteq Actions \ {Newlink} /\ Newlink \in Actions

VARIABLES
    slot,      \* the account's entry in the state storage
    locked,    \* accounts the throttle holds a lock for
    loop,      \* the broadcasts under way
    renewing,  \* confirmed Newlink tokens whose call of the panel is under way
    cooling,   \* accounts with a _last_regen within REGEN_COOLDOWN
    audiences, \* audience cards on the account's screen, by the text that brought them
    previews,  \* those that are a preview by now, and the text they show
    bank,      \* the setting bank_details: whose confirmation set it
    typed,     \* texts used up
    asked,     \* the prompt the account last saw and has not left; for the properties
    got,       \* copies of a text a user received; for the properties
    links,     \* links an account made itself; for the properties
    late       \* accounts one of whose updates outlived its lock; for the properties

linkVars  == <<renewing, cooling, links>>
slotVars  == <<slot, asked>>
castVars  == <<loop, audiences, previews, typed, got>>
lockVars  == <<locked, late>>
vars      == <<confirmVars, linkVars, slotVars, castVars, lockVars, bank>>

States    == {"none", "grant", "write", "search", "help", "broadcast", "bank"}
Slots     == [state : States, grantTo : Users \cup {Nobody}, writeTo : Users \cup {Nobody},
              text : Texts \cup {NoText}]
Previews  == [card : Texts, text : Texts]
Empty     == [state |-> "none", grantTo |-> Nobody, writeTo |-> Nobody,
              text |-> NoText]
SendLoops == [by : Accounts, text : Texts, left : SUBSET Users, index : Nat, from : Previews]
Nothing   == <<"none", Nobody>>

ASSUME LoopAssumption == NoLoop \notin SendLoops

TypeOK ==
    /\ ConfirmTypeOK
    /\ slot \in [Accounts -> Slots]
    /\ locked \subseteq Accounts /\ late \subseteq Accounts
    /\ loop \in [Loops -> SendLoops \cup {NoLoop}]
    /\ audiences \in [Accounts -> SUBSET Texts] /\ previews \in [Accounts -> SUBSET Previews]
    /\ typed \subseteq Texts
    /\ bank \in BankDetails \cup {NoBank}
    /\ asked \in [Accounts -> States \X (Users \cup {Nobody})]
    /\ got \in [Users -> [Texts -> Nat]]
    /\ renewing \subseteq Tokens /\ cooling \subseteq Accounts
    /\ links \in [Accounts -> Nat]

Init ==
    /\ ConfirmInit
    /\ slot = [a \in Accounts |-> Empty]
    /\ locked = {} /\ late = {} /\ typed = {}
    /\ loop = [l \in Loops |-> NoLoop]
    /\ audiences = [a \in Accounts |-> {}] /\ previews = [a \in Accounts |-> {}]
    /\ bank = NoBank
    /\ asked = [a \in Accounts |-> Nothing]
    /\ got = [u \in Users |-> [x \in Texts |-> 0]]
    /\ renewing = {} /\ cooling = {}
    /\ links = [a \in Accounts |-> 0]

-----------------------------------------------------------------------------
(* The slot.                                                               *)

\* Throttle: the handlers of this update run.
Admitted(a) == a \notin locked

SetState(a, state) == slot' = [slot EXCEPT ![a].state = state]

\* _clear_state of every screen: delete_state.
ClearState(a) == slot' = [slot EXCEPT ![a] = Empty]

Asks(a, what) == asked' = [asked EXCEPT ![a] = what]


\* A message or a button that concerns the slot only.
SlotOnly(a) ==
    /\ Admitted(a)
    /\ UNCHANGED <<confirmVars, linkVars, castVars, lockVars, bank>>

\* Mutant: the target is not stored with the state.
PromptsUntargeted(a, u) == SetState(a, "grant")

\* _prompt_custom_grant: state and target.
PromptsGrant(a, u) == slot' = [slot EXCEPT ![a].state = "grant", ![a].grantTo = u]

PromptGrant(a, u) == SlotOnly(a) /\ PromptsGrant(a, u) /\ Asks(a, <<"grant", u>>)

\* enter_writing_to_user, from the card or by /support_user.
PromptWrite(a, u) ==
    /\ SlotOnly(a)
    /\ slot' = [slot EXCEPT ![a].state = "write", ![a].writeTo = u]
    /\ Asks(a, <<"write", u>>)

\* The prompts without a target.
Prompts(a, state) == SlotOnly(a) /\ SetState(a, state) /\ Asks(a, <<state, Nobody>>)

PromptSearch(a)    == Prompts(a, "search")
PromptBank(a)      == Prompts(a, "bank")
PromptBroadcast(a) == Prompts(a, "broadcast")
EnterSupport(a)    == slot[a].state # "help" /\ Prompts(a, "help")

\* What leaves any prompt: a card, the list, the settings or the dashboard opened.
Leaves(a) == SlotOnly(a) /\ ClearState(a) /\ Asks(a, Nothing)

OpenCard(a)      == Leaves(a)
OpenList(a)      == Leaves(a)
OpenSettings(a)  == Leaves(a)
OpenDashboard(a) == Leaves(a)

\* What leaves its own: a number of days (valid or not), a query, an empty text for
\* the bank details, /support and a bare /support_user a second time.
TypeDays(a)     == slot[a].state = "grant"  /\ Leaves(a)
TypeQuery(a)    == slot[a].state = "search" /\ Leaves(a)
TypeNothing(a)  == slot[a].state = "bank"   /\ Leaves(a)
LeaveSupport(a) == slot[a].state = "help"   /\ Leaves(a)
LeaveWriting(a) == slot[a].state = "write"  /\ Leaves(a)

-----------------------------------------------------------------------------
(* What a button confirms.                                                 *)

\* A button or a message that mints a token for the action.
Requests(a, action, t) ==
    /\ Admitted(a)
    /\ Mint(t, a, action)
    /\ UNCHANGED <<linkVars, castVars, lockVars, bank>>

\* Mutant: the typed value is stored before it is confirmed.
StoresAtOnce(v) == bank' = v

ValueWaits(v) == UNCHANGED bank

\* admin_bank_message: the value v waits in a token.
TypeBank(a, v, t) ==
    /\ Admitted(a) /\ slot[a].state = "bank"
    /\ ClearState(a) /\ Asks(a, Nothing)
    /\ Mint(t, a, v)
    /\ ValueWaits(v)
    /\ UNCHANGED <<linkVars, castVars, lockVars>>

\* A card's new link or deletion of a user, the restart of Xray.
RequestPanelAction(a, action, t) ==
    action \in PanelActions /\ Requests(a, action, t) /\ UNCHANGED slotVars

\* Mutant: the cool-down is not looked at again.
AllowedAnyway(a) == TRUE

\* _regen_allowed.
Allowed(a) == a \notin cooling

\* _show_newlink_request: checked here, and again once it is confirmed.
RequestNewlink(a, t) ==
    Allowed(a) /\ Requests(a, Newlink, t) /\ UNCHANGED slotVars

\* bank_action stores the value the token holds; or the admin may not any more, or
\* the store fails, the token gone all the same.
ConfirmBank(a, t) ==
    /\ Admitted(a)
    /\ Confirmed(t, a) /\ pending[t].action \in BankDetails
    /\ bank' \in {bank, pending[t].action}
    /\ UNCHANGED <<linkVars, slotVars, castVars, lockVars>>

\* confirm_sub_regenerate, confirm_delete, restart_action: the gateway is called, and
\* whatever it answers is said.
ConfirmPanelAction(a, t) ==
    /\ Admitted(a)
    /\ Confirmed(t, a) /\ pending[t].action \in PanelActions
    /\ UNCHANGED <<linkVars, slotVars, castVars, lockVars, bank>>

\* _confirm_newlink up to the gateway's lock; or refused, the token gone all the same.
ConfirmNewlink(a, t) ==
    /\ Admitted(a)
    /\ Confirmed(t, a) /\ pending[t].action = Newlink
    /\ IF Allowed(a)
       THEN renewing' = renewing \cup {t} /\ locked' = locked \cup {a}
       ELSE UNCHANGED <<renewing, locked>>
    /\ UNCHANGED <<cooling, links, slotVars, castVars, late, bank>>

\* regenerate_sub_id answers: only a success starts the cool-down.
Renewed(t) ==
    LET a == card[t].admin IN
    /\ t \in renewing
    /\ renewing' = renewing \ {t} /\ locked' = locked \ {a}
    /\ \/ links' = [links EXCEPT ![a] = @ + 1] /\ cooling' = cooling \cup {a}
       \/ UNCHANGED <<links, cooling>>
    /\ UNCHANGED <<confirmVars, slotVars, castVars, late, bank>>

\* A cf: button that runs nothing.
Declined(a, t) ==
    /\ Admitted(a)
    /\ Refused(t, a) \/ Cancelled(t, a)
    /\ UNCHANGED <<linkVars, slotVars, castVars, lockVars, bank>>

-----------------------------------------------------------------------------
(* The broadcast.                                                          *)

\* /broadcast <text>, or a text typed into the prompt: the audience card.
TypeText(a, x) ==
    /\ Admitted(a) /\ x \notin typed
    /\ typed' = typed \cup {x}
    /\ slot' = [slot EXCEPT ![a].state = "broadcast", ![a].text = x]
    /\ Asks(a, <<"broadcast", Nobody>>)
    /\ audiences' = [audiences EXCEPT ![a] = @ \cup {x}]
    /\ UNCHANGED <<confirmVars, linkVars, lockVars, loop, previews, got, bank>>

\* _cancel, from the prompt, an audience card or a preview: it becomes the menu.
CancelBroadcast(a) ==
    /\ Admitted(a)
    /\ ClearState(a) /\ Asks(a, Nothing)
    /\ \/ UNCHANGED <<audiences, previews>>
       \/ \E x \in audiences[a] :
             audiences' = [audiences EXCEPT ![a] = @ \ {x}] /\ UNCHANGED previews
       \/ \E p \in previews[a] :
             previews' = [previews EXCEPT ![a] = @ \ {p}] /\ UNCHANGED audiences
    /\ UNCHANGED <<confirmVars, linkVars, lockVars, loop, typed, got, bank>>

\* Mutant: an empty slot is not noticed.
AnyText(a) == TRUE

\* The text _load finds, if any.
HasText(a) == slot[a].text # NoText

\* _preview: the pressed audience card becomes the preview.  audience_ids finds anyone:
\* everyone approved and reachable, those among them whom the panel calls active or
\* soon to expire, or nobody, when the panel does not answer.
PickAudience(a, x, found) ==
    /\ Admitted(a) /\ x \in audiences[a] /\ HasText(a)
    /\ audiences' = [audiences EXCEPT ![a] = @ \ {x}]
    /\ previews' = IF ~found THEN previews
          ELSE [previews EXCEPT ![a] = @ \cup {[card |-> x, text |-> slot[a].text]}]
    /\ UNCHANGED <<confirmVars, linkVars, slotVars, lockVars, loop, typed, got, bank>>

\* _send: whatever text the slot holds by now, its recipients resolved anew.
PressSend(a, p, l, targets) ==
    /\ Admitted(a) /\ p \in previews[a] /\ HasText(a) /\ loop[l] = NoLoop
    /\ IF targets = {}
       THEN /\ ClearState(a) /\ Asks(a, Nothing)
            /\ previews' = [previews EXCEPT ![a] = @ \ {p}]
            /\ UNCHANGED <<locked, loop>>
       ELSE /\ locked' = locked \cup {a}
            /\ loop' = [loop EXCEPT ![l] = [by |-> a, text |-> slot[a].text,
                                           left |-> targets, index |-> 0, from |-> p]]
            /\ UNCHANGED <<slotVars, previews>>
    /\ UNCHANGED <<confirmVars, linkVars, audiences, bank, typed, got, late>>

\* safe_send to the next target: it arrives, or not.  The progress line overwrites
\* the card and its buttons.
SendOne(l, u) ==
    LET run == loop[l] IN
    /\ run # NoLoop /\ u \in run.left
    /\ loop' = [loop EXCEPT ![l] = [run EXCEPT !.left = @ \ {u}, !.index = @ + 1]]
    /\ previews' = IF (run.index + 1) % ProgressEvery = 0
                   THEN [previews EXCEPT ![run.by] = @ \ {run.from}] ELSE previews
    /\ got' \in {got, [got EXCEPT ![u][run.text] = @ + 1]}
    /\ UNCHANGED <<confirmVars, linkVars, slotVars, lockVars, audiences, typed, bank>>

\* Mutant: the text outlives its broadcast.
EndsUncleared(a) == UNCHANGED slot

EndsCleared(a) == ClearState(a)

\* The summary, the slot dropped, and post_process pops the account's lock.
EndSend(l) ==
    LET a == loop[l].by IN
    /\ loop[l] # NoLoop /\ loop[l].left = {}
    /\ EndsCleared(a)
    /\ previews' = [previews EXCEPT ![a] = @ \ {loop[l].from}]
    /\ loop' = [loop EXCEPT ![l] = NoLoop]
    /\ locked' = locked \ {a}
    /\ UNCHANGED <<confirmVars, linkVars, audiences, bank, typed, asked, got, late>>

-----------------------------------------------------------------------------
(* The surroundings.                                                       *)

\* The throttle takes the lock of a broadcast or of a renewal for leaked.
LockExpires(a) ==
    /\ a \in locked
    /\ locked' = locked \ {a} /\ late' = late \cup {a}
    /\ UNCHANGED <<confirmVars, linkVars, slotVars, castVars, bank>>

TokenExpires(t) == Expires(t) /\ UNCHANGED <<linkVars, slotVars, castVars, lockVars, bank>>

\* REGEN_COOLDOWN has passed.
CooldownEnds(a) ==
    /\ a \in cooling
    /\ cooling' = cooling \ {a}
    /\ UNCHANGED <<confirmVars, renewing, links, slotVars, castVars, lockVars, bank>>

\* The process is restarted; table, screens and customers stay as they are.
Restart ==
    /\ Forgotten
    /\ slot' = [a \in Accounts |-> Empty]
    /\ asked' = [a \in Accounts |-> Nothing]
    /\ loop' = [l \in Loops |-> NoLoop]
    /\ locked' = {} /\ renewing' = {} /\ cooling' = {}
    /\ UNCHANGED <<audiences, previews, bank, typed, got, links, late>>

Prompted(a) ==
    \/ \E u \in Users : PromptGrant(a, u) \/ PromptWrite(a, u)
    \/ PromptSearch(a) \/ PromptBank(a) \/ PromptBroadcast(a) \/ EnterSupport(a)

Left(a) ==
    \/ OpenCard(a) \/ OpenList(a) \/ OpenSettings(a) \/ OpenDashboard(a)
    \/ TypeDays(a) \/ TypeQuery(a) \/ TypeNothing(a)
    \/ LeaveSupport(a) \/ LeaveWriting(a)

Asked(a, t) ==
    \/ \E v \in BankDetails : TypeBank(a, v, t)
    \/ \E action \in PanelActions : RequestPanelAction(a, action, t)
    \/ RequestNewlink(a, t)
    \/ ConfirmBank(a, t) \/ ConfirmPanelAction(a, t) \/ ConfirmNewlink(a, t)
    \/ Declined(a, t)

Announced(a, x) ==
    \/ TypeText(a, x)
    \/ \E found \in BOOLEAN : PickAudience(a, x, found)
    \/ \E p \in previews[a], l \in Loops, targets \in SUBSET Users :
          PressSend(a, p, l, targets)

Next ==
    \/ \E a \in Accounts :
          \/ Prompted(a) \/ Left(a) \/ CancelBroadcast(a)
          \/ \E t \in Tokens : Asked(a, t)
          \/ \E x \in Texts : Announced(a, x)
          \/ LockExpires(a) \/ CooldownEnds(a)
    \/ \E l \in Loops : EndSend(l) \/ \E u \in Users : SendOne(l, u)
    \/ \E t \in Tokens : TokenExpires(t) \/ Renewed(t)
    \/ Restart

Spec == Init /\ [][Next]_vars

-----------------------------------------------------------------------------
(* Correctness.                                                            *)

\* A typed message goes nowhere but where the account was last asked: for the
\* same purpose and the same user, whatever was begun and left before, and
\* whatever a broadcast dropped meanwhile ("a stray number must not pick a
\* victim", user_card.py:1002).
TypedWhereAsked ==
    \A a \in Accounts : slot[a].state # "none" =>
        /\ slot[a].state = asked[a][1]
        /\ slot[a].state = "grant" => slot[a].grantTo = asked[a][2]
        /\ slot[a].state = "write" => slot[a].writeTo = asked[a][2]

\* A user gets an announcement once, however often Send is pressed on whatever
\* cards are left, and across a restart; unless a broadcast outlived its lock.
OneCopyEach ==
    \A u \in Users, x \in Texts :
        got[u][x] > 1 => \E a \in Accounts : a \in late

\* The process runs an action at most once per card, and only while the token is
\* neither overdue nor cancelled nor from before a restart.
ConfirmedOnce ==
    [][\A t \in Tokens : runs'[t] > runs[t] =>
          runs[t] = 0 /\ Purged[t] # NoCard /\ pending'[t] = NoCard]_vars

\* The bank details become what the card whose button was pressed shows, and only that
\* card's token is used up: whatever other previews of the same account are open, were
\* cancelled or expired ("a confirmation minted for one admin/action can never be reused
\* for another", callbacks.py:399-400).
BankAsShown ==
    [][bank' # bank => \E t \in Tokens :
          /\ runs' = [runs EXCEPT ![t] = @ + 1]
          /\ bank' = card[t].action
          /\ \A k \in Tokens \ {t} : Purged[k] # NoCard => pending'[k] = card[k]]_vars

\* An account makes itself one new link per cool-down, however many cards it asked for
\* before the first was confirmed ("so a user cannot queue a second regeneration",
\* profile.py:445); unless a renewal outlived its lock.
LinksAreSpaced ==
    [][\A a \in Accounts : links'[a] > links[a] => a \notin cooling \/ a \in late]_vars

\* "The admin picks an audience, sees a preview with the recipient count, and
\* confirms" (broadcast.py:3): what is sent is what the confirmed preview shows.
SentAsPreviewed == \A l \in Loops : loop[l] # NoLoop => loop[l].text = loop[l].from.text
=============================================================================
