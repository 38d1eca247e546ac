-------------------------- MODULE Admission_proofs --------------------------
(***************************************************************************)
(* For any users, ban list, panel, invites and access modes: the bans the  *)
(* import takes over, the uses of an invite, what an import leaves alone,  *)
(* and the types.                                                          *)
(***************************************************************************)
EXTENDS Admission, FiniteSetTheorems, TLAPS

(* Bans.                                                                   *)

\* Who is under a ban that was imported has no handler under way, and no handler
\* runs while a process imports.
BanInv ==
    /\ row \in [Users -> Statuses]
    /\ pc \in [Users -> {"idle", "start", "row", "client"}]
    /\ todo \subseteq Users
    /\ \A u \in Users : pc[u] # "idle" => proc = "up"
    /\ \A u \in (whole \ lifted) \cap Users : row[u] = "blocked" /\ pc[u] = "idle"
    /\ whole \subseteq Users

\* Nobody is banned at first.
LEMMA InitBanInv == Init => BanInv
  BY DEF Init, BanInv, Statuses, ImportOff

\* What the import makes of a row keeps a ban, and makes one of a listed account.
LEMMA UpsertKeepsBans ==
    ASSUME BanInv, ImportsRow
    PROVE  BanInv'
  <1>1. PICK u \in todo : /\ row' = [row EXCEPT ![u] = Upserted(u)]
                          /\ hand' = u /\ todo' = todo \ {u}
    BY DEF ImportsRow, Upsert
  <1>2. u \in Users /\ UNCHANGED <<pc, proc>> /\ proc # "up"
    BY DEF BanInv, ImportsRow, Importing, handlers
  <1>3. Upserted(u) \in Statuses /\ (u \in bans \/ row[u] = "blocked" => Upserted(u) = "blocked")
    BY <1>2 DEF BanInv, Upserted, Statuses
  <1>4. \A w \in Users : pc[w] = "idle"
    BY <1>2 DEF BanInv
  <1>5. \A w \in whole' \ lifted' : w \in whole \ lifted \/ (w = u /\ u \in bans)
    BY <1>1 DEF ImportsRow
  <1>6. whole' \subseteq Users
    BY <1>1, <1>2 DEF ImportsRow, BanInv
  <1>7. \A w \in (whole' \ lifted') \cap Users : row'[w] = "blocked"
    BY <1>1, <1>2, <1>3, <1>5 DEF BanInv
  <1>8. row' \in [Users -> Statuses] /\ todo' \subseteq Users
    BY <1>1, <1>2, <1>3 DEF BanInv
  <1>9. QED
    BY <1>2, <1>4, <1>6, <1>7, <1>8 DEF BanInv

\* Handlers: a blocked account enters none, and staff's acts but unban keep a ban.
LEMMA NextBanInv == BanInv /\ [Next]_vars => BanInv'
  <1> SUFFICES ASSUME BanInv, [Next]_vars
               PROVE  BanInv'
    OBVIOUS
  <1>1. CASE UNCHANGED vars
    BY <1>1 DEF vars, stores, importVars, handlers, ghosts, BanInv
  <1>2. CASE BootsAtOnce \/ BootsImporting \/ BootFails \/ Cli
    BY <1>2 DEF BootsAtOnce, BootsImporting, BootFails, Cli, Starts, Lists, BanInv,
                stores, importVars, handlers, ghosts
  <1>3. CASE ImportsRow
    BY <1>3, UpsertKeepsBans
  <1>4. CASE ImportsClient
    BY <1>4 DEF ImportsClient, Pin, Disable, BanInv, handlers, ghosts
  <1>5. CASE ImportEnds
    BY <1>5 DEF ImportEnds, Seed, Drops, Importing, BanInv, handlers
  <1>6. CASE Stops
    BY <1>6 DEF Stops, Drops, BanInv, stores, ghosts
  <1>7. ASSUME NEW u \in Users,
               Enter(u) \/ IsAnswered(u) \/ StartsPlainly(u) \/ EnsureClient(u)
                   \/ \E i \in InviteIds : Redeem(u, i)
        PROVE  BanInv'
    <2>1. /\ UNCHANGED <<row, todo, proc, whole, lifted>> /\ proc = "up"
          /\ row[u] # "blocked" \/ pc[u] # "idle"
          /\ \E l \in {"idle", "start", "row", "client"} : Goes(u, l)
      BY <1>7 DEF Enter, IsAnswered, StartsPlainly, EnsureClient, Redeem, Works, Up, importVars
    <2>2. QED
      BY <2>1 DEF BanInv, Goes
  <1>8. ASSUME NEW u \in Users, RequestAccess(u) \/ SetRow(u)
        PROVE  BanInv'
    <2>1. /\ UNCHANGED <<todo, proc, whole, lifted>> /\ proc = "up" /\ pc[u] # "idle"
          /\ \E l \in {"idle", "client"} : Goes(u, l)
          /\ \E s \in {"pending", "approved"} : row' = [row EXCEPT ![u] = s]
      BY <1>8 DEF RequestAccess, SetRow, Works, Up, importVars
    <2>2. QED
      BY <2>1 DEF BanInv, Goes, Statuses
  <1>9. ASSUME NEW u \in Users, Accept(u) \/ Ban(u) \/ Unban(u)
        PROVE  BanInv'
    <2>1. /\ UNCHANGED <<todo, proc, whole, pc>>
          /\ \/ /\ row[u] = "pending" /\ row' = [row EXCEPT ![u] = "approved"] /\ lifted' = lifted
             \/ row' = [row EXCEPT ![u] = "blocked"] /\ lifted' = lifted
             \/ row' = [row EXCEPT ![u] = "approved"] /\ lifted' = lifted \cup {u}
      BY <1>9 DEF Accept, Ban, Unban, ActsOnRow, Acts, Up, importVars, handlers
    <2>2. QED
      BY <2>1 DEF BanInv, Statuses
  <1>10. ASSUME NEW i \in InviteIds, MintInvite(i) \/ RevokeInvite(i)
         PROVE  BanInv'
    BY <1>10 DEF MintInvite, RevokeInvite, Acts, Up, BanInv, stores, importVars, handlers,
                 ghosts
  <1>11. CASE SetBank \/ Tick
    BY <1>11 DEF SetBank, Tick, Acts, Up, BanInv, stores, importVars, handlers, ghosts
  <1>12. QED
    BY <1>1, <1>2, <1>3, <1>4, <1>5, <1>6, <1>7, <1>8, <1>9, <1>10, <1>11 DEF Next

\* Once an import has taken a listed account it is blocked until staff unbans it,
\* for any users, ban list and panel (legacy_import.py:7).
THEOREM LegacyBansHoldAlways == Spec => []LegacyBansHold
  <1>1. BanInv => LegacyBansHold
    BY DEF BanInv, LegacyBansHold
  <1>2. QED
    BY InitBanInv, NextBanInv, <1>1, PTL DEF Spec

-----------------------------------------------------------------------------
(* Invites.                                                                *)

\* Who was let in by an invite, or is about to be.
Holders(i) == admitted[i] \cup {u \in Users : link[u] = i}

InviteInv(i) ==
    /\ IsFiniteSet(Holders(i))
    /\ invite[i] = NoInvite => Holders(i) = {}
    /\ invite[i] # NoInvite =>
         /\ Cardinality(Holders(i)) <= invite[i].uses
         /\ invite[i].cap = label[i].uses
         /\ invite[i].cap # 0 => invite[i].uses <= invite[i].cap

UsesInv ==
    /\ invite \in [InviteIds -> Rows \cup {NoInvite}]
    /\ label \in [InviteIds -> Labels]
    /\ link \in [Users -> InviteIds \cup {NoInvite}]
    /\ admitted \in [InviteIds -> SUBSET Users]
    /\ \A i \in InviteIds : InviteInv(i)

\* The button of step 2 gives back what step 1 put in it.
LEMMA ButtonDecodes ==
    ASSUME NEW uses \in UsesOptions, NEW days \in DaysOptions
    PROVE  /\ DecodedUses(Encoded(uses, days)) = uses
           /\ DecodedDays(Encoded(uses, days)) \in Nat
  <1>1. uses \in Nat /\ days \in 1..99
    BY InvitesAssumption DEF DAY_ENCODE
  <1>2. QED
    BY <1>1 DEF DecodedUses, DecodedDays, Encoded, DAY_ENCODE

\* There are no invites at first.
LEMMA InitUsesInv == Init => UsesInv
  <1> SUFFICES ASSUME Init
               PROVE  UsesInv
    OBVIOUS
  <1>1. ASSUME NEW i \in InviteIds
        PROVE  InviteInv(i)
    <2>1. Holders(i) = {}
      BY InvitesAssumption DEF Init, Holders
    <2>2. QED
      BY <2>1, FS_EmptySet DEF Init, InvitesInit, InviteInv
  <1>2. QED
    BY <1>1 DEF Init, InvitesInit, UsesInv, Labels

\* Who holds a use does not grow where the invites are left alone.
LEMMA HoldersShrink ==
    ASSUME UsesInv, UNCHANGED inviteVars,
           link' \in [Users -> InviteIds \cup {NoInvite}],
           admitted' \in [InviteIds -> SUBSET Users],
           \A i \in InviteIds : Holders(i)' \subseteq Holders(i)
    PROVE  UsesInv'
  <1>1. ASSUME NEW i \in InviteIds
        PROVE  InviteInv(i)'
    <2>1. /\ IsFiniteSet(Holders(i)') /\ IsFiniteSet(Holders(i))
          /\ Cardinality(Holders(i)') <= Cardinality(Holders(i))
      BY FS_Subset DEF UsesInv, InviteInv
    <2>2. Cardinality(Holders(i)') \in Nat /\ Cardinality(Holders(i)) \in Nat
      BY <2>1, FS_CardinalityType
    <2>3. invite'[i] = invite[i] /\ label'[i] = label[i]
      BY DEF inviteVars
    <2>4. invite[i] = NoInvite => Holders(i)' = {}
      BY DEF UsesInv, InviteInv
    <2>5. ASSUME invite[i] # NoInvite
          PROVE  Cardinality(Holders(i)') <= invite[i].uses
      <3>1. invite[i].uses \in Nat /\ Cardinality(Holders(i)) <= invite[i].uses
        BY <2>5 DEF UsesInv, InviteInv, Rows
      <3>2. QED
        BY <3>1, <2>1, <2>2
    <2>6. invite[i] # NoInvite =>
            /\ invite[i].cap = label[i].uses
            /\ invite[i].cap # 0 => invite[i].uses <= invite[i].cap
      BY DEF UsesInv, InviteInv
    <2>7. invite'[i] = NoInvite => Holders(i)' = {}
      BY <2>3, <2>4
    <2>8. invite'[i] # NoInvite => Cardinality(Holders(i)') <= invite'[i].uses
      BY <2>3, <2>5, Zenon
    <2>9. invite'[i] # NoInvite =>
            /\ invite'[i].cap = label'[i].uses
            /\ invite'[i].cap # 0 => invite'[i].uses <= invite'[i].cap
      BY <2>3, <2>6, Zenon
    <2>10. QED
      BY <2>1, <2>7, <2>8, <2>9, Zenon DEF InviteInv
  <1>2. QED
    BY <1>1 DEF UsesInv, inviteVars

\* A use that is consumed pays for the one account that consumed it.
LEMMA RedeemPays ==
    ASSUME UsesInv, NEW u \in Users, NEW i \in InviteIds, Redeem(u, i)
    PROVE  UsesInv'
  <1>1. /\ invite[i] # NoInvite /\ (invite[i].cap # 0 => invite[i].uses < invite[i].cap)
        /\ invite' = [invite EXCEPT ![i].uses = @ + 1] /\ label' = label
        /\ link' = [link EXCEPT ![u] = i] /\ admitted' = admitted
    BY DEF Redeem, Consumed, Redeemable
  <1>2. invite[i] \in Rows
    BY <1>1 DEF UsesInv
  <1>3. invite'[i] = [invite[i] EXCEPT !.uses = @ + 1] /\ invite'[i] \in Rows
    BY <1>1, <1>2 DEF UsesInv, Rows
  <1>4. \A j \in InviteIds \ {i} : invite'[j] = invite[j] /\ Holders(j)' \subseteq Holders(j)
    BY <1>1 DEF UsesInv, Holders
  <1>5. Holders(i)' = Holders(i) \cup {u}
    BY <1>1 DEF UsesInv, Holders
  <1>6. InviteInv(i)'
    <2>1. IsFiniteSet(Holders(i)) /\ Cardinality(Holders(i)) <= invite[i].uses
      BY <1>1 DEF UsesInv, InviteInv
    <2>2. /\ IsFiniteSet(Holders(i)') /\ Cardinality(Holders(i)) \in Nat
          /\ Cardinality(Holders(i)') \in {Cardinality(Holders(i)), Cardinality(Holders(i)) + 1}
      BY <1>5, <2>1, FS_AddElement, FS_CardinalityType
    <2>3. /\ invite'[i].uses = invite[i].uses + 1 /\ invite'[i].cap = invite[i].cap
          /\ invite[i].uses \in Nat /\ invite[i].cap \in Nat
      BY <1>2, <1>3 DEF Rows
    <2>4. Cardinality(Holders(i)') <= invite'[i].uses
      BY <2>1, <2>2, <2>3
    <2>5. invite'[i].cap = label'[i].uses
      BY <1>1, <2>3 DEF UsesInv, InviteInv
    <2>6. invite'[i].cap # 0 => invite'[i].uses <= invite'[i].cap
      BY <1>1, <2>3
    <2>7. invite'[i] # NoInvite \/ invite'[i] = NoInvite
      OBVIOUS
    <2>8. CASE invite'[i] # NoInvite
      BY <2>2, <2>4, <2>5, <2>6, <2>8 DEF InviteInv
    <2>9. invite'[i] # NoInvite
      BY <1>3, InvitesAssumption
    <2>10. QED
      BY <2>8, <2>9
  <1>7. \A j \in InviteIds \ {i} : InviteInv(j)'
    <2> SUFFICES ASSUME NEW j \in InviteIds \ {i}
                 PROVE  InviteInv(j)'
      OBVIOUS
    <2>1. /\ IsFiniteSet(Holders(j)') /\ IsFiniteSet(Holders(j))
          /\ Cardinality(Holders(j)') <= Cardinality(Holders(j))
      BY <1>4, FS_Subset DEF UsesInv, InviteInv
    <2>2. Cardinality(Holders(j)') \in Nat /\ Cardinality(Holders(j)) \in Nat
      BY <2>1, FS_CardinalityType
    <2>3. ASSUME invite[j] # NoInvite
          PROVE  Cardinality(Holders(j)') <= invite[j].uses
      <3>1. invite[j].uses \in Nat /\ Cardinality(Holders(j)) <= invite[j].uses
        BY <2>3 DEF UsesInv, InviteInv, Rows
      <3>2. QED
        BY <3>1, <2>1, <2>2
    <2>4. InviteInv(j) /\ label' = label /\ invite'[j] = invite[j] /\ Holders(j)' \subseteq Holders(j)
      BY <1>1, <1>4 DEF UsesInv
    <2>5. QED
      BY <2>1, <2>3, <2>4 DEF InviteInv
  <1>8. invite' \in [InviteIds -> Rows \cup {NoInvite}]
    BY <1>1, <1>3 DEF UsesInv
  <1>9. QED
    BY <1>1, <1>6, <1>7, <1>8 DEF UsesInv

\* A new invite has no holder, and the uses its button said.
LEMMA MintIsFresh ==
    ASSUME UsesInv, NEW i \in InviteIds, MintInvite(i), today \in Nat
    PROVE  UsesInv'
  <1>1. PICK uses \in UsesOptions, days \in DaysOptions : Minted(i, uses, days)
    BY DEF MintInvite
  <1> DEFINE new == [cap |-> DecodedUses(Encoded(uses, days)),
                     ends |-> today + DecodedDays(Encoded(uses, days)),
                     uses |-> 0, revoked |-> FALSE]
  <1>2. /\ invite[i] = NoInvite /\ invite' = [invite EXCEPT ![i] = new]
        /\ label' = [label EXCEPT ![i] = [uses |-> uses, days |-> days]]
        /\ UNCHANGED <<link, admitted>>
    BY <1>1 DEF Minted, MintInvite, handlers
  <1>3. new \in Rows /\ new.cap = uses /\ new.uses = 0 /\ uses \in Nat /\ days \in Nat
    BY ButtonDecodes, InvitesAssumption DEF Rows
  <1>4. invite' \in [InviteIds -> Rows \cup {NoInvite}] /\ label' \in [InviteIds -> Labels]
    BY <1>2, <1>3 DEF UsesInv, Labels
  <1>5. \A j \in InviteIds : Holders(j)' = Holders(j)
    BY <1>2 DEF Holders
  <1>6. InviteInv(i)'
    <2>1. Holders(i)' = {} /\ IsFiniteSet(Holders(i)') /\ Cardinality(Holders(i)') = 0
      BY <1>2, <1>5, FS_EmptySet DEF UsesInv, InviteInv
    <2>2. invite'[i] = new /\ label'[i].uses = uses
      BY <1>2 DEF UsesInv
    <2>3. new.cap # 0 => new.uses <= new.cap
      BY <1>3
    <2>4. Cardinality(Holders(i)') <= new.uses
      BY <1>3, <2>1
    <2>5. QED
      BY <1>3, <2>1, <2>2, <2>3, <2>4 DEF InviteInv
  <1>7. ASSUME NEW j \in InviteIds \ {i}
        PROVE  InviteInv(j)'
    BY <1>2, <1>5 DEF UsesInv, InviteInv
  <1>8. QED
    BY <1>2, <1>4, <1>6, <1>7 DEF UsesInv

\* Revoking an invite leaves its uses as they are.
LEMMA RevokeKeepsUses ==
    ASSUME UsesInv, NEW i \in InviteIds, RevokeInvite(i)
    PROVE  UsesInv'
  <1>1. /\ invite[i] # NoInvite /\ invite' = [invite EXCEPT ![i].revoked = TRUE]
        /\ UNCHANGED <<label, link, admitted>>
    BY DEF RevokeInvite, Revoked, handlers
  <1>2. invite[i] \in Rows
    BY <1>1 DEF UsesInv
  <1>3. /\ invite'[i] \in Rows /\ invite'[i].uses = invite[i].uses /\ invite'[i].cap = invite[i].cap
    BY <1>1, <1>2 DEF UsesInv, Rows
  <1>4. \A j \in InviteIds : Holders(j)' = Holders(j)
    BY <1>1 DEF Holders
  <1>5. InviteInv(i)'
    BY <1>1, <1>3, <1>4, InvitesAssumption DEF UsesInv, InviteInv
  <1>6. ASSUME NEW j \in InviteIds \ {i}
        PROVE  InviteInv(j)'
    BY <1>1, <1>4 DEF UsesInv, InviteInv
  <1>7. QED
    BY <1>1, <1>3, <1>5, <1>6 DEF UsesInv

\* Every step keeps the uses of an invite equal to its holders.
LEMMA NextUsesInv == UsesInv /\ today \in Nat /\ [Next]_vars => UsesInv' /\ (today \in Nat)'
  <1> SUFFICES ASSUME UsesInv, today \in Nat, [Next]_vars
               PROVE  UsesInv' /\ (today \in Nat)'
    OBVIOUS
  <1>0. (today \in Nat)'
    <2>1. today' = today \/ Tick
      BY DEF Next, vars, Starts, BootsAtOnce, BootsImporting, BootFails, Cli, ImportsRow,
             ImportsClient, ImportEnds, Stops, Works, Enter, IsAnswered, StartsPlainly,
             RequestAccess, Redeem, SetRow, EnsureClient, Acts, ActsOnRow, Accept, Ban,
             Unban, MintInvite, RevokeInvite, SetBank
    <2>2. QED
      BY <2>1 DEF Tick
  <1>a. ASSUME UNCHANGED <<inviteVars, link, admitted>> PROVE UsesInv'
    BY <1>a, HoldersShrink DEF UsesInv, Holders
  <1>1. CASE UNCHANGED vars
    BY <1>0, <1>1, <1>a DEF vars, handlers
  <1>2. CASE BootsAtOnce \/ BootsImporting \/ BootFails \/ Cli \/ ImportsRow \/ ImportsClient
             \/ ImportEnds \/ Tick \/ SetBank
    <2>1. UNCHANGED inviteVars /\ UNCHANGED handlers
      BY <1>2 DEF BootsAtOnce, BootsImporting, BootFails, Cli, Starts, ImportsRow,
                  ImportsClient, ImportEnds, Tick, SetBank
    <2>2. QED
      BY <2>1, <1>0, <1>a DEF handlers
  <1>3. CASE Stops
    <2>1. /\ UNCHANGED <<inviteVars, admitted>>
          /\ link' = [u \in Users |-> NoInvite]
      BY <1>3 DEF Stops
    <2>2. \A i \in InviteIds : Holders(i)' \subseteq Holders(i)
      BY <2>1, InvitesAssumption DEF Holders
    <2>3. /\ link' \in [Users -> InviteIds \cup {NoInvite}]
          /\ admitted' \in [InviteIds -> SUBSET Users]
      BY <2>1 DEF UsesInv
    <2>4. QED
      BY <1>0, <2>1, <2>2, <2>3, HoldersShrink
  <1>4. ASSUME NEW u \in Users,
               Enter(u) \/ IsAnswered(u) \/ StartsPlainly(u) \/ RequestAccess(u)
                   \/ EnsureClient(u) \/ Accept(u) \/ Ban(u) \/ Unban(u)
        PROVE  UsesInv'
    BY <1>4, <1>a DEF Enter, IsAnswered, StartsPlainly, RequestAccess, EnsureClient,
                      Accept, Ban, Unban, ActsOnRow, handlers
  <1>5. ASSUME NEW u \in Users, SetRow(u)
        PROVE  UsesInv'
    <2>1. /\ UNCHANGED inviteVars /\ link' = [link EXCEPT ![u] = NoInvite]
          /\ admitted' = [i \in InviteIds |->
                            IF i = link[u] THEN admitted[i] \cup {u} ELSE admitted[i]]
      BY <1>5 DEF SetRow
    <2>2. \A i \in InviteIds : Holders(i)' \subseteq Holders(i)
      BY <2>1, InvitesAssumption DEF UsesInv, Holders
    <2>3. /\ link' \in [Users -> InviteIds \cup {NoInvite}]
          /\ admitted' \in [InviteIds -> SUBSET Users]
      BY <2>1 DEF UsesInv
    <2>4. QED
      BY <2>1, <2>2, <2>3, HoldersShrink
  <1>6. ASSUME NEW u \in Users, NEW i \in InviteIds, Redeem(u, i)
        PROVE  UsesInv'
    BY <1>6, RedeemPays
  <1>7. ASSUME NEW i \in InviteIds, MintInvite(i)
        PROVE  UsesInv'
    BY <1>7, MintIsFresh
  <1>8. ASSUME NEW i \in InviteIds, RevokeInvite(i)
        PROVE  UsesInv'
    BY <1>8, RevokeKeepsUses
  <1>9. QED
    BY <1>0, <1>1, <1>2, <1>3, <1>4, <1>5, <1>6, <1>7, <1>8 DEF Next

\* An invite lets in no more accounts than it has uses, and is used no more often
\* than its button said, for any accounts, invites and options of the wizard
\* (invites.py:123).
THEOREM InviteHoldsAlways == Spec => []InviteHolds
  <1>1. UsesInv => InviteHolds
    <2> SUFFICES ASSUME UsesInv, NEW i \in InviteIds, invite[i] # NoInvite
                 PROVE  /\ Cardinality(admitted[i]) <= invite[i].uses
                        /\ label[i].uses # 0 => invite[i].uses <= label[i].uses
      BY DEF InviteHolds
    <2>1. /\ IsFiniteSet(Holders(i)) /\ Cardinality(Holders(i)) <= invite[i].uses
          /\ label[i].uses # 0 => invite[i].uses <= label[i].uses
      BY DEF UsesInv, InviteInv
    <2>2. /\ IsFiniteSet(admitted[i])
          /\ Cardinality(admitted[i]) <= Cardinality(Holders(i))
      BY <2>1, FS_Subset DEF Holders
    <2>3. /\ Cardinality(admitted[i]) \in Nat /\ Cardinality(Holders(i)) \in Nat
          /\ invite[i].uses \in Nat
      BY <2>1, <2>2, FS_CardinalityType DEF UsesInv, Rows
    <2>4. QED
      BY <2>1, <2>2, <2>3
  <1>2. Init => UsesInv /\ today \in Nat
    BY InitUsesInv DEF Init, InvitesInit
  <1>3. QED
    BY <1>1, <1>2, NextUsesInv, PTL DEF Spec

-----------------------------------------------------------------------------
(* What an import leaves alone.                                            *)

\* The import works on one snapshot, and until it takes a client nobody has changed
\* it since.
SnapInv ==
    /\ proc \in {"down", "boot", "cli", "up"}
    /\ bans \subseteq Listed
    /\ todo \subseteq Users /\ DOMAIN client = Users
    /\ step \in {"off", "row", "pin", "disable"}
    /\ Importing <=> step # "off"
    /\ step = "off" => todo = {}
    /\ step \in {"pin", "disable"} => hand \in Users \ todo
    /\ \A u \in todo : client[u] = snap[u]
    /\ step = "pin" => client[hand] = snap[hand]

\* No import has been made at first.
LEMMA InitSnapInv == Init => SnapInv
  BY AdmissionAssumption DEF Init, SnapInv, ImportOff, Importing

\* Every step keeps what an import must have left.
LEMMA NextSnapInv == SnapInv /\ [Next]_vars => SnapInv'
  <1> SUFFICES ASSUME SnapInv, [Next]_vars
               PROVE  SnapInv'
    OBVIOUS
  <1>1. CASE UNCHANGED vars
    BY <1>1 DEF vars, stores, importVars, SnapInv, Importing
  <1>2. CASE BootsAtOnce \/ BootsImporting \/ BootFails \/ Cli
    BY <1>2 DEF BootsAtOnce, BootsImporting, BootFails, Cli, Starts, Lists, SnapInv,
                Importing, stores, importVars
  <1>3. CASE ImportsRow
    BY <1>3 DEF ImportsRow, Upsert, SnapInv, Importing
  <1>4. CASE ImportsClient
    <2>1. /\ hand \in Users \ todo /\ UNCHANGED <<proc, todo, snap, bans>>
          /\ (step' = "disable" /\ hand' = hand) \/ step' = "row"
      BY <1>4 DEF ImportsClient, Pin, Disable, SnapInv
    <2>2. PICK due, c : Writes(due, c)
      BY <1>4 DEF ImportsClient, Pin, Disable
    <2>3. client' = client \/ client' = [client EXCEPT ![hand] = c]
      BY <2>2 DEF Writes
    <2>4. DOMAIN client' = Users /\ \A u \in todo : client'[u] = client[u]
      BY <2>1, <2>3 DEF SnapInv
    <2>5. QED
      BY <1>4, <2>1, <2>4 DEF SnapInv, ImportsClient, Importing
  <1>5. CASE ImportEnds
    BY <1>5 DEF ImportEnds, Seed, Drops, SnapInv, Importing
  <1>6. CASE Stops
    BY <1>6 DEF Stops, Drops, SnapInv, Importing, stores
  <1>7. CASE Up /\ DOMAIN client' = Users
    BY <1>7 DEF Up, importVars, SnapInv, Importing
  <1>8. CASE Tick
    BY <1>8 DEF Tick, stores, importVars, SnapInv, Importing
  <1>9. ASSUME Up, \/ UNCHANGED client
                   \/ \E c : \E u \in Users : client' = [client EXCEPT ![u] = c]
        PROVE  SnapInv'
    BY <1>7, <1>9 DEF SnapInv
  <1>10. ASSUME NEW u \in Users, EnsureClient(u) \/ Ban(u) \/ Unban(u)
         PROVE  SnapInv'
    BY <1>9, <1>10 DEF EnsureClient, Ban, Unban, Works, ActsOnRow, Acts, Switched
  <1>11. QED
    BY <1>1, <1>2, <1>3, <1>4, <1>5, <1>6, <1>8, <1>9, <1>10
          DEF Next, Works, Acts, ActsOnRow, Enter, IsAnswered, StartsPlainly, RequestAccess,
              Redeem, SetRow, Accept, MintInvite, RevokeInvite, SetBank, stores

\* A step of an import.
LEMMA ImportStepIsGentle ==
    ASSUME SnapInv, [Next]_vars, Importing
    PROVE  /\ \A u \in Users :
                /\ row[u] # "none" /\ row'[u] # row[u] => u \in Listed /\ row'[u] = "blocked"
                /\ client'[u] # client[u] =>
                      u \in Listed \/ (client[u].expiry = "unset" /\ ~client[u].enable)
           /\ bank = "own" => bank' = "own"
  <1>1. \/ UNCHANGED stores \/ ImportsRow \/ ImportsClient \/ ImportEnds
    BY DEF Next, vars, Importing, Starts, BootsAtOnce, BootsImporting, BootFails, Cli, Stops,
           Tick, Up, Works, Acts, ActsOnRow, Enter, IsAnswered, StartsPlainly, RequestAccess,
           Redeem, SetRow, EnsureClient, Accept, Ban, Unban, MintInvite, RevokeInvite, SetBank
  <1>2. CASE UNCHANGED stores
    BY <1>2 DEF stores
  <1>3. CASE ImportsRow
    <2>1. PICK u \in todo : row' = [row EXCEPT ![u] = Upserted(u)]
      BY <1>3 DEF ImportsRow, Upsert
    <2>2. \A w \in Users : row'[w] # row[w] => w = u /\ row'[w] = Upserted(u)
      BY <2>1
    <2>3. UNCHANGED <<client, bank>>
      BY <1>3 DEF ImportsRow, Upsert
    <2>4. QED
      BY <2>2, <2>3 DEF Upserted, SnapInv
  <1>4. CASE ImportsClient
    <2>1. UNCHANGED <<row, bank>>
      BY <1>4 DEF ImportsClient, Pin, Disable
    <2>2. CASE Pin
      <3>1. \A u \in Users : client'[u] # client[u] => u = hand /\ Placeholder(snap[hand])
        BY <2>2 DEF Pin, Writes, SnapInv
      <3>2. client[hand] = snap[hand]
        BY <2>2 DEF Pin, SnapInv
      <3>3. QED
        BY <2>1, <3>1, <3>2 DEF Placeholder
    <2>3. CASE Disable
      <3>1. \A u \in Users : client'[u] # client[u] => u = hand /\ hand \in bans
        BY <2>3 DEF Disable, Writes, SnapInv
      <3>2. QED
        BY <2>1, <3>1 DEF SnapInv
    <2>4. QED
      BY <1>4, <2>2, <2>3 DEF ImportsClient
  <1>5. CASE ImportEnds
    BY <1>5 DEF ImportEnds, Seed
  <1>6. QED
    BY <1>1, <1>2, <1>3, <1>4, <1>5

\* An import unblocks and revokes nobody, changes no client but a listed or a never-
\* activated one, and keeps the bank details staff has set, for any panel and ban
\* list (legacy_import.py:146-261).
THEOREM ImportIsGentleAlways == Spec => ImportIsGentle
  <1>1. SnapInv /\ [Next]_vars =>
          [Importing =>
            /\ \A u \in Users :
                  /\ row[u] # "none" /\ row'[u] # row[u] => u \in Listed /\ row'[u] = "blocked"
                  /\ client'[u] # client[u] =>
                        u \in Listed \/ (client[u].expiry = "unset" /\ ~client[u].enable)
            /\ bank = "own" => bank' = "own"]_vars
    BY ImportStepIsGentle
  <1>2. QED
    BY InitSnapInv, NextSnapInv, <1>1, PTL DEF Spec, ImportIsGentle

-----------------------------------------------------------------------------
(* Types: what an import writes to the panel is a client, since the one it *)
(* has in hand was there when it listed the panel, and still is.           *)

RestInv ==
    /\ client \in [Users -> Clients \cup {NoClient}]
    /\ snap \in [Users -> Clients \cup {NoClient}]
    /\ bank \in {"unset", "env", "own"}
    /\ hand \in Users \cup {Nobody} /\ (hand = Nobody <=> step \in {"off", "row"})
    /\ clean \in BOOLEAN /\ settled \in BOOLEAN /\ lifted \subseteq Users
    /\ runs \in Nat /\ acts \in Nat
    /\ \A u \in todo : snap[u] \in Clients
    /\ step \in {"pin", "disable"} => snap[hand] \in Clients /\ client[hand] \in Clients

\* The other variables have their types at first.
LEMMA InitRestInv == Init => RestInv
  <1> SUFFICES ASSUME Init
               PROVE  RestInv
    OBVIOUS
  <1>1. /\ client = Initial /\ snap = [u \in Users |-> NoClient] /\ bank = "unset"
        /\ hand = Nobody /\ step = "off" /\ clean = TRUE /\ settled = FALSE /\ lifted = {}
        /\ runs = 0 /\ acts = 0 /\ todo = {}
    BY DEF Init, ImportOff
  <1>2. QED
    BY <1>1, AdmissionAssumption DEF RestInv

\* One transaction or panel write of an import.
LEMMA ImportRestInv ==
    ASSUME RestInv, SnapInv, ImportsRow \/ ImportsClient \/ ImportEnds
    PROVE  RestInv'
  <1>1. CASE ImportsRow
    <2>1. PICK u \in todo : hand' = u /\ todo' = todo \ {u}
      BY <1>1 DEF ImportsRow, Upsert
    <2>2. /\ step = "row" /\ step' = "pin"
          /\ UNCHANGED <<client, bank, snap, bans, clean, runs, acts, settled>>
          /\ lifted' \subseteq lifted
      BY <1>1 DEF ImportsRow, Upsert
    <2>3. u \in Users /\ client[u] = snap[u] /\ snap[u] \in Clients /\ u # Nobody
      BY AdmissionAssumption DEF SnapInv, RestInv
    <2>4. QED
      BY <2>1, <2>2, <2>3 DEF RestInv
  <1>2. CASE ImportsClient
    <2>1. /\ step \in {"pin", "disable"} /\ hand \in Users /\ client[hand] \in Clients
          /\ UNCHANGED <<bank, todo, snap, runs, acts, settled, lifted>>
          /\ \/ step' = "disable" /\ UNCHANGED hand /\ step = "pin"
             \/ step' = "row" /\ hand' = Nobody
      BY <1>2 DEF ImportsClient, Pin, Disable, RestInv, SnapInv, ghosts
    <2>2. \E due, c : c \in Clients /\ Writes(due, c)
      <3>1. /\ [client[hand] EXCEPT !.expiry = "past"] \in Clients
            /\ [client[hand] EXCEPT !.enable = FALSE] \in Clients
        BY <2>1 DEF Clients
      <3>2. QED
        BY <1>2, <3>1 DEF ImportsClient, Pin, Disable
    <2>3. PICK due, c : c \in Clients /\ Writes(due, c)
      BY <2>2
    <2>4. /\ clean' \in BOOLEAN
          /\ client' = client \/ client' = [client EXCEPT ![hand] = c]
      BY <2>3 DEF Writes, RestInv
    <2>5. client' \in [Users -> Clients \cup {NoClient}] /\ client'[hand] \in Clients
      BY <2>1, <2>3, <2>4 DEF RestInv
    <2>6. QED
      BY <2>1, <2>4, <2>5 DEF RestInv
  <1>3. CASE ImportEnds
    BY <1>3 DEF ImportEnds, Seed, Drops, RestInv
  <1>4. QED
    BY <1>1, <1>2, <1>3

\* And after every step.
LEMMA NextRestInv == RestInv /\ SnapInv /\ [Next]_vars => RestInv'
  <1> SUFFICES ASSUME RestInv, SnapInv, [Next]_vars
               PROVE  RestInv'
    OBVIOUS
  <1>1. CASE UNCHANGED vars
    BY <1>1 DEF vars, stores, importVars, ghosts, RestInv
  <1>2. CASE BootsAtOnce \/ BootFails
    BY <1>2, AdmissionAssumption DEF BootsAtOnce, BootFails, Starts, RestInv, stores,
       importVars, ghosts
  <1>3. CASE BootsImporting \/ Cli
    <2>1. /\ step = "off" /\ step' = "row" /\ todo' = {u \in Users : client[u] # NoClient}
          /\ snap' = client /\ clean' = TRUE
          /\ UNCHANGED <<hand, client, bank, settled, lifted, acts>> /\ runs' = runs + 1
      BY <1>3 DEF BootsImporting, Cli, Starts, Lists, SnapInv, Importing, stores, ghosts
    <2>2. QED
      BY <2>1 DEF RestInv
  <1>4. CASE Stops
    BY <1>4 DEF Stops, Drops, RestInv, stores, ghosts
  <1>5. CASE Tick
    BY <1>5 DEF Tick, RestInv, stores, importVars, ghosts
  <1>6. ASSUME Up, client' \in [Users -> Clients \cup {NoClient}], bank' \in {"unset", "env", "own"},
               settled' \in BOOLEAN, lifted' \subseteq Users, acts' \in Nat
        PROVE  RestInv'
    BY <1>6 DEF Up, RestInv, SnapInv, Importing, importVars
  <1>7. ASSUME NEW u \in Users, EnsureClient(u)
        PROVE  RestInv'
    <2>1. client' \in [Users -> Clients \cup {NoClient}]
      <3>1. [enable |-> FALSE, expiry |-> "past"] \in Clients
        BY DEF Clients
      <3>2. QED
        BY <1>7, <3>1 DEF EnsureClient, RestInv
    <2>2. QED
      BY <1>6, <1>7, <2>1 DEF EnsureClient, Works, RestInv
  <1>8. ASSUME NEW u \in Users, Ban(u) \/ Unban(u)
        PROVE  RestInv'
    <2>1. \A on \in BOOLEAN : Switched(u, on) \in [Users -> Clients \cup {NoClient}]
      <3>1. \A c \in Clients, on \in BOOLEAN : [c EXCEPT !.enable = on] \in Clients
        BY DEF Clients
      <3>2. QED
        BY <3>1 DEF Switched, RestInv
    <2>2. client' \in [Users -> Clients \cup {NoClient}]
      BY <1>8, <2>1 DEF Ban, Unban, RestInv
    <2>3. /\ acts' = acts + 1 /\ settled' = FALSE /\ Up /\ UNCHANGED bank
          /\ lifted' = lifted \/ lifted' = lifted \cup {u}
      BY <1>8 DEF Ban, Unban, ActsOnRow, Acts
    <2>4. acts' \in Nat /\ lifted' \subseteq Users
      <3>1. acts \in Nat /\ lifted \subseteq Users
        BY DEF RestInv
      <3>2. QED
        BY <2>3, <3>1
    <2>5. settled' \in BOOLEAN
      BY <2>3, Zenon
    <2>6. QED
      BY <1>6, <2>2, <2>3, <2>4, <2>5 DEF RestInv
  <1>9. ASSUME Up, UNCHANGED client, bank' = bank \/ bank' = "own",
               settled' = settled \/ settled' = FALSE, UNCHANGED lifted,
               acts' = acts \/ acts' = acts + 1
        PROVE  RestInv'
    <2>1. acts' \in Nat
      <3>1. acts \in Nat
        BY DEF RestInv
      <3>2. QED
        BY <1>9, <3>1
    <2>2. settled' \in BOOLEAN
      BY <1>9, Zenon DEF RestInv
    <2>3. bank' \in {"unset", "env", "own"} /\ lifted' \subseteq Users
          /\ client' \in [Users -> Clients \cup {NoClient}]
      BY <1>9 DEF RestInv
    <2>4. QED
      BY <1>6, <1>9, <2>1, <2>2, <2>3
  <1>10. QED
    BY <1>1, <1>2, <1>3, <1>4, <1>5, <1>7, <1>8, <1>9, ImportRestInv
          DEF Next, Works, Acts, ActsOnRow, Enter, IsAnswered, StartsPlainly, RequestAccess,
              Redeem, SetRow, Accept, MintInvite, RevokeInvite, SetBank, stores, ghosts

\* Both stores, the links and the import's locals are type correct: no import writes
\* a client that is not there, and no handler runs while one is under way.
THEOREM AdmissionTypeCorrect == Spec => []TypeOK
  <1>1. BanInv /\ UsesInv /\ today \in Nat /\ SnapInv /\ RestInv => TypeOK
    <2> SUFFICES ASSUME BanInv, UsesInv, today \in Nat, SnapInv, RestInv
                 PROVE  TypeOK
      OBVIOUS
    <2>1. (step = "off") <=> (proc \in {"down", "up"})
      BY DEF SnapInv, Importing
    <2>2. ImportTypeOK
      BY DEF ImportTypeOK, BanInv, SnapInv, RestInv
    <2>3. InvitesTypeOK
      BY DEF InvitesTypeOK, UsesInv
    <2>4. QED
      BY <2>1, <2>2, <2>3 DEF TypeOK, BanInv, UsesInv, SnapInv, RestInv
  <1>2. Init => today \in Nat
    BY DEF Init, InvitesInit
  <1>3. QED
    BY <1>1, <1>2, InitBanInv, NextBanInv, InitUsesInv, NextUsesInv, InitSnapInv,
             NextSnapInv, InitRestInv, NextRestInv, PTL DEF Spec
=============================================================================
