---------------------------- MODULE LlmKeysProofs ----------------------------
(* What holds of keys.py for any number of students, groups, mints and        *)
(* failures.  The invariant says what the run of a mint knows of the proxy:   *)
(* the keys it found and has not come to are still there, the ones it issued  *)
(* are live or blocked and their owners', and a student it found no key of,   *)
(* or whose key it has just deleted, has none.                                *)
EXTENDS LlmKeys, TLAPS

Generating(s) == mint.pc = "generate" /\ mint.who = s

(* The proxy's records: a key that was issued has an owner and a team.        *)
KeyShape ==
    \A k \in KeyIds :
        \/ keys[k] = Unissued
        \/ /\ keys[k].state \in {"live", "blocked", "deleted"}
           /\ keys[k].owner \in Students /\ keys[k].team \in Groups

(* The runs' own data.                                                        *)
AccessShape ==
    access # NoAccess => access.key \in KeyIds /\ access.verb \in {"blocked", "live"}

MintShape ==
    /\ mint.left \subseteq OnRoster
    /\ mint.pc = "idle" => mint = NoMint
    /\ mint.pc \in {"idle", "teams"} => mint.left = {} /\ mint.issued = EmptyFile
    /\ mint.pc = "generate" =>
          mint.who \in mint.left /\ mint.rotate /\ mint.existing[mint.who] # NoKey

AtRows == mint.pc \in {"rows", "generate"}

(* What /key/list said of the students still to come.                         *)
FoundHolds ==
    AtRows =>
        \A s \in OnRoster :
            /\ mint.existing[s] # NoKey =>
                  /\ keys[mint.existing[s]].owner = s
                  /\ keys[mint.existing[s]].team \in RosterTeams
                  /\ (s \in mint.left /\ ~Generating(s)) \/ ~mint.rotate => Held(mint.existing[s])
            /\ s \in mint.left \ strayed /\ (mint.existing[s] = NoKey \/ Generating(s)) =>
                  KeysOf(s) = {}

(* What it has issued, and to whom it need not.                               *)
IssuedHolds ==
    \A s \in Students :
        /\ mint.issued[s] # NoKey =>
              /\ s \in OnRoster \ mint.left
              /\ Held(mint.issued[s])
              /\ keys[mint.issued[s]].owner = s
              /\ keys[mint.issued[s]].team = GroupOf(s)
              /\ mint.issued[s] # mint.existing[s]
        /\ AtRows /\ s \in OnRoster \ mint.left /\ mint.issued[s] = NoKey =>
              ~mint.rotate /\ mint.existing[s] # NoKey

TeamsUpToDate == AtRows => \A g \in RosterTeams : teams[g].models = mint.models

LlmInv ==
    /\ LlmTypeOK /\ KeyShape /\ AccessShape /\ MintShape
    /\ FoundHolds /\ IssuedHolds /\ TeamsUpToDate
    /\ OneKeyEach /\ FileKeysWork

-----------------------------------------------------------------------------
LEMMA RosterShape ==
    ASSUME NEW roster \in Rosters
    PROVE  /\ DOMAIN roster \subseteq Students
           /\ \A s \in DOMAIN roster : roster[s] \in Groups
  BY DEF Rosters

LEMMA MintRosterShape ==
    ASSUME LlmTypeOK
    PROVE  /\ OnRoster \subseteq Students
           /\ \A s \in OnRoster : GroupOf(s) \in Groups
           /\ RosterTeams \subseteq Groups
  <1>1. CASE mint.roster = <<>>
    BY <1>1 DEF OnRoster, GroupOf, RosterTeams
  <1>2. CASE mint.roster \in Rosters
    BY <1>2, RosterShape DEF OnRoster, GroupOf, RosterTeams
  <1>. QED BY <1>1, <1>2 DEF LlmTypeOK, Mint

LEMMA EmptyFileShape == EmptyFile \in [Students -> MaybeKey]
  BY LlmAssumption DEF EmptyFile, MaybeKey, NoKey

LEMMA LlmInitially == LlmInit => LlmInv
  <1>. SUFFICES ASSUME LlmInit PROVE LlmInv
    OBVIOUS
  <1>. USE LlmAssumption DEF LlmInit
  <1>a. EmptyFile \in [Students -> MaybeKey]
    BY EmptyFileShape
  <1>b. NoMint \in Mint
    BY <1>a DEF NoMint, Mint
  <1>c. Unissued \in Key /\ NoAccess \in [verb : {"none", "blocked", "live"}, key : MaybeKey]
    BY DEF Unissued, Key, NoAccess, MaybeKey, NoKey
  <1>d. NoTeam \in [cap : Nat, models : Nat]
    BY DEF NoTeam
  <1>e. faults \in 0..MaxFaults /\ commands \in 0..MaxCommands
    OBVIOUS
  <1>f. /\ teams \in [Groups -> [cap : Nat, models : Nat]]
        /\ keys \in [KeyIds -> Key]
    BY <1>c, <1>d
  <1>1. LlmTypeOK
    BY <1>a, <1>b, <1>c, <1>e, <1>f DEF LlmTypeOK
  <1>2. KeyShape /\ AccessShape /\ MintShape /\ TeamsUpToDate
    BY DEF KeyShape, AccessShape, MintShape, TeamsUpToDate, AtRows, NoMint, OnRoster
  <1>3. FoundHolds /\ IssuedHolds
    BY DEF FoundHolds, IssuedHolds, AtRows, NoMint, EmptyFile
  <1>4. OneKeyEach /\ FileKeysWork
    BY DEF OneKeyEach, FileKeysWork, KeysOf, Held, Unissued, EmptyFile
  <1>. QED BY <1>1, <1>2, <1>3, <1>4 DEF LlmInv

-----------------------------------------------------------------------------
(* What the two changes of a key do to the keys of a student.                 *)

LEMMA KeyCreated ==
    ASSUME LlmTypeOK, NEW s \in Students, NEW g \in Groups, NEW k \in KeyIds,
           keys[k] = Unissued, CreateKey(k, s, g)
    PROVE  /\ keys' \in [KeyIds -> Key]
           /\ \A l \in KeyIds \ {k} : keys'[l] = keys[l] /\ (Held(l)' <=> Held(l))
           /\ Held(k)' /\ keys'[k].owner = s /\ keys'[k].team = g
           /\ KeysOf(s)' = KeysOf(s) \cup {k}
           /\ \A t \in Students \ {s} : KeysOf(t)' = KeysOf(t)
  <1>1. [state |-> "live", owner |-> s, team |-> g] \in Key
    BY DEF Key
  <1>2. /\ keys' \in [KeyIds -> Key]
        /\ \A l \in KeyIds \ {k} : keys'[l] = keys[l]
        /\ keys'[k] = [state |-> "live", owner |-> s, team |-> g]
    BY <1>1 DEF CreateKey, LlmTypeOK
  <1>3. /\ \A l \in KeyIds \ {k} : Held(l)' <=> Held(l)
        /\ Held(k)' /\ keys'[k].owner = s /\ keys'[k].team = g
        /\ ~Held(k)
    BY <1>2 DEF Held, Unissued
  <1>. QED BY <1>2, <1>3 DEF KeysOf

LEMMA KeyChanged ==
    ASSUME LlmTypeOK, NEW k \in KeyIds, Held(k),
           NEW state \in {"live", "blocked", "deleted"}, SetState(k, state)
    PROVE  /\ keys' \in [KeyIds -> Key]
           /\ \A l \in KeyIds \ {k} : keys'[l] = keys[l]
           /\ keys'[k].state = state
           /\ \A l \in KeyIds : keys'[l].owner = keys[l].owner /\ keys'[l].team = keys[l].team
           /\ \A l \in KeyIds : Held(l)' <=> Held(l) /\ (l # k \/ state # "deleted")
           /\ \A t \in Students : KeysOf(t)' = IF state = "deleted" THEN KeysOf(t) \ {k}
                                               ELSE KeysOf(t)
  <1>1. /\ keys' \in [KeyIds -> Key]
        /\ keys' = [keys EXCEPT ![k].state = state]
    BY DEF SetState, LlmTypeOK, Key
  <1>2. /\ \A l \in KeyIds \ {k} : keys'[l] = keys[l]
        /\ keys'[k].state = state
        /\ \A l \in KeyIds : keys'[l].owner = keys[l].owner /\ keys'[l].team = keys[l].team
    BY <1>1 DEF LlmTypeOK, Key
  <1>3. \A l \in KeyIds : Held(l)' <=> Held(l) /\ (l # k \/ state # "deleted")
    BY <1>2 DEF Held
  <1>. QED BY <1>1, <1>2, <1>3 DEF KeysOf

(* What no run of a mint sees.                                                *)
LEMMA ProxyKept ==
    ASSUME LlmInv, UNCHANGED <<keys, mint, strayed>>
    PROVE  /\ KeyShape' /\ MintShape' /\ FoundHolds' /\ IssuedHolds' /\ OneKeyEach'
  <1>1. \A s \in Students : KeysOf(s)' = KeysOf(s)
    BY DEF KeysOf, Held
  <1>. QED
    BY <1>1, MintRosterShape
    DEF LlmInv, KeyShape, MintShape, FoundHolds, IssuedHolds, OneKeyEach, AtRows, Generating,
        OnRoster, RosterTeams, GroupOf, KeysOf, Held

(* A run that ends, however, leaves no claims behind.                         *)
LEMMA MintOver ==
    ASSUME LlmInv, mint' = NoMint, UNCHANGED <<keys, strayed>>
    PROVE  /\ mint' \in Mint
           /\ KeyShape' /\ MintShape' /\ FoundHolds' /\ IssuedHolds' /\ TeamsUpToDate'
           /\ OneKeyEach'
  <1>2. mint' \in Mint
    BY EmptyFileShape DEF NoMint, Mint
  <1>3. KeyShape' /\ OneKeyEach'
    BY DEF LlmInv, KeyShape, OneKeyEach, KeysOf, Held
  <1>4. MintShape' /\ FoundHolds' /\ TeamsUpToDate'
    BY DEF MintShape, FoundHolds, TeamsUpToDate, AtRows, NoMint, OnRoster
  <1>5. IssuedHolds'
    BY DEF IssuedHolds, AtRows, NoMint, EmptyFile
  <1>. QED BY <1>2, <1>3, <1>4, <1>5

-----------------------------------------------------------------------------
(* The steps *)

LEMMA BeginStep ==
    ASSUME LlmInv, NEW roster, NEW rotate \in BOOLEAN, NEW budget \in MintBudgets,
           MintBegin(roster, rotate, budget)
    PROVE  LlmInv'
  <1>. USE DEF LlmInv
  <1>1. mint' = [pc |-> "teams", roster |-> roster, rotate |-> rotate, budget |-> budget,
                 models |-> models, existing |-> EmptyFile, left |-> {}, who |-> Nobody,
                 issued |-> EmptyFile]
    BY DEF NoMint, MintBegin
  <1>2. /\ roster \in Rosters
        /\ UNCHANGED <<models, proxyVars, file, access, faults, torn, strayed, commands>>
    BY DEF MintBegin
  <1>a. mint' \in Mint
    BY <1>1, <1>2, EmptyFileShape DEF Mint, LlmTypeOK
  <1>3. LlmTypeOK'
    BY <1>a, <1>2 DEF LlmTypeOK, proxyVars
  <1>4. KeyShape' /\ AccessShape' /\ OneKeyEach' /\ FileKeysWork'
    BY <1>2 DEF KeyShape, AccessShape, OneKeyEach, FileKeysWork, KeysOf, Held, proxyVars
  <1>5. MintShape' /\ FoundHolds' /\ TeamsUpToDate'
    BY <1>1 DEF MintShape, FoundHolds, TeamsUpToDate, AtRows, OnRoster
  <1>6. IssuedHolds'
    <2>1. mint'.pc = "teams" /\ mint'.issued = EmptyFile
      BY <1>1
    <2>2. \A s \in Students : EmptyFile[s] = NoKey
      BY DEF EmptyFile
    <2>3. ~AtRows'
      BY <2>1 DEF AtRows
    <2>. QED BY <2>1, <2>2, <2>3 DEF IssuedHolds
  <1>. QED BY <1>3, <1>4, <1>5, <1>6

LEMMA TeamStep ==
    ASSUME LlmInv, NEW g \in Groups, MintUpdate(g) \/ MintCreate(g)
    PROVE  LlmInv'
  <1>. USE DEF LlmInv, MintUpdate, MintCreate
  <1>1. mint.budget \in Nat /\ mint.models \in Nat /\ mint.pc = "teams"
    BY LlmAssumption DEF LlmTypeOK, Mint
  <1>2. teams' \in [Groups -> [cap : Nat, models : Nat]]
    BY <1>1 DEF LlmTypeOK
  <1>3. LlmTypeOK'
    BY <1>2 DEF LlmTypeOK
  <1>4. AccessShape' /\ FileKeysWork'
    BY DEF AccessShape, FileKeysWork, Held
  <1>5. TeamsUpToDate'
    BY <1>1 DEF TeamsUpToDate, AtRows
  <1>. QED BY <1>3, <1>4, <1>5, ProxyKept

LEMMA ListStep ==
    ASSUME LlmInv, MintList
    PROVE  LlmInv'
  <1>. USE DEF LlmInv
  <1>1. PICK existing \in [Students -> MaybeKey] :
           /\ \A s \in Students : IF s \in OnRoster /\ Found(s) # {}
                                  THEN existing[s] \in Found(s) ELSE existing[s] = NoKey
           /\ mint' = [mint EXCEPT !.pc = "rows", !.left = OnRoster, !.existing = existing]
    BY DEF MintList
  <1>2. /\ mint.pc = "teams" /\ ToUpdate = {} /\ ToCreate = {}
        /\ UNCHANGED <<models, teams, keys, file, access, faults, torn, commands>>
        /\ strayed' = strayed
              \cup {s \in OnRoster : \E k \in KeysOf(s) : keys[k].team \notin RosterTeams}
    BY DEF MintList, proxyVars
  <1>3. /\ mint'.pc = "rows" /\ mint'.left = OnRoster /\ mint'.existing = existing
        /\ mint'.issued = mint.issued /\ mint'.roster = mint.roster
        /\ mint'.rotate = mint.rotate /\ mint'.models = mint.models
        /\ OnRoster' = OnRoster /\ RosterTeams' = RosterTeams
    BY <1>1 DEF LlmTypeOK, Mint, OnRoster, RosterTeams, GroupOf
  <1>4. LlmTypeOK'
    BY <1>1, <1>2, MintRosterShape DEF LlmTypeOK, Mint
  <1>5. /\ KeyShape' /\ AccessShape' /\ FileKeysWork' /\ OneKeyEach'
    BY <1>2 DEF KeyShape, AccessShape, FileKeysWork, OneKeyEach, KeysOf, Held
  <1>6. MintShape'
    BY <1>3 DEF MintShape
  <1>7. FoundHolds'
    <2>1. \A s \in OnRoster : s \in Students
      BY MintRosterShape
    <2>2. ASSUME NEW s \in OnRoster, existing[s] # NoKey
          PROVE  /\ keys[existing[s]].owner = s /\ Held(existing[s])
                 /\ keys[existing[s]].team \in RosterTeams
      BY <1>1, <2>1, <2>2 DEF Found, KeysOf
    <2>3. ASSUME NEW s \in OnRoster, existing[s] = NoKey, s \notin strayed'
          PROVE  KeysOf(s) = {}
      <3>1. Found(s) = {}
        BY <1>1, <2>1, <2>3 DEF Found, KeysOf, KeyIds, NoKey
      <3>2. \A k \in KeysOf(s) : keys[k].team \in RosterTeams
        BY <1>2, <2>3
      <3>. QED BY <3>1, <3>2 DEF Found
    <2>4. \A s \in OnRoster : KeysOf(s)' = KeysOf(s)
      BY <1>2 DEF KeysOf, Held
    <2>5. \A k \in KeyIds : Held(k)' <=> Held(k)
      BY <1>2 DEF Held
    <2>6. \A s \in OnRoster : ~Generating(s)'
      BY <1>3 DEF Generating
    <2>. QED BY <1>2, <1>3, <2>1, <2>2, <2>3, <2>4, <2>6 DEF FoundHolds, Held
  <1>8. IssuedHolds'
    <2>1. mint.issued = EmptyFile
      BY <1>2 DEF MintShape
    <2>. QED BY <1>3, <2>1 DEF IssuedHolds, AtRows, EmptyFile
  <1>9. TeamsUpToDate'
    BY <1>2, <1>3, MintRosterShape DEF TeamsUpToDate, ToUpdate, ToCreate
  <1>. QED BY <1>4, <1>5, <1>6, <1>7, <1>8, <1>9

LEMMA KeepStep ==
    ASSUME LlmInv, NEW s \in Students, MintKeep(s)
    PROVE  LlmInv'
  <1>. USE DEF LlmInv
  <1>1. /\ mint.pc = "rows" /\ s \in mint.left /\ mint.existing[s] # NoKey /\ ~mint.rotate
        /\ mint' = [mint EXCEPT !.left = @ \ {s}]
        /\ UNCHANGED <<models, teams, keys, file, access, faults, torn, strayed, commands>>
    BY DEF MintKeep, proxyVars
  <1>2. /\ mint'.pc = "rows" /\ mint'.left = mint.left \ {s}
        /\ mint'.existing = mint.existing /\ mint'.issued = mint.issued
        /\ mint'.roster = mint.roster /\ mint'.rotate = mint.rotate
        /\ mint'.models = mint.models
        /\ OnRoster' = OnRoster /\ RosterTeams' = RosterTeams
    BY <1>1 DEF LlmTypeOK, Mint, OnRoster, RosterTeams, GroupOf
  <1>3. LlmTypeOK'
    BY <1>1 DEF LlmTypeOK, Mint
  <1>4. KeyShape' /\ AccessShape' /\ OneKeyEach' /\ FileKeysWork'
    BY <1>1 DEF KeyShape, AccessShape, OneKeyEach, FileKeysWork, KeysOf, Held
  <1>5. MintShape' /\ TeamsUpToDate'
    BY <1>1, <1>2 DEF MintShape, TeamsUpToDate, AtRows
  <1>6. FoundHolds'
    BY <1>1, <1>2 DEF FoundHolds, AtRows, Generating, KeysOf, Held
  <1>7. IssuedHolds'
    BY <1>1, <1>2 DEF IssuedHolds, AtRows, GroupOf, Held
  <1>. QED BY <1>3, <1>4, <1>5, <1>6, <1>7

LEMMA DeleteStep ==
    ASSUME LlmInv, NEW s \in Students, MintDelete(s)
    PROVE  LlmInv'
  <1>. USE DEF LlmInv
  <1>. DEFINE k == mint.existing[s]
  <1>1. /\ mint.pc = "rows" /\ s \in mint.left /\ k # NoKey /\ mint.rotate
        /\ SetState(k, "deleted") /\ torn'
        /\ mint' = [mint EXCEPT !.pc = "generate", !.who = s]
        /\ UNCHANGED <<models, teams, file, access, faults, strayed, commands>>
    BY DEF MintDelete
  <1>2. /\ mint'.pc = "generate" /\ mint'.who = s /\ mint'.left = mint.left
        /\ mint'.existing = mint.existing /\ mint'.issued = mint.issued
        /\ mint'.roster = mint.roster /\ mint'.rotate = mint.rotate
        /\ mint'.models = mint.models
        /\ OnRoster' = OnRoster /\ RosterTeams' = RosterTeams
        /\ \A t \in OnRoster : GroupOf(t)' = GroupOf(t)
    BY <1>1 DEF LlmTypeOK, Mint, OnRoster, RosterTeams, GroupOf
  <1>3. k \in KeyIds
    BY <1>1 DEF LlmTypeOK, Mint, MaybeKey, KeyIds, NoKey
  <1>4. s \in OnRoster /\ keys[k].owner = s /\ Held(k)
    BY <1>1 DEF MintShape, FoundHolds, AtRows, Generating
  <1>5. /\ keys' \in [KeyIds -> Key]
        /\ \A l \in KeyIds \ {k} : keys'[l] = keys[l]
        /\ keys'[k].state = "deleted"
        /\ \A l \in KeyIds : keys'[l].owner = keys[l].owner /\ keys'[l].team = keys[l].team
        /\ \A l \in KeyIds : Held(l)' <=> Held(l) /\ l # k
        /\ \A t \in Students : KeysOf(t)' = KeysOf(t) \ {k}
    BY <1>1, <1>3, <1>4, KeyChanged
  <1>6. LlmTypeOK'
    BY <1>1, <1>5 DEF LlmTypeOK, Mint
  <1>7. KeyShape'
    BY <1>3, <1>4, <1>5 DEF KeyShape, Unissued, Held
  <1>8. AccessShape' /\ OneKeyEach'
    BY <1>1, <1>5 DEF AccessShape, OneKeyEach
  <1>9. FileKeysWork'
    BY <1>1, <1>5 DEF FileKeysWork, LlmTypeOK, MaybeKey, KeyIds, NoKey
  <1>10. MintShape' /\ TeamsUpToDate'
    BY <1>1, <1>2 DEF MintShape, TeamsUpToDate, AtRows
  <1>11. FoundHolds'
    <2>1. \A t \in OnRoster : mint.existing[t] # NoKey =>
             mint.existing[t] \in KeyIds /\ (t # s => mint.existing[t] # k)
      BY <1>1, <1>4, MintRosterShape
      DEF FoundHolds, AtRows, LlmTypeOK, Mint, MaybeKey, KeyIds, NoKey
    <2>2. s \notin strayed => KeysOf(s)' = {}
      BY <1>3, <1>4, <1>5 DEF OneKeyEach, KeysOf
    <2>. QED
      BY <1>1, <1>2, <1>4, <1>5, <2>1, <2>2, MintRosterShape
      DEF FoundHolds, AtRows, Generating
  <1>12. IssuedHolds'
    <2>1. \A t \in Students : mint.issued[t] # NoKey =>
             mint.issued[t] \in KeyIds /\ mint.issued[t] # k
      BY <1>1, <1>4 DEF IssuedHolds, LlmTypeOK, Mint, MaybeKey, KeyIds, NoKey
    <2>. QED BY <1>1, <1>2, <1>5, <2>1, MintRosterShape DEF IssuedHolds, AtRows
  <1>. QED BY <1>6, <1>7, <1>8, <1>9, <1>10, <1>11, <1>12

LEMMA GenerateStep ==
    ASSUME LlmInv, NEW s \in Students, NEW k \in KeyIds, MintGenerate(s, k)
    PROVE  LlmInv'
  <1>. USE DEF LlmInv
  <1>1. /\ NeedsKey(s) /\ keys[k] = Unissued
        /\ CreateKey(k, s, GroupOf(s))
        /\ mint' = [mint EXCEPT !.pc = "rows", !.who = Nobody, !.left = @ \ {s},
                                !.issued[s] = k]
        /\ UNCHANGED <<models, teams, file, access, faults, torn, strayed, commands>>
    BY DEF MintGenerate, IsNext
  <1>2. /\ AtRows /\ s \in mint.left /\ s \in OnRoster
        /\ mint.existing[s] = NoKey \/ Generating(s)
        /\ mint.rotate => Generating(s) \/ mint.existing[s] = NoKey
    BY <1>1 DEF NeedsKey, AtRows, Generating, MintShape
  <1>3. GroupOf(s) \in Groups
    BY <1>2, MintRosterShape
  <1>4. /\ mint'.pc = "rows" /\ mint'.left = mint.left \ {s} /\ mint'.who = Nobody
        /\ mint'.existing = mint.existing
        /\ mint'.roster = mint.roster /\ mint'.rotate = mint.rotate
        /\ mint'.models = mint.models
        /\ mint'.issued = [mint.issued EXCEPT ![s] = k]
        /\ OnRoster' = OnRoster /\ RosterTeams' = RosterTeams
        /\ \A t \in OnRoster : GroupOf(t)' = GroupOf(t)
    BY <1>1 DEF LlmTypeOK, Mint, OnRoster, RosterTeams, GroupOf
  <1>5. /\ keys' \in [KeyIds -> Key]
        /\ \A l \in KeyIds \ {k} : keys'[l] = keys[l] /\ (Held(l)' <=> Held(l))
        /\ Held(k)' /\ keys'[k].owner = s /\ keys'[k].team = GroupOf(s)
        /\ KeysOf(s)' = KeysOf(s) \cup {k}
        /\ \A t \in Students \ {s} : KeysOf(t)' = KeysOf(t)
    BY <1>1, <1>3, KeyCreated
  <1>6. keys[k].owner \notin Students /\ ~Held(k)
    BY <1>1, LlmAssumption DEF Unissued, Held
  <1>7. mint' \in Mint
    <2>1. mint'.issued \in [Students -> MaybeKey]
      BY <1>4 DEF LlmTypeOK, Mint, MaybeKey, KeyIds
    <2>. QED BY <1>1, <1>4, <2>1 DEF LlmTypeOK, Mint
  <1>8. LlmTypeOK'
    BY <1>1, <1>5, <1>7 DEF LlmTypeOK
  <1>9. KeyShape'
    <2>1. keys'[k] = [state |-> "live", owner |-> s, team |-> GroupOf(s)]
      BY <1>1 DEF CreateKey, LlmTypeOK
    <2>. QED BY <1>3, <1>5, <2>1 DEF KeyShape
  <1>10. AccessShape' /\ MintShape' /\ TeamsUpToDate'
    BY <1>1, <1>2, <1>4 DEF AccessShape, MintShape, TeamsUpToDate, AtRows
  <1>11. FoundHolds'
    <2>1. \A t \in OnRoster : mint.existing[t] # NoKey =>
             mint.existing[t] \in KeyIds \ {k}
      <3>. SUFFICES ASSUME NEW t \in OnRoster, mint.existing[t] # NoKey
                    PROVE  mint.existing[t] \in KeyIds /\ mint.existing[t] # k
        OBVIOUS
      <3>1. t \in Students
        BY MintRosterShape
      <3>2. mint.existing[t] \in KeyIds
        BY <3>1 DEF LlmTypeOK, Mint, MaybeKey, KeyIds, NoKey
      <3>3. keys[mint.existing[t]].owner \in Students
        BY <1>2, <3>1 DEF FoundHolds
      <3>. QED BY <1>6, <3>2, <3>3
    <2>2. \A t \in OnRoster : ~Generating(t)' /\ (t # s => ~Generating(t) \/ mint.rotate)
      BY <1>4 DEF Generating, MintShape
    <2>3. \A t \in OnRoster \ {s} : ~Generating(t)
      BY <1>1, <1>2 DEF Generating, NeedsKey
    <2>. QED
      BY <1>1, <1>2, <1>4, <1>5, <2>1, <2>2, <2>3, MintRosterShape DEF FoundHolds, AtRows
  <1>12. IssuedHolds'
    <2>1. /\ \A t \in Students \ {s} : mint'.issued[t] = mint.issued[t]
          /\ mint'.issued[s] = k
      BY <1>4 DEF LlmTypeOK, Mint
    <2>2. \A t \in Students : mint.issued[t] # NoKey => mint.issued[t] \in KeyIds \ {k}
      BY <1>6 DEF IssuedHolds, LlmTypeOK, Mint, MaybeKey, KeyIds, NoKey
    <2>3. mint.existing[s] # k
      <3>1. CASE mint.existing[s] = NoKey
        BY <3>1 DEF KeyIds, NoKey
      <3>2. CASE mint.existing[s] # NoKey
        BY <1>2, <1>6, <3>2 DEF FoundHolds
      <3>. QED BY <3>1, <3>2
    <2>4. ASSUME NEW t \in Students, mint'.issued[t] # NoKey
          PROVE  /\ t \in OnRoster' \ mint'.left
                 /\ Held(mint.issued[t])'
                 /\ keys'[mint'.issued[t]].owner = t
                 /\ keys'[mint'.issued[t]].team = GroupOf(t)'
                 /\ mint'.issued[t] # mint'.existing[t]
      <3>1. CASE t = s
        <4>1. mint'.issued[t] = k /\ s \notin mint'.left
          BY <1>4, <2>1, <3>1
        <4>2. Held(mint.issued[t])'
          BY <1>5, <4>1 DEF Held
        <4>. QED BY <1>2, <1>4, <1>5, <2>3, <3>1, <4>1, <4>2
      <3>2. CASE t # s
        <4>1. mint'.issued[t] = mint.issued[t] /\ mint.issued[t] \in KeyIds \ {k}
          BY <2>1, <2>2, <2>4, <3>2
        <4>2. /\ t \in OnRoster \ mint.left /\ Held(mint.issued[t])
              /\ keys[mint.issued[t]].owner = t /\ keys[mint.issued[t]].team = GroupOf(t)
              /\ mint.issued[t] # mint.existing[t]
          BY <2>4, <4>1 DEF IssuedHolds
        <4>3. keys'[mint.issued[t]] = keys[mint.issued[t]]
          BY <1>5, <4>1
        <4>4. Held(mint.issued[t])'
          BY <4>1, <4>2, <4>3 DEF Held
        <4>. QED BY <1>4, <4>1, <4>2, <4>3, <4>4
      <3>. QED BY <3>1, <3>2
    <2>5. ASSUME NEW t \in Students, t \in OnRoster' \ mint'.left, mint'.issued[t] = NoKey
          PROVE  ~mint'.rotate /\ mint'.existing[t] # NoKey
      <3>1. t # s
        BY <2>1, <2>5 DEF KeyIds, NoKey
      <3>2. t \in OnRoster \ mint.left /\ mint.issued[t] = NoKey
        BY <1>4, <2>1, <2>5, <3>1
      <3>. QED BY <1>2, <1>4, <3>2 DEF IssuedHolds
    <2>. QED BY <2>4, <2>5 DEF IssuedHolds
  <1>13. OneKeyEach'
    <2>1. s \notin strayed => KeysOf(s) = {}
      BY <1>2 DEF FoundHolds
    <2>. QED BY <1>1, <1>5, <2>1 DEF OneKeyEach
  <1>14. FileKeysWork'
    <2>1. \A t \in Students : file[t] # NoKey => file[t] \in KeyIds \ {k}
      BY <1>6 DEF FileKeysWork, LlmTypeOK, MaybeKey, KeyIds, NoKey
    <2>. QED BY <1>1, <1>5, <2>1 DEF FileKeysWork
  <1>. QED BY <1>8, <1>9, <1>10, <1>11, <1>12, <1>13, <1>14

LEMMA EndStep ==
    ASSUME LlmInv, MintWrite \/ MintDies \/ MintCut \/ \E s \in Students : MintRefused(s)
    PROVE  LlmInv'
  <1>. USE DEF LlmInv
  <1>0. /\ mint' = NoMint /\ UNCHANGED <<models, teams, keys, access, strayed, commands>>
        /\ faults' = faults \/ Fault
    BY DEF MintWrite, MintDies, MintCut, MintRefused, proxyVars
  <1>1. /\ mint' = NoMint /\ UNCHANGED <<models, teams, keys, access, strayed, commands>>
        /\ faults' \in 0..MaxFaults
    BY <1>0, LlmAssumption DEF Fault, LlmTypeOK
  <1>2. /\ mint' \in Mint
        /\ KeyShape' /\ MintShape' /\ FoundHolds' /\ IssuedHolds' /\ TeamsUpToDate'
        /\ OneKeyEach'
    BY <1>1, MintOver
  <1>3. AccessShape'
    BY <1>1 DEF AccessShape
  <1>4. \A k \in KeyIds : Held(k)' <=> Held(k)
    BY <1>1 DEF Held
  <1>5. CASE UNCHANGED <<file, torn>>
    <2>1. LlmTypeOK'
      BY <1>1, <1>2, <1>5 DEF LlmTypeOK
    <2>2. FileKeysWork'
      BY <1>1, <1>5 DEF FileKeysWork, Held
    <2>. QED BY <1>2, <1>3, <2>1, <2>2
  <1>6. CASE /\ torn' = FALSE
             /\ \E written \in SUBSET Students :
                   file' = [s \in Students |-> IF s \in written THEN mint.issued[s] ELSE NoKey]
    <2>1. \A s \in Students : file'[s] \in {mint.issued[s], NoKey}
      BY <1>6
    <2>a. mint.issued \in [Students -> MaybeKey] /\ NoKey \in MaybeKey
      BY LlmAssumption DEF LlmTypeOK, Mint, MaybeKey, NoKey
    <2>2. file' \in [Students -> MaybeKey] /\ torn' \in BOOLEAN
      BY <1>6, <2>a
    <2>3. LlmTypeOK'
      BY <1>1, <1>2, <2>2 DEF LlmTypeOK
    <2>4. FileKeysWork'
      BY <1>1, <2>1 DEF FileKeysWork, IssuedHolds, Held
    <2>. QED BY <1>2, <1>3, <2>3, <2>4
  <1>7. CASE MintWrite
    <2>1. CASE mint.issued = EmptyFile
      BY <1>5, <1>7, <2>1 DEF MintWrite
    <2>2. CASE mint.issued # EmptyFile
      <3>1. file' = mint.issued /\ torn' = FALSE
        BY <1>7, <2>2 DEF MintWrite
      <3>2. mint.issued = [s \in Students |-> IF s \in Students THEN mint.issued[s] ELSE NoKey]
        BY DEF LlmTypeOK, Mint
      <3>. QED BY <1>6, <3>1, <3>2
    <2>. QED BY <2>1, <2>2
  <1>8. CASE MintCut
    BY <1>6, <1>8 DEF MintCut
  <1>. QED BY <1>5, <1>7, <1>8 DEF MintDies, MintRefused

LEMMA ShellStepKeeps ==
    ASSUME LlmInv, ShellStep
    PROVE  LlmInv'
  <1>. USE DEF LlmInv
  <1>1. ASSUME NEW s \in Students, NEW verb \in {"blocked", "live"}, AccessFind(s, verb)
        PROVE  LlmInv'
    <2>1. PICK k \in KeysOf(s) : access' = [verb |-> verb, key |-> k]
      BY <1>1 DEF AccessFind
    <2>2. /\ k \in KeyIds /\ commands' \in 0..MaxCommands
          /\ UNCHANGED <<models, teams, keys, file, mint, faults, torn, strayed>>
      BY <1>1, LlmAssumption DEF AccessFind, KeysOf, Command, proxyVars, LlmTypeOK
    <2>3. LlmTypeOK'
      BY <2>1, <2>2 DEF LlmTypeOK, MaybeKey, KeyIds
    <2>4. AccessShape' /\ FileKeysWork' /\ TeamsUpToDate'
      BY <2>1, <2>2 DEF AccessShape, FileKeysWork, Held, TeamsUpToDate, AtRows, RosterTeams,
                        OnRoster, GroupOf
    <2>. QED BY <2>2, <2>3, <2>4, ProxyKept
  <1>2. ASSUME AccessPost PROVE LlmInv'
    <2>1. /\ access # NoAccess /\ access' = NoAccess
          /\ UNCHANGED <<models, teams, file, mint, faults, torn, strayed, commands>>
      BY <1>2 DEF AccessPost
    <2>2. NoAccess \in [verb : {"none", "blocked", "live"}, key : MaybeKey] /\ AccessShape'
      BY <2>1, LlmAssumption DEF NoAccess, MaybeKey, NoKey, AccessShape
    <2>3. TeamsUpToDate'
      BY <2>1 DEF TeamsUpToDate, AtRows, RosterTeams, OnRoster, GroupOf
    <2>4. CASE UNCHANGED keys
      <3>1. LlmTypeOK' /\ FileKeysWork'
        BY <2>1, <2>2, <2>4 DEF LlmTypeOK, FileKeysWork, Held
      <3>. QED BY <2>1, <2>2, <2>3, <2>4, <3>1, ProxyKept
    <2>5. CASE Held(access.key) /\ SetState(access.key, access.verb)
      <3>1. access.key \in KeyIds /\ access.verb \in {"live", "blocked", "deleted"}
            /\ access.verb # "deleted"
        BY <2>1 DEF AccessShape
      <3>2. /\ keys' \in [KeyIds -> Key]
            /\ \A l \in KeyIds \ {access.key} : keys'[l] = keys[l]
            /\ keys'[access.key].state = access.verb
            /\ \A l \in KeyIds : keys'[l].owner = keys[l].owner /\ keys'[l].team = keys[l].team
            /\ \A l \in KeyIds : Held(l)' <=> Held(l)
            /\ \A t \in Students : KeysOf(t)' = KeysOf(t)
        BY <2>5, <3>1, KeyChanged
      <3>3. LlmTypeOK' /\ FileKeysWork'
        BY <2>1, <2>2, <3>2 DEF LlmTypeOK, FileKeysWork, MaybeKey, KeyIds, NoKey
      <3>4. KeyShape'
        BY <2>5, <3>1, <3>2 DEF KeyShape, Held, Unissued
      <3>5. MintShape' /\ OneKeyEach'
        BY <2>1, <3>2 DEF MintShape, OneKeyEach, OnRoster
      <3>a. /\ OnRoster' = OnRoster /\ RosterTeams' = RosterTeams
            /\ \A t \in OnRoster : GroupOf(t)' = GroupOf(t)
        BY <2>1 DEF OnRoster, RosterTeams, GroupOf
      <3>b. \A t \in Students : /\ mint.existing[t] # NoKey => mint.existing[t] \in KeyIds
                                /\ mint.issued[t] # NoKey => mint.issued[t] \in KeyIds
        BY DEF LlmTypeOK, Mint, MaybeKey, KeyIds, NoKey
      <3>6. FoundHolds'
        BY <2>1, <3>2, <3>a, <3>b, MintRosterShape DEF FoundHolds, AtRows, Generating
      <3>7. IssuedHolds'
        BY <2>1, <3>2, <3>a, <3>b DEF IssuedHolds, AtRows
      <3>. QED BY <2>2, <2>3, <3>3, <3>4, <3>5, <3>6, <3>7
    <2>. QED BY <1>2, <2>4, <2>5 DEF AccessPost
  <1>3. ASSUME NEW g \in Groups, NEW usd \in Caps, SetBudget(g, usd)
        PROVE  LlmInv'
    <2>1. /\ teams' = [teams EXCEPT ![g].cap = usd] /\ commands' \in 0..MaxCommands
          /\ UNCHANGED <<models, keys, file, mint, access, faults, torn, strayed>>
      BY <1>3, LlmAssumption DEF SetBudget, Command, LlmTypeOK
    <2>2. /\ teams' \in [Groups -> [cap : Nat, models : Nat]]
          /\ \A h \in Groups : teams'[h].models = teams[h].models
      BY <2>1, LlmAssumption DEF LlmTypeOK
    <2>3. LlmTypeOK' /\ AccessShape' /\ FileKeysWork'
      BY <2>1, <2>2 DEF LlmTypeOK, AccessShape, FileKeysWork, Held
    <2>4. TeamsUpToDate'
      BY <2>1, <2>2, MintRosterShape DEF TeamsUpToDate, AtRows, RosterTeams, OnRoster, GroupOf
    <2>. QED BY <2>1, <2>3, <2>4, ProxyKept
  <1>4. ASSUME AddModel PROVE LlmInv'
    <2>1. /\ models' = models + 1
          /\ UNCHANGED <<teams, keys, file, mint, access, faults, torn, strayed, commands>>
      BY <1>4 DEF AddModel, proxyVars
    <2>2. LlmTypeOK' /\ AccessShape' /\ FileKeysWork'
      BY <2>1 DEF LlmTypeOK, AccessShape, FileKeysWork, Held
    <2>3. TeamsUpToDate'
      BY <2>1 DEF TeamsUpToDate, AtRows, RosterTeams, OnRoster, GroupOf
    <2>. QED BY <2>1, <2>2, <2>3, ProxyKept
  <1>. QED BY <1>1, <1>2, <1>3, <1>4 DEF ShellStep

LEMMA LlmStep == LlmInv /\ [LlmNext]_llmVars => LlmInv'
  <1>. SUFFICES ASSUME LlmInv, [LlmNext]_llmVars PROVE LlmInv'
    OBVIOUS
  <1>1. ASSUME NEW roster \in Rosters, NEW rotate \in BOOLEAN, NEW budget \in MintBudgets,
               MintBegin(roster, rotate, budget)
        PROVE  LlmInv'
    BY <1>1, BeginStep
  <1>2. CASE MintStep
    BY <1>2, TeamStep, ListStep, KeepStep, DeleteStep, GenerateStep, EndStep DEF MintStep
  <1>3. CASE ShellStep
    BY <1>3, ShellStepKeeps
  <1>4. CASE UNCHANGED llmVars
    <2>1. LlmTypeOK' /\ AccessShape' /\ FileKeysWork' /\ TeamsUpToDate'
      BY <1>4 DEF llmVars, proxyVars, LlmInv, LlmTypeOK, AccessShape, FileKeysWork, Held,
                  TeamsUpToDate, AtRows, RosterTeams, OnRoster, GroupOf
    <2>2. UNCHANGED <<keys, mint, strayed>>
      BY <1>4 DEF llmVars, proxyVars
    <2>. QED BY <2>1, <2>2, ProxyKept DEF LlmInv
  <1>. QED BY <1>1, <1>2, <1>3, <1>4 DEF LlmNext

LEMMA LlmInvariant == LlmSpec => []LlmInv
  <1>. QED BY LlmInitially, LlmStep, PTL DEF LlmSpec

-----------------------------------------------------------------------------
(* The variables of keys.py's world keep their shapes.                        *)
THEOREM LlmTypes == LlmSpec => []LlmTypeOK
  <1>1. LlmInv => LlmTypeOK
    BY DEF LlmInv
  <1>. QED BY <1>1, LlmInvariant, PTL

(* One key per student, however many mints and rotations were cut short, for  *)
(* everybody whose key was on a team that their mints listed.                 *)
THEOREM OneKeyEachHolds == LlmSpec => []OneKeyEach
  <1>1. LlmInv => OneKeyEach
    BY DEF LlmInv
  <1>. QED BY <1>1, LlmInvariant, PTL

(* llm-tokens.csv: every key in it is its owner's, and works until a later    *)
(* rotation deletes one.                                                      *)
THEOREM FileKeysHold == LlmSpec => []FileKeysWork
  <1>1. LlmInv => FileKeysWork
    BY DEF LlmInv
  <1>. QED BY <1>1, LlmInvariant, PTL

(* A mint that ends has given every student of its roster a key, on a team    *)
(* that serves config.yaml's models; a rotation a new one, and it is in the   *)
(* file.                                                                      *)
THEOREM MintCoversHolds == LlmSpec => MintCovers
  <1>1. ASSUME LlmInv, MintWrite
        PROVE  /\ \A s \in OnRoster :
                     /\ \E k \in KeysOf(s) : keys[k].team \in RosterTeams
                     /\ mint.rotate =>
                           /\ file'[s] \in KeysOf(s)
                           /\ file'[s] # mint.existing[s]
                           /\ keys[file'[s]].team = GroupOf(s)
               /\ \A g \in RosterTeams : teams[g].models = mint.models
    <2>. USE <1>1 DEF LlmInv
    <2>1. AtRows /\ mint.left = {}
      BY DEF MintWrite, Done, AtRows
    <2>2. ASSUME NEW s \in OnRoster, mint.issued[s] # NoKey
          PROVE  /\ mint.issued[s] \in KeysOf(s) /\ keys[mint.issued[s]].team = GroupOf(s)
                 /\ mint.issued[s] # mint.existing[s] /\ file' = mint.issued
      <3>1. s \in Students
        BY MintRosterShape
      <3>2. mint.issued # EmptyFile
        BY <2>2, <3>1 DEF EmptyFile
      <3>. QED
        BY <2>2, <3>1, <3>2
        DEF MintWrite, IssuedHolds, KeysOf, LlmTypeOK, Mint, MaybeKey, KeyIds, NoKey
    <2>3. ASSUME NEW s \in OnRoster, mint.issued[s] = NoKey
          PROVE  /\ ~mint.rotate /\ mint.existing[s] \in KeysOf(s)
                 /\ keys[mint.existing[s]].team \in RosterTeams
      <3>1. ~mint.rotate /\ mint.existing[s] # NoKey /\ s \in Students
        BY <2>1, <2>3, MintRosterShape DEF IssuedHolds
      <3>2. mint.existing[s] \in KeyIds
        BY <3>1 DEF LlmTypeOK, Mint, MaybeKey, KeyIds, NoKey
      <3>. QED BY <2>1, <3>1, <3>2 DEF FoundHolds, KeysOf
    <2>4. \A s \in OnRoster : GroupOf(s) \in RosterTeams
      BY DEF RosterTeams
    <2>5. \A g \in RosterTeams : teams[g].models = mint.models
      BY <2>1 DEF TeamsUpToDate
    <2>. QED BY <2>2, <2>3, <2>4, <2>5
  <1>. QED BY <1>1, LlmInvariant, PTL DEF MintCovers

(* Re-running mint: a team whose models are brought up to date keeps its cap, *)
(* and a mint without --rotate leaves every key as it is.                     *)
THEOREM MintIsAdditiveHolds == LlmSpec => MintIsAdditive
  <1>1. ASSUME LlmInv, [LlmNext]_llmVars
        PROVE  /\ \A g \in Groups :
                     Exists(g) /\ teams'[g].models # teams[g].models =>
                        teams'[g].cap = teams[g].cap
               /\ ~mint.rotate /\ access' = access =>
                     \A k \in KeyIds : keys[k] # Unissued => keys'[k] = keys[k]
    <2>. USE <1>1 DEF LlmInv, LlmTypeOK
    <2>1. ASSUME NEW g \in Groups, MintUpdate(g) \/ MintCreate(g)
          PROVE  keys' = keys /\ \A h \in Groups : Exists(h) => teams'[h].cap = teams[h].cap
      BY <2>1 DEF MintUpdate, MintCreate, ToCreate
    <2>2. ASSUME NEW g \in Groups, NEW usd \in Caps, SetBudget(g, usd)
          PROVE  keys' = keys /\ \A h \in Groups : teams'[h].models = teams[h].models
      BY <2>2 DEF SetBudget
    <2>3. ASSUME NEW s \in Students, NEW k \in KeyIds, MintGenerate(s, k)
          PROVE  teams' = teams /\ \A l \in KeyIds : keys[l] # Unissued => keys'[l] = keys[l]
      BY <2>3 DEF MintGenerate, IsNext, CreateKey
    <2>4. ASSUME NEW s \in Students, MintDelete(s)
          PROVE  teams' = teams /\ mint.rotate
      BY <2>4 DEF MintDelete
    <2>5. ASSUME AccessPost PROVE teams' = teams /\ access' # access
      BY <2>5 DEF AccessPost
    <2>6. ASSUME \/ \E roster \in Rosters, rotate \in BOOLEAN, budget \in MintBudgets :
                       MintBegin(roster, rotate, budget)
                 \/ MintList \/ MintWrite \/ MintDies \/ MintCut \/ AddModel
                 \/ \E s \in Students : MintKeep(s) \/ MintRefused(s)
                 \/ \E s \in Students, verb \in {"blocked", "live"} : AccessFind(s, verb)
                 \/ UNCHANGED llmVars
          PROVE  UNCHANGED <<teams, keys>>
      BY <2>6 DEF MintBegin, MintList, MintWrite, MintDies, MintCut, AddModel, MintKeep,
                  MintRefused, AccessFind, llmVars, proxyVars
    <2>. QED BY <2>1, <2>2, <2>3, <2>4, <2>5, <2>6 DEF LlmNext, MintStep, ShellStep
  <1>. QED BY <1>1, LlmInvariant, PTL DEF MintIsAdditive, LlmSpec

(* A student cut off with `revoke` gets a live key back only from `restore`   *)
(* or from a rotation, as long as their mints list the team theirs is on.     *)
THEOREM RevocationSurvives == LlmSpec => RevocationSurvivesMint
  <1>1. ASSUME LlmInv, [LlmNext]_llmVars, NEW s \in Students \ strayed, CutOff(s),
               \E k \in KeyIds : keys'[k].owner = s /\ keys'[k].state = "live"
        PROVE  access.verb = "live" /\ mint' = mint
    <2>. USE <1>1 DEF LlmInv
    <2>1. \A k \in KeyIds : keys[k].owner = s => keys[k].state # "live"
      BY DEF CutOff, KeysOf, Held
    <2>2. ASSUME NEW t \in Students, NEW k \in KeyIds, MintGenerate(t, k)
          PROVE  FALSE
      <3>1. t \in mint.left /\ t \in OnRoster /\ AtRows
            /\ (mint.existing[t] = NoKey \/ Generating(t))
        BY <2>2 DEF MintGenerate, NeedsKey, AtRows, Generating, MintShape
      <3>2. t # s
        BY <3>1 DEF FoundHolds, CutOff
      <3>3. \A l \in KeyIds \ {k} : keys'[l] = keys[l]
        BY <2>2 DEF MintGenerate, CreateKey, LlmTypeOK
      <3>4. keys'[k].owner = t
        BY <2>2 DEF MintGenerate, CreateKey, LlmTypeOK
      <3>. QED BY <2>1, <3>2, <3>3, <3>4
    <2>3. ASSUME NEW t \in Students, MintDelete(t)
          PROVE  FALSE
      <3>1. keys' = [keys EXCEPT ![mint.existing[t]].state = "deleted"]
        BY <2>3 DEF MintDelete, SetState
      <3>2. \A k \in KeyIds : keys'[k].owner = keys[k].owner
                              /\ keys'[k].state \in {keys[k].state, "deleted"}
        BY <3>1 DEF LlmTypeOK, Key
      <3>. QED BY <2>1, <3>2
    <2>4. CASE AccessPost
      <3>1. CASE UNCHANGED keys
        BY <2>1, <3>1
      <3>2. CASE SetState(access.key, access.verb)
        <4>1. \A k \in KeyIds : keys'[k].owner = keys[k].owner
                                /\ keys'[k].state \in {keys[k].state, access.verb}
          BY <3>2 DEF SetState, LlmTypeOK, Key
        <4>. QED BY <2>1, <2>4, <4>1 DEF AccessPost
      <3>. QED BY <2>4, <3>1, <3>2 DEF AccessPost
    <2>5. ASSUME \/ \E roster \in Rosters, rotate \in BOOLEAN, budget \in MintBudgets :
                       MintBegin(roster, rotate, budget)
                 \/ \E g \in Groups : MintUpdate(g) \/ MintCreate(g)
                 \/ \E g \in Groups, usd \in Caps : SetBudget(g, usd)
                 \/ MintList \/ MintWrite \/ MintDies \/ MintCut \/ AddModel
                 \/ \E t \in Students : MintKeep(t) \/ MintRefused(t)
                 \/ \E t \in Students, verb \in {"blocked", "live"} : AccessFind(t, verb)
                 \/ UNCHANGED llmVars
          PROVE  keys' = keys
      BY <2>5 DEF MintBegin, MintUpdate, MintCreate, SetBudget, MintList, MintWrite, MintDies,
                  MintCut, AddModel, MintKeep, MintRefused, AccessFind, llmVars, proxyVars
    <2>. QED BY <2>1, <2>2, <2>3, <2>4, <2>5 DEF LlmNext, MintStep, ShellStep
  <1>2. LlmInv /\ [LlmNext]_llmVars =>
           [\A s \in Students \ strayed :
               CutOff(s) /\ (\E k \in KeyIds : keys'[k].owner = s /\ keys'[k].state = "live") =>
                  access.verb = "live" /\ mint' = mint]_llmVars
    BY <1>1
  <1>. QED BY <1>2, LlmInvariant, PTL DEF RevocationSurvivesMint, LlmSpec
=============================================================================
