------------------------------ MODULE LlmKeys ------------------------------
(* litellm/keys.py: one team per group and one key per student on the LiteLLM *)
(* proxy.  A run of the script is a sequence of calls to the proxy, and the   *)
(* first one that fails ends it (api() calls sys.exit), perhaps after the     *)
(* proxy has done what it was asked: what the run had in hand, the new keys   *)
(* among it, is lost, for llm-tokens.csv is written at the very end.          *)
(* One mint runs at a time; `revoke`, `restore` and `budget` run beside it.   *)
(*                                                                            *)
(* Abstractions: a team is the group it is for (team_alias), a model list is  *)
(* the version of config.yaml it was taken from, spend is left out.           *)
EXTENDS Integers, Roster

CONSTANTS
    Nobody,
    Caps,               \* the budgets an instructor may set
    MintBudgets,        \* mint --budget
    MaxKeys,            \* bound: keys issued
    MaxFaults,          \* bound: runs that fail
    MaxCommands,        \* bound: revoke, restore and budget commands
    MaxModels           \* bound: versions of config.yaml

ASSUME LlmAssumption ==
    /\ Nobody \notin Students
    /\ Caps \subseteq Nat \ {0} /\ MintBudgets \subseteq Nat \ {0}
    /\ MaxKeys \in Nat /\ MaxFaults \in Nat /\ MaxCommands \in Nat /\ MaxModels \in Nat

VARIABLES
    models,             \* config.yaml's model list
    teams,              \* the proxy's teams
    keys,               \* the proxy's keys
    file,               \* llm-tokens.csv: [Students -> the key in their row]
    mint,               \* the mint under way
    access,             \* the revoke or restore under way
    faults,             \* how many runs have failed
    commands,           \* how many of these there were
    torn,               \* history: keys deleted since the file was last written
    strayed             \* history: students with a key on a team that a mint
                        \* of theirs did not list

proxyVars == <<teams, keys>>
llmVars == <<models, teams, keys, file, mint, access, faults, commands, torn, strayed>>

-----------------------------------------------------------------------------
(* The proxy *)

(* Keys are numbered in the order they are issued.                            *)
KeyIds == 1..MaxKeys
NoKey == 0
MaybeKey == 0..MaxKeys

NoTeam == [cap |-> 0, models |-> 0]
Exists(g) == teams[g] # NoTeam

Unissued == [state |-> "unissued", owner |-> Nobody, team |-> Nobody]

(* A deleted key leaves the proxy, a blocked one stays and is refused.        *)
Held(k) == keys[k].state \in {"live", "blocked"}
KeysOf(s) == {k \in KeyIds : Held(k) /\ keys[k].owner = s}

IsNext(k) == keys[k] = Unissued /\ \A l \in 1..(k - 1) : keys[l] # Unissued

\* Mutant: the key's user and team, swapped.
CreateKeySwapped(k, s, g) ==
    keys' = [keys EXCEPT ![k] = [state |-> "live", owner |-> g, team |-> s]]
CreateKey(k, s, g) ==
    keys' = [keys EXCEPT ![k] = [state |-> "live", owner |-> s, team |-> g]]
SetState(k, state) == keys' = [keys EXCEPT ![k].state = state]

-----------------------------------------------------------------------------
(* mint *)

EmptyFile == [s \in Students |-> NoKey]

NoMint == [pc |-> "idle", roster |-> <<>>, rotate |-> FALSE, budget |-> 0, models |-> 0,
           existing |-> EmptyFile, left |-> {}, who |-> Nobody, issued |-> EmptyFile]

GroupOf(s) == mint.roster[s]
OnRoster == DOMAIN mint.roster
RosterTeams == {GroupOf(s) : s \in OnRoster}

(* Reads the roster, config.yaml and /team/list.                              *)
MintBegin(roster, rotate, budget) ==
    /\ mint.pc = "idle" /\ roster \in Rosters /\ DOMAIN roster # {}
    /\ mint' = [NoMint EXCEPT !.pc = "teams", !.roster = roster, !.rotate = rotate,
                              !.budget = budget, !.models = models]
    /\ UNCHANGED <<models, proxyVars, file, access, faults, torn, strayed, commands>>

(* Nobody but the mint creates teams or changes their models, so that what    *)
(* /team/list said still holds.                                               *)
ToUpdate == {g \in RosterTeams : Exists(g) /\ teams[g].models # mint.models}
ToCreate == {g \in RosterTeams : ~Exists(g)}

\* Mutant: the update sends the budget along.
MintUpdateWithBudget(g) ==
    /\ mint.pc = "teams" /\ g \in ToUpdate
    /\ teams' = [teams EXCEPT ![g].models = mint.models, ![g].cap = mint.budget]
    /\ UNCHANGED <<models, keys, file, mint, access, faults, torn, strayed, commands>>
MintUpdate(g) ==
    /\ mint.pc = "teams" /\ g \in ToUpdate
    /\ teams' = [teams EXCEPT ![g].models = mint.models]
    /\ UNCHANGED <<models, keys, file, mint, access, faults, torn, strayed, commands>>

MintCreate(g) ==
    /\ mint.pc = "teams" /\ ToUpdate = {} /\ g \in ToCreate
    /\ teams' = [teams EXCEPT ![g] = [cap |-> mint.budget, models |-> mint.models]]
    /\ UNCHANGED <<models, keys, file, mint, access, faults, torn, strayed, commands>>

\* Mutant: a blocked key does not count as one.
FoundUnblocked(s) == {k \in KeysOf(s) : keys[k].state = "live" /\ keys[k].team \in RosterTeams}
(* /key/list of every team on the roster.                                     *)
Found(s) == {k \in KeysOf(s) : keys[k].team \in RosterTeams}

(* Of two keys of one student the team listed last wins, and a set is listed  *)
(* in no particular order.                                                    *)
MintList ==
    /\ mint.pc = "teams" /\ ToUpdate = {} /\ ToCreate = {}
    /\ \E existing \in [Students -> MaybeKey] :
          /\ \A s \in Students :
                IF s \in OnRoster /\ Found(s) # {}
                THEN existing[s] \in Found(s) ELSE existing[s] = NoKey
          /\ mint' = [mint EXCEPT !.pc = "rows", !.left = OnRoster, !.existing = existing]
    /\ strayed' = strayed \cup {s \in OnRoster : \E k \in KeysOf(s) : keys[k].team \notin RosterTeams}
    /\ UNCHANGED <<models, proxyVars, file, access, faults, torn, commands>>

MintKeep(s) ==
    /\ mint.pc = "rows" /\ s \in mint.left
    /\ mint.existing[s] # NoKey /\ ~mint.rotate
    /\ mint' = [mint EXCEPT !.left = @ \ {s}]
    /\ UNCHANGED <<models, proxyVars, file, access, faults, torn, strayed, commands>>

\* Mutant: the old key is left where it is.
MintDeleteNothing(s) ==
    /\ mint.pc = "rows" /\ s \in mint.left
    /\ mint.existing[s] # NoKey /\ mint.rotate
    /\ torn' = TRUE
    /\ mint' = [mint EXCEPT !.pc = "generate", !.who = s]
    /\ UNCHANGED <<models, proxyVars, file, access, faults, strayed, commands>>
MintDelete(s) ==
    /\ mint.pc = "rows" /\ s \in mint.left
    /\ mint.existing[s] # NoKey /\ mint.rotate
    /\ SetState(mint.existing[s], "deleted")
    /\ torn' = TRUE
    /\ mint' = [mint EXCEPT !.pc = "generate", !.who = s]
    /\ UNCHANGED <<models, teams, file, access, faults, strayed, commands>>

NeedsKey(s) ==
    \/ mint.pc = "generate" /\ mint.who = s
    \/ mint.pc = "rows" /\ s \in mint.left /\ mint.existing[s] = NoKey

\* Mutant: the row takes the token it had.
MintGenerateKeepsRow(s, k) ==
    /\ NeedsKey(s) /\ IsNext(k)
    /\ CreateKey(k, s, GroupOf(s))
    /\ mint' = [mint EXCEPT !.pc = "rows", !.who = Nobody, !.left = @ \ {s},
                            !.issued[s] = IF mint.pc = "generate" THEN mint.existing[s] ELSE k]
    /\ UNCHANGED <<models, teams, file, access, faults, torn, strayed, commands>>
\* Mutant: a moved student's new key goes on the team of the old one.
MintGenerateOnOldTeam(s, k) ==
    /\ NeedsKey(s) /\ IsNext(k)
    /\ CreateKey(k, s, IF mint.pc = "generate" THEN keys[mint.existing[s]].team ELSE GroupOf(s))
    /\ mint' = [mint EXCEPT !.pc = "rows", !.who = Nobody, !.left = @ \ {s}, !.issued[s] = k]
    /\ UNCHANGED <<models, teams, file, access, faults, torn, strayed, commands>>
(* The key's alias is the student's id.  The script does not say whether the  *)
(* proxy takes an alias that is in use: both are modelled.                    *)
MintGenerate(s, k) ==
    /\ NeedsKey(s) /\ IsNext(k)
    /\ CreateKey(k, s, GroupOf(s))
    /\ mint' = [mint EXCEPT !.pc = "rows", !.who = Nobody, !.left = @ \ {s}, !.issued[s] = k]
    /\ UNCHANGED <<models, teams, file, access, faults, torn, strayed, commands>>

MintRefused(s) ==
    /\ NeedsKey(s) /\ KeysOf(s) # {}
    /\ mint' = NoMint
    /\ UNCHANGED <<models, proxyVars, file, access, faults, torn, strayed, commands>>

Done == mint.pc = "rows" /\ mint.left = {}

(* The file holds only what this run issued.                                  *)
MintWrite ==
    /\ Done
    /\ file' = IF mint.issued = EmptyFile THEN file ELSE mint.issued
    /\ torn' = IF mint.issued = EmptyFile THEN torn ELSE FALSE
    /\ mint' = NoMint
    /\ UNCHANGED <<models, proxyVars, access, faults, strayed, commands>>

-----------------------------------------------------------------------------
(* Failures *)

Fault == faults < MaxFaults /\ faults' = faults + 1

(* A call fails or its answer is lost: before or after its effect, the run    *)
(* goes no further.                                                           *)
MintDies ==
    /\ mint.pc # "idle" /\ Fault
    /\ mint' = NoMint
    /\ UNCHANGED <<models, proxyVars, file, access, torn, strayed, commands>>

(* O_TRUNC, then the run ends with some of its rows written.                  *)
MintCut ==
    /\ Done /\ mint.issued # EmptyFile /\ Fault
    /\ \E written \in SUBSET Students :
          file' = [s \in Students |-> IF s \in written THEN mint.issued[s] ELSE NoKey]
    /\ torn' = FALSE
    /\ mint' = NoMint
    /\ UNCHANGED <<models, proxyVars, access, strayed, commands>>

-----------------------------------------------------------------------------
(* revoke, restore, budget; and config.yaml *)

Command == commands < MaxCommands /\ commands' = commands + 1

NoAccess == [verb |-> "none", key |-> NoKey]

(* key_for: the first of the student's keys.                                  *)
AccessFind(s, verb) ==
    /\ access = NoAccess /\ Command
    /\ \E k \in KeysOf(s) : access' = [verb |-> verb, key |-> k]
    /\ UNCHANGED <<models, proxyVars, file, mint, faults, torn, strayed>>

(* The call may fail, and does when the key has been deleted since.           *)
AccessPost ==
    /\ access # NoAccess
    /\ \/ Held(access.key) /\ SetState(access.key, access.verb)
       \/ UNCHANGED keys
    /\ access' = NoAccess
    /\ UNCHANGED <<models, teams, file, mint, faults, torn, strayed, commands>>

SetBudget(g, usd) ==
    /\ Exists(g) /\ Command
    /\ teams' = [teams EXCEPT ![g].cap = usd]
    /\ UNCHANGED <<models, keys, file, mint, access, faults, torn, strayed>>

(* A mint reads config.yaml once: an edit meanwhile is one after it.          *)
AddModel ==
    /\ mint.pc = "idle" /\ models < MaxModels
    /\ models' = models + 1
    /\ UNCHANGED <<proxyVars, file, mint, access, faults, torn, strayed, commands>>

-----------------------------------------------------------------------------
LlmInit ==
    /\ models = 1
    /\ teams = [g \in Groups |-> NoTeam]
    /\ keys = [k \in KeyIds |-> Unissued]
    /\ file = EmptyFile
    /\ mint = NoMint
    /\ access = NoAccess
    /\ faults = 0 /\ commands = 0
    /\ torn = FALSE
    /\ strayed = {}

MintStep ==
    \/ \E g \in Groups : MintUpdate(g) \/ MintCreate(g)
    \/ MintList
    \/ \E s \in Students :
          \/ MintKeep(s) \/ MintDelete(s) \/ MintRefused(s)
          \/ \E k \in KeyIds : MintGenerate(s, k)
    \/ MintWrite \/ MintDies \/ MintCut

ShellStep ==
    \/ \E s \in Students, verb \in {"blocked", "live"} : AccessFind(s, verb)
    \/ AccessPost
    \/ \E g \in Groups, usd \in Caps : SetBudget(g, usd)
    \/ AddModel

LlmNext ==
    \/ \E roster \in Rosters, rotate \in BOOLEAN, budget \in MintBudgets :
          MintBegin(roster, rotate, budget)
    \/ MintStep
    \/ ShellStep

LlmSpec == LlmInit /\ [][LlmNext]_llmVars

-----------------------------------------------------------------------------
(* Properties *)

Key == [state : {"unissued", "live", "blocked", "deleted"},
        owner : Students \cup {Nobody}, team : Groups \cup {Nobody}]

Mint == [pc : {"idle", "teams", "rows", "generate"},
         roster : Rosters \cup {<<>>}, rotate : BOOLEAN, budget : MintBudgets \cup {0},
         models : Nat, existing : [Students -> MaybeKey], left : SUBSET Students,
         who : Students \cup {Nobody}, issued : [Students -> MaybeKey]]

(* Shapes of the proxy's tables, of the file and of the runs' own data.       *)
LlmTypeOK ==
    /\ models \in Nat
    /\ teams \in [Groups -> [cap : Nat, models : Nat]]
    /\ keys \in [KeyIds -> Key]
    /\ file \in [Students -> MaybeKey]
    /\ mint \in Mint
    /\ access \in [verb : {"none", "blocked", "live"}, key : MaybeKey]
    /\ faults \in 0..MaxFaults /\ commands \in 0..MaxCommands
    /\ torn \in BOOLEAN
    /\ strayed \subseteq Students

(* "one key per student": however many mints and rotations were cut short,    *)
(* before or after the proxy obeyed, nobody has two keys - but for a student  *)
(* whose key was on a team that the roster of a later mint does not have.     *)
OneKeyEach ==
    \A s \in Students \ strayed : \A k, l \in KeysOf(s) : k = l

(* llm-tokens.csv "is the only copy of the keys": what it holds, from its     *)
(* last writing until a later rotation deletes one, are keys the proxy still  *)
(* has, each in the row of its owner.                                         *)
FileKeysWork ==
    \A s \in Students :
        file[s] # NoKey =>
            /\ keys[file[s]].owner = s
            /\ ~torn => Held(file[s])

(* A mint that ends, whatever earlier ones left half done, leaves every       *)
(* student of its roster with a key, on a team of the roster that serves the  *)
(* models of config.yaml; with --rotate, each of them has a new one, in the   *)
(* file and on the team of their own group.                                   *)
MintCovers ==
    [][MintWrite =>
          /\ \A s \in OnRoster :
                /\ \E k \in KeysOf(s) : keys[k].team \in RosterTeams
                /\ mint.rotate =>
                      /\ file'[s] \in KeysOf(s)
                      /\ file'[s] # mint.existing[s]
                      /\ keys[file'[s]].team = GroupOf(s)
          /\ \A g \in RosterTeams : teams[g].models = mint.models]_llmVars

(* Re-running mint "updates existing teams and leaves their keys and budgets  *)
(* alone": bringing a team's models up to date does not touch its cap, and    *)
(* without --rotate nothing a mint does changes a key that exists.            *)
MintIsAdditive ==
    [][/\ \A g \in Groups :
             Exists(g) /\ teams'[g].models # teams[g].models => teams'[g].cap = teams[g].cap
       /\ ~mint.rotate /\ access' = access =>
             \A k \in KeyIds : keys[k] # Unissued => keys'[k] = keys[k]]_llmVars

(* A student who was cut off with `revoke` gets back only through `restore`   *)
(* or a rotation: a mint in between does not issue them another key, as long  *)
(* as it lists the team theirs is on.                                         *)
CutOff(s) == KeysOf(s) # {} /\ \A k \in KeysOf(s) : keys[k].state = "blocked"

RevocationSurvivesMint ==
    [][\A s \in Students \ strayed :
          CutOff(s) /\ (\E k \in KeyIds : keys'[k].owner = s /\ keys'[k].state = "live") =>
              access.verb = "live" /\ mint' = mint]_llmVars
=============================================================================
