----------------------------- MODULE Credentials -----------------------------
(***************************************************************************)
(* The refresh tokens of the social accounts, encrypted in the database,   *)
(* while the operator rotates the encryption key by the runbook            *)
(* (docs/SECRET_ROTATION.md): accounts are connected, and tokens exchanged,*)
(* by processes that still run with the former environment or already with *)
(* the new one, and scripts/rotate-secrets.ts re-encrypts what is stored.  *)
(*                                                                         *)
(* An environment names the current key and the retired ones.  A ciphertext*)
(* carries the id of its key, unless it is a legacy one: those were all    *)
(* written under the first key.                                            *)
(***************************************************************************)
EXTENDS Naturals

CONSTANTS Processes,   \* web servers and workers
          Accounts,
          Sandboxed,   \* accounts of platforms without client credentials
          MaxKey,      \* bound on the keys that are ever current
          MaxTokens,   \* bound on the refresh tokens an account is given
          MaxRuns,     \* bound on the runs of the script
          MaxFaults    \* bound on the script's crashes and failed updates

ASSUME CredentialsAssumption ==
  /\ Processes # {} /\ Accounts # {} /\ Sandboxed \subseteq Accounts
  /\ MaxKey \in Nat \ {0} /\ MaxTokens \in Nat \ {0}
  /\ MaxRuns \in Nat /\ MaxFaults \in Nat

VARIABLES
  env,       \* the environment the operator has configured
  deployed,  \* the environment each process was started with
  stored,    \* the ciphertext of each account, or none
  script,    \* the running rotate-secrets: its snapshot and its counts
  report,    \* what the last runs since the key was promoted have printed
  given,     \* ghost: the refresh tokens each account was given
  overtaken, \* ghost: accounts connected while a run held their old ciphertext
  runs, faults

rotationVars == <<env, deployed, stored, script, report, given, overtaken, runs, faults>>

Keys == 1..MaxKey
Environment == [current : Keys, retired : SUBSET Keys]
Ciphertext == [key : Keys, legacy : BOOLEAN, token : 1..MaxTokens]
NoCiphertext == [key |-> 0, legacy |-> FALSE, token |-> 0]
IsStored(ciphertext) == ciphertext # NoCiphertext
NoScript == [on |-> FALSE, dry |-> FALSE, todo |-> {}, rewrapped |-> 0, failed |-> 0]
NoReport == [clean |-> FALSE, settled |-> FALSE]

RotationTypeOK ==
  /\ env \in Environment
  /\ deployed \in [Processes -> Environment]
  /\ stored \in [Accounts -> Ciphertext \cup {NoCiphertext}]
  /\ script \in [on : BOOLEAN, dry : BOOLEAN, todo : SUBSET (Accounts \X Ciphertext),
                 rewrapped : Nat, failed : Nat]
  /\ report \in [clean : BOOLEAN, settled : BOOLEAN]
  /\ given \in [Accounts -> 0..MaxTokens]
  /\ overtaken \subseteq Accounts
  /\ runs \in 0..MaxRuns /\ faults \in 0..MaxFaults

RotationInit ==
  /\ env = [current |-> 1, retired |-> {}]
  /\ deployed = [p \in Processes |-> env]
  /\ stored \in [Accounts -> {NoCiphertext} \cup
                   [key : {1}, legacy : BOOLEAN, token : {1}]]
  /\ given = [a \in Accounts |-> stored[a].token]
  /\ script = NoScript /\ report = NoReport /\ overtaken = {}
  /\ runs = 0 /\ faults = 0
-----------------------------------------------------------------------------
(* The envelope.                                                            *)

\* Mutant of HasKey: retired keys are not looked up.
HasCurrentKey(e, id) == id = e.current

\* byId
HasKey(e, id) == id \in {e.current} \cup e.retired

Encrypt(e, token) == [key |-> e.current, legacy |-> FALSE, token |-> token]

\* decrypt succeeds: a ciphertext is authenticated, and without a key id the
\* current key is tried.
Decrypts(e, c) == IF c.legacy THEN c.key = e.current ELSE HasKey(e, c.key)

NeedsRewrap(e, c) == c.legacy \/ c.key # e.current
-----------------------------------------------------------------------------
(* The processes.                                                           *)

\* Mutant of Connect: a connected account is only made active again.
ConnectOnce(p, a) ==
  /\ given[a] < MaxTokens
  /\ given' = [given EXCEPT ![a] = @ + 1]
  /\ stored' = [stored EXCEPT ![a] =
                  IF IsStored(@) THEN @ ELSE Encrypt(deployed[p], given'[a])]
  /\ overtaken' = {b \in overtaken : b # a}
  /\ UNCHANGED <<env, deployed, script, report, runs, faults>>

\* A run of the script that writes still holds an older ciphertext of a.
Pending(a) == ~ script.dry /\ \E c \in Ciphertext : <<a, c>> \in script.todo

\* connectAccount: an upsert, encrypted with the key of the process.
Connect(p, a) ==
  /\ given[a] < MaxTokens
  /\ given' = [given EXCEPT ![a] = @ + 1]
  /\ stored' = [stored EXCEPT ![a] = Encrypt(deployed[p], given'[a])]
  /\ overtaken' = IF Pending(a) THEN overtaken \cup {a} ELSE overtaken \ {a}
  /\ UNCHANGED <<env, deployed, script, report, runs, faults>>

\* getAccessToken, which changes nothing: the provider accepts the refresh token
\* or not, and a ciphertext that cannot be decrypted throws.
AccessToken(p, a) ==
  IF ~ IsStored(stored[a]) \/ a \in Sandboxed THEN {"null"}
  ELSE IF Decrypts(deployed[p], stored[a]) THEN {"token", "null"} ELSE {"throws"}

\* A process is started again, with the environment as it is configured now.
Deploy(p) ==
  /\ deployed[p] # env
  /\ deployed' = [deployed EXCEPT ![p] = env]
  /\ UNCHANGED <<env, stored, script, report, given, overtaken, runs, faults>>
-----------------------------------------------------------------------------
(* The operator, by the runbook.                                            *)

AllDeployed == \A p \in Processes : deployed[p] = env

\* Steps 1 to 3: the current key is retired and a new one promoted.
Promote ==
  /\ ~ script.on /\ env.current < MaxKey
  /\ env' = [current |-> env.current + 1, retired |-> env.retired \cup {env.current}]
  /\ report' = NoReport
  /\ UNCHANGED <<deployed, stored, script, given, overtaken, runs, faults>>

\* Step 6: a run has reported failed=0, a later dry run rewrapped=0.
RemoveRetired ==
  /\ report.settled /\ env.retired # {}
  /\ env' = [env EXCEPT !.retired = {}]
  /\ UNCHANGED <<deployed, stored, script, report, given, overtaken, runs, faults>>
-----------------------------------------------------------------------------
(* The script, started at step 5, once everything is deployed, and as often as*)
(* the operator likes.                                                      *)

\* findMany
StartRun(dry) ==
  /\ ~ script.on /\ AllDeployed /\ runs < MaxRuns
  /\ runs' = runs + 1
  /\ script' = [NoScript EXCEPT !.on = TRUE, !.dry = dry,
                  !.todo = {<<a, stored[a]>> : a \in {b \in Accounts : IsStored(stored[b])}}]
  /\ UNCHANGED <<env, deployed, stored, report, given, overtaken, faults>>

Skip(a, c) ==
  /\ ~ NeedsRewrap(env, c)
  /\ script' = [script EXCEPT !.todo = @ \ {<<a, c>>}]
  /\ UNCHANGED <<stored, faults>>

\* The ciphertext of the snapshot is decrypted and written back, whatever is
\* stored by now.
Rewrap(a, c) ==
  /\ NeedsRewrap(env, c) /\ Decrypts(env, c)
  /\ stored' = IF script.dry THEN stored
               ELSE [stored EXCEPT ![a] = Encrypt(env, c.token)]
  /\ script' = [script EXCEPT !.todo = @ \ {<<a, c>>}, !.rewrapped = @ + 1]
  /\ UNCHANGED faults

\* decryptSecret or the update throws; the run goes on.
RewrapFails(a, c) ==
  /\ NeedsRewrap(env, c)
  /\ \/ ~ Decrypts(env, c) /\ UNCHANGED faults
     \/ ~ script.dry /\ faults < MaxFaults /\ faults' = faults + 1
  /\ script' = [script EXCEPT !.todo = @ \ {<<a, c>>}, !.failed = @ + 1]
  /\ UNCHANGED stored

Account ==
  /\ script.on
  /\ \E a \in Accounts, c \in Ciphertext :
       <<a, c>> \in script.todo /\ (Skip(a, c) \/ Rewrap(a, c) \/ RewrapFails(a, c))
  /\ UNCHANGED <<env, deployed, report, given, overtaken, runs>>

\* Mutant of EndRun: failures are not counted.
EndRunClean ==
  /\ script.on /\ script.todo = {}
  /\ report' = IF script.dry
               THEN [report EXCEPT !.settled = report.clean /\ script.rewrapped = 0]
               ELSE [clean |-> TRUE, settled |-> FALSE]
  /\ script' = NoScript
  /\ UNCHANGED <<env, deployed, stored, given, overtaken, runs, faults>>

\* The counts are printed.
EndRun ==
  /\ script.on /\ script.todo = {}
  /\ report' = IF script.dry
               THEN [report EXCEPT !.settled = report.clean /\ script.rewrapped = 0]
               ELSE [clean |-> script.failed = 0, settled |-> FALSE]
  /\ script' = NoScript
  /\ UNCHANGED <<env, deployed, stored, given, overtaken, runs, faults>>

CrashRun ==
  /\ script.on /\ faults < MaxFaults
  /\ faults' = faults + 1
  /\ script' = NoScript
  /\ UNCHANGED <<env, deployed, stored, report, given, overtaken, runs>>

RotationNext ==
  \/ \E p \in Processes, a \in Accounts : Connect(p, a)
  \/ \E p \in Processes : Deploy(p)
  \/ Promote \/ RemoveRetired
  \/ \E dry \in BOOLEAN : StartRun(dry)
  \/ Account \/ EndRun \/ CrashRun

RotationSpec == RotationInit /\ [][RotationNext]_rotationVars
-----------------------------------------------------------------------------
\* No stored token is lost with a key: a process that cannot decrypt one has yet
\* to be deployed with the key it was written under, which others have; never
\* has the key been removed.  Only legacy values are stranded, by a promotion.
OnlyLateOnesThrow ==
  \A p \in Processes, a \in Accounts :
    "throws" \in AccessToken(p, a) =>
      stored[a].legacy \/ deployed[p].current < stored[a].key

\* A run without failures has rewrapped everything, legacy values included, and
\* whatever is connected afterwards needs no rewrapping, until the next key is
\* promoted.
CleanMeansRewrapped ==
  report.clean =>
    \A a \in Accounts : IsStored(stored[a]) => ~ NeedsRewrap(env, stored[a])

\* Rotation changes how a token is encrypted, not the token: what is stored is
\* what the account was last given, however often the script runs or dies, unless
\* the account was connected while a run held its former ciphertext.
TokenKept ==
  \A a \in Accounts : stored[a].token = given[a] \/ a \in overtaken
-----------------------------------------------------------------------------
(* The inductive invariant behind the safety properties.                    *)

\* The environments that are in use, and the keys that tokens are, or may yet be,
\* written under.
Environments == {env} \cup {deployed[p] : p \in Processes}
KeysInUse ==
  {e.current : e \in Environments}
    \cup {stored[a].key : a \in {b \in Accounts : IsStored(stored[b]) /\ ~ stored[b].legacy}}

\* A key in use that is older than an environment is retired there, not forgotten.
RetiredInv ==
  \A e \in Environments, key \in KeysInUse :
    key <= env.current /\ (key < e.current => key \in e.retired)

\* While a run is on, and after one without failures, every process has the current
\* key; what such a run has come past, or was connected since, needs no rewrapping.
RunInv ==
  /\ script.on \/ report.clean => \A p \in Processes : deployed[p].current = env.current
  /\ script.on /\ ~ script.dry /\ script.failed = 0 =>
       \A a \in Accounts :
         IsStored(stored[a]) => ~ NeedsRewrap(env, stored[a]) \/ <<a, stored[a]>> \in script.todo
  /\ CleanMeansRewrapped
  /\ report.settled => report.clean

\* What a run holds is the token it will find, unless the account is overtaken.
TokenInv ==
  /\ TokenKept
  /\ ~ script.dry =>
       \A a \in Accounts, c \in Ciphertext :
         <<a, c>> \in script.todo => c.token = given[a] \/ a \in overtaken

RotationInv == RetiredInv /\ RunInv /\ TokenInv
=============================================================================
