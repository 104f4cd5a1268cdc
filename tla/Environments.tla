--------------------------- MODULE Environments ---------------------------
(***************************************************************************)
(* Environments and their secrets: the files of environments/, one for each *)
(* slug, which hold plain values and opaque references, and the keychain,    *)
(* which holds what the references name (postly-core/src/secrets.rs).         *)
(*                                                                         *)
(* The desktop's editor, `postly env set`, `env migrate` and the imports store the *)
(* secrets first, one by one, and then write the file; the editor writes it   *)
(* under the slug of its name and removes the file it came from.  Each of     *)
(* these steps can fail, and a process can die between any two of them.      *)
(*                                                                         *)
(* A variable is <<>> (absent), <<"plain", v>>, <<"secret", v>> (written by a *)
(* version without a keychain) or <<"ref", environment name, key>>: the       *)
(* reference is a hash of these two in the workspace's namespace.  While it is  *)
(* being saved a variable can also be <<"typed", v>>: a secret to be stored.  *)
(***************************************************************************)
EXTENDS Naturals, FiniteSets

CONSTANTS
  EnvironmentNames,   \* trimmed names of environments
  Slug,               \* slugify of each
  VariableKeys,       \* the keys of their variables
  SecretValues,       \* what a variable can be given
  MaxSaves,           \* bound: operations in a behaviour
  MaxSaveFailures     \* bound: failures and crashes in a behaviour

Slugs == {Slug[n] : n \in EnvironmentNames}
NoEnvironment == [name |-> "", variables |-> [k \in VariableKeys |-> <<>>]]
Absent == <<>>
Plain(v) == <<"plain", v>>
Legacy(v) == <<"secret", v>>
Typed(v) == <<"typed", v>>

(* reference_for_environment                                                 *)
ReferenceWithoutName(n, k) == <<"ref", CHOOSE m \in EnvironmentNames : TRUE, k>>
Reference(n, k) == <<"ref", n, k>>
References == {Reference(n, k) : n \in EnvironmentNames, k \in VariableKeys}
IsReference(variable) == variable \in References

ASSUME EnvironmentsAssumption ==
  /\ "" \notin EnvironmentNames
  /\ MaxSaves \in Nat /\ MaxSaveFailures \in Nat

VARIABLES
  keychain,           \* the value of each reference, Absent if it has none
  environment_files,  \* the environment in the file of each slug
  environments,       \* the desktop's list, as it last read the files
  saving,             \* what each process is saving, and how far it is
  inherited,          \* history: a file was given another variable's reference
  concurrent_saves,   \* history: two processes saved at the same time
  files_before,       \* history: the files when the operation began
  saves,              \* history: operations begun
  save_failures,      \* history: failures
  saver_deaths        \* history: crashes

environmentHistoryVars ==
  <<inherited, concurrent_saves, files_before, saves, save_failures, saver_deaths>>
environmentVars ==
  <<keychain, environment_files, environments, saving, environmentHistoryVars>>

Savers == {"app", "cli"}
NotSaving ==
  [phase |-> "idle", old |-> "", environment |-> NoEnvironment,
   migrating |-> FALSE]

EnvironmentsInit ==
  /\ keychain = [r \in References |-> Absent]
  /\ environment_files = [s \in Slugs |-> NoEnvironment]
  /\ environments = environment_files
  /\ saving = [p \in Savers |-> NotSaving]
  /\ inherited = FALSE /\ concurrent_saves = FALSE
  /\ files_before = environment_files /\ saves = 0
  /\ save_failures = 0 /\ saver_deaths = 0

-----------------------------------------------------------------------------
(* An operation begins with its environment, typed secrets included.          *)
BeginSave(p, old, environment, migrating) ==
  /\ saving[p].phase = "idle" /\ saves < MaxSaves
  /\ saves' = saves + 1
  /\ saving' = [saving EXCEPT ![p] =
       [phase |-> "secrets", old |-> old, environment |-> environment,
        migrating |-> migrating]]
  /\ concurrent_saves' = (concurrent_saves \/ \E q \in Savers : saving[q].phase # "idle")
  /\ files_before' = environment_files
  /\ UNCHANGED <<keychain, environment_files, environments, inherited,
                 save_failures, saver_deaths>>

(* What the rows of the editor can say of one variable: it is removed, plain, *)
(* a secret with a typed value (a legacy value fills the field), or a secret  *)
(* whose blank field keeps the reference of the row, whatever its key now is. *)
(* A row with a reference cannot be made plain.                              *)
Row(source) ==
  {Absent} \cup {Plain(v) : v \in SecretValues} \cup {Typed(v) : v \in SecretValues}
    \cup {source.variables[k] : k \in {j \in VariableKeys : IsReference(source.variables[j])}}
Rows(source) ==
  {rows \in [VariableKeys -> Row(source)] :
     \A j, k \in VariableKeys :
       IsReference(rows[j]) /\ rows[j] = rows[k] => j = k}

(* open_environment_editor with an entry of the list or a new environment,   *)
(* and save_environment_editor up to its checks.                             *)
SaveEnvironmentEditor ==
  \E s \in Slugs \cup {""}, n \in EnvironmentNames :
    LET source == IF s = "" THEN NoEnvironment ELSE environments[s] IN
    /\ s # "" => environments[s] # NoEnvironment
    /\ \E rows \in Rows(source) :
         BeginSave("app", s, [name |-> n, variables |-> rows], FALSE)

(* `postly env set`: the environment of exactly that name, or a new one, with *)
(* some variables set to plain values or secrets.                            *)
SetEnvironment ==
  \E n \in EnvironmentNames, k \in VariableKeys, v \in SecretValues :
    \E variable \in {Plain(v), Typed(v)} :
      LET found == {s \in Slugs : environment_files[s].name = n}
          base == IF found = {} THEN NoEnvironment
                  ELSE environment_files[CHOOSE s \in found : TRUE]
      IN BeginSave("cli", "",
           [name |-> n, variables |-> [base.variables EXCEPT ![k] = variable]], FALSE)

(* `postly env migrate --all`: the legacy secrets of an environment.          *)
MigrateEnvironmentSecrets ==
  \E s \in Slugs :
    LET environment == environment_files[s] IN
    /\ \E k \in VariableKeys, v \in SecretValues : environment.variables[k] = Legacy(v)
    /\ BeginSave("cli", "",
         [environment EXCEPT !.variables = [k \in VariableKeys |->
            IF @[k] \in {Legacy(v) : v \in SecretValues} THEN Typed(@[k][2]) ELSE @[k]]],
         TRUE)

(* `postly import environment` and `postly import dotenv`: the entries of the   *)
(* imported file replace the environment of that name.  The secrets among them  *)
(* are stored first, a marked Postman secret only with --secure.              *)
ImportEnvironment ==
  \E n \in EnvironmentNames, secure \in BOOLEAN :
    \E variables \in [VariableKeys -> {Absent} \cup {Plain(v) : v \in SecretValues}
                          \cup {IF secure THEN Typed(v) ELSE Legacy(v) : v \in SecretValues}] :
      BeginSave("cli", "", [name |-> n, variables |-> variables], FALSE)
ImportDotenv ==
  \E n \in EnvironmentNames :
    \E variables \in [VariableKeys -> {Absent} \cup {Plain(v) : v \in SecretValues}
                          \cup {Typed(v) : v \in SecretValues}] :
      BeginSave("cli", "", [name |-> n, variables |-> variables], FALSE)

Unstored(p) ==
  {k \in VariableKeys : \E v \in SecretValues :
     saving[p].environment.variables[k] = Typed(v)}

(* set_environment_secret of the next secret.                                *)
StoreSecretAnyway(p, k) ==
  LET n == saving[p].environment.name IN
  /\ keychain' \in {keychain, [keychain EXCEPT ![Reference(n, k)] = <<saving[p].environment.variables[k][2]>>]}
  /\ saving' = [saving EXCEPT ![p].environment.variables[k] = Reference(n, k)]
StoreSecret(p, k) ==
  LET n == saving[p].environment.name IN
  /\ keychain' = [keychain EXCEPT ![Reference(n, k)] =
                    <<saving[p].environment.variables[k][2]>>]
  /\ saving' = [saving EXCEPT ![p].environment.variables[k] = Reference(n, k)]
StoreNextSecret(p) ==
  /\ saving[p].phase = "secrets"
  /\ \E k \in Unstored(p) : StoreSecret(p, k)
  /\ UNCHANGED <<environment_files, environments, environmentHistoryVars>>

(* The desktop reads its list again when a save has succeeded.                *)
Reread(p) == environments' = IF p = "app" THEN environment_files' ELSE environments
Inherits(environment) ==
  \E k \in VariableKeys : /\ IsReference(environment.variables[k])
                          /\ environment.variables[k] # Reference(environment.name, k)

(* save_environment, or the first half of relocate_environment.              *)
WriteEnvironment(p) ==
  LET environment == saving[p].environment
      old == saving[p].old
      new == Slug[environment.name]
  IN /\ saving[p].phase = "secrets" /\ Unstored(p) = {}
     /\ environment_files' = [environment_files EXCEPT ![new] = environment]
     /\ inherited' = (inherited \/ Inherits(environment))
     /\ IF old \in {"", new}
        THEN saving' = [saving EXCEPT ![p] = NotSaving] /\ Reread(p)
        ELSE /\ saving' = [saving EXCEPT ![p].phase = "remove"]
             /\ UNCHANGED environments
     /\ UNCHANGED <<keychain, concurrent_saves, files_before, saves, save_failures,
                    saver_deaths>>

(* The second half: remove_file, which fails when another process has         *)
(* removed the file.                                                          *)
RemoveOldEnvironment(p) ==
  /\ saving[p].phase = "remove"
  /\ environment_files[saving[p].old] # NoEnvironment
  /\ environment_files' = [environment_files EXCEPT ![saving[p].old] = NoEnvironment]
  /\ saving' = [saving EXCEPT ![p] = NotSaving]
  /\ Reread(p)
  /\ UNCHANGED <<keychain, environmentHistoryVars>>

MayFail == save_failures + saver_deaths < MaxSaveFailures

(* A step fails and the operation returns the error: after the new file was   *)
(* written it is removed again.                                               *)
RollBackNothing(p) == UNCHANGED environment_files
RollBack(p) ==
  environment_files' =
    IF saving[p].phase = "remove"
    THEN [environment_files EXCEPT ![Slug[saving[p].environment.name]] = NoEnvironment]
    ELSE environment_files
SaveFails(p) ==
  /\ saving[p].phase # "idle"
  /\ \/ MayFail /\ save_failures' = save_failures + 1
     \/ /\ saving[p].phase = "remove"
        /\ environment_files[saving[p].old] = NoEnvironment
        /\ UNCHANGED save_failures
  /\ RollBack(p)
  /\ saving' = [saving EXCEPT ![p] = NotSaving]
  /\ UNCHANGED <<keychain, environments, inherited, concurrent_saves, files_before, saves,
                 saver_deaths>>

(* The process dies; the desktop reads the files when it starts again.        *)
SaverDies(p) ==
  /\ saving[p].phase # "idle" /\ MayFail
  /\ saver_deaths' = saver_deaths + 1
  /\ saving' = [saving EXCEPT ![p] = NotSaving]
  /\ environments' = IF p = "app" THEN environment_files ELSE environments
  /\ UNCHANGED <<keychain, environment_files, inherited, concurrent_saves,
                 files_before, saves, save_failures>>

(* A file of an earlier version arrives, from a checkout or an editor.         *)
CheckOutEnvironment ==
  \E n \in EnvironmentNames, k \in VariableKeys, v \in SecretValues :
    /\ saves = 0 /\ environment_files[Slug[n]] = NoEnvironment
    /\ environment_files' = [environment_files EXCEPT ![Slug[n]] =
         [name |-> n, variables |-> [NoEnvironment.variables EXCEPT ![k] = Legacy(v)]]]
    /\ environments' = environment_files'
    /\ UNCHANGED <<keychain, saving, environmentHistoryVars>>

EnvironmentsNext ==
  \/ CheckOutEnvironment
  \/ SaveEnvironmentEditor \/ SetEnvironment \/ MigrateEnvironmentSecrets
  \/ ImportEnvironment \/ ImportDotenv
  \/ \E p \in Savers :
       \/ StoreNextSecret(p) \/ WriteEnvironment(p) \/ RemoveOldEnvironment(p)
       \/ SaveFails(p) \/ SaverDies(p)

EnvironmentsSpec == EnvironmentsInit /\ [][EnvironmentsNext]_environmentVars

-----------------------------------------------------------------------------
Variable ==
  {Absent} \cup {Plain(v) : v \in SecretValues} \cup {Legacy(v) : v \in SecretValues}
    \cup References
EnvironmentRecord ==
  [name : EnvironmentNames, variables : [VariableKeys -> Variable]] \cup {NoEnvironment}

EnvironmentsTypeOK ==
  /\ keychain \in [References -> {<<v>> : v \in SecretValues} \cup {Absent}]
  /\ \A s \in Slugs : environment_files[s] \in EnvironmentRecord /\ environments[s] \in EnvironmentRecord
  /\ \A p \in Savers :
       /\ saving[p].phase \in {"idle", "secrets", "remove"}
       /\ saving[p].environment \in
            [name : EnvironmentNames,
             variables : [VariableKeys -> Variable \cup {Typed(v) : v \in SecretValues}]]
              \cup {NoEnvironment}
       /\ saving[p].old \in Slugs \cup {""}
  /\ {inherited, concurrent_saves} \subseteq BOOLEAN
  /\ saves \in 0 .. MaxSaves /\ save_failures + saver_deaths \in 0 .. MaxSaveFailures

(* resolve_environment: the value of a variable, Absent when it has none or   *)
(* its reference is missing in the keychain.                                 *)
ResolvedValue(variable) ==
  IF IsReference(variable) THEN keychain[variable]
  ELSE IF variable = Absent THEN Absent ELSE <<variable[2]>>

(* However saves fail, die and overlap, every reference that a file holds has *)
(* its value in the keychain, so no environment fails to resolve with "secret *)
(* is not present in secure storage"; and as long as no environment and no     *)
(* variable was renamed with a blank secret field, a reference belongs to one  *)
(* variable only: storing a secret changes no other one.                      *)
SecretsResolve ==
  /\ \A s \in Slugs, k \in VariableKeys :
       IsReference(environment_files[s].variables[k]) =>
         keychain[environment_files[s].variables[k]] # Absent
  /\ ~inherited =>
       \A s, t \in Slugs, j, k \in VariableKeys :
         /\ IsReference(environment_files[s].variables[j])
         /\ environment_files[s].variables[j] = environment_files[t].variables[k]
         => s = t /\ j = k

(* A save that fails leaves every file as it was, and one that dies at most    *)
(* adds the new file before the old one was removed: provided that no other    *)
(* process saved and that no other environment had the new file's name.        *)
FailedSaveKeepsFiles ==
  [][\A p \in Savers :
       /\ saving[p].phase # "idle" /\ saving'[p].phase = "idle"
       /\ save_failures' + saver_deaths' # save_failures + saver_deaths
       /\ ~concurrent_saves
       /\ (saving[p].phase = "remove" =>
             files_before[Slug[saving[p].environment.name]] = NoEnvironment)
       => \A s \in Slugs :
            \/ environment_files'[s] = files_before[s]
            \/ /\ saver_deaths' # saver_deaths
               /\ files_before[s] = NoEnvironment
               /\ environment_files'[s] = saving[p].environment]_environmentVars

(* A migration, whatever becomes of it, changes no value that a variable       *)
(* resolves to.                                                              *)
MigrationKeepsValues ==
  [][\A p \in Savers, s \in Slugs, k \in VariableKeys :
       saving[p].migrating /\ ~inherited /\ ~concurrent_saves =>
         ResolvedValue(environment_files[s].variables[k])' =
           ResolvedValue(environment_files[s].variables[k])]_environmentVars

(* A save that fails leaves the files it found, and a migration keeps every    *)
(* value.                                                                    *)
SavesKeepValues == FailedSaveKeepsFiles /\ MigrationKeepsValues
=============================================================================
