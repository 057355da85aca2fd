------------------------------ MODULE Deployment ------------------------------
(***************************************************************************)
(* How the official contracts are published: the registry's constructor,   *)
(* scripts/deploy-leopold-official.ts in its modes (fresh, existing, P-01  *)
(* redeployment), the bounded smoke test of the published suite, the       *)
(* contract freeze, and the two validators that later decide from the      *)
(* files alone whether the release is sound.                               *)
(*                                                                         *)
(* An address is the nonce that created it; a digest of a file is the      *)
(* content it had.  Adapter and bond escrow are created by the constructor *)
(* of their vault and stand or fall with it.                               *)
(***************************************************************************)
EXTENDS Integers, Sequences, FiniteSets

CONSTANTS
    OFFICIAL_VAULT_COUNT,   \* 4 in the code
    MaxNonce,               \* addresses an instance uses
    MaxRuns,                \* runs of the deployment script
    MaxTests,               \* runs of the smoke test
    MaxChanges              \* recompilations, other transactions of the deployer, and
                            \* changes of the registry, together

ASSUME DeploymentConfiguration ==
    /\ OFFICIAL_VAULT_COUNT \in Nat \ {0}
    /\ MaxNonce \in Nat /\ MaxNonce > OFFICIAL_VAULT_COUNT + 2

VARIABLES
    live,                   \* the contract at every address
    nonce,                  \* the deployer's next nonce
    artifacts,              \* what hardhat compile has left
    manifest,               \* config/leopold-frontend-contracts.json
    files,                  \* evidence and documentation
    run,                    \* the run of the deployment script
    test,                   \* the run of the smoke test
    principal,              \* the operator's principal in every vault
    smoked,                 \* registries whose first vault has seen the whole smoke test
    runs, tests, changes

deploymentVars == <<live, nonce, artifacts, manifest, files, run, test, principal, smoked, runs, tests, changes>>

-----------------------------------------------------------------------------
Addresses == 0 .. MaxNonce - 1
NoAddress == -1
Ids == 1 .. OFFICIAL_VAULT_COUNT

(* The contracts as compiled: with the flaw P-01, corrected, and some      *)
(* later edit that happens to have the corrected size.                     *)
Versions == {"original", "corrected", "draft"}
Bytes(version) == IF version = "original" THEN 1 ELSE 2
CorrectedBytes == 2

NoContract == [kind |-> "none", version |-> "original", id |-> 0, asset |-> NoAddress,
               vaults |-> <<>>, active |-> {}]
WrapperContract == [NoContract EXCEPT !.kind = "wrapper"]
VaultContract(version, id, asset) ==
    [NoContract EXCEPT !.kind = "vault", !.version = version, !.id = id, !.asset = asset]
RegistryContract(vaults) == [NoContract EXCEPT !.kind = "registry", !.vaults = vaults, !.active = Ids]

(* The transactions whose hashes the script holds: the first official      *)
(* suite, wrapper first, registry last.  Its vaults are OLD_VAULTS.        *)
REUSED_WRAPPER == 0
KnownVaults == [i \in Ids |-> i]
OLD_VAULTS == {KnownVaults[i] : i \in Ids}
OLD_REGISTRY == OFFICIAL_VAULT_COUNT + 1

KnownContract(address) ==
    IF address = REUSED_WRAPPER THEN WrapperContract
    ELSE IF address = OLD_REGISTRY THEN RegistryContract(KnownVaults)
    ELSE VaultContract("original", address, REUSED_WRAPPER)

(* The registry's constructor refuses duplicates, and vaults that are not  *)
(* the one with this number over one common asset.                         *)
RegistryAccepts(vaults) ==
    /\ \A i, j \in Ids : i /= j => vaults[i] /= vaults[j]
    /\ \A i \in Ids :
           /\ live[vaults[i]].kind = "vault"
           /\ live[vaults[i]].id = i
           /\ live[vaults[i]].asset = live[vaults[1]].asset

officialVault(registry, id) == live[registry].vaults[id]
isOfficialVault(registry, vault) == \E i \in Ids : live[registry].vaults[i] = vault

(* Ownable: only the owner, the deployer, marks a vault for discovery.  A  *)
(* call that leaves the mark as it is changes nothing and is no step.      *)
setOfficialVaultActive(registry, id, active) ==
    /\ changes < MaxChanges
    /\ live[registry].kind = "registry"
    /\ active /= (id \in live[registry].active)
    /\ live' = [live EXCEPT ![registry].active = IF active THEN @ \cup {id} ELSE @ \ {id}]
    /\ changes' = changes + 1
    /\ UNCHANGED <<nonce, artifacts, manifest, files, run, test, principal, smoked, runs, tests>>

-----------------------------------------------------------------------------
(***************************************************************************)
(* The deployment script.                                                  *)
(***************************************************************************)
NoManifest == [status |-> "NOT_YET_DEPLOYED", wrapper |-> NoAddress, registry |-> NoAddress,
               vaults |-> <<>>, p01 |-> FALSE]

NoFile == [present |-> FALSE]

Modes == [existing : BOOLEAN, p01 : BOOLEAN, dry : BOOLEAN, validate : BOOLEAN]

IdleRun == [pc |-> "idle", mode |-> [existing |-> FALSE, p01 |-> FALSE, dry |-> FALSE,
                                     validate |-> FALSE],
            version |-> "original", wrapper |-> NoAddress, vaults |-> <<>>, registry |-> NoAddress,
            checked |-> 0, matched |-> <<>>]

(* A script that has ended leaves nothing behind but an exit code, which   *)
(* nothing reads.                                                          *)
Running == run.pc /= "idle"

OtherState == <<manifest, files, test, principal, smoked, runs, tests, changes>>

manifestIsPreDeployment ==
    manifest.status = "NOT_YET_DEPLOYED" /\ manifest.wrapper = NoAddress /\ manifest.registry = NoAddress

manifestIsOfficial ==
    manifest.status = "DEPLOYED" /\ manifest.wrapper /= NoAddress /\ manifest.registry /= NoAddress

ModeAllowed(mode, acknowledged) ==
    /\ mode.p01 => acknowledged
    /\ manifestIsPreDeployment \/ mode.existing \/ mode.p01
    /\ mode.existing \/ mode.p01 => manifestIsOfficial

(* The manifest is looked at once, long before it is written.  A run that  *)
(* is refused has done nothing.                                            *)
Begin(mode, acknowledged) ==
    /\ ~ Running
    /\ runs < MaxRuns
    /\ runs' = runs + 1
    /\ ModeAllowed(mode, acknowledged)
    /\ run' = [IdleRun EXCEPT !.pc = "load", !.mode = mode]
    /\ UNCHANGED <<live, nonce, artifacts, manifest, files, test, principal, smoked, tests, changes>>

(* The factories take the artifacts as they are now.  preflight wants the  *)
(* funds of five deployments and a quarter more; a dry run ends here, and  *)
(* so does a dry run over existing contracts, which has checked nothing.   *)
preflight(funded) == run.mode.existing \/ funded

LoadFactories ==
    /\ run.pc = "load"
    /\ \E funded \in BOOLEAN :
           run' = IF ~ preflight(funded) THEN IdleRun
                  ELSE IF run.mode.dry THEN IdleRun
                  ELSE [run EXCEPT !.version = artifacts.current,
                                   !.pc = IF run.mode.existing THEN "known"
                                          ELSE IF run.mode.p01 THEN "reuse" ELSE "wrapper"]
    /\ UNCHANGED <<live, nonce, artifacts>> /\ UNCHANGED OtherState

recordKnownDeployment(address) == live[address] = [KnownContract(address) EXCEPT !.active = live[address].active]

(* The contracts of the fixed nonces, one receipt for every one of them.   *)
ReadKnown ==
    /\ run.pc = "known"
    /\ run' = IF \A address \in 0 .. OLD_REGISTRY : recordKnownDeployment(address)
              THEN [run EXCEPT !.wrapper = REUSED_WRAPPER, !.vaults = KnownVaults,
                               !.registry = OLD_REGISTRY, !.pc = "read"]
              ELSE IdleRun
    /\ UNCHANGED <<live, nonce, artifacts>> /\ UNCHANGED OtherState

ReuseWrapper ==
    /\ run.pc = "reuse"
    /\ run' = IF recordKnownDeployment(REUSED_WRAPPER)
              THEN [run EXCEPT !.wrapper = REUSED_WRAPPER, !.pc = "vaults"] ELSE IdleRun
    /\ UNCHANGED <<live, nonce, artifacts>> /\ UNCHANGED OtherState

(* A deployment takes the next nonce.  It is mined and the script goes on; *)
(* or the script fails although it is mined.  (One that is never mined is  *)
(* a failure like any other, see RunFails.)                                *)
Deploy(contract, next) ==
    /\ nonce < MaxNonce
    /\ live' = [live EXCEPT ![nonce] = contract]
    /\ nonce' = nonce + 1
    /\ run' \in {next, IdleRun}
    /\ UNCHANGED artifacts /\ UNCHANGED OtherState

DeployWrapper ==
    /\ run.pc = "wrapper"
    /\ Deploy(WrapperContract, [run EXCEPT !.wrapper = nonce, !.pc = "vaults"])

DeployVault ==
    /\ run.pc = "vaults" /\ Len(run.vaults) < OFFICIAL_VAULT_COUNT
    /\ Deploy(VaultContract(run.version, Len(run.vaults) + 1, run.wrapper),
              [run EXCEPT !.vaults = Append(@, nonce)])

DeployRegistry ==
    /\ run.pc = "vaults" /\ Len(run.vaults) = OFFICIAL_VAULT_COUNT
    /\ RegistryAccepts(run.vaults)
    /\ Deploy(RegistryContract(run.vaults), [run EXCEPT !.registry = nonce, !.pc = "read"])

(* The runtime is compared with the first compiled variant of its size.    *)
compiledVariants(version) ==
    SelectSeq(artifacts.buildInfo, LAMBDA variant : Bytes(variant) = Bytes(version))

runtimeMatches(version) ==
    compiledVariants(version) /= <<>> /\ compiledVariants(version)[1] = version

CheckWrapperAndRegistry ==
    /\ run.pc = "read"
    /\ run' = IF live[run.wrapper].kind = "wrapper" /\ live[run.registry].kind = "registry"
              THEN [run EXCEPT !.pc = "check"] ELSE IdleRun
    /\ UNCHANGED <<live, nonce, artifacts>> /\ UNCHANGED OtherState

TopologyMatches(id) ==
    /\ officialVault(run.registry, id) = run.vaults[id]
    /\ id \in live[run.registry].active
    /\ live[run.vaults[id]].id = id
    /\ live[run.vaults[id]].asset = run.wrapper

CheckVault ==
    /\ run.pc = "check" /\ run.checked < OFFICIAL_VAULT_COUNT
    /\ LET id == run.checked + 1
           version == live[run.vaults[id]].version
       IN run' = IF TopologyMatches(id) /\ runtimeMatches(version)
                 THEN [run EXCEPT !.checked = id, !.matched = Append(@, version)] ELSE IdleRun
    /\ UNCHANGED <<live, nonce, artifacts>> /\ UNCHANGED OtherState

(* Mutant: the superseded vaults are not looked for.                       *)
OldVaultsUnchecked == TRUE

(* A P-01 redeployment must not have found the superseded suite.           *)
oldVaultsAbsent ==
    run.mode.p01 => \A vault \in OLD_VAULTS : ~ isOfficialVault(run.registry, vault)

CheckOldVaults ==
    /\ run.pc = "check" /\ run.checked = OFFICIAL_VAULT_COUNT
    /\ run' = IF ~ oldVaultsAbsent THEN IdleRun
              ELSE IF run.mode.validate THEN IdleRun
              ELSE [run EXCEPT !.pc = "manifest"]
    /\ UNCHANGED <<live, nonce, artifacts>> /\ UNCHANGED OtherState

(* The files, one after the other; each digest is of the text just written.*)
Unwritten == <<live, nonce, artifacts, test, principal, smoked, runs, tests, changes>>

WriteManifest ==
    /\ run.pc = "manifest"
    /\ manifest' = [status |-> "DEPLOYED", wrapper |-> run.wrapper, registry |-> run.registry,
                    vaults |-> run.vaults, p01 |-> run.mode.p01]
    /\ run' = [run EXCEPT !.pc = "evidence"]
    /\ UNCHANGED files /\ UNCHANGED Unwritten

EvidenceOf(schema) ==
    [present |-> TRUE, schema |-> schema, manifest |-> manifest, wrapper |-> run.wrapper,
     registry |-> run.registry, vaults |-> run.vaults, runtime |-> run.matched, p01 |-> run.mode.p01]

WriteEvidence ==
    /\ run.pc = "evidence"
    /\ files' = [files EXCEPT !.evidence = EvidenceOf("official")]
    /\ run' = [run EXCEPT !.pc = IF run.mode.p01 THEN "p01evidence" ELSE "docs"]
    /\ UNCHANGED manifest /\ UNCHANGED Unwritten

WriteP01Evidence ==
    /\ run.pc = "p01evidence"
    /\ files' = [files EXCEPT !.p01Evidence = EvidenceOf("p01")]
    /\ run' = [run EXCEPT !.pc = "docs"]
    /\ UNCHANGED manifest /\ UNCHANGED Unwritten

WriteDocs ==
    /\ run.pc = "docs"
    /\ files' = [files EXCEPT !.docs = [present |-> TRUE, manifest |-> manifest, evidence |-> files.evidence]]
    /\ run' = IF run.mode.p01 THEN [run EXCEPT !.pc = "p01docs"] ELSE IdleRun
    /\ UNCHANGED manifest /\ UNCHANGED Unwritten

WriteP01Docs ==
    /\ run.pc = "p01docs"
    /\ files' = [files EXCEPT !.p01Docs = [present |-> TRUE, manifest |-> manifest, evidence |-> files.p01Evidence]]
    /\ run' = IdleRun
    /\ UNCHANGED manifest /\ UNCHANGED Unwritten

(* A request is rejected, a transaction is lost or reverted, the machine   *)
(* goes down: the script ends where it is.                                 *)
RunFails ==
    /\ Running
    /\ run' = IdleRun
    /\ UNCHANGED <<live, nonce, artifacts>> /\ UNCHANGED OtherState

DeploymentStep ==
    \/ \E mode \in Modes, acknowledged \in BOOLEAN : Begin(mode, acknowledged)
    \/ LoadFactories \/ ReadKnown \/ ReuseWrapper
    \/ DeployWrapper \/ DeployVault \/ DeployRegistry
    \/ CheckWrapperAndRegistry \/ CheckVault \/ CheckOldVaults
    \/ WriteManifest \/ WriteEvidence \/ WriteP01Evidence \/ WriteDocs \/ WriteP01Docs
    \/ RunFails

-----------------------------------------------------------------------------
(***************************************************************************)
(* The bounded smoke test: one unit into the first vault and out again.    *)
(***************************************************************************)
IdleTest == [pc |-> "idle", manifest |-> NoManifest]

TestState == <<live, nonce, artifacts, manifest, run, runs, changes>>

currentManifestUsable ==
    /\ manifest.vaults /= <<>>
    /\ manifest.wrapper = REUSED_WRAPPER
    /\ 1 \in live[manifest.registry].active
    /\ officialVault(manifest.registry, 1) = manifest.vaults[1]

BeginTest ==
    /\ test.pc = "idle"
    /\ tests < MaxTests
    /\ tests' = tests + 1
    /\ currentManifestUsable
    /\ test' = [pc |-> "deposit", manifest |-> manifest]
    /\ UNCHANGED <<files, principal, smoked>> /\ UNCHANGED TestState

TestVault == test.manifest.vaults[1]

(* Approve, wrap, deposit; then the principal has to be what was sent: a   *)
(* unit a failed test left behind makes every later test fail.             *)
TestDeposits ==
    /\ test.pc = "deposit"
    /\ principal' = [principal EXCEPT ![TestVault] = @ + 1]
    /\ test' = IF principal[TestVault] = 0 THEN [test EXCEPT !.pc = "withdraw"] ELSE IdleTest
    /\ UNCHANGED <<files, smoked, tests>> /\ UNCHANGED TestState

TestWithdraws ==
    /\ test.pc = "withdraw"
    /\ principal' = [principal EXCEPT ![TestVault] = @ - 1]
    /\ smoked' = smoked \cup {test.manifest.registry}
    /\ test' = [test EXCEPT !.pc = "write"]
    /\ UNCHANGED <<files, tests>> /\ UNCHANGED TestState

WriteSmoke ==
    /\ test.pc = "write"
    /\ files' = [files EXCEPT !.smoke = [present |-> TRUE, manifest |-> test.manifest,
                                         registry |-> test.manifest.registry]]
    /\ test' = IdleTest
    /\ UNCHANGED <<principal, smoked, tests>> /\ UNCHANGED TestState

TestFails ==
    /\ test.pc /= "idle"
    /\ test' = IdleTest
    /\ UNCHANGED <<files, principal, smoked, tests>> /\ UNCHANGED TestState

-----------------------------------------------------------------------------
(***************************************************************************)
(* The freeze and the record a reviewer makes of it, while no script runs. *)
(***************************************************************************)
FreezeState == <<live, nonce, manifest, run, test, principal, smoked, runs, tests>>

Quiet == ~ Running /\ test.pc = "idle"

(* The freeze and its sidecar; the second file may be missing after a      *)
(* crash.                                                                  *)
GenerateFreeze ==
    /\ Quiet
    /\ files.freeze /= [version |-> artifacts.current, sidecar |-> artifacts.current]
    /\ \E both \in BOOLEAN :
           files' = [files EXCEPT !.freeze =
               [version |-> artifacts.current, sidecar |-> IF both THEN artifacts.current ELSE @.sidecar]]
    /\ UNCHANGED <<artifacts, changes>> /\ UNCHANGED FreezeState

(* LEOPOLD_P01_REFREEZE.json is written by hand, from the files there are. *)
RefreezeRecord ==
    [present |-> TRUE, manifest |-> manifest, evidence |-> files.p01Evidence, smoke |-> files.smoke,
     freeze |-> files.freeze.version, vaults |-> manifest.vaults, registry |-> manifest.registry,
     wrapper |-> manifest.wrapper, runtime |-> artifacts.current]

Refreeze ==
    /\ Quiet
    /\ files.p01Evidence.present /\ files.smoke.present
    /\ files.refreeze /= RefreezeRecord
    /\ files' = [files EXCEPT !.refreeze = RefreezeRecord]
    /\ UNCHANGED <<artifacts, changes>> /\ UNCHANGED FreezeState

(* hardhat compile: the new output, with or without what was there before, *)
(* before it or after it in the order of the directory.                    *)
Recompile(version) ==
    /\ changes < MaxChanges
    /\ version /= artifacts.current
    /\ \E info \in {<<version>>, <<version, artifacts.current>>, <<artifacts.current, version>>} :
           artifacts' = [current |-> version, buildInfo |-> info]
    /\ changes' = changes + 1
    /\ UNCHANGED files /\ UNCHANGED FreezeState

OtherTransaction ==
    /\ changes < MaxChanges
    /\ nonce < MaxNonce
    /\ nonce' = nonce + 1
    /\ changes' = changes + 1
    /\ UNCHANGED <<live, artifacts, manifest, files, run, test, principal, smoked, runs, tests>>

-----------------------------------------------------------------------------
(***************************************************************************)
(* The validators: they read files and artifacts, never the chain.         *)
(***************************************************************************)
redeploymentMatches ==
    LET redeployment == files.p01Evidence IN
    /\ redeployment.present
    /\ redeployment.schema = "p01"
    /\ redeployment.manifest = manifest
    /\ redeployment.registry = manifest.registry
    /\ redeployment.wrapper = manifest.wrapper
    /\ redeployment.p01
    /\ \A i \in Ids : /\ redeployment.vaults[i] = manifest.vaults[i]
                      /\ Bytes(redeployment.runtime[i]) = CorrectedBytes

(* Mutant: a smoke test of any suite will do.                              *)
SmokeOfAnySuite == files.smoke.present

smokeMatches ==
    /\ files.smoke.present
    /\ files.smoke.manifest = manifest
    /\ files.smoke.registry = manifest.registry

freezeMatches ==
    /\ files.freeze.version = files.freeze.sidecar
    /\ files.freeze.version = artifacts.current

refreezeMatches ==
    /\ files.refreeze.present
    /\ files.refreeze.registry = manifest.registry
    /\ files.refreeze.manifest = manifest
    /\ files.refreeze.evidence = files.p01Evidence
    /\ files.refreeze.smoke = files.smoke
    /\ files.refreeze.freeze = files.freeze.version

contractFreezeValid ==
    /\ Len(manifest.vaults) = OFFICIAL_VAULT_COUNT
    /\ freezeMatches /\ redeploymentMatches /\ smokeMatches /\ refreezeMatches

productionReleaseValid ==
    /\ files.refreeze.present
    /\ files.refreeze.manifest = manifest
    /\ Len(manifest.vaults) = OFFICIAL_VAULT_COUNT
    /\ files.refreeze.vaults = manifest.vaults
    /\ files.refreeze.registry = manifest.registry
    /\ files.refreeze.wrapper = manifest.wrapper
    /\ manifest.registry /= OLD_REGISTRY
    /\ \A i \in Ids : manifest.vaults[i] \notin OLD_VAULTS
    /\ Bytes(artifacts.current) = CorrectedBytes
    /\ files.refreeze.runtime = artifacts.current
    /\ files.freeze.version = artifacts.current

-----------------------------------------------------------------------------
NoFiles == [evidence |-> NoFile, p01Evidence |-> NoFile, docs |-> NoFile, p01Docs |-> NoFile,
            smoke |-> NoFile, refreeze |-> NoFile, freeze |-> [version |-> "none", sidecar |-> "none"]]

DeploymentIdle ==
    /\ run = IdleRun
    /\ test = IdleTest
    /\ files = NoFiles
    /\ principal = [a \in Addresses |-> 0]
    /\ smoked = {}
    /\ runs = 0 /\ tests = 0 /\ changes = 0

(* Nothing is deployed yet; or the first official suite is, with the       *)
(* corrected sources compiled since.                                       *)
NothingDeployed ==
    /\ live = [a \in Addresses |-> NoContract]
    /\ nonce = 0
    /\ manifest = NoManifest
    /\ artifacts = [current |-> "original", buildInfo |-> <<"original">>]

FirstSuiteDeployed ==
    /\ live = [a \in Addresses |-> IF a <= OLD_REGISTRY THEN KnownContract(a) ELSE NoContract]
    /\ nonce = OLD_REGISTRY + 1
    /\ manifest = [status |-> "DEPLOYED", wrapper |-> REUSED_WRAPPER, registry |-> OLD_REGISTRY,
                   vaults |-> KnownVaults, p01 |-> FALSE]
    /\ artifacts \in [current : {"original", "corrected"}, buildInfo : {<<"original">>, <<"corrected">>}]
    /\ artifacts.buildInfo = <<artifacts.current>>

DeploymentInit == DeploymentIdle /\ (NothingDeployed \/ FirstSuiteDeployed)

DeploymentNext ==
    \/ DeploymentStep
    \/ BeginTest \/ TestDeposits \/ TestWithdraws \/ WriteSmoke \/ TestFails
    \/ GenerateFreeze \/ Refreeze
    \/ \E version \in Versions : Recompile(version)
    \/ OtherTransaction
    \/ \E registry \in Addresses, id \in Ids, active \in BOOLEAN : setOfficialVaultActive(registry, id, active)

DeploymentSpec == DeploymentInit /\ [][DeploymentNext]_deploymentVars

-----------------------------------------------------------------------------
OneSuite ==
    /\ live[manifest.registry].kind = "registry"
    /\ live[manifest.registry].vaults = manifest.vaults
    /\ live[manifest.wrapper].kind = "wrapper"
    /\ \A i \in Ids : LET vault == live[manifest.vaults[i]] IN
           vault.kind = "vault" /\ vault.id = i /\ vault.asset = manifest.wrapper

(* What is published is one suite: registry, vaults and wrapper belong     *)
(* together although runs fail half-way, other transactions take nonces    *)
(* and the modes of the script can be combined; a manifest that claims the *)
(* P-01 redeployment names no superseded vault; and a run that reports     *)
(* success leaves evidence and documents about this very manifest.         *)
PublishedIsOneSuite ==
    manifest.status = "DEPLOYED" =>
        /\ OneSuite
        /\ manifest.p01 => \A i \in Ids : manifest.vaults[i] \notin OLD_VAULTS
        /\ run.pc = "p01docs" =>
               files.docs.manifest = manifest /\ files.docs.evidence = files.evidence
               /\ files.evidence.manifest = manifest /\ files.p01Evidence.manifest = manifest

(* When both validators accept, without having asked the chain, the        *)
(* manifest names one suite of vaults that are not superseded, of the      *)
(* frozen size, and this suite, not an earlier one, has had the smoke test.*)
ReleaseIsSound ==
    contractFreezeValid /\ productionReleaseValid =>
        /\ OneSuite
        /\ \A i \in Ids : /\ manifest.vaults[i] \notin OLD_VAULTS
                          /\ Bytes(live[manifest.vaults[i]].version) = Bytes(files.freeze.version)
        /\ manifest.registry \in smoked
=============================================================================
