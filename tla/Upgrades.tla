------------------------------ MODULE Upgrades ------------------------------
(***************************************************************************)
(* The contract's code and its version: upgrades and rollbacks             *)
(* (upgrade_manager.rs), and the version history (versioning.rs), which is *)
(* kept apart from the code.  The administrator's permission is checked    *)
(* first; a call that fails changes nothing.                               *)
(***************************************************************************)
EXTENDS Integers, Sequences

CONSTANTS
  Codes,        \* hashes of installed code
  ZeroHash,     \* the hash stored for no code, which nothing can install
  Majors, Minors, Patches, \* version numbers
  Part,         \* 1000, what a part of a version is multiplied by
  MaxUpgrades,  \* bound on upgrades and rollbacks
  MaxVersions   \* bound on the versions tracked

ASSUME UpgradesAssumption ==
  /\ ZeroHash \notin Codes
  /\ Majors \subseteq Nat
  /\ Minors \subseteq Nat
  /\ Patches \subseteq Nat
  /\ Part \in Nat \ {0}
  /\ MaxUpgrades \in Nat
  /\ MaxVersions \in Nat

VARIABLES
  code,        \* current_wasm_hash
  records,     \* upgrade_history
  installed,   \* history: the code the host runs, from the first upgrade on
  version,     \* current_version of VERSION_HISTORY
  versions,    \* its versions
  upgraded     \* history: from which version each upgrade_to_version went
               \* to which, and whether that one listed others

upgradesVars == <<code, records, installed, version, versions, upgraded>>

Hashes == Codes \cup {ZeroHash}

Versions == [major : Nat, minor : Nat, patch : Nat, migrates : BOOLEAN]

Upgraded == [from : Versions, to : Versions, listed : BOOLEAN]

Initial == [major |-> 0, minor |-> 0, patch |-> 0, migrates |-> FALSE]

UpgradesTypeOK ==
  /\ code \in Hashes
  /\ records \in Seq([previous : Hashes, new : Codes, rolledBack : BOOLEAN])
  /\ installed \in Seq(Codes)
  /\ version \in Versions
  /\ versions \in Seq(Versions)
  /\ upgraded \in Seq(Upgraded)

UpgradesInit ==
  /\ code = ZeroHash
  /\ records = <<>>
  /\ installed = <<>>
  /\ version = Initial
  /\ versions = <<>>
  /\ upgraded = <<>>

-----------------------------------------------------------------------------
(* The code.                                                               *)
codeOnly == <<version, versions, upgraded>>

Running == IF installed = <<>> THEN ZeroHash ELSE installed[Len(installed)]

(* Seeded fault: the new hash is not stored.                               *)
UpgradeForgetsHash(new, expected) ==
  /\ code = expected
  /\ Len(installed) < MaxUpgrades
  /\ installed' = Append(installed, new)
  /\ records' = Append(records, [previous |-> code, new |-> new,
                                 rolledBack |-> FALSE])
  /\ code' = IF code = ZeroHash THEN new ELSE code
  /\ UNCHANGED codeOnly

(* upgrade_contract: on top of the code its caller names.                  *)
UpgradeContract(new, expected) ==
  /\ code = expected
  /\ Len(installed) < MaxUpgrades
  /\ installed' = Append(installed, new)
  /\ records' = Append(records, [previous |-> code, new |-> new,
                                 rolledBack |-> FALSE])
  /\ code' = new
  /\ UNCHANGED codeOnly

(* verify_rollback_chain.                                                  *)
InChain(hash) ==
  \E i \in 1..Len(records) : records[i].previous = hash \/ records[i].new = hash

(* rollback_upgrade: the latest record is stored once more, as rolled      *)
(* back, whatever code is gone back to.                                    *)
RollbackUpgrade(hash) ==
  /\ InChain(hash)
  /\ Len(installed) < MaxUpgrades
  /\ installed' = Append(installed, hash)
  /\ code' = hash
  /\ records' = Append(records,
                       [records[Len(records)] EXCEPT !.rolledBack = TRUE])
  /\ UNCHANGED codeOnly

(* verify_upgrade_chain, of all records.                                   *)
ChainVerifies ==
  \A i \in 1..Len(records) :
    records[i].previous = IF i = 1 THEN ZeroHash ELSE records[i - 1].new

-----------------------------------------------------------------------------
(* The version.                                                            *)
versionOnly == <<code, records, installed>>

(* version_number: parts of Part and more run into the next one.           *)
VersionNumber(v) == v.major * (Part * Part) + v.minor * Part + v.patch

(* is_compatible_with.  The caller fills in the new version's list of      *)
(* compatible ones; to_string gives all versions one and the same text, so *)
(* a list that has that text (listed) has every version of another major.  *)
Compatible(new, old, listed) ==
  \/ new.major = old.major /\ new.minor >= old.minor
  \/ /\ new.major # old.major
     /\ listed \/ (old.major = 0 /\ old.minor = 0 /\ old.patch = 0)

(* Seeded fault: an upgrade is refused by its number alone.                *)
AllowedByNumber(old, new, listed) ==
  /\ VersionNumber(new) > VersionNumber(old)
  /\ ~new.migrates

(* validate_version_compatibility.                                         *)
UpgradeAllowed(old, new, listed) ==
  /\ VersionNumber(new) > VersionNumber(old)
  /\ Compatible(new, old, listed)
  /\ ~(new.migrates \/ new.major > old.major)

WithVersion(v) ==
  /\ Len(versions) < MaxVersions
  /\ version' = v
  /\ versions' = Append(versions, v)

(* track_contract_version: any version.                                    *)
TrackContractVersion(v) ==
  /\ WithVersion(v)
  /\ UNCHANGED <<upgraded, versionOnly>>

UpgradeToVersion(v, listed) ==
  /\ UpgradeAllowed(version, v, listed)
  /\ WithVersion(v)
  /\ upgraded' = Append(upgraded, [from |-> version, to |-> v, listed |-> listed])
  /\ UNCHANGED versionOnly

(* rollback_to_version: any lower number, tracked or not.                  *)
RollbackToVersion(v) ==
  /\ VersionNumber(version) > VersionNumber(v)
  /\ WithVersion(v)
  /\ UNCHANGED <<upgraded, versionOnly>>

UpgradesNext ==
  \/ \E new \in Codes, expected \in Hashes : UpgradeContract(new, expected)
  \/ \E hash \in Codes : RollbackUpgrade(hash)
  \/ \E x \in Majors, y \in Minors, z \in Patches, m \in BOOLEAN :
       LET v == [major |-> x, minor |-> y, patch |-> z, migrates |-> m]
       IN  \/ TrackContractVersion(v)
           \/ \E listed \in BOOLEAN : UpgradeToVersion(v, listed)
           \/ RollbackToVersion(v)

UpgradesSpec == UpgradesInit /\ [][UpgradesNext]_upgradesVars

-----------------------------------------------------------------------------
(* The hash an upgrade is compared with is that of the code the host runs, *)
(* through any upgrades and rollbacks; every record names two codes of     *)
(* which the second replaced the first; and the chain verifies until a     *)
(* rollback stores a record twice (upgrade_contract, rollback_upgrade,     *)
(* verify_upgrade_chain).                                                  *)
RecordsMatchCode ==
  /\ code = Running
  /\ \A i \in 1..Len(records) :
       \E j \in 1..Len(installed) :
         /\ records[i].new = installed[j]
         /\ records[i].previous = IF j = 1 THEN ZeroHash ELSE installed[j - 1]
  /\ (\A i \in 1..Len(records) : ~records[i].rolledBack) => ChainVerifies

(* upgrade_to_version never raises the major version, and within one goes  *)
(* up by minor, then patch, whatever was tracked or rolled back before,    *)
(* though it compares numbers in which a part of 1000 or more runs into    *)
(* the next one.  Only a version that its caller lets list others, and     *)
(* that has such a part, goes down to a lower major version                *)
(* (validate_version_compatibility, is_compatible_with, version_number).   *)
UpgradesInOrder ==
  \A i \in 1..Len(upgraded) :
    LET old == upgraded[i].from
        new == upgraded[i].to
    IN  \/ /\ new.major = old.major
           /\ \/ new.minor > old.minor
              \/ new.minor = old.minor /\ new.patch > old.patch
        \/ /\ new.major < old.major
           /\ upgraded[i].listed
           /\ new.minor >= Part \/ new.patch >= Part

=============================================================================
