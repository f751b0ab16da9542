--------------------------- MODULE DisputeMultiSig ---------------------------
(***************************************************************************)
(* Approval of a dispute's outcome by several signers                      *)
(* (dispute_multisig.rs), for one market.  Whoever configures it names the *)
(* signers, the same one twice if they like, and starts the count again.   *)
(***************************************************************************)
EXTENDS Naturals, Sequences, FiniteSets

CONSTANTS
  Signers,        \* addresses
  SignerLists,    \* lists of signers a configuration may name
  Unconfigured,   \* no state is stored
  MaxConfigured   \* bound on the configurations

ASSUME SignersAssumption ==
  /\ SignerLists \subseteq Seq(Signers)
  /\ MaxConfigured \in Nat

VARIABLES
  multisig,    \* the MultiSigDisputeState, or Unconfigured
  configured,  \* how often it was configured
  consents,    \* history: who approved since it was last configured
  approved     \* history: the configurations that were approved, and by whom

multisigVars == <<multisig, configured, consents, approved>>

Listed(signers) == {signers[i] : i \in 1..Len(signers)}

MultiSigTypeOK ==
  /\ \/ multisig = Unconfigured
     \/ /\ multisig \in [threshold : Nat, signers : SignerLists,
                         approvals : Seq(Signers)]
        /\ multisig.threshold \in 1..Len(multisig.signers)
  /\ configured \in 0..MaxConfigured
  /\ consents \subseteq Signers
  /\ approved \subseteq [by : SUBSET Signers, threshold : Nat,
                         signers : SignerLists]

MultiSigInit ==
  /\ multisig = Unconfigured
  /\ configured = 0
  /\ consents = {}
  /\ approved = {}

(* Seeded fault: the approvals collected so far are kept.                  *)
ConfigureKeepsApprovals(signers, threshold) ==
  /\ threshold > 0 /\ threshold <= Len(signers)
  /\ configured < MaxConfigured
  /\ configured' = configured + 1
  /\ multisig' = [threshold |-> threshold, signers |-> signers,
                  approvals |-> IF multisig = Unconfigured
                                THEN <<>> ELSE multisig.approvals]
  /\ consents' = {}
  /\ UNCHANGED approved

(* configure: in place of whatever was being approved.                     *)
ConfigureSigners(signers, threshold) ==
  /\ threshold > 0 /\ threshold <= Len(signers)
  /\ configured < MaxConfigured
  /\ configured' = configured + 1
  /\ multisig' = [threshold |-> threshold, signers |-> signers,
                  approvals |-> <<>>]
  /\ consents' = {}
  /\ UNCHANGED approved

(* approve: the last approval needed removes the state.                    *)
ApproveOutcome(s) ==
  /\ multisig # Unconfigured
  /\ s \in Listed(multisig.signers)
  /\ s \notin Listed(multisig.approvals)
  /\ LET approvals == Append(multisig.approvals, s)
         reached == Len(approvals) >= multisig.threshold
         by == consents \cup {s}
     IN  /\ multisig' = IF reached THEN Unconfigured
                        ELSE [multisig EXCEPT !.approvals = approvals]
         /\ consents' = IF reached THEN {} ELSE by
         /\ approved' = IF reached
                        THEN approved \cup {[by |-> by,
                                             threshold |-> multisig.threshold,
                                             signers |-> multisig.signers]}
                        ELSE approved
  /\ UNCHANGED configured

MultiSigNext ==
  \/ \E signers \in SignerLists :
       \E threshold \in 0..Len(signers) : ConfigureSigners(signers, threshold)
  \/ \E s \in Signers : ApproveOutcome(s)

MultiSigSpec == MultiSigInit /\ [][MultiSigNext]_multisigVars

-----------------------------------------------------------------------------
(* An outcome is approved by as many different signers of its own          *)
(* configuration as its threshold asks, none of them carried over from an  *)
(* earlier configuration and none counted twice though listed twice        *)
(* (configure discards the approvals, approve refuses a second one).       *)
ApprovedByThreshold ==
  \A a \in approved : /\ a.by \subseteq Listed(a.signers)
                      /\ Cardinality(a.by) >= a.threshold

=============================================================================
