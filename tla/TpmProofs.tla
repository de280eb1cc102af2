----------------------------- MODULE TpmProofs ------------------------------
(***************************************************************************)
(* Proofs about Tpm, for all credentials, PCRs, selections, passphrases    *)
(* and limits of the resource manager, whichever TPM commands fail and     *)
(* whenever PCRs are extended: the handles of the methods of struct Tpm,   *)
(* and the PCR policies that decide when a credential signs.               *)
(***************************************************************************)
EXTENDS TpmStepProofs, FiniteSetTheorems

\* Sets of handles are finite; one more handle is at most one more, part of them is not
\* more.
LEMMA CountedHandles == Counted
<1>1. IsFiniteSet(Handles)
  <2>1. IsFiniteSet({"parent"})
    BY FS_Singleton
  <2>2. IsFiniteSet({"parent"} \cup {"key"})
    BY <2>1, FS_AddElement
  <2>3. IsFiniteSet({"parent"} \cup {"key"} \cup {"authority"})
    BY <2>2, FS_AddElement
  <2>4. IsFiniteSet({"parent"} \cup {"key"} \cup {"authority"} \cup {"session"})
    BY <2>3, FS_AddElement
  <2>5. Handles = {"parent"} \cup {"key"} \cup {"authority"} \cup {"session"}
    BY DEF Handles, ObjectHandles
  <2> QED
    BY <2>4, <2>5
<1>2. ASSUME NEW S \in SUBSET Handles
      PROVE  IsFiniteSet(S) /\ Cardinality(S) \in Nat
  <2>1. IsFiniteSet(S)
    BY <1>1, FS_Subset
  <2> QED
    BY <2>1, FS_CardinalityType
<1>3. ASSUME NEW S \in SUBSET Handles, NEW T \in SUBSET Handles, S \subseteq T
      PROVE  Cardinality(S) <= Cardinality(T)
  BY <1>2, <1>3, FS_Subset
<1>4. ASSUME NEW S \in SUBSET Handles, NEW x \in Handles
      PROVE  Cardinality(S \cup {x}) <= Cardinality(S) + 1
  BY <1>2, FS_AddElement
<1> QED
  BY <1>2, <1>3, <1>4, FS_EmptySet DEF Counted

----------------------------------------------------------------------------
(* Theorems *)

\* IInv is an invariant of the TPM work.
THEOREM Invariance == Spec => []IInv
<1>1. Init => IInv
  BY CountedHandles, InitInv
<1>2. IInv /\ [Next]_vars => IInv'
  BY CountedHandles, NextInv
<1> QED
  BY <1>1, <1>2, PTL DEF Spec

\* Every variable has its type: in particular the handles left open never outnumber the
\* slots of the resource manager, and every policy session holds known assertions.
THEOREM TypeCorrect == Spec => []TypeOK
<1>1. IInv => TypeOK
  BY DEF IInv
<1> QED
  BY <1>1, Invariance, PTL

\* Every TPM command of every method of struct Tpm works on handles that are open, and
\* opens none that is: no use after flush, no double flush, no handle lost.
THEOREM HandlesAlwaysOpen == Spec => []HandlesOpen
<1>1. IInv => HandlesOpen
  BY CallFacts DEF HandlesOpen, Fits
<1> QED
  BY <1>1, Invariance, PTL

\* The stored package of a credential is usable whatever failed or was interrupted.
THEOREM PackageAlwaysUsable == Spec => []PackageUsable
<1>1. IInv => PackageUsable
  BY DEF IInv, PolicyInv, RowOK, RowUsable, PackageUsable, PcrPolicy, AuthorizedPolicy
<1> QED
  BY <1>1, Invariance, PTL

\* A method that ends without an error, and sign_digest_with_policy always, has flushed
\* every handle it opened.
THEOREM HandlesAlwaysReleased == Spec => HandlesReleased
<1>1. IInv /\ [Next]_vars =>
        [op # None /\ op' = None /\ (op.method = "sign" \/ reply'.status = "ok") =>
            leaked'.objects <= leaked.objects /\ leaked'.sessions <= leaked.sessions]_vars
  BY CountedHandles, StepReleases
<1> QED
  BY <1>1, Invariance, PTL DEF Spec, HandlesReleased

\* A credential signs only on the platform approved last: whatever was extended between
\* its commands, the PCRs are the approved ones when the TPM signs.
THEOREM SignsOnlyApproved == Spec => SignsOnlyWhenApproved
<1>1. IInv /\ [Next]_vars =>
        [Calling /\ Call(op) = "sign" /\ op' # None /\ op'.at > op.at =>
            CurrentPcrDigest(credentials[op.cred].policy.selection) = approved[op.cred]]_vars
  BY CountedHandles, StepSigns
<1> QED
  BY <1>1, Invariance, PTL DEF Spec, SignsOnlyWhenApproved

\* sign_digest_with_policy is not refused by the policy on the approved platform, unless a
\* PCR was extended meanwhile or the daemon uses another PCR selection.
THEOREM ApprovedAlwaysSigns == Spec => ApprovedSigns
<1>1. IInv /\ [Next]_vars =>
        [op # None /\ op.method = "sign" /\ reply'.status = "refused" =>
            \/ ~op.fresh
            \/ tpm.name # credentials[op.cred].policy.selection
            \/ CurrentPcrDigest(tpm.name) # approved[op.cred]]_vars
  BY CountedHandles, StepApproved
<1> QED
  BY <1>1, Invariance, PTL DEF Spec, ApprovedSigns

=============================================================================
