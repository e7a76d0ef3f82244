----------------------------- MODULE Authorities -----------------------------
(***************************************************************************)
(* Who may act for whom (chain/protocol/sign_state.cpp, transaction.cpp).  *)
(*                                                                         *)
(* An authority is satisfied by keys that have signed and by accounts that *)
(* have approved or whose own active authority is satisfied in turn, to a  *)
(* fixed depth.  An account found to approve is remembered for the rest of *)
(* the verification, in the order in which the accounts are looked at.     *)
(***************************************************************************)
EXTENDS Integers, Sequences, FiniteSets, SequencesExt

CONSTANTS ByName,         \* the accounts in the order of their names
          Keys,
          MaxRecursion    \* MUSE_MAX_SIG_CHECK_DEPTH

ASSUME AuthorityAssumption == MaxRecursion \in Nat

Accounts == Range(ByName)

InOrder(S) == SelectSeq(ByName, LAMBDA a : a \in S)

(* Every weight is 1.                                                      *)
Authority == [threshold : Nat, keys : SUBSET Keys, accounts : SUBSET Accounts]

\* Faulty variant of check_authority: one level is not looked at.
check_authority_shallow(active, sigs, approved_by, auth) ==
  [ok |-> Cardinality(auth.keys \cap sigs) + Cardinality(auth.accounts \cap approved_by)
            >= auth.threshold,
   approved_by |-> approved_by]

(* sign_state::check_authority.  `left' is how many more levels may be     *)
(* looked at; a loop over the accounts ends when the threshold is reached. *)
check_authority(active, sigs, approved_by, auth) ==
  LET check[left \in 0 .. MaxRecursion, au \in Authority, known \in SUBSET Accounts] ==
        LET count(s, a) ==
              IF s.weight >= au.threshold THEN s
              ELSE IF a \in s.known THEN [s EXCEPT !.weight = @ + 1]
              ELSE IF left = 0 THEN s
              ELSE LET below == check[left - 1, active[a], s.known]
                   IN  IF below.weight >= active[a].threshold
                       THEN [weight |-> s.weight + 1, known |-> below.known \cup {a}]
                       ELSE [s EXCEPT !.known = below.known]
        IN  FoldLeft(count, [weight |-> Cardinality(au.keys \cap sigs), known |-> known],
                     InOrder(au.accounts))
      result == check[MaxRecursion, auth, approved_by]
  IN  [ok |-> result.weight >= auth.threshold, approved_by |-> result.known]

(* One of the assertions of verify_authority: one of the authorities in a  *)
(* sequence must be satisfied, unless `met' says that an approval does.    *)
meet(active, sigs, s, demand) ==
  LET try(t, au) == IF t.ok THEN t ELSE check_authority(active, sigs, t.approved_by, au)
  IN  IF ~s.ok \/ demand.met \/ (demand.account \in s.approved_by) THEN s
      ELSE FoldLeft(try, [s EXCEPT !.ok = FALSE], demand.auths)

=============================================================================
