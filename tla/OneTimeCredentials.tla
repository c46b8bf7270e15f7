------------------------ MODULE OneTimeCredentials ------------------------
(***************************************************************************)
(* What the enrollment service promises of a bootstrap credential: it is   *)
(* spent at most once, certificates come only from a spent credential, one *)
(* at most, and neither is ever undone.                                    *)
(***************************************************************************)

CONSTANT Credentials

VARIABLE status

vars == <<status>>

TypeOK == status \in [Credentials -> {"fresh", "spent", "issued"}]

Init == status = [c \in Credentials |-> "fresh"]

\* The credential is used up; its holder may get a certificate for it.
Spend(c) ==
  /\ status[c] = "fresh"
  /\ status' = [status EXCEPT ![c] = "spent"]

\* The one certificate of the credential.
Issue(c) ==
  /\ status[c] = "spent"
  /\ status' = [status EXCEPT ![c] = "issued"]

\* Several credentials may be spent in one step: a restarted service learns from
\* its ledger file of all that were written there.
Restore ==
  \E S \in SUBSET {c \in Credentials : status[c] = "fresh"} :
    status' = [c \in Credentials |-> IF c \in S THEN "spent" ELSE status[c]]

Next ==
  \/ \E c \in Credentials : Spend(c) \/ Issue(c)
  \/ Restore

Spec == Init /\ [][Next]_vars

=============================================================================
