------------------------------- MODULE PolicyDocs -------------------------------
(***************************************************************************)
(* The policy documents of one organisation.  A document is stored under a *)
(* version the organisation chooses; storing a version again replaces its  *)
(* rules and its active flag in place.  The gate, the precheck and the     *)
(* offline bundle use the active document that was created last.           *)
(***************************************************************************)
EXTENDS Naturals, Sequences

CONSTANT Versions     \* version names the organisation uses

ASSUME VersionsAssumption == "none" \notin Versions    \* "none" stands for none

VARIABLES
    docs,       \* policies, in the order of created_at: [version, active]
    asked       \* the version last stored with activate = true, or "none"

docsVars == <<docs, asked>>

\* Mutant: the newest row is taken before it is asked whether it is active.
NewestPolicy(d) == IF d # <<>> /\ d[Len(d)].active THEN d[Len(d)].version ELSE "none"

\* get_active_policy: the newest active row, none without one.
ActivePolicy(d) ==
    LET on == {i \in DOMAIN d : d[i].active}
    IN  IF on = {} THEN "none" ELSE d[CHOOSE i \in on : \A j \in on : j <= i].version

\* get_policy_by_version
ByVersion(v) == {i \in DOMAIN docs : docs[i].version = v}

\* The other rows once upsert_policy has added a document.
Retired(d, activate) == IF activate THEN [i \in DOMAIN d |-> [d[i] EXCEPT !.active = FALSE]] ELSE d

\* put_internal_policy: upsert_policy and its commit.
PutPolicy(v, activate) ==
    /\ docs' = IF ByVersion(v) # {}
                 THEN [i \in DOMAIN docs |-> IF i \in ByVersion(v) THEN [docs[i] EXCEPT !.active = activate]
                                                                   ELSE docs[i]]
                 ELSE Append(Retired(docs, activate), [version |-> v, active |-> activate])
    /\ asked' = IF activate THEN v ELSE IF asked = v THEN "none" ELSE asked

DocsInit == docs = <<>> /\ asked = "none"

DocsNext == \E v \in Versions : PutPolicy(v, TRUE) \/ PutPolicy(v, FALSE)

DocsSpec == DocsInit /\ [][DocsNext]_docsVars

-----------------------------------------------------------------------------
(* Properties.                                                             *)

\* A document that was activated, and was not stored again without being active,
\* is the one in force: "Activating a version changes what is enforced on every
\* subsequent action" (put_internal_policy).  (Not so when a newer one was active.)
ActivatedIsEnforced == asked # "none" => ActivePolicy(docs) = asked

\* Until the document activated last is stored as inactive, some document is in
\* force, whatever else is stored: a gate call is not refused for want of a
\* policy (upsert_policy, get_active_policy).
SomeDocumentInForce == asked # "none" => ActivePolicy(docs) # "none"
=============================================================================
