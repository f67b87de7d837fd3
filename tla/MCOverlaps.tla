----------------------------- MODULE MCOverlaps -----------------------------
(***************************************************************************)
(* The components whose requests overlap without a lock, side by side:     *)
(* gate calls, logins and profiles.  They share no state; one of them runs *)
(* and the others stay as they start.                                      *)
(***************************************************************************)
EXTENDS MCGateFlow, HumanAuth, OrgProfile, BuiltinRules, Combinatorics

\* What runs.  Of the gate: requests of every kind, or gate calls only and more
\* of them.  Of the logins: several codes, guesses at one, or one and passwords.
VARIABLE part

Parts == {"requests", "gates", "codes", "guesses", "passwords", "profiles"}

\* The same server threads do all of it.
ASSUME ThreadAssumption == Workers = Desks /\ Workers = Savers

-----------------------------------------------------------------------------
MCProfiles ==
    {[places |-> {"difc"}, fields |-> {"financial"}],
     [places |-> {"difc", "adgm"}, fields |-> {"financial", "health"}]}

Document(c, pack) == [code |-> c, places |-> pack.places, fields |-> pack.sectors]

\* Two of the packs the repository ships and a revision of one that reaches
\* elsewhere.
MCDocuments ==
    {Document("dp", DIFC_DP_LAW), Document("ai", UAE_FIN_ENABLING_TECH),
     [Document("dp", DIFC_DP_LAW) EXCEPT !.places = {"adgm"}]}

-----------------------------------------------------------------------------
\* Bounds of the mix of all requests.
Small == Len(chain) <= 5 /\ Len(SelectSeq(chain, IsDecision)) <= 2

Ops == {desk'[d].op : d \in Desks}

GuessesRight == \A d \in Desks : desk'[d].op = "guess" => desk'[d].right

\* One code is asked for.
OneCode == Len(codes') <= 1 /\ (codes # <<>> => "issue" \notin Ops)

\* Codes are asked for and used up.
Codes == AuthNext /\ "change" \notin Ops /\ GuessesRight

Guesses == AuthNext /\ "change" \notin Ops /\ OneCode

Passwords == AuthNext /\ OneCode /\ GuessesRight

MCInit == part \in Parts /\ Init /\ AuthInit /\ ProfileInit

MCNext ==
    \/ /\ \/ part = "requests" /\ Next /\ Small'
          \/ part = "gates" /\ GateCalls
       /\ UNCHANGED <<part, authVars, profileVars>>
    \/ /\ \/ part = "codes" /\ Codes
          \/ part = "guesses" /\ Guesses
          \/ part = "passwords" /\ Passwords
       /\ UNCHANGED <<part, vars, profileVars>>
    \/ /\ part = "profiles" /\ ProfileNext
       /\ UNCHANGED <<part, vars, authVars>>

MCSpec == MCInit /\ [][MCNext]_<<part, vars, authVars, profileVars>>

-----------------------------------------------------------------------------
\* How far MAX_ATTEMPTS caps the comparisons with one code, when requests
\* overlap: n threads may share increments, each of them once with every thread
\* that reads an older count (verify_code).  One thread: MaxAttempts.
GuessBudget ==
    \A i \in 1..Len(codes) :
        codes[i].guessed < choose(MaxAttempts + Cardinality(Desks), Cardinality(Desks))

\* How far failed logins can go before the account locks, when requests overlap:
\* the counter is shared in the same way (login_password).
LockoutBudget ==
    failures < choose(Lockout - 1 + Cardinality(Desks), Cardinality(Desks))
=============================================================================
