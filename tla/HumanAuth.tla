----------------------------- MODULE HumanAuth -----------------------------
(***************************************************************************)
(* Login of the people who use the dashboard: one-time codes (invitation   *)
(* and reset), passwords with a lockout, sessions.  One user is modelled:  *)
(* every row belongs to one user and no operation touches two.             *)
(*                                                                         *)
(* A request first reads rows and later writes values computed from them,  *)
(* which may have changed since.  The write and the commit are one step    *)
(* where the UPDATE locks the only row that matters; a bulk UPDATE whose   *)
(* rows are chosen before the commit is a step of its own.                 *)
(* Guesses are right or wrong; the random generators never repeat.         *)
(***************************************************************************)
EXTENDS Naturals, Sequences, FiniteSets

CONSTANTS Desks,         \* server threads that serve login requests
          MaxAttempts,   \* guesses per code
          MaxIssued,     \* codes per user and window
          Lockout,       \* failed password logins before the cool-off
          MaxCodes, MaxSessions, MaxPasswords, MaxGuesses    \* bounds

ASSUME AuthAssumption ==
    /\ IsFiniteSet(Desks) /\ Desks # {}
    /\ MaxAttempts \in Nat /\ MaxIssued \in Nat /\ Lockout \in Nat \ {0}
    /\ MaxCodes \in Nat /\ MaxSessions \in Nat /\ MaxPasswords \in Nat /\ MaxGuesses \in Nat

VARIABLES
    codes,      \* login_codes, oldest first.  fresh: inside CODE_TTL_MINUTES, both
                \* the life of a code and the window in which issued codes are
                \* counted; guessed: comparisons made with it
    sessions,   \* auth_sessions: method, the password it was earned with, live
    user,       \* users: password version (0 none), failed_logins, locked_until
                \* (NULL "never", in the future "yes", or "past")
    desk,       \* what each desk is doing and the rows it has read
    changer,    \* the session that last set the password
    chosen,     \* passwords chosen so far
    failures    \* failed password logins since the counter last started afresh

authVars == <<codes, sessions, user, desk, changer, chosen, failures>>

Free == [op |-> "free", right |-> FALSE, row |-> 0, attempts |-> 0,
         user |-> [password |-> 0, failed |-> 0, locked |-> "never"]]

Done(d) == desk' = [desk EXCEPT ![d] = Free]

Call(d, read) ==
    /\ desk[d] = Free
    /\ desk' = [desk EXCEPT ![d] = read]
    /\ UNCHANGED <<codes, sessions, user, changer, chosen, failures>>

\* session_with_user: a session neither revoked nor expired.
Live(s) == s \in 1..Len(sessions) /\ sessions[s].live

FreshCodes == {i \in 1..Len(codes) : codes[i].fresh}

Open == {i \in FreshCodes : ~codes[i].used}

-----------------------------------------------------------------------------
(* One-time codes.                                                         *)

\* Mutant: the cap is passed by one.
Overissued == Cardinality(FreshCodes) <= MaxIssued

\* Whether another code may be issued in the window.
MayIssue == Cardinality(FreshCodes) < MaxIssued

\* request_code, the count: a user at the cap gets none, silently.
RequestCode(d) ==
    /\ Len(codes) < MaxCodes
    /\ MayIssue
    /\ Call(d, [Free EXCEPT !.op = "issue"])

\* Mutant: the codes issued before stay valid.
NotVoided(n) == codes

\* A new code voids the outstanding ones, here the first n rows.
Voided(n) == [i \in 1..Len(codes) |-> IF i <= n THEN [codes[i] EXCEPT !.used = TRUE] ELSE codes[i]]

\* The UPDATE of the outstanding codes picks the rows committed so far.
VoidCodes(d) ==
    /\ desk[d].op = "issue"
    /\ desk' = [desk EXCEPT ![d].op = "insert", ![d].row = Len(codes)]
    /\ UNCHANGED <<codes, sessions, user, changer, chosen, failures>>

\* A row of login_codes.
NewCode == [used |-> FALSE, fresh |-> TRUE, attempts |-> 0, guessed |-> 0]

\* The INSERT, and the commit of both.
IssueCode(d) ==
    /\ desk[d].op = "insert" /\ Len(codes) < MaxCodes
    /\ codes' = Append(Voided(desk[d].row), NewCode)
    /\ Done(d)
    /\ UNCHANGED <<sessions, user, changer, chosen, failures>>

\* verify_code, the SELECT of the newest open code.  Several are open only when
\* the requests that issued them overlapped; created_at is when a request
\* began, so that any of them may be the newest.
VerifyCode(d, right) ==
    \E i \in Open :
        /\ codes[i].guessed < MaxGuesses /\ codes[i].attempts < MaxGuesses
        /\ Call(d, [Free EXCEPT !.op = "guess", !.right = right, !.row = i, !.attempts = codes[i].attempts])

NewSession(m) == [method |-> m, password |-> user.password, live |-> TRUE]

\* Mutant: the attempt is compared with the value before the increment.
SpentLate(a) == a

\* The attempt a guess spends.
Spent(a) == a + 1

\* The attempt is written first and kept whatever the outcome; beyond the
\* limit nothing is compared.  A right guess uses the code up.
Guess(d) ==
    LET i == desk[d].row
        a == Spent(desk[d].attempts)
        within == a <= MaxAttempts
        good == within /\ desk[d].right
    IN  /\ desk[d].op = "guess"
        /\ \A e \in Desks \ {d} : desk[e].op = "insert" => desk[e].row < i \/ codes[i].used
        /\ good => Len(sessions) < MaxSessions
        /\ codes' = [codes EXCEPT ![i].attempts = a,
                                  ![i].guessed = IF within THEN @ + 1 ELSE @,
                                  ![i].used = @ \/ good]
        /\ sessions' = IF good THEN Append(sessions, NewSession("code")) ELSE sessions
        /\ Done(d)
        /\ UNCHANGED <<user, changer, chosen, failures>>

-----------------------------------------------------------------------------
(* Passwords.                                                              *)

\* login_password, the SELECT and the Argon2 check: no password, or locked,
\* fails without a trace.
LoginPassword(d, right) ==
    /\ user.password # 0 /\ user.locked # "yes"
    /\ Call(d, [Free EXCEPT !.op = "login", !.right = right, !.user = user])

\* Mutant: the account locks one failure late.
LockedLate(u) ==
    IF u.failed >= Lockout THEN [u EXCEPT !.failed = 0, !.locked = "yes"]
    ELSE [u EXCEPT !.failed = @ + 1]

\* A failure counts; at the threshold the account locks and the counter is
\* reset.
Failed(u) ==
    IF u.failed + 1 >= Lockout THEN [u EXCEPT !.failed = 0, !.locked = "yes"]
    ELSE [u EXCEPT !.failed = @ + 1]

\* The outcome: computed from the row as read, only changed columns written.  A
\* release may have changed the parameters of the hash: the password that was
\* checked is then hashed again and written back.
Login(d) ==
    LET u == desk[d].user
    IN  /\ desk[d].op = "login"
        /\ \/ /\ ~desk[d].right
              /\ user' = [user EXCEPT !.failed = Failed(u).failed,
                                      !.locked = IF Failed(u).locked = "yes" THEN "yes" ELSE @]
              /\ failures' = IF Failed(u).failed = 0 THEN 0 ELSE failures + 1
              /\ UNCHANGED sessions
           \/ /\ desk[d].right /\ Len(sessions) < MaxSessions
              /\ \E rehash \in BOOLEAN :
                    user' = [user EXCEPT !.password = IF rehash THEN u.password ELSE @,
                                         !.failed = IF u.failed = 0 THEN @ ELSE 0,
                                         !.locked = IF u.locked = "never" THEN @ ELSE "never"]
              /\ failures' = 0
              /\ sessions' = Append(sessions, [NewSession("password") EXCEPT !.password = u.password])
        /\ Done(d)
        /\ UNCHANGED <<codes, changer, chosen>>

\* A session earned by password must know the current one.
ProvesCustody(s, right) == user.password # 0 /\ sessions[s].method = "password" => right

\* POST /v1/auth/password up to the first write, with a password that the
\* policy (validate_password) accepts.
AskSetPassword(d, s, right) ==
    /\ Live(s)
    /\ chosen < MaxPasswords
    /\ ProvesCustody(s, right)
    /\ Call(d, [Free EXCEPT !.op = "change", !.row = s, !.user = user])

\* The UPDATE that revokes the other sessions picks the rows committed so far.
RevokeOthers(d) ==
    /\ desk[d].op = "change"
    /\ desk' = [desk EXCEPT ![d].op = "write", ![d].attempts = Len(sessions)]
    /\ UNCHANGED <<codes, sessions, user, changer, chosen, failures>>

\* The sessions once all of the first n but s are revoked.
OthersRevoked(s, n) ==
    [i \in 1..Len(sessions) |->
        IF i # s /\ i <= n THEN [sessions[i] EXCEPT !.live = FALSE] ELSE sessions[i]]

\* set_password, the write of the user and the commit.
SetPassword(d) ==
    /\ desk[d].op = "write" /\ chosen < MaxPasswords
    /\ chosen' = chosen + 1 /\ failures' = 0
    /\ user' = [user EXCEPT !.password = chosen + 1,
                            !.failed = IF desk[d].user.failed = 0 THEN @ ELSE 0,
                            !.locked = IF desk[d].user.locked = "never" THEN @ ELSE "never"]
    /\ sessions' = OthersRevoked(desk[d].row, desk[d].attempts)
    /\ changer' = desk[d].row
    /\ Done(d)
    /\ UNCHANGED codes

-----------------------------------------------------------------------------
(* Logout, time.                                                           *)

\* revoke_session, or SESSION_TTL_HOURS have passed.
EndSession(s) ==
    /\ Live(s)
    /\ sessions' = [sessions EXCEPT ![s].live = FALSE]
    /\ UNCHANGED <<codes, user, desk, changer, chosen, failures>>

\* The oldest code of the window grows too old.
AgeCode ==
    \E i \in FreshCodes :
        /\ \A j \in FreshCodes : i <= j
        /\ codes' = [codes EXCEPT ![i].fresh = FALSE]
        /\ UNCHANGED <<sessions, user, desk, changer, chosen, failures>>

\* locked_until passes.
CoolOff ==
    /\ user.locked = "yes"
    /\ user' = [user EXCEPT !.locked = "past"]
    /\ UNCHANGED <<codes, sessions, desk, changer, chosen, failures>>

-----------------------------------------------------------------------------
\* create_user: an account starts without a password and with no session.
AuthInit ==
    /\ codes = <<>> /\ sessions = <<>>
    /\ user = [password |-> 0, failed |-> 0, locked |-> "never"]
    /\ desk = [d \in Desks |-> Free]
    /\ changer = 0 /\ chosen = 0 /\ failures = 0

AuthNext ==
    \/ \E d \in Desks :
          \/ RequestCode(d) \/ VoidCodes(d) \/ IssueCode(d) \/ Guess(d) \/ Login(d)
          \/ RevokeOthers(d) \/ SetPassword(d)
          \/ \E right \in BOOLEAN :
                \/ VerifyCode(d, right) \/ LoginPassword(d, right)
                \/ \E s \in 1..MaxSessions : AskSetPassword(d, s, right)
    \/ \E s \in 1..MaxSessions : EndSession(s)
    \/ AgeCode \/ CoolOff

AuthSpec == AuthInit /\ [][AuthNext]_authVars

-----------------------------------------------------------------------------
(* Properties.                                                             *)

Issuing == {d \in Desks : desk[d].op \in {"issue", "insert"}}

\* How far asking again voids what was issued, when requests overlap: one code
\* per server thread can be open at a time (request_code).
OpenPerDesk == Cardinality(Open) <= Cardinality(Desks)

\* How far MAX_ISSUED_PER_WINDOW caps the codes of a window, when requests
\* overlap: one more for every thread but the first (request_code).
IssueBudget == Cardinality(FreshCodes) <= MaxIssued + Cardinality(Desks) - 1

\* human_auth.py:34, "issuing a new code voids the old ones": at any time at
\* most one code can be guessed at.  (Not so when requests overlap, like the
\* four that follow.)
OneOpenCode == Cardinality(Open) <= 1

\* human_auth.py:33, "at most MAX_ATTEMPTS guesses, counted BEFORE comparison".
GuessesBounded == \A i \in 1..Len(codes) : codes[i].guessed <= MaxAttempts

\* human_auth.py:32, "dead on first successful use": no more sessions were earned
\* by code than codes were used.
CodesSingleUse ==
    Cardinality({s \in 1..Len(sessions) : sessions[s].method = "code"})
        <= Cardinality({i \in 1..Len(codes) : codes[i].used})

\* human_auth.py:19, "LOCKOUT_THRESHOLD failures -> LOCKOUT_MINUTES cool-off": so
\* many failed logins never pass without one.
FailuresLock == failures < Lockout

\* human_auth.py:27, "Every other session dies on change": a live session earned
\* by password knew the present one, unless it is the session that made the
\* change.
SessionsCurrent ==
    \A s \in 1..Len(sessions) :
        sessions[s].live /\ sessions[s].method = "password"
            => sessions[s].password = user.password \/ s = changer
=============================================================================
