------------------------------- MODULE Login -------------------------------
(***************************************************************************)
(* Signing in to the dashboard with a one-time code.  Browser tabs, each   *)
(* with its own session state, share the tables of OTPAuthManager.  A      *)
(* request closes the older codes and stores a new one in one transaction, *)
(* and only then sends it; a verification reads the open code in one       *)
(* access and closes it, or counts the attempt, in a second one.  Other    *)
(* tabs move in between, codes and sessions expire, the mail may fail, an  *)
(* access may raise, a click may interrupt the script, a tab may be gone.  *)
(***************************************************************************)
EXTENDS Integers, Sequences, FiniteSets

CONSTANTS
  Emails,
  Tabs,
  MaxAttempts,  \* max_attempts, five in the code
  MaxCodes,     \* bound: codes requested
  Faults        \* which of FaultKinds may happen

FaultKinds == {"smtp", "access", "interrupt", "tab"}
NoEmail == "none"

ASSUME LoginAssumption == MaxAttempts \in Nat \ {0} /\ MaxCodes \in Nat /\ NoEmail \notin Emails

VARIABLES
  codes,     \* table otp_sessions, by id
  sessions,  \* table active_sessions: whose, by what code, and whether it is valid
  mailbox,   \* external: the codes that were delivered
  step, loginEmail, sessionId, userEmail,  \* of a tab: its session state
  page,                 \* of a tab: what its last script run has shown
  pc, row, entered,     \* of a tab: where its script is, and the manager's locals
  opened, raced, refused  \* history: sessions a code opened, codes read twice, refused

tables == <<codes, sessions, mailbox>>
tab == <<step, loginEmail, sessionId, userEmail, page>>
call == <<pc, row, entered>>
history == <<opened, raced, refused>>
vars == <<tables, tab, call, history>>

\* What is typed is the code of the row with that id, or of no row.
Ids == 1..MaxCodes
None == 0

Rows == [email : Emails, attempts : Nat, used : BOOLEAN, expired : BOOLEAN]
Sessions == [email : Emails, code : Ids, valid : BOOLEAN]

Init ==
  /\ codes = <<>> /\ sessions = <<>> /\ mailbox = {}
  /\ step = [t \in Tabs |-> "email"]
  /\ loginEmail = [t \in Tabs |-> NoEmail] /\ userEmail = loginEmail
  /\ sessionId = [t \in Tabs |-> None]
  /\ page = [t \in Tabs |-> "login"]
  /\ pc = [t \in Tabs |-> "idle"]
  /\ row = [t \in Tabs |-> None] /\ entered = row
  /\ opened = [k \in Ids |-> 0] /\ raced = {} /\ refused = {}

\* validate_session of the tab's session id.
Authenticated(t) == sessionId[t] # None /\ sessions[sessionId[t]].valid

\* The login form is shown, and the run that handles it finds no valid session.
OnLoginPage(t) == pc[t] = "idle" /\ page[t] = "login" /\ ~Authenticated(t)

Newer(k) == {j \in (k + 1)..Len(codes) : codes[j].email = codes[k].email}

Return(t) ==
  /\ pc' = [pc EXCEPT ![t] = "idle"]
  /\ row' = [row EXCEPT ![t] = None] /\ entered' = [entered EXCEPT ![t] = None]

-----------------------------------------------------------------------------
(* request_otp, from the email step or by "Send again".                    *)

NewCode(e) == [email |-> e, attempts |-> 0, used |-> FALSE, expired |-> FALSE]

\* Mutant of Superseded: only codes that could still be used are closed.
SupersededUnexpired(e) ==
  [k \in DOMAIN codes |->
     IF codes[k].email = e /\ ~codes[k].expired THEN [codes[k] EXCEPT !.used = TRUE]
                                                ELSE codes[k]]

Superseded(e) ==
  [k \in DOMAIN codes |->
     IF codes[k].email = e THEN [codes[k] EXCEPT !.used = TRUE] ELSE codes[k]]

\* The email is a valid one: an invalid one is refused and nothing changes.
RequestOtp(t, e) ==
  /\ OnLoginPage(t) /\ Len(codes) < MaxCodes
  /\ step[t] = "otp" => e = loginEmail[t]
  /\ codes' = Append(Superseded(e), NewCode(e))
  /\ row' = [row EXCEPT ![t] = Len(codes) + 1]
  /\ pc' = [pc EXCEPT ![t] = "deliver"]
  /\ UNCHANGED <<sessions, mailbox, tab, entered, history>>

\* A click of the user may end the script between two of the last assignments
\* of a run, so that only the first `done' of all `n' are made.
Assigned(done, n) == done < n => "interrupt" \in Faults

\* send_otp_email answers True, or False: then the message may be out or not.
\* login_email and login_step are assigned in this order; "Send again" assigns
\* nothing, and here what it finds.
Deliver(t) ==
  /\ pc[t] = "deliver"
  /\ \E success \in BOOLEAN, took \in {{}, {row[t]}}, done \in 0..2 :
       /\ IF success THEN took # {} /\ Assigned(done, 2)
                     ELSE "smtp" \in Faults /\ done = 0
       /\ mailbox' = mailbox \cup took
       /\ loginEmail' = IF done > 0 THEN [loginEmail EXCEPT ![t] = codes[row[t]].email]
                                    ELSE loginEmail
       /\ step' = IF done > 1 THEN [step EXCEPT ![t] = "otp"] ELSE step
  /\ Return(t)
  /\ UNCHANGED <<codes, sessions, sessionId, userEmail, page, history>>

\* login_step is assigned before login_email.
DifferentEmail(t) ==
  /\ OnLoginPage(t) /\ step[t] = "otp"
  /\ \E done \in 1..2 :
       /\ Assigned(done, 2)
       /\ loginEmail' = IF done > 1 THEN [loginEmail EXCEPT ![t] = NoEmail] ELSE loginEmail
  /\ step' = [step EXCEPT ![t] = "email"]
  /\ UNCHANGED <<tables, sessionId, userEmail, page, call, history>>

-----------------------------------------------------------------------------
(* verify_otp.                                                             *)

\* Mutant of OpenCodes: the query does not ask for the email.
OpenCodesOfAll(e) == {k \in DOMAIN codes : ~codes[k].used /\ ~codes[k].expired}

OpenCodes(e) == {k \in DOMAIN codes : codes[k].email = e /\ ~codes[k].used /\ ~codes[k].expired}

\* Mutant of MayTry: one attempt too many.
MayTryOnceMore(e) == \E k \in OpenCodes(e) : codes[k].attempts <= MaxAttempts

MayTry(e) ==
  \E k \in OpenCodes(e) :
    codes[k].attempts < MaxAttempts /\ \A j \in OpenCodes(e) : j <= k

\* A right code of the tab's email that is not accepted.
Refuse(t, k) ==
  refused' = IF k # None /\ codes[k].email = loginEmail[t] THEN refused \cup {k} ELSE refused

\* The SELECT of the newest code that is open and has not expired.
ReadCode(t, k) ==
  /\ OnLoginPage(t) /\ step[t] = "otp"
  /\ IF MayTry(loginEmail[t])
       THEN LET newest == CHOOSE j \in OpenCodes(loginEmail[t]) :
                            \A i \in OpenCodes(loginEmail[t]) : i <= j
            IN  /\ row' = [row EXCEPT ![t] = newest]
                /\ entered' = [entered EXCEPT ![t] = k]
                /\ pc' = [pc EXCEPT ![t] = "write"]
                /\ raced' = IF \E u \in Tabs : pc[u] = "write" /\ row[u] = newest
                              THEN raced \cup {newest} ELSE raced
                /\ UNCHANGED refused
       ELSE Refuse(t, k) /\ UNCHANGED <<row, entered, pc, raced>>
  /\ UNCHANGED <<tables, tab, opened>>

CountAttempt(t) ==
  /\ pc[t] = "write" /\ entered[t] # row[t]
  /\ codes' = [codes EXCEPT ![row[t]].attempts = @ + 1]
  /\ Refuse(t, entered[t])
  /\ Return(t)
  /\ UNCHANGED <<sessions, mailbox, tab, opened, raced>>

\* Mutant of OpenSession: the code is not closed.
OpenSessionOnly(t) ==
  /\ pc[t] = "write" /\ entered[t] = row[t]
  /\ codes' = codes
  /\ sessions' = Append(sessions,
       [email |-> loginEmail[t], code |-> row[t], valid |-> TRUE])
  /\ opened' = [opened EXCEPT ![row[t]] = @ + 1]
  /\ pc' = [pc EXCEPT ![t] = "signin"]
  /\ row' = [row EXCEPT ![t] = Len(sessions) + 1]
  /\ entered' = [entered EXCEPT ![t] = None]
  /\ UNCHANGED <<mailbox, tab, raced, refused>>

\* One transaction: the code is closed, whatever it is by now, and the session
\* stored; its id is what the call returns.
OpenSession(t) ==
  /\ pc[t] = "write" /\ entered[t] = row[t]
  /\ codes' = [codes EXCEPT ![row[t]].used = TRUE]
  /\ sessions' = Append(sessions,
       [email |-> loginEmail[t], code |-> row[t], valid |-> TRUE])
  /\ opened' = [opened EXCEPT ![row[t]] = @ + 1]
  /\ pc' = [pc EXCEPT ![t] = "signin"]
  /\ row' = [row EXCEPT ![t] = Len(sessions) + 1]
  /\ entered' = [entered EXCEPT ![t] = None]
  /\ UNCHANGED <<mailbox, tab, raced, refused>>

\* The second access raises, its transaction is rolled back.
AccessRaises(t) ==
  /\ pc[t] = "write" /\ "access" \in Faults
  /\ Return(t)
  /\ UNCHANGED <<tables, tab, history>>

-----------------------------------------------------------------------------
(* The tab's session state, in login_page.py and streamlit_app.py.         *)

\* session_id, user_email and login_step are assigned in this order.
SignIn(t) ==
  /\ pc[t] = "signin"
  /\ \E done \in 0..3 :
       /\ Assigned(done, 3)
       /\ sessionId' = IF done > 0 THEN [sessionId EXCEPT ![t] = row[t]] ELSE sessionId
       /\ userEmail' = IF done > 1 THEN [userEmail EXCEPT ![t] = loginEmail[t]] ELSE userEmail
       /\ step' = IF done > 2 THEN [step EXCEPT ![t] = "email"] ELSE step
  /\ Return(t)
  /\ UNCHANGED <<tables, loginEmail, page, history>>

\* Mutant of Render: the email of the session is not put into the state.
RenderWithoutEmail(t) ==
  /\ pc[t] = "idle"
  /\ page' = [page EXCEPT ![t] = IF Authenticated(t) THEN "dashboard" ELSE "login"]
  /\ UNCHANGED <<tables, step, loginEmail, sessionId, userEmail, call, history>>

\* Each run of the script validates the session before it shows anything.
Render(t) ==
  /\ pc[t] = "idle"
  /\ IF Authenticated(t)
       THEN /\ page' = [page EXCEPT ![t] = "dashboard"]
            /\ userEmail' = [userEmail EXCEPT ![t] = sessions[sessionId[t]].email]
       ELSE page' = [page EXCEPT ![t] = "login"] /\ UNCHANGED userEmail
  /\ UNCHANGED <<tables, step, loginEmail, sessionId, call, history>>

\* The button is on the dashboard.  The row is deleted, then the keys are popped
\* in this order, the login step not; the run that follows, by st.rerun or the
\* interruption, finds no valid session and shows the form.
SignOut(t) ==
  /\ pc[t] = "idle" /\ page[t] = "dashboard" /\ Authenticated(t)
  /\ sessions' = [sessions EXCEPT ![sessionId[t]].valid = FALSE]
  /\ \E done \in 0..3 :
       /\ Assigned(done, 3)
       /\ sessionId' = IF done > 0 THEN [sessionId EXCEPT ![t] = None] ELSE sessionId
       /\ userEmail' = IF done > 1 THEN [userEmail EXCEPT ![t] = NoEmail] ELSE userEmail
       /\ loginEmail' = IF done > 2 THEN [loginEmail EXCEPT ![t] = NoEmail] ELSE loginEmail
  /\ page' = [page EXCEPT ![t] = "login"]
  /\ UNCHANGED <<codes, mailbox, step, call, history>>

\* The browser session ends, or the process: its state is gone, and a call in
\* progress stays where it is.
TabEnds(t) ==
  /\ "tab" \in Faults
  /\ step' = [step EXCEPT ![t] = "email"]
  /\ loginEmail' = [loginEmail EXCEPT ![t] = NoEmail]
  /\ userEmail' = [userEmail EXCEPT ![t] = NoEmail]
  /\ sessionId' = [sessionId EXCEPT ![t] = None]
  /\ page' = [page EXCEPT ![t] = "login"]
  /\ Return(t)
  /\ UNCHANGED <<tables, history>>

\* All codes live equally long, and so do all sessions.
CodeExpires(k) ==
  /\ ~codes[k].expired /\ \A j \in 1..(k - 1) : codes[j].expired
  /\ codes' = [codes EXCEPT ![k].expired = TRUE]
  /\ UNCHANGED <<sessions, mailbox, tab, call, history>>

SessionExpires(s) ==
  /\ sessions[s].valid /\ \A i \in 1..(s - 1) : ~sessions[i].valid
  /\ sessions' = [sessions EXCEPT ![s].valid = FALSE]
  /\ UNCHANGED <<codes, mailbox, tab, call, history>>

TabStep(t) ==
  \/ Deliver(t) \/ CountAttempt(t) \/ OpenSession(t) \/ AccessRaises(t) \/ SignIn(t)

Next ==
  \/ \E t \in Tabs :
       \/ \E e \in Emails : RequestOtp(t, e)
       \/ \E k \in {None} \cup mailbox : ReadCode(t, k)
       \/ TabStep(t)
       \/ DifferentEmail(t) \/ Render(t) \/ SignOut(t) \/ TabEnds(t)
  \/ \E k \in DOMAIN codes : CodeExpires(k)
  \/ \E s \in DOMAIN sessions : SessionExpires(s)

Spec == Init /\ [][Next]_vars

-----------------------------------------------------------------------------
(* Properties.                                                             *)

\* A call that is going to write has read a code of the tab's own email, and
\* one that has opened a session returns that one's id (otp_auth.py:142-168).
TypeOK ==
  /\ codes \in Seq(Rows) /\ Len(codes) <= MaxCodes
  /\ sessions \in Seq(Sessions) /\ mailbox \subseteq DOMAIN codes
  /\ step \in [Tabs -> {"email", "otp"}] /\ page \in [Tabs -> {"login", "dashboard"}]
  /\ loginEmail \in [Tabs -> Emails \cup {NoEmail}]
  /\ userEmail \in [Tabs -> Emails \cup {NoEmail}]
  /\ pc \in [Tabs -> {"idle", "deliver", "write", "signin"}]
  /\ opened \in [Ids -> Nat] /\ raced \subseteq Ids /\ refused \subseteq Ids
  /\ sessionId \in [Tabs -> {None} \cup DOMAIN sessions]
  /\ entered \in [Tabs -> {None} \cup mailbox] /\ row \in [Tabs -> Nat]
  /\ \A t \in Tabs :
       /\ pc[t] = "idle" => row[t] = None
       /\ pc[t] = "deliver" => row[t] \in DOMAIN codes
       /\ pc[t] = "write" => row[t] \in DOMAIN codes /\ codes[row[t]].email = loginEmail[t]
       /\ pc[t] = "signin" =>
            row[t] \in DOMAIN sessions /\ sessions[row[t]].email = loginEmail[t]

\* A code is closed exactly if it opened a session or a newer one was requested
\* for its email, delivered or not: an email has one open code at most, and
\* neither a wrong attempt nor an exception closes one (otp_auth.py:124-136, 162).
CodesCloseInTurn ==
  \A k \in DOMAIN codes : codes[k].used <=> opened[k] > 0 \/ Newer(k) # {}

\* What the code says of itself: a one-time code is single-use, it is verified
\* once and opens one session (otp_auth.py:117, 143; test_auth.py:8).  The row
\* is read and closed in two accesses, and the second asks nothing
\* (otp_auth.py:148, 162).
SingleUse == \A k \in Ids : opened[k] <= 1

\* What does hold of it: a code opens a second session only if two verifications
\* had read it side by side, so none that begins after the first has closed it
\* succeeds, and there are no more than tabs (otp_auth.py:148-168).
ReuseNeedsRace ==
  \A k \in Ids : opened[k] > 1 => k \in raced /\ opened[k] <= Cardinality(Tabs)

\* Wrong attempts on a code stop at max_attempts, plus at most one for each
\* other tab that read the row before they were counted (otp_auth.py:148-159).
AttemptsAreBounded ==
  \A k \in DOMAIN codes :
    codes[k].attempts <= MaxAttempts + (IF k \in raced THEN Cardinality(Tabs) - 1 ELSE 0)

\* The dashboard works under the email of its session, and that session was
\* opened with a code that was requested for that email: across expiry, a
\* second sign-in in the same tab and sign-ins and sign-outs cut short
\* (streamlit_app.py:414-421, login_page.py:47-54).
SignedInIsProven ==
  \A t \in Tabs : page[t] = "dashboard" =>
    /\ sessionId[t] # None
    /\ userEmail[t] = sessions[sessionId[t]].email
    /\ codes[sessions[sessionId[t]].code].email = userEmail[t]

\* A right code is refused for a reason: it has expired, has opened a session,
\* its attempts are used up, or a newer code was requested for its email, the
\* delivery of which may have failed (otp_auth.py:129-159).
RefusedForAReason ==
  \A k \in refused :
    \/ codes[k].expired \/ opened[k] > 0
    \/ codes[k].attempts >= MaxAttempts \/ Newer(k) # {}
=============================================================================
