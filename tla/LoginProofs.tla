---------------------------- MODULE LoginProofs ----------------------------
(* Theorems about Login, for all values of its constants: any tabs, emails *)
(* and faults, any limit of attempts, any number of codes.                 *)
EXTENDS Login, FiniteSetTheorems, TLAPS

\* The part of TypeOK about one tab.
TabOK(t) ==
  /\ sessionId[t] \in {None} \cup DOMAIN sessions
  /\ entered[t] \in {None} \cup mailbox
  /\ row[t] \in Nat
  /\ pc[t] = "idle" => row[t] = None
  /\ pc[t] = "deliver" => row[t] \in DOMAIN codes
  /\ pc[t] = "write" => row[t] \in DOMAIN codes /\ codes[row[t]].email = loginEmail[t]
  /\ pc[t] = "signin" =>
       row[t] \in DOMAIN sessions /\ sessions[row[t]].email = loginEmail[t]

\* The part of TypeOK about the tables and the history.
TablesOK ==
  /\ codes \in Seq(Rows) /\ Len(codes) <= MaxCodes
  /\ sessions \in Seq(Sessions) /\ mailbox \subseteq DOMAIN codes
  /\ opened \in [Ids -> Nat] /\ raced \subseteq Ids /\ refused \subseteq Ids

\* The part of TypeOK about the shape of the tabs' variables.
ShapeOK ==
  /\ step \in [Tabs -> {"email", "otp"}] /\ page \in [Tabs -> {"login", "dashboard"}]
  /\ loginEmail \in [Tabs -> Emails \cup {NoEmail}]
  /\ userEmail \in [Tabs -> Emails \cup {NoEmail}]
  /\ pc \in [Tabs -> {"idle", "deliver", "write", "signin"}]
  /\ sessionId = [t \in Tabs |-> sessionId[t]]
  /\ entered = [t \in Tabs |-> entered[t]] /\ row = [t \in Tabs |-> row[t]]

LEMMA TypeParts ==
  ASSUME TypeOK
  PROVE  TablesOK /\ ShapeOK /\ \A t \in Tabs : TabOK(t)
BY DEF TypeOK, TablesOK, ShapeOK, TabOK

LEMMA PartsType ==
  ASSUME TablesOK', ShapeOK', \A t \in Tabs : TabOK(t)'
  PROVE  TypeOK'
<1>1. \A t \in Tabs : /\ sessionId'[t] \in {None} \cup DOMAIN sessions'
                      /\ entered'[t] \in {None} \cup mailbox' /\ row'[t] \in Nat
  BY DEF TabOK
<1>2. sessionId' \in [Tabs -> {None} \cup DOMAIN sessions']
  BY <1>1, Zenon DEF ShapeOK
<1>3. entered' \in [Tabs -> {None} \cup mailbox'] /\ row' \in [Tabs -> Nat]
  BY <1>1 DEF ShapeOK
<1>. QED
  BY <1>2, <1>3 DEF TypeOK, TablesOK, ShapeOK, TabOK

-----------------------------------------------------------------------------
(* What every step does to the tables.                                     *)

\* A row keeps its email, stays closed, stays expired and loses no attempt.
RowKept(new, r) ==
  /\ new \in Rows /\ new.email = r.email /\ new.attempts >= r.attempts
  /\ r.used => new.used
  /\ r.expired => new.expired

\* Rows are added and kept; a session keeps its email and its code.
Grown ==
  /\ codes' \in Seq(Rows) /\ sessions' \in Seq(Sessions)
  /\ DOMAIN codes \subseteq DOMAIN codes' /\ DOMAIN sessions \subseteq DOMAIN sessions'
  /\ \A k \in DOMAIN codes : RowKept(codes'[k], codes[k])
  /\ \A s \in DOMAIN sessions :
       /\ sessions'[s].email = sessions[s].email
       /\ sessions'[s].code = sessions[s].code

\* A tab that does not move is as well formed as before.
LEMMA TabKept ==
  ASSUME TypeOK, Grown, mailbox \subseteq mailbox', NEW u \in Tabs,
         sessionId'[u] = sessionId[u], entered'[u] = entered[u], row'[u] = row[u],
         pc'[u] = pc[u], loginEmail'[u] = loginEmail[u]
  PROVE  TabOK(u)'
<1>1. TabOK(u)
  BY TypeParts
<1>2. /\ DOMAIN codes \subseteq DOMAIN codes'
      /\ DOMAIN sessions \subseteq DOMAIN sessions'
      /\ \A k \in DOMAIN codes : codes'[k].email = codes[k].email
      /\ \A s \in DOMAIN sessions : sessions'[s].email = sessions[s].email
  BY DEF Grown, RowKept
<1>. QED
  BY <1>1, <1>2 DEF TabOK

LEMMA RowTyping ==
  ASSUME TypeOK
  PROVE  /\ codes \in Seq(Rows) /\ Len(codes) \in Nat /\ DOMAIN codes = 1..Len(codes)
         /\ sessions \in Seq(Sessions) /\ Len(sessions) \in Nat
         /\ DOMAIN sessions = 1..Len(sessions)
         /\ \A k \in DOMAIN codes :
              /\ codes[k] \in Rows /\ k \in Ids
              /\ codes[k].email \in Emails /\ codes[k].attempts \in Nat
         /\ \A s \in DOMAIN sessions : sessions[s] \in Sessions
<1>1. codes \in Seq(Rows) /\ sessions \in Seq(Sessions) /\ Len(codes) <= MaxCodes
  BY DEF TypeOK
<1>2. /\ \A k \in DOMAIN codes : codes[k] \in Rows
      /\ \A s \in DOMAIN sessions : sessions[s] \in Sessions
      /\ Len(codes) \in Nat /\ DOMAIN codes = 1..Len(codes)
      /\ Len(sessions) \in Nat /\ DOMAIN sessions = 1..Len(sessions)
  BY <1>1
<1>3. \A k \in DOMAIN codes : k \in Ids
  BY <1>1, <1>2, LoginAssumption DEF Ids
<1>4. \A r \in Rows : r.email \in Emails /\ r.attempts \in Nat
  BY DEF Rows
<1>. QED
  BY <1>1, <1>2, <1>3, <1>4

LEMMA RowChanges ==
  ASSUME NEW r \in Rows
  PROVE  /\ RowKept(r, r)
         /\ RowKept([r EXCEPT !.used = TRUE], r)
         /\ [r EXCEPT !.used = TRUE].used
         /\ RowKept([r EXCEPT !.expired = TRUE], r)
         /\ [r EXCEPT !.expired = TRUE].used = r.used
         /\ RowKept([r EXCEPT !.attempts = @ + 1], r)
         /\ [r EXCEPT !.attempts = @ + 1].used = r.used
<1>1. r.attempts \in Nat
  BY DEF Rows
<1>2. RowKept(r, r)
  BY <1>1 DEF RowKept
<1>3. ASSUME NEW new \in Rows, new.email = r.email, new.attempts = r.attempts,
             r.used => new.used, r.expired => new.expired
      PROVE  RowKept(new, r)
  <2>1. new.attempts >= r.attempts
    BY <1>1, <1>3
  <2>. QED
    BY <1>3, <2>1, Zenon DEF RowKept
<1>4. /\ RowKept([r EXCEPT !.used = TRUE], r) /\ [r EXCEPT !.used = TRUE].used
      /\ RowKept([r EXCEPT !.expired = TRUE], r)
      /\ [r EXCEPT !.expired = TRUE].used = r.used
  <2>. DEFINE closed == [r EXCEPT !.used = TRUE]
              old == [r EXCEPT !.expired = TRUE]
  <2>1. /\ closed \in Rows /\ closed.email = r.email /\ closed.attempts = r.attempts
        /\ closed.used = TRUE /\ closed.expired = r.expired
    BY DEF Rows
  <2>2. /\ old \in Rows /\ old.email = r.email /\ old.attempts = r.attempts
        /\ old.expired = TRUE /\ old.used = r.used
    BY DEF Rows
  <2>. HIDE DEF closed, old
  <2>3. RowKept(closed, r) /\ closed.used /\ RowKept(old, r) /\ old.used = r.used
    BY <1>3, <2>1, <2>2, Zenon
  <2>. QED
    BY <2>3 DEF closed, old
<1>5. /\ RowKept([r EXCEPT !.attempts = @ + 1], r)
      /\ [r EXCEPT !.attempts = @ + 1].used = r.used
  BY <1>1 DEF Rows, RowKept
<1>. QED
  BY <1>2, <1>4, <1>5

LEMMA SameTablesGrow ==
  ASSUME TypeOK, UNCHANGED <<codes, sessions>> PROVE Grown
BY RowTyping, RowChanges DEF Grown

LEMMA RequestGrows ==
  ASSUME TypeOK, NEW t \in Tabs, NEW e \in Emails, RequestOtp(t, e)
  PROVE  /\ Grown /\ Len(codes') = Len(codes) + 1
         /\ \A k \in DOMAIN codes :
              codes'[k] = IF codes[k].email = e THEN [codes[k] EXCEPT !.used = TRUE]
                                                ELSE codes[k]
         /\ codes'[Len(codes) + 1] = NewCode(e)
<1>. DEFINE new == Superseded(e)
<1>1. DOMAIN new = 1..Len(codes) /\ \A k \in DOMAIN codes :
        new[k] = IF codes[k].email = e THEN [codes[k] EXCEPT !.used = TRUE] ELSE codes[k]
  BY RowTyping DEF Superseded
<1>2. \A k \in DOMAIN codes : RowKept(new[k], codes[k])
  BY <1>1, RowTyping, RowChanges
<1>3. new \in Seq(Rows) /\ Len(new) = Len(codes)
  <2>1. new = [k \in 1..Len(codes) |-> new[k]]
    BY <1>1, RowTyping DEF Superseded
  <2>2. \A k \in 1..Len(codes) : new[k] \in Rows
    BY <1>2, RowTyping DEF RowKept
  <2>. HIDE DEF new
  <2>. QED
    BY <1>1, <2>1, <2>2, RowTyping
<1>4. NewCode(e) \in Rows
  BY DEF NewCode, Rows
<1>5. codes' = Append(new, NewCode(e)) /\ sessions' = sessions
  BY DEF RequestOtp
<1>. HIDE DEF new
<1>6. /\ codes' \in Seq(Rows) /\ Len(codes') = Len(codes) + 1
      /\ \A k \in DOMAIN codes : codes'[k] = new[k]
      /\ codes'[Len(codes) + 1] = NewCode(e)
      /\ DOMAIN codes \subseteq DOMAIN codes'
  BY <1>3, <1>4, <1>5, RowTyping
<1>. QED
  BY <1>1, <1>2, <1>5, <1>6, RowTyping DEF Grown

\* One row of otp_sessions is changed.
LEMMA RowChangeGrows ==
  ASSUME TypeOK, UNCHANGED sessions, NEW k \in DOMAIN codes, NEW r,
         RowKept(r, codes[k]), codes' = [codes EXCEPT ![k] = r]
  PROVE  /\ Grown /\ Len(codes') = Len(codes)
         /\ codes'[k] = r /\ \A j \in DOMAIN codes : j # k => codes'[j] = codes[j]
<1>1. r \in Rows
  BY DEF RowKept
<1>2. /\ codes' \in Seq(Rows) /\ Len(codes') = Len(codes) /\ DOMAIN codes' = DOMAIN codes
      /\ codes'[k] = r /\ \A j \in DOMAIN codes : j # k => codes'[j] = codes[j]
  BY <1>1, RowTyping
<1>. QED
  BY <1>2, RowTyping, RowChanges DEF Grown

LEMMA CountGrows ==
  ASSUME TypeOK, NEW t \in Tabs, CountAttempt(t)
  PROVE  /\ Grown /\ Len(codes') = Len(codes)
         /\ \A k \in DOMAIN codes : codes'[k].used = codes[k].used
<1>1. row[t] \in DOMAIN codes /\ UNCHANGED sessions
      /\ codes' = [codes EXCEPT ![row[t]] = [codes[row[t]] EXCEPT !.attempts = @ + 1]]
  BY DEF TypeOK, CountAttempt
<1>. QED
  BY <1>1, RowTyping, RowChanges, RowChangeGrows, ZenonT(30)

LEMMA OpenGrows ==
  ASSUME TypeOK, NEW t \in Tabs, OpenSession(t)
  PROVE  /\ Grown /\ Len(codes') = Len(codes) /\ Len(sessions') = Len(sessions) + 1
         /\ row[t] \in DOMAIN codes /\ codes'[row[t]].used
         /\ \A k \in DOMAIN codes : k # row[t] => codes'[k] = codes[k]
         /\ sessions'[Len(sessions) + 1] =
              [email |-> loginEmail[t], code |-> row[t], valid |-> TRUE]
<1>. DEFINE r == [codes[row[t]] EXCEPT !.used = TRUE]
            session == [email |-> loginEmail[t], code |-> row[t], valid |-> TRUE]
<1>1. row[t] \in DOMAIN codes /\ loginEmail[t] = codes[row[t]].email
      /\ codes' = [codes EXCEPT ![row[t]] = r] /\ sessions' = Append(sessions, session)
  BY DEF TypeOK, OpenSession
<1>2. r \in Rows /\ RowKept(r, codes[row[t]]) /\ r.used
  BY <1>1, RowTyping, RowChanges DEF RowKept
<1>3. session \in Sessions
  BY <1>1, RowTyping DEF Sessions
<1>. HIDE DEF r, session
<1>4. /\ sessions' \in Seq(Sessions) /\ Len(sessions') = Len(sessions) + 1
      /\ \A s \in DOMAIN sessions : sessions'[s] = sessions[s]
      /\ sessions'[Len(sessions) + 1] = session
      /\ DOMAIN sessions \subseteq DOMAIN sessions'
  BY <1>1, <1>3, RowTyping
<1>5. /\ codes' \in Seq(Rows) /\ Len(codes') = Len(codes) /\ DOMAIN codes' = DOMAIN codes
      /\ codes'[row[t]] = r
      /\ \A k \in DOMAIN codes : k # row[t] => codes'[k] = codes[k]
  BY <1>1, <1>2, RowTyping
<1>6. Grown
  BY <1>2, <1>4, <1>5, RowTyping, RowChanges DEF Grown
<1>. QED
  BY <1>1, <1>2, <1>4, <1>5, <1>6 DEF session

LEMMA ExpiryGrows ==
  ASSUME TypeOK, NEW k \in DOMAIN codes, CodeExpires(k)
  PROVE  /\ Grown /\ Len(codes') = Len(codes)
         /\ \A j \in DOMAIN codes : codes'[j].used = codes[j].used
<1>1. UNCHANGED sessions
      /\ codes' = [codes EXCEPT ![k] = [codes[k] EXCEPT !.expired = TRUE]]
  BY DEF CodeExpires
<1>. QED
  BY <1>1, RowTyping, RowChanges, RowChangeGrows, ZenonT(30)

LEMMA OneChanged ==
  ASSUME NEW S, NEW f \in Seq(S), NEW i \in DOMAIN f, NEW x \in S
  PROVE  LET g == [f EXCEPT ![i] = x]
         IN  /\ g \in Seq(S) /\ Len(g) = Len(f) /\ DOMAIN g = DOMAIN f /\ g[i] = x
             /\ \A j \in DOMAIN f : j # i => g[j] = f[j]
OBVIOUS

LEMMA InvalidGrows ==
  ASSUME TypeOK, UNCHANGED codes, NEW s \in DOMAIN sessions,
         sessions' = [sessions EXCEPT ![s].valid = FALSE]
  PROVE  Grown /\ Len(sessions') = Len(sessions)
<1>. DEFINE r == [sessions[s] EXCEPT !.valid = FALSE]
<1>1. r \in Sessions /\ r.email = sessions[s].email /\ r.code = sessions[s].code
  BY RowTyping DEF Sessions
<1>2. sessions' = [sessions EXCEPT ![s] = r]
  OBVIOUS
<1>. HIDE DEF r
<1>3. /\ sessions' \in Seq(Sessions) /\ Len(sessions') = Len(sessions)
      /\ DOMAIN sessions' = DOMAIN sessions /\ sessions'[s] = r
      /\ \A i \in DOMAIN sessions : i # s => sessions'[i] = sessions[i]
  <2>1. sessions \in Seq(Sessions) /\ r \in Sessions
    BY <1>1, RowTyping
  <2>2. LET g == [sessions EXCEPT ![s] = r]
        IN  /\ g \in Seq(Sessions) /\ Len(g) = Len(sessions)
            /\ DOMAIN g = DOMAIN sessions /\ g[s] = r
            /\ \A j \in DOMAIN sessions : j # s => g[j] = sessions[j]
    BY <2>1, OneChanged
  <2>. QED
    BY <1>2, <2>2
<1>. QED
  BY <1>1, <1>3, RowTyping, RowChanges DEF Grown

-----------------------------------------------------------------------------
(* Every action keeps the types.                                           *)

LEMMA RequestTyping ==
  ASSUME TypeOK, NEW t \in Tabs, NEW e \in Emails, RequestOtp(t, e)
  PROVE  TypeOK'
<1>1. Grown /\ Len(codes') = Len(codes) + 1
  BY RequestGrows
<1>2. /\ Len(codes) < MaxCodes /\ row' = [row EXCEPT ![t] = Len(codes) + 1]
      /\ pc' = [pc EXCEPT ![t] = "deliver"]
      /\ UNCHANGED <<sessions, mailbox, tab, entered, history>>
  BY DEF RequestOtp
<1>3. TablesOK' /\ ShapeOK'
  <2>1. TablesOK'
    BY <1>1, <1>2, LoginAssumption, TypeParts DEF TablesOK, Grown, history
  <2>2. ShapeOK'
    BY <1>2, TypeParts DEF ShapeOK, tab
  <2>. QED
    BY <2>1, <2>2
<1>4. \A u \in Tabs : u # t => TabOK(u)'
  BY <1>1, <1>2, TabKept, TypeParts DEF tab, ShapeOK
<1>5. TabOK(t)'
  BY <1>1, <1>2, RowTyping, TypeParts DEF tab, ShapeOK, TabOK, Grown
<1>. QED
  BY <1>3, <1>4, <1>5, PartsType

LEMMA DeliverTyping ==
  ASSUME TypeOK, NEW t \in Tabs, Deliver(t)
  PROVE  TypeOK'
<1>1. /\ row[t] \in DOMAIN codes
      /\ mailbox' = mailbox \/ mailbox' = mailbox \cup {row[t]}
      /\ \/ UNCHANGED <<step, loginEmail>>
         \/ /\ step' = step \/ step' = [step EXCEPT ![t] = "otp"]
            /\ loginEmail' = [loginEmail EXCEPT ![t] = codes[row[t]].email]
      /\ pc' = [pc EXCEPT ![t] = "idle"] /\ row' = [row EXCEPT ![t] = None]
      /\ entered' = [entered EXCEPT ![t] = None]
      /\ UNCHANGED <<codes, sessions, sessionId, userEmail, page, history>>
  BY TypeParts DEF Deliver, Return, TabOK
<1>2. Grown
  BY <1>1, SameTablesGrow
<1>3. TablesOK'
  BY <1>1, TypeParts DEF TablesOK, history
<1>4. ShapeOK'
  BY <1>1, RowTyping, TypeParts DEF ShapeOK
<1>5. \A u \in Tabs : u # t => TabOK(u)'
  BY <1>1, <1>2, TabKept, TypeParts DEF ShapeOK
<1>6. TabOK(t)'
  BY <1>1, TypeParts DEF ShapeOK, TabOK, None
<1>. QED
  BY <1>3, <1>4, <1>5, <1>6, PartsType

\* The newest open code of an email that may still be tried.
LEMMA NewestOpen ==
  ASSUME TypeOK, NEW e, MayTry(e)
  PROVE  LET newest == CHOOSE j \in OpenCodes(e) : \A i \in OpenCodes(e) : i <= j
         IN  newest \in OpenCodes(e) /\ \A i \in OpenCodes(e) : i <= newest
BY DEF MayTry

LEMMA ReadTyping ==
  ASSUME TypeOK, NEW t \in Tabs, NEW k \in {None} \cup mailbox, ReadCode(t, k)
  PROVE  TypeOK'
<1>. DEFINE e == loginEmail[t]
            newest == CHOOSE j \in OpenCodes(e) : \A i \in OpenCodes(e) : i <= j
<1>1. pc[t] = "idle" /\ UNCHANGED <<tables, tab, opened>>
  BY DEF ReadCode, OnLoginPage
<1>2. Grown /\ UNCHANGED mailbox
  BY <1>1, SameTablesGrow DEF tables
<1>3. CASE MayTry(e)
  <2>1. newest \in DOMAIN codes /\ newest \in Ids /\ codes[newest].email = e
    BY <1>3, NewestOpen, RowTyping DEF OpenCodes
  <2>2. /\ row' = [row EXCEPT ![t] = newest] /\ entered' = [entered EXCEPT ![t] = k]
        /\ pc' = [pc EXCEPT ![t] = "write"] /\ UNCHANGED refused
        /\ raced' = raced \/ raced' = raced \cup {newest}
    BY <1>3 DEF ReadCode
  <2>. HIDE DEF newest
  <2>3. TablesOK'
    BY <1>1, <2>1, <2>2, TypeParts DEF TablesOK, tables
  <2>4. ShapeOK'
    BY <1>1, <2>2, TypeParts DEF ShapeOK, tab
  <2>5. \A u \in Tabs : u # t => TabOK(u)'
    BY <1>1, <1>2, <2>2, TabKept, TypeParts DEF ShapeOK, tab
  <2>6. TabOK(t)'
    BY <1>1, <2>1, <2>2, RowTyping, TypeParts DEF ShapeOK, TabOK, tables, tab
  <2>. QED
    BY <2>3, <2>4, <2>5, <2>6, PartsType
<1>4. CASE ~MayTry(e)
  <2>1. UNCHANGED <<row, entered, pc, raced>> /\ refused' \subseteq refused \cup mailbox
    BY <1>4 DEF ReadCode, Refuse
  <2>2. TablesOK'
    BY <1>1, <2>1, RowTyping, TypeParts DEF TablesOK, tables
  <2>3. ShapeOK'
    BY <1>1, <2>1, TypeParts DEF ShapeOK, tab
  <2>4. \A u \in Tabs : TabOK(u)'
    BY <1>1, <1>2, <2>1, TabKept DEF tab
  <2>. QED
    BY <2>2, <2>3, <2>4, PartsType
<1>. QED
  BY <1>3, <1>4

LEMMA CountTyping ==
  ASSUME TypeOK, NEW t \in Tabs, CountAttempt(t)
  PROVE  TypeOK'
<1>1. Grown /\ Len(codes') = Len(codes)
  BY CountGrows
<1>2. /\ pc' = [pc EXCEPT ![t] = "idle"] /\ row' = [row EXCEPT ![t] = None]
      /\ entered' = [entered EXCEPT ![t] = None]
      /\ refused' \subseteq refused \cup mailbox
      /\ UNCHANGED <<sessions, mailbox, tab, opened, raced>>
  BY TypeParts DEF CountAttempt, Return, Refuse, TabOK
<1>3. TablesOK'
  BY <1>1, <1>2, RowTyping, TypeParts DEF TablesOK, Grown
<1>4. ShapeOK'
  BY <1>2, TypeParts DEF ShapeOK, tab
<1>5. \A u \in Tabs : u # t => TabOK(u)'
  BY <1>1, <1>2, TabKept, TypeParts DEF ShapeOK, tab
<1>6. TabOK(t)'
  BY <1>2, TypeParts DEF ShapeOK, TabOK, None, tab
<1>. QED
  BY <1>3, <1>4, <1>5, <1>6, PartsType

LEMMA OpenTyping ==
  ASSUME TypeOK, NEW t \in Tabs, OpenSession(t)
  PROVE  TypeOK'
<1>1. /\ Grown /\ Len(codes') = Len(codes) /\ Len(sessions') = Len(sessions) + 1
      /\ row[t] \in DOMAIN codes
      /\ sessions'[Len(sessions) + 1].email = loginEmail[t]
  <2>1. sessions'[Len(sessions) + 1] =
          [email |-> loginEmail[t], code |-> row[t], valid |-> TRUE]
    BY OpenGrows
  <2>. QED
    BY <2>1, OpenGrows
<1>2. /\ pc' = [pc EXCEPT ![t] = "signin"] /\ row' = [row EXCEPT ![t] = Len(sessions) + 1]
      /\ entered' = [entered EXCEPT ![t] = None]
      /\ opened' = [opened EXCEPT ![row[t]] = @ + 1]
      /\ UNCHANGED <<mailbox, tab, raced, refused>>
  BY DEF OpenSession
<1>3. TablesOK'
  BY <1>1, <1>2, RowTyping, TypeParts DEF TablesOK, Grown
<1>4. ShapeOK'
  BY <1>2, TypeParts DEF ShapeOK, tab
<1>5. \A u \in Tabs : u # t => TabOK(u)'
  BY <1>1, <1>2, TabKept, TypeParts DEF ShapeOK, tab
<1>6. TabOK(t)'
  BY <1>1, <1>2, RowTyping, TypeParts DEF ShapeOK, TabOK, None, tab, Grown
<1>. QED
  BY <1>3, <1>4, <1>5, <1>6, PartsType

\* A tab that returns, or is idle: the tables grow, its session id stays one of
\* theirs, whatever else of its state it changes.
LEMMA IdleTyping ==
  ASSUME TypeOK, Grown, NEW t \in Tabs, ShapeOK',
         Len(codes') = Len(codes), UNCHANGED <<mailbox, history>>,
         sessionId'[t] \in {None} \cup DOMAIN sessions,
         pc'[t] = "idle", row'[t] = None, entered'[t] = None,
         \A u \in Tabs : u # t =>
           /\ sessionId'[u] = sessionId[u] /\ entered'[u] = entered[u] /\ row'[u] = row[u]
           /\ pc'[u] = pc[u] /\ loginEmail'[u] = loginEmail[u]
  PROVE  TypeOK'
<1>1. TablesOK'
  BY RowTyping, TypeParts DEF TablesOK, Grown, history
<1>2. \A u \in Tabs : u # t => TabOK(u)'
  BY TabKept
<1>3. TabOK(t)'
  BY DEF TabOK, None, Grown
<1>. QED
  BY <1>1, <1>2, <1>3, PartsType

LEMMA SignOutGrows ==
  ASSUME TypeOK, NEW t \in Tabs, SignOut(t)
  PROVE  Grown /\ Len(sessions') = Len(sessions)
<1>1. sessionId[t] \in DOMAIN sessions
  BY DEF SignOut, Authenticated, TypeOK
<1>. QED
  BY <1>1, InvalidGrows DEF SignOut

LEMMA TabTyping ==
  ASSUME TypeOK, NEW t \in Tabs,
         \/ AccessRaises(t) \/ SignIn(t) \/ Render(t) \/ SignOut(t) \/ TabEnds(t)
         \/ DifferentEmail(t)
  PROVE  TypeOK'
<1>. USE TypeParts DEF ShapeOK
<1>1. CASE AccessRaises(t)
  <2>1. Grown
    BY <1>1, SameTablesGrow DEF AccessRaises, tables
  <2>. QED
    <3>1. /\ ShapeOK' /\ UNCHANGED <<codes, mailbox, history, sessionId, loginEmail>>
          /\ sessionId[t] \in {None} \cup DOMAIN sessions /\ Return(t)
      BY <1>1 DEF AccessRaises, Return, tables, tab, TabOK
    <3>. QED
      BY <2>1, <3>1, IdleTyping DEF Return
<1>2. CASE SignIn(t)
  <2>1. Grown
    BY <1>2, SameTablesGrow DEF SignIn, tables
  <2>2. /\ sessionId' = sessionId \/ sessionId' = [sessionId EXCEPT ![t] = row[t]]
        /\ userEmail' = userEmail \/ userEmail' = [userEmail EXCEPT ![t] = loginEmail[t]]
        /\ step' = step \/ step' = [step EXCEPT ![t] = "email"]
        /\ row[t] \in DOMAIN sessions
        /\ UNCHANGED <<tables, loginEmail, page, history>> /\ Return(t)
    BY <1>2 DEF SignIn, TabOK
  <2>3. ShapeOK'
    <3>1. step' \in [Tabs -> {"email", "otp"}]
      BY <2>2
    <3>2. userEmail' \in [Tabs -> Emails \cup {NoEmail}]
      BY <2>2
    <3>3. sessionId' = [u \in Tabs |-> sessionId'[u]]
      BY <2>2
    <3>4. /\ pc' \in [Tabs -> {"idle", "deliver", "write", "signin"}]
          /\ entered' = [u \in Tabs |-> entered'[u]] /\ row' = [u \in Tabs |-> row'[u]]
          /\ UNCHANGED <<loginEmail, page>>
      BY <2>2 DEF Return
    <3>. QED
      BY <3>1, <3>2, <3>3, <3>4
  <2>4. sessionId'[t] \in {None} \cup DOMAIN sessions
    BY <2>2 DEF TabOK
  <2>. QED
    <3>1. /\ pc'[t] = "idle" /\ row'[t] = None /\ entered'[t] = None
          /\ \A u \in Tabs : u # t =>
               /\ sessionId'[u] = sessionId[u] /\ entered'[u] = entered[u]
               /\ row'[u] = row[u] /\ pc'[u] = pc[u]
      BY <2>2 DEF Return
    <3>2. UNCHANGED <<codes, mailbox, loginEmail, history>>
      BY <2>2 DEF tables
    <3>. QED
      BY <2>1, <2>3, <2>4, <3>1, <3>2, IdleTyping
<1>3. CASE Render(t)
  <2>1. Grown
    BY <1>3, SameTablesGrow DEF Render, tables
  <2>2. Authenticated(t) => sessions[sessionId[t]].email \in Emails
    BY RowTyping DEF Authenticated, TabOK, Sessions
  <2>3. ShapeOK'
    <3>1. /\ page' = [page EXCEPT ![t] = "dashboard"] \/ page' = [page EXCEPT ![t] = "login"]
          /\ \/ UNCHANGED userEmail
             \/ /\ userEmail' = [userEmail EXCEPT ![t] = sessions[sessionId[t]].email]
                /\ sessions[sessionId[t]].email \in Emails
          /\ UNCHANGED <<step, loginEmail, sessionId, call>>
      BY <1>3, <2>2 DEF Render
    <3>. QED
      BY <3>1 DEF call
  <2>4. \A u \in Tabs : TabOK(u)'
    BY <1>3, <2>1, TabKept DEF Render, call, tables
  <2>5. TablesOK'
    BY <1>3 DEF Render, tables, history, TablesOK
  <2>. QED
    BY <2>3, <2>4, <2>5, PartsType
<1>4. CASE SignOut(t)
  <2>1. Grown /\ Len(codes') = Len(codes)
    BY <1>4, SignOutGrows DEF SignOut
  <2>2. ShapeOK'
    BY <1>4 DEF SignOut, call
  <2>3. TablesOK'
    BY <1>4, <2>1 DEF SignOut, history, TablesOK, Grown
  <2>4. \A u \in Tabs : u # t => TabOK(u)'
    BY <1>4, <2>1, TabKept DEF SignOut, call
  <2>5. TabOK(t)'
    BY <1>4, <2>1 DEF SignOut, call, TabOK, None
  <2>. QED
    BY <2>2, <2>3, <2>4, <2>5, PartsType
<1>5. CASE TabEnds(t)
  <2>1. Grown
    BY <1>5, SameTablesGrow DEF TabEnds, tables
  <2>. QED
    BY <1>5, <2>1, IdleTyping DEF TabEnds, Return, tables
<1>6. CASE DifferentEmail(t)
  <2>1. Grown
    BY <1>6, SameTablesGrow DEF DifferentEmail, tables
  <2>2. ShapeOK' /\ TablesOK'
    BY <1>6 DEF DifferentEmail, call, tables, history, TablesOK
  <2>3. \A u \in Tabs : u # t => TabOK(u)'
    BY <1>6, <2>1, TabKept DEF DifferentEmail, call, tables
  <2>4. TabOK(t)'
    BY <1>6 DEF DifferentEmail, OnLoginPage, call, tables, TabOK, None
  <2>. QED
    BY <2>2, <2>3, <2>4, PartsType
<1>. QED
  BY <1>1, <1>2, <1>3, <1>4, <1>5, <1>6

LEMMA ExpiryTyping ==
  ASSUME TypeOK,
         \/ \E k \in DOMAIN codes : CodeExpires(k)
         \/ \E s \in DOMAIN sessions : SessionExpires(s)
  PROVE  TypeOK'
<1>1. Grown /\ Len(codes') = Len(codes) /\ UNCHANGED <<mailbox, tab, call, history>>
  BY ExpiryGrows, InvalidGrows DEF CodeExpires, SessionExpires
<1>2. TablesOK' /\ ShapeOK'
  BY <1>1, TypeParts DEF TablesOK, ShapeOK, Grown, history, tab, call
<1>3. \A u \in Tabs : TabOK(u)'
  BY <1>1, TabKept DEF tab, call
<1>. QED
  BY <1>2, <1>3, PartsType

LEMMA TypeOKIsInductive == TypeOK /\ [Next]_vars => TypeOK'
<1>1. SUFFICES ASSUME TypeOK, [Next]_vars PROVE TypeOK'
  OBVIOUS
<1>2. CASE UNCHANGED vars
  BY <1>1, <1>2 DEF vars, tables, tab, call, history, TypeOK
<1>3. ASSUME NEW t \in Tabs, NEW e \in Emails, RequestOtp(t, e) PROVE TypeOK'
  BY <1>1, <1>3, RequestTyping
<1>4. ASSUME NEW t \in Tabs, NEW k \in {None} \cup mailbox, ReadCode(t, k) PROVE TypeOK'
  BY <1>1, <1>4, ReadTyping
<1>5. ASSUME NEW t \in Tabs,
             TabStep(t) \/ DifferentEmail(t) \/ Render(t) \/ SignOut(t) \/ TabEnds(t)
      PROVE  TypeOK'
  BY <1>1, <1>5, DeliverTyping, CountTyping, OpenTyping, TabTyping DEF TabStep
<1>6. CASE \/ \E k \in DOMAIN codes : CodeExpires(k)
           \/ \E s \in DOMAIN sessions : SessionExpires(s)
  BY <1>1, <1>6, ExpiryTyping
<1>. QED
  BY <1>1, <1>2, <1>3, <1>4, <1>5, <1>6 DEF Next

LEMMA TypeOKHoldsInitially == Init => TypeOK
BY LoginAssumption DEF Init, TypeOK, Ids, None

\* For any tabs, emails, faults and bounds: a call that writes has read a code of
\* the tab's own email, and one that signs in has the id of a session of that
\* email (otp_auth.py:142-168).
THEOREM TypeCorrect == Spec => []TypeOK
BY TypeOKHoldsInitially, TypeOKIsInductive, PTL DEF Spec

-----------------------------------------------------------------------------
(* The dashboard's email.                                                  *)

SessionsProven ==
  \A s \in DOMAIN sessions :
    /\ sessions[s].code \in DOMAIN codes
    /\ codes[sessions[s].code].email = sessions[s].email

\* A script that is inside a call was started from the login page.
BusyOnLogin == \A t \in Tabs : pc[t] # "idle" => page[t] = "login"

EmailOfSession(t) ==
  page[t] = "dashboard" => sessionId[t] # None /\ userEmail[t] = sessions[sessionId[t]].email

SignedInInv ==
  TypeOK /\ SessionsProven /\ BusyOnLogin /\ \A t \in Tabs : EmailOfSession(t)

LEMMA SessionsKept ==
  ASSUME TypeOK, SessionsProven, Grown, Len(sessions') = Len(sessions)
  PROVE  SessionsProven'
<1>1. sessions' \in Seq(Sessions) /\ DOMAIN sessions' = DOMAIN sessions
  BY RowTyping DEF Grown
<1>. QED
  BY <1>1 DEF SessionsProven, Grown, RowKept

LEMMA EmailKept ==
  ASSUME TypeOK, Grown, NEW u \in Tabs, EmailOfSession(u), page'[u] = page[u],
         sessionId'[u] = sessionId[u], userEmail'[u] = userEmail[u]
  PROVE  EmailOfSession(u)'
<1>1. sessionId[u] \in {None} \cup DOMAIN sessions
  BY TypeParts DEF TabOK
<1>. QED
  BY <1>1 DEF EmailOfSession, Grown

\* A step that changes no session state but the steps of the login form.
LEMMA QuietSignedIn ==
  ASSUME SignedInInv, Grown, Len(sessions') = Len(sessions),
         UNCHANGED <<sessionId, userEmail, page>>,
         \A t \in Tabs : pc'[t] # "idle" => pc[t] # "idle" \/ page[t] = "login"
  PROVE  SessionsProven' /\ BusyOnLogin' /\ \A t \in Tabs : EmailOfSession(t)'
<1>1. SessionsProven'
  BY SessionsKept DEF SignedInInv
<1>2. BusyOnLogin'
  BY DEF SignedInInv, BusyOnLogin
<1>3. \A t \in Tabs : EmailOfSession(t)'
  BY EmailKept DEF SignedInInv
<1>. QED
  BY <1>1, <1>2, <1>3

\* A step of one tab that ends on the login page, or on the dashboard with the
\* email of its session.
LEMMA TabSignedIn ==
  ASSUME SignedInInv, Grown, Len(sessions') = Len(sessions), NEW t \in Tabs,
         BusyOnLogin', EmailOfSession(t)',
         \A u \in Tabs : u # t =>
           /\ page'[u] = page[u] /\ sessionId'[u] = sessionId[u]
           /\ userEmail'[u] = userEmail[u]
  PROVE  SessionsProven' /\ BusyOnLogin' /\ \A u \in Tabs : EmailOfSession(u)'
<1>1. SessionsProven'
  BY SessionsKept DEF SignedInInv
<1>2. \A u \in Tabs : u # t => EmailOfSession(u)'
  BY EmailKept DEF SignedInInv
<1>. QED
  BY <1>1, <1>2

LEMMA OpenSignedIn ==
  ASSUME SignedInInv, NEW t \in Tabs, OpenSession(t)
  PROVE  SessionsProven' /\ BusyOnLogin' /\ \A u \in Tabs : EmailOfSession(u)'
<1>. DEFINE session == [email |-> loginEmail[t], code |-> row[t], valid |-> TRUE]
<1>1. /\ TypeOK /\ Grown /\ Len(sessions') = Len(sessions) + 1
      /\ row[t] \in DOMAIN codes /\ sessions'[Len(sessions) + 1] = session
  BY OpenGrows DEF SignedInInv
<1>2. codes[row[t]].email = loginEmail[t]
  BY <1>1, TypeParts DEF OpenSession, TabOK
<1>3. pc' = [pc EXCEPT ![t] = "signin"] /\ UNCHANGED <<page, sessionId, userEmail>>
      /\ pc[t] = "write"
  BY DEF OpenSession, tab
<1>4. session.email = loginEmail[t] /\ session.code = row[t]
  OBVIOUS
<1>5. SessionsProven'
  <2>1. /\ DOMAIN sessions' = DOMAIN sessions \cup {Len(sessions) + 1}
        /\ DOMAIN codes \subseteq DOMAIN codes'
        /\ \A k \in DOMAIN codes : codes'[k].email = codes[k].email
        /\ \A s \in DOMAIN sessions : /\ sessions'[s].email = sessions[s].email
                                      /\ sessions'[s].code = sessions[s].code
    BY <1>1, RowTyping DEF Grown, RowKept
  <2>. HIDE DEF session
  <2>. QED
    BY <2>1, <1>1, <1>2, <1>4 DEF SessionsProven, SignedInInv
<1>6. BusyOnLogin' /\ \A u \in Tabs : EmailOfSession(u)'
  <2>1. BusyOnLogin'
    BY <1>1, <1>3, TypeParts DEF BusyOnLogin, SignedInInv, ShapeOK
  <2>2. \A u \in Tabs : EmailOfSession(u)'
    BY <1>1, <1>3, EmailKept DEF SignedInInv
  <2>. QED
    BY <2>1, <2>2
<1>. QED
  BY <1>5, <1>6

LEMMA TabActionSignedIn ==
  ASSUME SignedInInv, NEW t \in Tabs,
         SignIn(t) \/ Render(t) \/ SignOut(t) \/ TabEnds(t)
  PROVE  SessionsProven' /\ BusyOnLogin' /\ \A u \in Tabs : EmailOfSession(u)'
<1>1. TypeOK /\ ShapeOK /\ TabOK(t) /\ BusyOnLogin
  BY TypeParts DEF SignedInInv
<1>. USE <1>1 DEF ShapeOK, BusyOnLogin, EmailOfSession
<1>2. CASE SignIn(t)
  <2>1. Grown /\ Len(sessions') = Len(sessions)
    BY <1>2, SameTablesGrow DEF SignIn, tables
  <2>2. /\ pc' = [pc EXCEPT ![t] = "idle"] /\ page[t] = "login" /\ page' = page
        /\ \A u \in Tabs : u # t =>
             sessionId'[u] = sessionId[u] /\ userEmail'[u] = userEmail[u]
    BY <1>2 DEF SignIn, Return
  <2>. QED
    BY <2>1, <2>2, TabSignedIn
<1>3. CASE Render(t)
  <2>1. Grown /\ Len(sessions') = Len(sessions)
    BY <1>3, SameTablesGrow DEF Render, tables
  <2>2. /\ pc[t] = "idle" /\ UNCHANGED <<pc, sessions, sessionId>>
        /\ \/ /\ page' = [page EXCEPT ![t] = "dashboard"] /\ sessionId[t] # None
              /\ userEmail' = [userEmail EXCEPT ![t] = sessions[sessionId[t]].email]
           \/ page' = [page EXCEPT ![t] = "login"] /\ UNCHANGED userEmail
    BY <1>3 DEF Render, call, tables, Authenticated
  <2>. QED
    BY <2>1, <2>2, TabSignedIn
<1>4. CASE SignOut(t)
  <2>1. Grown /\ Len(sessions') = Len(sessions)
    BY <1>4, SignOutGrows DEF SignOut
  <2>. QED
    BY <1>4, <2>1, TabSignedIn DEF SignOut, call
<1>5. CASE TabEnds(t)
  <2>1. Grown /\ Len(sessions') = Len(sessions)
    BY <1>5, SameTablesGrow DEF TabEnds, tables
  <2>. QED
    BY <1>5, <2>1, TabSignedIn DEF TabEnds, Return
<1>. QED
  BY <1>2, <1>3, <1>4, <1>5

LEMMA QuietActionSignedIn ==
  ASSUME SignedInInv,
         \/ \E t \in Tabs, e \in Emails : RequestOtp(t, e)
         \/ \E t \in Tabs, k \in {None} \cup mailbox : ReadCode(t, k)
         \/ \E t \in Tabs : Deliver(t) \/ CountAttempt(t) \/ AccessRaises(t)
         \/ \E t \in Tabs : DifferentEmail(t)
         \/ \E k \in DOMAIN codes : CodeExpires(k)
         \/ \E s \in DOMAIN sessions : SessionExpires(s)
  PROVE  SessionsProven' /\ BusyOnLogin' /\ \A u \in Tabs : EmailOfSession(u)'
<1>1. TypeOK /\ ShapeOK
  BY TypeParts DEF SignedInInv
<1>. USE <1>1 DEF ShapeOK, tab, tables, call
<1>2. ASSUME NEW t \in Tabs, NEW e \in Emails, RequestOtp(t, e)
      PROVE  /\ Grown /\ Len(sessions') = Len(sessions)
             /\ UNCHANGED <<sessionId, userEmail, page>>
             /\ \A u \in Tabs : pc'[u] # "idle" => pc[u] # "idle" \/ page[u] = "login"
  BY <1>2, RequestGrows DEF RequestOtp, OnLoginPage
<1>3. ASSUME NEW t \in Tabs, NEW k \in {None} \cup mailbox, ReadCode(t, k)
      PROVE  /\ Grown /\ Len(sessions') = Len(sessions)
             /\ UNCHANGED <<sessionId, userEmail, page>>
             /\ \A u \in Tabs : pc'[u] # "idle" => pc[u] # "idle" \/ page[u] = "login"
  BY <1>3, SameTablesGrow DEF ReadCode, OnLoginPage
<1>4. ASSUME NEW t \in Tabs,
             Deliver(t) \/ CountAttempt(t) \/ AccessRaises(t) \/ DifferentEmail(t)
      PROVE  /\ Grown /\ Len(sessions') = Len(sessions)
             /\ UNCHANGED <<sessionId, userEmail, page>>
             /\ \A u \in Tabs : pc'[u] # "idle" => pc[u] # "idle" \/ page[u] = "login"
  <2>1. Grown /\ Len(sessions') = Len(sessions)
    <3>1. CASE CountAttempt(t)
      BY <3>1, CountGrows DEF CountAttempt
    <3>2. CASE Deliver(t) \/ AccessRaises(t) \/ DifferentEmail(t)
      BY <3>2, SameTablesGrow DEF Deliver, AccessRaises, DifferentEmail
    <3>. QED
      BY <1>4, <3>1, <3>2
  <2>2. /\ UNCHANGED <<sessionId, userEmail, page>>
        /\ pc' = pc \/ pc' = [pc EXCEPT ![t] = "idle"]
    BY <1>4 DEF Deliver, CountAttempt, AccessRaises, DifferentEmail, Return
  <2>. QED
    BY <2>1, <2>2
<1>5. ASSUME \/ \E k \in DOMAIN codes : CodeExpires(k)
             \/ \E s \in DOMAIN sessions : SessionExpires(s)
      PROVE  /\ Grown /\ Len(sessions') = Len(sessions)
             /\ UNCHANGED <<sessionId, userEmail, page>>
             /\ \A u \in Tabs : pc'[u] # "idle" => pc[u] # "idle" \/ page[u] = "login"
  BY <1>5, ExpiryGrows, InvalidGrows DEF CodeExpires, SessionExpires
<1>. QED
  BY <1>2, <1>3, <1>4, <1>5, QuietSignedIn

LEMMA SignedInInvIsInductive == SignedInInv /\ [Next]_vars => SignedInInv'
<1>1. SUFFICES ASSUME SignedInInv, [Next]_vars PROVE SignedInInv'
  OBVIOUS
<1>2. CASE UNCHANGED vars
  BY <1>1, <1>2 DEF vars, tables, tab, call, history, SignedInInv, TypeOK,
                    SessionsProven, BusyOnLogin, EmailOfSession
<1>3. CASE Next
  <2>1. TypeOK'
    BY <1>1, TypeOKIsInductive DEF SignedInInv
  <2>2. SessionsProven' /\ BusyOnLogin' /\ \A u \in Tabs : EmailOfSession(u)'
    BY <1>1, <1>3, OpenSignedIn, TabActionSignedIn, QuietActionSignedIn DEF Next, TabStep
  <2>. QED
    BY <2>1, <2>2 DEF SignedInInv
<1>. QED
  BY <1>1, <1>2, <1>3

\* The dashboard always works under the email its code was requested for, for
\* any number of tabs and emails, across expiry, repeated sign-ins and scripts
\* interrupted between two assignments (streamlit_app.py:414-421,
\* login_page.py:47-54).
THEOREM DashboardIsProven == Spec => []SignedInIsProven
<1>1. Init => SignedInInv
  <2>1. Init => SessionsProven /\ BusyOnLogin /\ \A t \in Tabs : EmailOfSession(t)
    BY DEF Init, SessionsProven, BusyOnLogin, EmailOfSession
  <2>. QED
    BY <2>1, TypeOKHoldsInitially DEF SignedInInv
<1>2. ASSUME SignedInInv PROVE SignedInIsProven
  <2>1. \A t \in Tabs : sessionId[t] \in {None} \cup DOMAIN sessions
    BY <1>2, TypeParts DEF SignedInInv, TabOK
  <2>. QED
    BY <1>2, <2>1 DEF SignedInInv, SessionsProven, EmailOfSession, SignedInIsProven
<1>. QED
  BY <1>1, <1>2, SignedInInvIsInductive, PTL DEF Spec

-----------------------------------------------------------------------------
(* Codes close in turn, and a right code is refused for a reason.          *)

\* A reason that stays: the code is expired, used up, or has a successor.
Over(k) ==
  \/ codes[k].expired \/ opened[k] > 0
  \/ codes[k].attempts >= MaxAttempts \/ Newer(k) # {}

NotYetOpened == \A k \in Ids : k > Len(codes) => opened[k] = 0

\* A newer code than the one a verification has read was closed before it.
EnteredWasClosed(t) ==
  pc[t] = "write" /\ entered[t] # None /\ codes[entered[t]].email = loginEmail[t]
    => entered[t] = row[t] \/ Over(entered[t])

RefusedAreOver == \A k \in refused : k \in DOMAIN codes /\ Over(k)

CodeInv ==
  /\ TypeOK /\ CodesCloseInTurn /\ NotYetOpened /\ RefusedAreOver
  /\ \A t \in Tabs : EnteredWasClosed(t)

OpenedGrows == opened' \in [Ids -> Nat] /\ \A k \in Ids : opened'[k] >= opened[k]

LEMMA NewerGrows ==
  ASSUME TypeOK, Grown, NEW k \in DOMAIN codes
  PROVE  Newer(k) \subseteq Newer(k)'
<1>1. /\ codes' \in Seq(Rows) /\ Len(codes) \in Nat /\ DOMAIN codes = 1..Len(codes)
      /\ DOMAIN codes \subseteq DOMAIN codes'
      /\ \A j \in DOMAIN codes : codes'[j].email = codes[j].email
  BY RowTyping DEF Grown, RowKept
<1>2. DOMAIN codes' = 1..Len(codes') /\ Len(codes') \in Nat
  BY <1>1
<1>. QED
  BY <1>1, <1>2 DEF Newer

LEMMA OverStays ==
  ASSUME TypeOK, Grown, OpenedGrows, NEW k \in DOMAIN codes, Over(k)
  PROVE  Over(k)'
<1>1. k \in Ids /\ codes[k].attempts \in Nat
  BY RowTyping
<1>2. RowKept(codes'[k], codes[k])
  BY DEF Grown
<1>3. CASE codes[k].expired
  BY <1>2, <1>3, Zenon DEF RowKept, Over
<1>4. CASE opened[k] > 0
  BY <1>1, <1>4 DEF OpenedGrows, Over, TypeOK
<1>5. CASE codes[k].attempts >= MaxAttempts
  <2>1. codes'[k].attempts \in Nat
    BY <1>2 DEF RowKept, Rows
  <2>2. codes'[k].attempts >= MaxAttempts
    BY <1>1, <1>2, <1>5, <2>1, LoginAssumption DEF RowKept
  <2>. QED
    BY <2>2 DEF Over
<1>6. CASE Newer(k) # {}
  BY <1>6, NewerGrows DEF Over
<1>. QED
  BY <1>3, <1>4, <1>5, <1>6 DEF Over

\* A tab whose call does not move.
LEMMA EnteredKept ==
  ASSUME TypeOK, Grown, OpenedGrows, NEW u \in Tabs, EnteredWasClosed(u),
         \/ pc'[u] # "write"
         \/ /\ pc'[u] = pc[u] /\ row'[u] = row[u] /\ entered'[u] = entered[u]
            /\ loginEmail'[u] = loginEmail[u]
  PROVE  EnteredWasClosed(u)'
<1>1. entered[u] \in {None} \cup DOMAIN codes
  BY TypeParts DEF TabOK, TablesOK
<1>2. \A k \in DOMAIN codes : codes'[k].email = codes[k].email
  BY DEF Grown, RowKept
<1>. QED
  BY <1>1, <1>2, OverStays DEF EnteredWasClosed

LEMMA RefusedKept ==
  ASSUME TypeOK, Grown, OpenedGrows, RefusedAreOver,
         \A k \in refused' : k \in refused \/ (k \in DOMAIN codes /\ Over(k))
  PROVE  RefusedAreOver'
BY OverStays DEF RefusedAreOver, Grown

\* A step that closes no code and adds none.
LEMMA ClosedKept ==
  ASSUME CodeInv, Grown, Len(codes') = Len(codes), UNCHANGED opened,
         \A k \in DOMAIN codes : codes'[k].used = codes[k].used
  PROVE  CodesCloseInTurn' /\ NotYetOpened' /\ OpenedGrows
<1>1. TypeOK /\ opened \in [Ids -> Nat]
  BY DEF CodeInv, TypeOK
<1>2. OpenedGrows
  BY <1>1 DEF OpenedGrows
<1>3. NotYetOpened'
  BY DEF NotYetOpened, CodeInv
<1>4. /\ DOMAIN codes' = DOMAIN codes
      /\ \A k \in DOMAIN codes : codes'[k].email = codes[k].email
  BY <1>1, RowTyping DEF Grown, RowKept
<1>5. \A k \in DOMAIN codes : Newer(k)' = Newer(k)
  BY <1>1, <1>4, RowTyping DEF Newer
<1>6. CodesCloseInTurn'
  BY <1>4, <1>5, Zenon DEF CodeInv, CodesCloseInTurn
<1>. QED
  BY <1>2, <1>3, <1>6

LEMMA RequestCloses ==
  ASSUME CodeInv, NEW t \in Tabs, NEW e \in Emails, RequestOtp(t, e)
  PROVE  CodeInv'
<1>1. /\ TypeOK /\ TypeOK' /\ Grown /\ Len(codes') = Len(codes) + 1
      /\ \A k \in DOMAIN codes :
           codes'[k] = IF codes[k].email = e THEN [codes[k] EXCEPT !.used = TRUE]
                                             ELSE codes[k]
      /\ codes'[Len(codes) + 1] = NewCode(e)
  BY RequestGrows, RequestTyping DEF CodeInv
<1>2. /\ UNCHANGED <<entered, loginEmail, opened, refused>>
      /\ row' = [row EXCEPT ![t] = Len(codes) + 1] /\ pc' = [pc EXCEPT ![t] = "deliver"]
      /\ Len(codes) < MaxCodes
  BY DEF RequestOtp, history, tab
<1>3. OpenedGrows
  BY <1>1, <1>2 DEF OpenedGrows, TypeOK
<1>4. NotYetOpened'
  BY <1>1, <1>2, RowTyping DEF NotYetOpened, CodeInv, Ids
<1>5. RefusedAreOver'
  BY <1>1, <1>2, <1>3, RefusedKept DEF CodeInv
<1>6. \A u \in Tabs : EnteredWasClosed(u)'
  BY <1>1, <1>2, <1>3, EnteredKept, TypeParts DEF CodeInv, ShapeOK
<1>7. CodesCloseInTurn'
  <2>. DEFINE n == Len(codes) + 1
  <2>1. /\ n \in Ids /\ n \notin DOMAIN codes /\ DOMAIN codes' = DOMAIN codes \cup {n}
        /\ codes'[n].email = e /\ codes'[n].used = FALSE /\ opened[n] = 0
        /\ \A k \in DOMAIN codes : k \in Ids /\ k < n /\ codes'[k].email = codes[k].email
    <3>1. codes'[n].email = e /\ codes'[n].used = FALSE
      BY <1>1 DEF NewCode
    <3>2. \A k \in DOMAIN codes : codes'[k].email = codes[k].email
      BY <1>1 DEF Grown, RowKept
    <3>3. n \in Ids /\ n \notin DOMAIN codes /\ \A k \in DOMAIN codes : k \in Ids /\ k < n
      BY <1>1, <1>2, RowTyping, LoginAssumption DEF Ids
    <3>4. opened[n] = 0
      BY <1>1, <3>3, RowTyping DEF CodeInv, NotYetOpened
    <3>5. DOMAIN codes' = DOMAIN codes \cup {n}
      BY <1>1, RowTyping DEF Grown
    <3>. QED
      BY <3>1, <3>2, <3>3, <3>4, <3>5
  <2>2. ASSUME NEW k \in DOMAIN codes', k = n
        PROVE  Newer(k)' = {}
    BY <1>1, <2>2, RowTyping DEF Newer
  <2>3. ASSUME NEW k \in DOMAIN codes, codes[k].email = e
        PROVE  codes'[k].used /\ Newer(k)' # {}
    <3>1. codes'[k].used
      <4>1. codes[k] \in Rows /\ codes'[k] = [codes[k] EXCEPT !.used = TRUE]
        BY <1>1, <2>3, RowTyping
      <4>. QED
        BY <4>1, RowChanges
    <3>2. n \in Newer(k)'
      BY <1>1, <2>1, <2>3, RowTyping DEF Newer
    <3>. QED
      BY <3>1, <3>2
  <2>4. ASSUME NEW k \in DOMAIN codes, codes[k].email # e
        PROVE  codes'[k].used = codes[k].used /\ Newer(k)' = Newer(k)
    <3>1. codes'[k] = codes[k]
      BY <1>1, <2>4
    <3>2. Newer(k)' = Newer(k)
      BY <1>1, <2>1, <2>4, RowTyping DEF Newer
    <3>. QED
      BY <3>1, <3>2
  <2>. HIDE DEF n
  <2>5. ASSUME NEW k \in DOMAIN codes', k = n
        PROVE  codes'[k].used <=> opened'[k] > 0 \/ Newer(k)' # {}
    BY <1>2, <2>1, <2>2, <2>5
  <2>6. ASSUME NEW k \in DOMAIN codes
        PROVE  codes'[k].used <=> opened'[k] > 0 \/ Newer(k)' # {}
    <3>1. codes[k].used <=> opened[k] > 0 \/ Newer(k) # {}
      BY DEF CodeInv, CodesCloseInTurn
    <3>. QED
      BY <1>2, <2>3, <2>4, <3>1, Zenon
  <2>. QED
    <3>1. SUFFICES ASSUME NEW k \in DOMAIN codes'
                   PROVE  codes'[k].used <=> opened'[k] > 0 \/ Newer(k)' # {}
      BY DEF CodesCloseInTurn
    <3>2. CASE k \in DOMAIN codes
      BY <2>6, <3>2
    <3>3. CASE k = n
      BY <2>5, <3>3
    <3>. QED
      BY <2>1, <3>2, <3>3
<1>. QED
  BY <1>1, <1>4, <1>5, <1>6, <1>7 DEF CodeInv

LEMMA OpenCloses ==
  ASSUME CodeInv, NEW t \in Tabs, OpenSession(t)
  PROVE  CodeInv'
<1>1. /\ TypeOK /\ TypeOK' /\ Grown /\ Len(codes') = Len(codes)
      /\ row[t] \in DOMAIN codes /\ codes'[row[t]].used
      /\ \A k \in DOMAIN codes : k # row[t] => codes'[k] = codes[k]
  BY OpenGrows, OpenTyping DEF CodeInv
<1>2. /\ UNCHANGED <<loginEmail, refused>> /\ opened' = [opened EXCEPT ![row[t]] = @ + 1]
      /\ entered' = [entered EXCEPT ![t] = None]
      /\ row' = [row EXCEPT ![t] = Len(sessions) + 1] /\ pc' = [pc EXCEPT ![t] = "signin"]
  BY DEF OpenSession, tab
<1>3. /\ row[t] \in Ids /\ opened \in [Ids -> Nat] /\ opened'[row[t]] > 0
      /\ \A k \in Ids : k # row[t] => opened'[k] = opened[k]
  BY <1>1, <1>2, RowTyping DEF TypeOK
<1>4. OpenedGrows
  BY <1>1, <1>2, <1>3 DEF OpenedGrows
<1>5. NotYetOpened'
  BY <1>1, <1>3, RowTyping DEF NotYetOpened, CodeInv
<1>6. RefusedAreOver'
  BY <1>1, <1>2, <1>4, RefusedKept DEF CodeInv
<1>7. \A u \in Tabs : EnteredWasClosed(u)'
  BY <1>1, <1>2, <1>4, EnteredKept, TypeParts DEF CodeInv, ShapeOK
<1>8. CodesCloseInTurn'
  <2>1. DOMAIN codes' = DOMAIN codes
    BY <1>1, RowTyping DEF Grown
  <2>2. \A k \in DOMAIN codes : Newer(k)' = Newer(k)
    <3>1. \A k \in DOMAIN codes : codes'[k].email = codes[k].email
      BY <1>1 DEF Grown, RowKept
    <3>. QED
      BY <1>1, <3>1, RowTyping DEF Newer
  <2>3. ASSUME NEW k \in DOMAIN codes
        PROVE  codes'[k].used <=> opened'[k] > 0 \/ Newer(k)' # {}
    <3>1. codes[k].used <=> opened[k] > 0 \/ Newer(k) # {}
      BY DEF CodeInv, CodesCloseInTurn
    <3>2. k \in Ids
      BY <1>1, RowTyping
    <3>. QED
      BY <1>1, <1>3, <2>2, <3>1, <3>2, Zenon
  <2>. QED
    BY <2>1, <2>3, Zenon DEF CodesCloseInTurn
<1>. QED
  BY <1>1, <1>5, <1>6, <1>7, <1>8 DEF CodeInv

\* A delivered code of the email that a verification cannot accept, since none
\* may be tried or another one is the newest, is over.
LEMMA NotAcceptedIsOver ==
  ASSUME CodeInv, NEW k \in mailbox, NEW e, codes[k].email = e,
         ~MayTry(e) \/ \E r \in OpenCodes(e) : r # k /\ \A i \in OpenCodes(e) : i <= r
  PROVE  k \in DOMAIN codes /\ Over(k)
<1>1. TypeOK /\ k \in DOMAIN codes /\ codes[k].attempts \in Nat
  BY RowTyping DEF CodeInv, TypeOK
<1>2. CASE k \notin OpenCodes(e)
  <2>1. codes[k].used \/ codes[k].expired
    BY <1>1, <1>2 DEF OpenCodes
  <2>2. codes[k].used => opened[k] > 0 \/ Newer(k) # {}
    BY <1>1 DEF CodeInv, CodesCloseInTurn
  <2>. QED
    BY <1>1, <2>1, <2>2, Zenon DEF Over
<1>3. CASE k \in OpenCodes(e) /\ \E j \in OpenCodes(e) : ~(j <= k)
  <2>1. PICK j \in OpenCodes(e) : ~(j <= k)
    BY <1>3
  <2>2. j \in Newer(k)
    BY <1>1, <2>1, RowTyping DEF OpenCodes, Newer
  <2>. QED
    BY <1>1, <2>2 DEF Over
<1>4. CASE k \in OpenCodes(e) /\ \A j \in OpenCodes(e) : j <= k
  <2>1. ~MayTry(e)
    <3>1. ASSUME NEW r \in OpenCodes(e), r # k, \A i \in OpenCodes(e) : i <= r PROVE FALSE
      <4>1. k <= r /\ r <= k /\ r \in Nat /\ k \in Nat
        BY <1>1, <1>4, <3>1, RowTyping DEF OpenCodes, Ids
      <4>. QED
        BY <3>1, <4>1
    <3>. QED
      BY <3>1
  <2>2. ~(codes[k].attempts < MaxAttempts)
    BY <1>4, <2>1 DEF MayTry
  <2>3. codes[k].attempts >= MaxAttempts
    BY <1>1, <2>2, LoginAssumption
  <2>. QED
    BY <1>1, <2>3 DEF Over
<1>. QED
  BY <1>2, <1>3, <1>4

LEMMA ReadCloses ==
  ASSUME CodeInv, NEW t \in Tabs, NEW k \in {None} \cup mailbox, ReadCode(t, k)
  PROVE  CodeInv'
<1>. DEFINE e == loginEmail[t]
            newest == CHOOSE j \in OpenCodes(e) : \A i \in OpenCodes(e) : i <= j
<1>1. TypeOK /\ TypeOK' /\ UNCHANGED <<tables, tab, opened>> /\ ShapeOK
  BY ReadTyping, TypeParts DEF CodeInv, ReadCode
<1>2. Grown /\ OpenedGrows
  BY <1>1, SameTablesGrow DEF OpenedGrows, TypeOK, tables
<1>3. CodesCloseInTurn' /\ NotYetOpened'
  BY <1>1, <1>2, ClosedKept DEF CodeInv, tables
<1>4. CASE MayTry(e)
  <2>1. newest \in OpenCodes(e) /\ \A i \in OpenCodes(e) : i <= newest
    BY <1>1, <1>4, NewestOpen
  <2>2. /\ row' = [row EXCEPT ![t] = newest] /\ entered' = [entered EXCEPT ![t] = k]
        /\ pc' = [pc EXCEPT ![t] = "write"] /\ UNCHANGED refused
    BY <1>4 DEF ReadCode
  <2>. HIDE DEF newest
  <2>3. EnteredWasClosed(t)'
    <3>1. SUFFICES ASSUME k # None, codes[k].email = e, k # newest PROVE Over(k)'
      BY <1>1, <2>2 DEF EnteredWasClosed, ShapeOK, tables, tab
    <3>2. k \in DOMAIN codes /\ Over(k)
      BY <2>1, <3>1, NotAcceptedIsOver
    <3>. QED
      BY <1>1, <1>2, <3>2, OverStays
  <2>4. \A u \in Tabs : u # t => EnteredWasClosed(u)'
    BY <1>1, <1>2, <2>2, EnteredKept DEF CodeInv, ShapeOK, tab
  <2>5. RefusedAreOver'
    BY <1>1, <1>2, <2>2, RefusedKept DEF CodeInv
  <2>. QED
    BY <1>1, <1>3, <2>3, <2>4, <2>5 DEF CodeInv
<1>5. CASE ~MayTry(e)
  <2>1. UNCHANGED <<row, entered, pc>> /\ Refuse(t, k)
    BY <1>5 DEF ReadCode
  <2>2. \A j \in refused' : j \in refused \/ (j \in DOMAIN codes /\ Over(j))
    BY <1>5, <2>1, NotAcceptedIsOver DEF Refuse
  <2>3. RefusedAreOver'
    BY <1>1, <1>2, <2>2, RefusedKept DEF CodeInv
  <2>4. \A u \in Tabs : EnteredWasClosed(u)'
    BY <1>1, <1>2, <2>1, EnteredKept DEF CodeInv, tab
  <2>. QED
    BY <1>1, <1>3, <2>3, <2>4 DEF CodeInv
<1>. QED
  BY <1>4, <1>5

LEMMA CountCloses ==
  ASSUME CodeInv, NEW t \in Tabs, CountAttempt(t)
  PROVE  CodeInv'
<1>1. /\ TypeOK /\ TypeOK' /\ Grown /\ Len(codes') = Len(codes) /\ ShapeOK /\ TabOK(t)
      /\ \A k \in DOMAIN codes : codes'[k].used = codes[k].used
  BY CountGrows, CountTyping, TypeParts DEF CodeInv
<1>2. /\ UNCHANGED <<opened, loginEmail>> /\ pc[t] = "write" /\ entered[t] # row[t]
      /\ pc' = [pc EXCEPT ![t] = "idle"] /\ row' = [row EXCEPT ![t] = None]
      /\ entered' = [entered EXCEPT ![t] = None] /\ Refuse(t, entered[t])
  BY DEF CountAttempt, Return, tab
<1>3. CodesCloseInTurn' /\ NotYetOpened' /\ OpenedGrows
  BY <1>1, <1>2, ClosedKept
<1>4. \A u \in Tabs : EnteredWasClosed(u)'
  BY <1>1, <1>2, <1>3, EnteredKept DEF CodeInv, ShapeOK
<1>5. \A k \in refused' : k \in refused \/ (k \in DOMAIN codes /\ Over(k))
  BY <1>1, <1>2, TypeParts DEF Refuse, CodeInv, EnteredWasClosed, TabOK, TablesOK
<1>6. RefusedAreOver'
  BY <1>1, <1>3, <1>5, RefusedKept DEF CodeInv
<1>. QED
  BY <1>1, <1>3, <1>4, <1>6 DEF CodeInv

\* The other steps close no code, refuse none, and begin no write.
LEMMA QuietCloses ==
  ASSUME CodeInv, TypeOK', Grown, Len(codes') = Len(codes), UNCHANGED <<opened, refused>>,
         \A k \in DOMAIN codes : codes'[k].used = codes[k].used,
         \A u \in Tabs :
           \/ pc'[u] # "write"
           \/ /\ pc'[u] = pc[u] /\ row'[u] = row[u] /\ entered'[u] = entered[u]
              /\ loginEmail'[u] = loginEmail[u]
  PROVE  CodeInv'
<1>1. CodesCloseInTurn' /\ NotYetOpened' /\ OpenedGrows
  BY ClosedKept
<1>2. \A u \in Tabs : EnteredWasClosed(u)'
  BY <1>1, EnteredKept DEF CodeInv
<1>3. RefusedAreOver'
  BY <1>1, RefusedKept DEF CodeInv
<1>. QED
  BY <1>1, <1>2, <1>3 DEF CodeInv

LEMMA TabCloses ==
  ASSUME CodeInv, NEW t \in Tabs,
         \/ Deliver(t) \/ AccessRaises(t) \/ SignIn(t) \/ Render(t) \/ SignOut(t)
         \/ TabEnds(t) \/ DifferentEmail(t)
  PROVE  CodeInv'
<1>1. TypeOK /\ ShapeOK /\ TypeOK'
  BY DeliverTyping, TabTyping, TypeParts DEF CodeInv
<1>2. Grown /\ UNCHANGED codes
  <2>1. CASE SignOut(t)
    BY <1>1, <2>1, SignOutGrows DEF SignOut
  <2>2. CASE ~SignOut(t)
    BY <1>1, <2>2, SameTablesGrow
       DEF Deliver, AccessRaises, SignIn, Render, TabEnds, DifferentEmail, tables
  <2>. QED
    BY <2>1, <2>2
<1>3. UNCHANGED <<opened, refused>>
  BY DEF Deliver, AccessRaises, SignIn, Render, SignOut, TabEnds, DifferentEmail, history
<1>4. /\ \A u \in Tabs : u # t =>
           /\ pc'[u] = pc[u] /\ row'[u] = row[u] /\ entered'[u] = entered[u]
           /\ loginEmail'[u] = loginEmail[u]
      /\ pc'[t] # "write"
  BY <1>1 DEF Deliver, AccessRaises, SignIn, Render, SignOut, TabEnds, DifferentEmail,
              OnLoginPage, Return, call, tab, ShapeOK
<1>. QED
  BY <1>1, <1>2, <1>3, <1>4, QuietCloses

LEMMA ExpiryCloses ==
  ASSUME CodeInv,
         \/ \E k \in DOMAIN codes : CodeExpires(k)
         \/ \E s \in DOMAIN sessions : SessionExpires(s)
  PROVE  CodeInv'
<1>1. /\ TypeOK' /\ Grown /\ Len(codes') = Len(codes)
      /\ \A k \in DOMAIN codes : codes'[k].used = codes[k].used
  BY ExpiryTyping, ExpiryGrows, InvalidGrows DEF CodeInv, SessionExpires
<1>2. UNCHANGED <<tab, call, history>>
  BY DEF CodeExpires, SessionExpires
<1>. QED
  BY <1>1, <1>2, QuietCloses DEF tab, call, history

LEMMA CodeInvIsInductive == CodeInv /\ [Next]_vars => CodeInv'
<1>1. SUFFICES ASSUME CodeInv, [Next]_vars PROVE CodeInv'
  OBVIOUS
<1>2. CASE UNCHANGED vars
  BY <1>1, <1>2 DEF vars, tables, tab, call, history, CodeInv, TypeOK, CodesCloseInTurn,
                    NotYetOpened, RefusedAreOver, EnteredWasClosed, Over, Newer
<1>3. CASE Next
  BY <1>1, <1>3, RequestCloses, OpenCloses, ReadCloses, CountCloses, TabCloses, ExpiryCloses
     DEF Next, TabStep
<1>. QED
  BY <1>1, <1>2, <1>3

LEMMA CodeInvHoldsInitially == Init => CodeInv
<1>1. Init => CodesCloseInTurn /\ NotYetOpened /\ RefusedAreOver
              /\ \A t \in Tabs : EnteredWasClosed(t)
  BY DEF Init, CodesCloseInTurn, NotYetOpened, RefusedAreOver, EnteredWasClosed
<1>. QED
  BY <1>1, TypeOKHoldsInitially DEF CodeInv

\* A code is closed by the session it opens or by its successor, and by nothing
\* else, for any tabs racing on it (otp_auth.py:124-136, 162).
THEOREM CodesClose == Spec => []CodesCloseInTurn
<1>1. CodeInv => CodesCloseInTurn
  BY DEF CodeInv
<1>. QED
  BY <1>1, CodeInvHoldsInitially, CodeInvIsInductive, PTL DEF Spec

\* No right code is refused without a reason: expiry, a session it opened, its
\* attempts, or a successor (otp_auth.py:129-159).
THEOREM RefusalsHaveReasons == Spec => []RefusedForAReason
<1>1. CodeInv => RefusedForAReason
  BY DEF CodeInv, RefusedAreOver, Over, RefusedForAReason
<1>. QED
  BY <1>1, CodeInvHoldsInitially, CodeInvIsInductive, PTL DEF Spec

-----------------------------------------------------------------------------
(* A code is used once, and its attempts are bounded, up to the tabs that   *)
(* race: each verification that has read a code and not yet written counts  *)
(* in advance as the session it may open and as the attempt it may make.    *)

Writers(k) == {t \in Tabs : pc[t] = "write" /\ row[t] = k}
Load(k) == Cardinality(Writers(k))
Limit(k) == MaxAttempts + (IF k \in raced THEN Cardinality(Tabs) - 1 ELSE 0)

RacesNoted ==
  /\ \A t, u \in Tabs :
       t # u /\ pc[t] = "write" /\ pc[u] = "write" /\ row[t] = row[u] => row[t] \in raced
  /\ \A t \in Tabs : pc[t] = "write" /\ opened[row[t]] > 0 => row[t] \in raced
  /\ \A k \in Ids : opened[k] > 1 => k \in raced

LoadBounded ==
  /\ \A k \in Ids : opened[k] + Load(k) <= Cardinality(Tabs)
  /\ \A k \in DOMAIN codes : codes[k].attempts + Load(k) <= Limit(k)

RaceInv == RacesNoted /\ LoadBounded

LEMMA LoadTyping ==
  ASSUME IsFiniteSet(Tabs)
  PROVE  /\ Cardinality(Tabs) \in Nat
         /\ \A k : IsFiniteSet(Writers(k)) /\ Load(k) \in Nat /\ Load(k) <= Cardinality(Tabs)
<1>1. \A k : Writers(k) \in SUBSET Tabs
  BY DEF Writers
<1>. QED
  BY <1>1, FS_Subset, FS_CardinalityType DEF Load

\* No verification begins.
LEMMA LoadShrinks ==
  ASSUME IsFiniteSet(Tabs),
         \A u \in Tabs : pc'[u] = "write" => pc[u] = "write" /\ row'[u] = row[u]
  PROVE  \A k : Load(k)' \in Nat /\ Load(k)' <= Load(k)
<1>. TAKE k
<1>1. Writers(k)' \in SUBSET Writers(k)
  BY DEF Writers
<1>2. IsFiniteSet(Writers(k))
  BY LoadTyping
<1>. QED
  BY <1>1, <1>2, FS_Subset, FS_CardinalityType DEF Load

\* A verification of tab t ends with its write.
LEMMA LoadLeaves ==
  ASSUME IsFiniteSet(Tabs), NEW t \in Tabs, NEW k, t \in Writers(k), pc'[t] # "write",
         \A u \in Tabs : u # t => pc'[u] = pc[u] /\ row'[u] = row[u]
  PROVE  Load(k)' = Load(k) - 1
<1>1. Writers(k)' = Writers(k) \ {t}
  BY DEF Writers
<1>2. IsFiniteSet(Writers(k))
  BY LoadTyping
<1>. QED
  BY <1>1, <1>2, FS_RemoveElement DEF Load

\* Tab t begins a verification of the code k.
LEMMA LoadEnters ==
  ASSUME IsFiniteSet(Tabs), NEW t \in Tabs, NEW k, pc[t] # "write",
         pc'[t] = "write", row'[t] = k,
         \A u \in Tabs : u # t => pc'[u] = pc[u] /\ row'[u] = row[u]
  PROVE  /\ Load(k)' \in Nat /\ Load(k)' <= Cardinality(Tabs)
         /\ Writers(k) = {} => Load(k)' = 1
         /\ \A j : j # k => Load(j)' = Load(j)
<1>1. Writers(k)' = Writers(k) \cup {t} /\ Writers(k)' \in SUBSET Tabs
  BY DEF Writers
<1>2. ASSUME NEW j, j # k PROVE Writers(j)' = Writers(j)
  BY <1>2 DEF Writers
<1>3. Writers(k) = {} => Cardinality(Writers(k)') = 1
  BY <1>1, FS_Singleton
<1>4. Cardinality(Writers(k)') \in Nat /\ Cardinality(Writers(k)') <= Cardinality(Tabs)
  BY <1>1, FS_Subset, FS_CardinalityType
<1>. QED
  BY <1>2, <1>3, <1>4 DEF Load

LEMMA LimitTyping ==
  ASSUME IsFiniteSet(Tabs)
  PROVE  \A k : Limit(k) \in Nat
<1>1. Cardinality(Tabs) \in Nat /\ MaxAttempts \in Nat \ {0}
  BY LoadTyping, LoginAssumption
<1>. QED
  BY <1>1 DEF Limit

\* A step that opens no session, counts no attempt and begins no verification;
\* a code that it adds has no attempts and no readers.
LEMMA QuietRaces ==
  ASSUME IsFiniteSet(Tabs), TypeOK, RaceInv, UNCHANGED <<opened, raced>>,
         \A u \in Tabs : pc'[u] = "write" => pc[u] = "write" /\ row'[u] = row[u],
         \A k \in DOMAIN codes' :
           IF k \in DOMAIN codes THEN codes'[k].attempts = codes[k].attempts
                                 ELSE codes'[k].attempts = 0
  PROVE  RaceInv'
<1>1. \A k : /\ Load(k)' \in Nat /\ Load(k)' <= Load(k) /\ Load(k) \in Nat
             /\ Limit(k)' = Limit(k) /\ Limit(k) \in Nat
  BY LoadShrinks, LoadTyping, LimitTyping DEF Limit
<1>2. RacesNoted'
  BY DEF RaceInv, RacesNoted
<1>3. \A k \in Ids : opened'[k] + Load(k)' <= Cardinality(Tabs)
  <2>1. Cardinality(Tabs) \in Nat /\ \A k \in Ids : opened[k] \in Nat
    BY LoadTyping DEF TypeOK
  <2>. QED
    BY <1>1, <2>1 DEF RaceInv, LoadBounded
<1>4. ASSUME NEW k \in DOMAIN codes' PROVE codes'[k].attempts + Load(k)' <= Limit(k)'
  <2>1. CASE k \in DOMAIN codes
    <3>1. codes[k].attempts \in Nat /\ codes[k].attempts + Load(k) <= Limit(k)
      BY <2>1, RowTyping DEF RaceInv, LoadBounded
    <3>. QED
      BY <1>1, <2>1, <3>1
  <2>2. CASE k \notin DOMAIN codes
    <3>1. Writers(k) = {}
      BY <2>2, TypeParts DEF Writers, TabOK
    <3>2. Load(k) = 0
      BY <3>1, FS_EmptySet DEF Load
    <3>. QED
      BY <1>1, <2>2, <3>2
  <2>. QED
    BY <2>1, <2>2
<1>. QED
  BY <1>2, <1>3, <1>4 DEF RaceInv, LoadBounded

LEMMA RequestRaces ==
  ASSUME IsFiniteSet(Tabs), TypeOK, RaceInv, NEW t \in Tabs, NEW e \in Emails, RequestOtp(t, e)
  PROVE  RaceInv'
<1>1. UNCHANGED <<opened, raced>>
  BY DEF RequestOtp, history
<1>2. \A u \in Tabs : pc'[u] = "write" => pc[u] = "write" /\ row'[u] = row[u]
  BY TypeParts DEF RequestOtp, ShapeOK
<1>3. /\ codes' \in Seq(Rows) /\ Len(codes') = Len(codes) + 1
      /\ codes'[Len(codes) + 1].attempts = 0
  <2>1. NewCode(e).attempts = 0
    BY DEF NewCode
  <2>. QED
    BY <2>1, RequestGrows DEF Grown
<1>4. \A k \in DOMAIN codes : codes'[k].attempts = codes[k].attempts
  <2>1. \A r \in Rows : [r EXCEPT !.used = TRUE].attempts = r.attempts
    BY DEF Rows
  <2>. QED
    BY <2>1, RequestGrows, RowTyping
<1>5. \A k \in DOMAIN codes' : k \in DOMAIN codes \/ k = Len(codes) + 1
  BY <1>3, RowTyping
<1>. QED
  BY <1>1, <1>2, <1>3, <1>4, <1>5, QuietRaces

\* The attempt is counted and its verification is over.
LEMMA CountRaces ==
  ASSUME IsFiniteSet(Tabs), TypeOK, RaceInv, NEW t \in Tabs, CountAttempt(t)
  PROVE  RaceInv'
<1>1. PICK k \in DOMAIN codes : k = row[t]
  BY TypeParts DEF CountAttempt, TabOK
<1>2. /\ pc[t] = "write" /\ pc'[t] = "idle" /\ UNCHANGED <<opened, raced>>
      /\ codes' = [codes EXCEPT ![k] = [codes[k] EXCEPT !.attempts = @ + 1]]
      /\ \A u \in Tabs : u # t => pc'[u] = pc[u] /\ row'[u] = row[u]
  BY <1>1, TypeParts DEF CountAttempt, Return, ShapeOK, history
<1>3. \A j : /\ Load(j)' \in Nat /\ Load(j)' <= Load(j) /\ Load(j) \in Nat
             /\ Limit(j)' = Limit(j) /\ Limit(j) \in Nat
  BY <1>2, LoadShrinks, LoadTyping, LimitTyping DEF Limit
<1>4. Load(k)' = Load(k) - 1
  BY <1>1, <1>2, LoadLeaves DEF Writers
<1>5. RacesNoted'
  BY <1>2 DEF RaceInv, RacesNoted
<1>6. \A j \in Ids : opened'[j] + Load(j)' <= Cardinality(Tabs)
  <2>1. Cardinality(Tabs) \in Nat /\ \A j \in Ids : opened[j] \in Nat
    BY LoadTyping DEF TypeOK
  <2>. QED
    BY <1>2, <1>3, <2>1 DEF RaceInv, LoadBounded
<1>7. /\ codes'[k].attempts = codes[k].attempts + 1 /\ DOMAIN codes' = DOMAIN codes
      /\ \A j \in DOMAIN codes : j # k => codes'[j] = codes[j]
  BY <1>2, RowTyping DEF Rows
<1>8. ASSUME NEW j \in DOMAIN codes PROVE codes'[j].attempts + Load(j)' <= Limit(j)'
  <2>1. codes[j].attempts \in Nat /\ codes[j].attempts + Load(j) <= Limit(j)
    BY RowTyping DEF RaceInv, LoadBounded
  <2>2. CASE j = k
    BY <1>3, <1>4, <1>7, <2>1, <2>2
  <2>3. CASE j # k
    BY <1>3, <1>7, <2>1, <2>3
  <2>. QED
    BY <2>2, <2>3
<1>. QED
  BY <1>5, <1>6, <1>7, <1>8 DEF RaceInv, LoadBounded

\* The session is opened and its verification is over; if another one of the
\* code is still to come, the two have raced.
LEMMA OpenRaces ==
  ASSUME IsFiniteSet(Tabs), TypeOK, RaceInv, NEW t \in Tabs, OpenSession(t)
  PROVE  RaceInv'
<1>1. PICK k \in DOMAIN codes : k = row[t]
  BY TypeParts DEF OpenSession, TabOK
<1>2. /\ pc[t] = "write" /\ pc'[t] = "signin" /\ UNCHANGED raced
      /\ codes' = [codes EXCEPT ![k] = [codes[k] EXCEPT !.used = TRUE]]
      /\ opened' = [opened EXCEPT ![k] = @ + 1]
      /\ \A u \in Tabs : u # t => pc'[u] = pc[u] /\ row'[u] = row[u]
  BY <1>1, TypeParts DEF OpenSession, ShapeOK
<1>3. \A j : /\ Load(j)' \in Nat /\ Load(j)' <= Load(j) /\ Load(j) \in Nat
             /\ Limit(j)' = Limit(j) /\ Limit(j) \in Nat
  BY <1>2, LoadShrinks, LoadTyping, LimitTyping DEF Limit
<1>4. Load(k)' = Load(k) - 1
  BY <1>1, <1>2, LoadLeaves DEF Writers
<1>5. /\ k \in Ids /\ opened[k] \in Nat /\ opened'[k] = opened[k] + 1
      /\ \A j \in Ids : opened[j] \in Nat /\ (j # k => opened'[j] = opened[j])
  BY <1>2, RowTyping DEF TypeOK
<1>6. RacesNoted'
  <2>1. ASSUME NEW u \in Tabs, pc'[u] = "write", opened'[row'[u]] > 0
        PROVE  row'[u] \in raced
    <3>1. u # t /\ pc[u] = "write" /\ row'[u] = row[u] /\ row[u] \in Ids
      BY <1>2, <2>1, TypeParts, RowTyping DEF TabOK
    <3>2. CASE row[u] = k
      BY <1>1, <1>2, <3>1, <3>2 DEF RaceInv, RacesNoted
    <3>3. CASE row[u] # k
      BY <1>5, <2>1, <3>1, <3>3 DEF RaceInv, RacesNoted
    <3>. QED
      BY <3>2, <3>3
  <2>2. ASSUME NEW j \in Ids, opened'[j] > 1 PROVE j \in raced
    <3>1. CASE j = k
      <4>1. opened[k] > 0
        BY <1>5, <2>2, <3>1
      <4>. QED
        BY <1>1, <1>2, <3>1, <4>1 DEF RaceInv, RacesNoted
    <3>2. CASE j # k
      BY <1>5, <2>2, <3>2 DEF RaceInv, RacesNoted
    <3>. QED
      BY <3>1, <3>2
  <2>3. \A u, v \in Tabs : u # v /\ pc'[u] = "write" /\ pc'[v] = "write" /\ row'[u] = row'[v]
                             => row'[u] \in raced
    BY <1>2 DEF RaceInv, RacesNoted
  <2>. QED
    BY <1>2, <2>1, <2>2, <2>3 DEF RacesNoted
<1>7. ASSUME NEW j \in Ids PROVE opened'[j] + Load(j)' <= Cardinality(Tabs)
  <2>1. Cardinality(Tabs) \in Nat /\ opened[j] + Load(j) <= Cardinality(Tabs)
    BY LoadTyping DEF RaceInv, LoadBounded
  <2>2. CASE j = k
    BY <1>3, <1>4, <1>5, <2>1, <2>2
  <2>3. CASE j # k
    BY <1>3, <1>5, <2>1, <2>3
  <2>. QED
    BY <2>2, <2>3
<1>8. ASSUME NEW j \in DOMAIN codes'
      PROVE  codes'[j].attempts + Load(j)' <= Limit(j)'
  <2>1. j \in DOMAIN codes /\ codes'[j].attempts = codes[j].attempts
    BY <1>2, RowTyping DEF Rows
  <2>2. codes[j].attempts \in Nat /\ codes[j].attempts + Load(j) <= Limit(j)
    BY <2>1, RowTyping DEF RaceInv, LoadBounded
  <2>. QED
    BY <1>3, <2>1, <2>2
<1>. QED
  BY <1>6, <1>7, <1>8 DEF RaceInv, LoadBounded

\* A verification reads a code that is open, hence unused, and may be tried; if
\* another one has read it too, the two race.
LEMMA ReadRaces ==
  ASSUME IsFiniteSet(Tabs), CodeInv, RaceInv, NEW t \in Tabs, NEW entry \in {None} \cup mailbox,
         ReadCode(t, entry)
  PROVE  RaceInv'
<1>. DEFINE e == loginEmail[t]
            newest == CHOOSE j \in OpenCodes(e) : \A i \in OpenCodes(e) : i <= j
<1>1. TypeOK /\ pc[t] = "idle" /\ UNCHANGED <<codes, opened>>
  BY DEF CodeInv, ReadCode, OnLoginPage, tables
<1>2. CASE ~MayTry(e)
  <2>1. UNCHANGED <<row, pc, raced>>
    BY <1>2 DEF ReadCode
  <2>. QED
    BY <1>1, <2>1, QuietRaces
<1>3. CASE MayTry(e)
  <2>1. newest \in OpenCodes(e) /\ codes[newest].attempts < MaxAttempts
    <3>1. newest \in OpenCodes(e) /\ \A i \in OpenCodes(e) : i <= newest
      BY <1>1, <1>3, NewestOpen
    <3>2. PICK k \in OpenCodes(e) :
            codes[k].attempts < MaxAttempts /\ \A j \in OpenCodes(e) : j <= k
      BY <1>3 DEF MayTry
    <3>3. k \in Nat /\ newest \in Nat
      BY <1>1, <3>1, <3>2, RowTyping DEF OpenCodes, Ids
    <3>4. k = newest
      BY <3>1, <3>2, <3>3
    <3>. QED
      BY <3>1, <3>2, <3>4
  <2>2. /\ row' = [row EXCEPT ![t] = newest] /\ pc' = [pc EXCEPT ![t] = "write"]
        /\ raced' = IF \E u \in Tabs : pc[u] = "write" /\ row[u] = newest
                      THEN raced \cup {newest} ELSE raced
    BY <1>3 DEF ReadCode
  <2>. HIDE DEF newest
  <2>3. PICK k : k = newest
    OBVIOUS
  <2>4. /\ k \in DOMAIN codes /\ k \in Ids /\ opened[k] = 0
        /\ codes[k].attempts \in Nat /\ codes[k].attempts < MaxAttempts
    <3>1. k \in DOMAIN codes /\ ~codes[k].used
      BY <2>1, <2>3 DEF OpenCodes
    <3>2. ~(opened[k] > 0)
      BY <3>1 DEF CodeInv, CodesCloseInTurn
    <3>. QED
      BY <1>1, <2>1, <2>3, <3>1, <3>2, RowTyping DEF TypeOK
  <2>5. /\ pc'[t] = "write" /\ row'[t] = k
        /\ \A u \in Tabs : u # t => pc'[u] = pc[u] /\ row'[u] = row[u]
    BY <1>1, <2>2, <2>3, TypeParts DEF ShapeOK
  <2>6. /\ Load(k)' \in Nat /\ Load(k)' <= Cardinality(Tabs)
        /\ Writers(k) = {} => Load(k)' = 1
        /\ \A j : j # k => Load(j)' = Load(j)
    BY <1>1, <2>5, LoadEnters
  <2>7. /\ raced \subseteq raced'
        /\ (\E u \in Tabs : pc[u] = "write" /\ row[u] = k) => k \in raced'
        /\ \A j : j # k => (j \in raced' <=> j \in raced)
    BY <2>2, <2>3
  <2>8. RacesNoted'
    BY <1>1, <2>4, <2>5, <2>7 DEF RaceInv, RacesNoted
  <2>9. ASSUME NEW j \in Ids PROVE opened'[j] + Load(j)' <= Cardinality(Tabs)
    <3>1. CASE j = k
      BY <1>1, <2>4, <2>6, <3>1, LoadTyping
    <3>2. CASE j # k
      BY <1>1, <2>6, <3>2 DEF RaceInv, LoadBounded
    <3>. QED
      BY <3>1, <3>2
  <2>10. ASSUME NEW j \in DOMAIN codes'
         PROVE  codes'[j].attempts + Load(j)' <= Limit(j)'
    <3>1. CASE j = k /\ k \in raced'
      <4>1. Limit(k)' = MaxAttempts + (Cardinality(Tabs) - 1)
        BY <3>1 DEF Limit
      <4>. QED
        BY <1>1, <2>4, <2>6, <3>1, <4>1, LoadTyping, LoginAssumption
    <3>2. CASE j = k /\ k \notin raced'
      <4>1. Limit(k)' = MaxAttempts + 0
        BY <3>2 DEF Limit
      <4>2. Load(k)' = 1
        BY <2>6, <2>7, <3>2 DEF Writers
      <4>. QED
        BY <1>1, <2>4, <3>2, <4>1, <4>2, LoginAssumption
    <3>3. CASE j # k
      BY <1>1, <2>6, <2>7, <3>3 DEF RaceInv, LoadBounded, Limit
    <3>. QED
      BY <3>1, <3>2, <3>3
  <2>. QED
    BY <2>8, <2>9, <2>10 DEF RaceInv, LoadBounded
<1>. QED
  BY <1>2, <1>3

\* The other steps of a tab, and time.
LEMMA OtherRaces ==
  ASSUME IsFiniteSet(Tabs), TypeOK, RaceInv,
         \/ \E t \in Tabs : \/ Deliver(t) \/ AccessRaises(t) \/ SignIn(t) \/ Render(t)
                            \/ SignOut(t) \/ TabEnds(t) \/ DifferentEmail(t)
         \/ \E k \in DOMAIN codes : CodeExpires(k)
         \/ \E s \in DOMAIN sessions : SessionExpires(s)
         \/ UNCHANGED vars
  PROVE  RaceInv'
<1>1. UNCHANGED <<opened, raced>>
  BY DEF Deliver, AccessRaises, SignIn, Render, SignOut, TabEnds, DifferentEmail, CodeExpires,
         SessionExpires, history, vars
<1>2. \A u \in Tabs : pc'[u] = "write" => pc[u] = "write" /\ row'[u] = row[u]
  BY TypeParts DEF Deliver, AccessRaises, SignIn, Render, SignOut, TabEnds, DifferentEmail,
         CodeExpires, SessionExpires, Return, call, vars, ShapeOK
<1>3. /\ DOMAIN codes' = DOMAIN codes
      /\ \A k \in DOMAIN codes : codes'[k].attempts = codes[k].attempts
  <2>1. CASE UNCHANGED codes
    BY <2>1
  <2>2. ASSUME NEW k \in DOMAIN codes, CodeExpires(k)
        PROVE  /\ DOMAIN codes' = DOMAIN codes
               /\ \A j \in DOMAIN codes : codes'[j].attempts = codes[j].attempts
    BY <2>2, RowTyping DEF CodeExpires, Rows
  <2>. QED
    BY <2>1, <2>2 DEF Deliver, AccessRaises, SignIn, Render, SignOut, TabEnds, DifferentEmail,
           SessionExpires, tables, vars
<1>. QED
  BY <1>1, <1>2, <1>3, QuietRaces

LEMMA RacesAreBounded ==
  ASSUME IsFiniteSet(Tabs)
  PROVE  Spec => [](CodeInv /\ RaceInv)
<1>1. Init => RaceInv
  <2>. SUFFICES ASSUME Init PROVE RaceInv
    OBVIOUS
  <2>1. \A k : Writers(k) = {}
    BY DEF Init, Writers
  <2>2. \A k : Load(k) = 0
    BY <2>1, FS_EmptySet DEF Load
  <2>. QED
    BY <2>2, LoadTyping DEF Init, RaceInv, RacesNoted, LoadBounded
<1>2. CodeInv /\ RaceInv /\ [Next]_vars => RaceInv'
  <2>. SUFFICES ASSUME CodeInv, RaceInv, [Next]_vars PROVE RaceInv'
    OBVIOUS
  <2>1. TypeOK
    BY DEF CodeInv
  <2>. QED
    BY <2>1, RequestRaces, CountRaces, OpenRaces, ReadRaces, OtherRaces DEF Next, TabStep
<1>. QED
  BY <1>1, <1>2, CodeInvHoldsInitially, CodeInvIsInductive, PTL DEF Spec

\* A code opens a second session only if two verifications have read it side
\* by side, and never more than there are tabs (otp_auth.py:148-168).
THEOREM ReuseIsRaced ==
  ASSUME IsFiniteSet(Tabs)
  PROVE  Spec => []ReuseNeedsRace
<1>1. CodeInv /\ RaceInv => ReuseNeedsRace
  <2>. SUFFICES ASSUME CodeInv, RaceInv, NEW k \in Ids, opened[k] > 1
                PROVE  k \in raced /\ opened[k] <= Cardinality(Tabs)
    BY DEF ReuseNeedsRace
  <2>1. /\ opened[k] \in Nat /\ Load(k) \in Nat /\ Cardinality(Tabs) \in Nat
        /\ opened[k] + Load(k) <= Cardinality(Tabs) /\ k \in raced
    BY LoadTyping DEF CodeInv, TypeOK, RaceInv, RacesNoted, LoadBounded
  <2>. QED
    BY <2>1
<1>. QED
  BY <1>1, RacesAreBounded, PTL

\* Wrong attempts exceed max_attempts by one at most for each tab that races
\* on the code, and not at all where none does (otp_auth.py:148-159).
THEOREM AttemptsStop ==
  ASSUME IsFiniteSet(Tabs)
  PROVE  Spec => []AttemptsAreBounded
<1>1. CodeInv /\ RaceInv => AttemptsAreBounded
  <2>. SUFFICES ASSUME CodeInv, RaceInv, NEW k \in DOMAIN codes
                PROVE  codes[k].attempts <= Limit(k)
    BY DEF AttemptsAreBounded, Limit
  <2>1. /\ codes[k].attempts \in Nat /\ Load(k) \in Nat /\ Limit(k) \in Nat
        /\ codes[k].attempts + Load(k) <= Limit(k)
    BY LoadTyping, LimitTyping, RowTyping DEF CodeInv, RaceInv, LoadBounded
  <2>. QED
    BY <2>1
<1>. QED
  BY <1>1, RacesAreBounded, PTL
=============================================================================
