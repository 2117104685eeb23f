--------------------------- MODULE AccountsProofs ---------------------------
(***************************************************************************)
(* Proofs about Accounts, for any number of requests, tokens and           *)
(* passwords, whatever overlaps and dies.                                  *)
(***************************************************************************)
EXTENDS Accounts, TLAPS

\* Before there is a user, nobody is logged in, no token is kept, and requests do
\* no more than sign up.
NobodyYet ==
  ~Exists =>
    /\ ~session /\ rows = {}
    /\ \A c \in Calls : request[c].at \in {"idle", "signing", "joining"}

\* All steps have this in common, but for the rows they write.
Typed == TypeOK /\ NobodyYet

LEMMA IdleRequest == Idle \in Requests
  BY DEF Idle, Requests

\* What a request carries, by the step it is at.
LEMMA ReadRequest ==
  ASSUME TypeOK, NEW c \in Calls
  PROVE  /\ request[c] \in Requests
         /\ request[c].at = "signing" => request[c].password \in Passwords
         /\ request[c].at = "find" => request[c].kind \in Kinds
         /\ request[c].at = "write" =>
              request[c].kind \in Kinds /\ request[c].row \in 0 .. MaxTokens
         /\ request[c].at \in {"collaborate", "mail"} =>
              request[c].kind \in Kinds /\ request[c].token \in 1 .. MaxTokens
         /\ request[c].at = "collaborate" =>
              [request[c] EXCEPT !.at = "mail"] \in Requests
         /\ request[c].at \in {"verify", "expire", "delete"} =>
              request[c].row \in 1 .. MaxTokens
         /\ request[c].at = "verify" =>
              [request[c] EXCEPT !.at = "expire"] \in Requests
         /\ request[c].at = "change" =>
              /\ request[c].row \in 0 .. MaxTokens
              /\ request[c].token \in 0 .. MaxTokens
              /\ request[c].password \in Passwords
         /\ request[c].at = "role" => request[c].role \in Roles
         /\ request[c].at \in {"fill", "flag"} => request[c].part \in Profile
         /\ request[c].at = "fill" =>
              [request[c] EXCEPT !.at = "flag"] \in Requests
<1>1. request[c] \in Requests
  BY DEF TypeOK
<1>2. QED
  BY <1>1 DEF Requests

LEMMA RequestType ==
  ASSUME TypeOK, NEW c \in Calls, NEW r \in Requests, Goto(c, r)
  PROVE  request' \in [Calls -> Requests]
  BY DEF TypeOK, Goto

LEMMA EndType ==
  ASSUME TypeOK, NEW c \in Calls, End(c)
  PROVE  request' \in [Calls -> Requests]
  BY IdleRequest, RequestType DEF End

\* A step that only moves a request on.
LEMMA Moved ==
  ASSUME Typed, NEW c \in Calls, NEW r \in Requests, Goto(c, r),
         Exists \/ r.at \in {"idle", "signing", "joining"},
         UNCHANGED <<faults, account, tokens, mails, collaborator>>
  PROVE  Typed'
<1>1. request' \in [Calls -> Requests]
  BY RequestType DEF Typed
<1>2. TypeOK'
  BY <1>1 DEF Typed, TypeOK, account, tokens, mails
<1>3. NobodyYet'
  BY DEF Typed, NobodyYet, TypeOK, Exists, Goto, account, tokens, mails
<1>4. QED
  BY <1>2, <1>3 DEF Typed

\* A request that is past signing up has a user.
LEMMA Present ==
  ASSUME Typed, NEW c \in Calls,
         request[c].at \notin {"idle", "signing", "joining"}
  PROVE  Exists /\ user \in UserRow /\ user # None
  BY DEF Typed, NobodyYet, Exists, TypeOK

\* Where there is a user, and a step keeps them, NobodyYet says nothing.
LEMMA StillPresent ==
  ASSUME TypeOK', Exists'
  PROVE  Typed'
  BY DEF Typed, NobodyYet

LEMMA NewUserType ==
  ASSUME NEW p \in Passwords \cup {None}, NEW v \in BOOLEAN
  PROVE  NewUser(p, v) \in UserRow /\ NewUser(p, v) # None
<1>1. NewUser(p, v) \in UserRow
  BY DEF NewUser, UserRow
<1>2. QED
  BY <1>1, AccountsAssumption

\* A token the user got by mail.
LEMMA MailedType ==
  ASSUME TypeOK, NEW kind \in Kinds
  PROVE  mailed[kind] \subseteq 1 .. MaxTokens /\ handed[kind] \subseteq 1 .. MaxTokens
  BY DEF TypeOK

\* A row that holds one.
LEMMA RowType ==
  ASSUME Typed, NEW kind \in Kinds, NEW r \in RowsOf(kind)
  PROVE  r.id \in 1 .. MaxTokens /\ Exists
  BY DEF Typed, TypeOK, NobodyYet, RowsOf
-----------------------------------------------------------------------------
\* Requests that sign up, log in and get a link verified.
LEMMA RegisterType ==
  ASSUME Typed, NEW c \in Calls, Register(c)
  PROVE  Typed'
<1> USE DEF account, tokens, mails
<1>1. ASSUME NEW p \in Passwords, SignUp(c, p)
      PROVE  Typed'
  <2>1. [at |-> "signing", password |-> p] \in Requests
    BY DEF Requests
  <2>2. QED
    BY <1>1, <2>1, Moved DEF SignUp
<1>2. CASE CreateUser(c)
  <2>1. CASE Exists
    BY <1>2, <2>1, Moved, IdleRequest DEF CreateUser, End, Idle
  <2>2. CASE ~Exists
    <3>1. Found("EmailVerificationToken", 0) \in Requests
      BY AccountsAssumption DEF Found, Requests, Kinds
    <3>2. request' \in [Calls -> Requests]
      BY <1>2, <2>2, <3>1, RequestType DEF CreateUser, Typed
    <3>3. request[c].password \in Passwords
      BY <1>2, ReadRequest DEF CreateUser, Typed
    <3>4. user' \in UserRow /\ user' # None
      BY <1>2, <2>2, <3>3, NewUserType DEF CreateUser
    <3>5. TypeOK'
      BY <1>2, <3>2, <3>4 DEF CreateUser, Typed, TypeOK
    <3>6. QED
      BY <3>4, <3>5, StillPresent DEF Exists
  <2>3. QED
    BY <2>1, <2>2
<1>3. CASE GoogleLogin(c)
  <2>1. CASE Exists
    BY <1>3, <2>1 DEF GoogleLogin, Typed, TypeOK, NobodyYet, Exists
  <2>2. CASE ~Exists
    <3>1. [at |-> "joining"] \in Requests
      BY DEF Requests
    <3>2. QED
      BY <1>3, <2>2, <3>1, Moved DEF GoogleLogin
  <2>3. QED
    BY <2>1, <2>2
<1>4. CASE CreateGoogleUser(c)
  <2>1. request' \in [Calls -> Requests]
    BY <1>4, EndType DEF CreateGoogleUser, Typed
  <2>2. CASE Exists
    BY <1>4, <2>1, <2>2 DEF CreateGoogleUser, Typed, TypeOK, NobodyYet, Exists
  <2>3. CASE ~Exists
    <3>1. user' \in UserRow /\ user' # None
      BY <1>4, <2>3, NewUserType DEF CreateGoogleUser
    <3>2. TypeOK'
      BY <1>4, <2>1, <2>3, <3>1 DEF CreateGoogleUser, Typed, TypeOK
    <3>3. QED
      BY <3>1, <3>2, StillPresent DEF Exists
  <2>4. QED
    BY <2>2, <2>3
<1>5. CASE Login(c)
  <2>1. CASE user.isEmailVerified
    BY <1>5, <2>1 DEF Login, Typed, TypeOK, NobodyYet, Exists
  <2>2. CASE ~user.isEmailVerified
    <3>1. [at |-> "resend"] \in Requests
      BY DEF Requests
    <3>2. QED
      BY <1>5, <2>2, <3>1, Moved DEF Login
  <2>3. QED
    BY <2>1, <2>2
<1>6. CASE Resend(c)
  <2>1. [at |-> "find", kind |-> "EmailVerificationToken"] \in Requests
    BY DEF Requests, Kinds
  <2>2. QED
    BY <1>6, <2>1, Moved, IdleRequest DEF Resend, End
<1>7. ASSUME NEW t \in mailed["EmailVerificationToken"], VerifyEmail(c, t)
      PROVE  Typed'
  <2>1. PICK r \in RowsOf("EmailVerificationToken") :
          Goto(c, [at |-> "verify", row |-> r.id])
    BY <1>7 DEF VerifyEmail, Holding
  <2>2. r.id \in 1 .. MaxTokens /\ Exists
    BY RowType DEF Kinds
  <2>3. [at |-> "verify", row |-> r.id] \in Requests
    BY <2>2 DEF Requests
  <2>4. QED
    BY <1>7, <2>1, <2>2, <2>3, Moved DEF VerifyEmail
<1>8. CASE SetVerified(c)
  <2>1. Exists /\ user \in UserRow
    BY <1>8, Present DEF SetVerified
  <2>2. request' \in [Calls -> Requests]
    BY <1>8, ReadRequest, RequestType DEF SetVerified, Typed
  <2>3. user' \in UserRow
    BY <1>8, <2>1 DEF SetVerified, UserRow
  <2>4. TypeOK'
    BY <1>8, <2>2, <2>3 DEF SetVerified, Typed, TypeOK
  <2>5. QED
    BY <2>3, <2>4, StillPresent, AccountsAssumption DEF Exists
<1>9. CASE ExpireRow(c)
  <2>1. Exists
    BY <1>9, Present DEF ExpireRow
  <2>2. request' \in [Calls -> Requests]
    BY <1>9, EndType DEF ExpireRow, Typed
  <2>3. rows' \subseteq [id : 1 .. MaxTokens, tokenType : Kinds, token : 0 .. MaxTokens]
    <3>1. EXPIRED \in 0 .. MaxTokens
      BY AccountsAssumption DEF EXPIRED
    <3>2. QED
      BY <1>9, <3>1 DEF ExpireRow, Typed, TypeOK
  <2>4. TypeOK'
    BY <1>9, <2>2, <2>3 DEF ExpireRow, Typed, TypeOK
  <2>5. QED
    BY <1>9, <2>1, <2>4, StillPresent DEF ExpireRow, Exists
<1>10. QED
  BY <1>1, <1>2, <1>3, <1>4, <1>5, <1>6, <1>7, <1>8, <1>9 DEF Register
-----------------------------------------------------------------------------
\* Requests that send a token.
LEMMA SendType ==
  ASSUME Typed, NEW c \in Calls, Send(c)
  PROVE  Typed'
<1> USE DEF account, tokens, mails
<1>1. CASE SendResetPassword(c) \/ SendOtp(c) \/ InviteUser(c)
  <2>1. \A kind \in Kinds : [at |-> "find", kind |-> kind] \in Requests
    BY DEF Requests
  <2>2. Exists
    BY <1>1 DEF SendResetPassword, SendOtp, InviteUser, Typed, NobodyYet
  <2>3. PICK kind \in Kinds : Goto(c, [at |-> "find", kind |-> kind])
    BY <1>1 DEF SendResetPassword, SendOtp, InviteUser, Kinds
  <2>4. QED
    BY <1>1, <2>1, <2>2, <2>3, Moved DEF SendResetPassword, SendOtp, InviteUser
<1>2. CASE FindRow(c)
  <2> DEFINE kind == request[c].kind
  <2>1. Exists /\ kind \in Kinds
    BY <1>2, Present, ReadRequest DEF FindRow, Typed
  <2>2. \A row \in 0 .. MaxTokens : Found(kind, row) \in Requests
    BY <2>1 DEF Found, Requests
  <2>3. ASSUME NEW r \in RowsOf(kind) PROVE Found(kind, r.id) \in Requests
    <3>1. r.id \in 1 .. MaxTokens
      BY <2>1, RowType
    <3>2. r.id \in 0 .. MaxTokens
      BY <3>1
    <3>3. QED
      BY <2>2, <3>2
  <2>4. 0 \in 0 .. MaxTokens
    BY AccountsAssumption
  <2>5. PICK u \in Requests : Goto(c, u)
    BY <1>2, <2>2, <2>3, <2>4, IdleRequest DEF FindRow, End
  <2>6. QED
    BY <1>2, <2>1, <2>5, Moved DEF FindRow
<1>3. CASE WriteRow(c)
  <2> DEFINE r == request[c]
             t == issued + 1
  <2>1. Exists /\ r.kind \in Kinds /\ r.row \in 0 .. MaxTokens
    BY <1>3, Present, ReadRequest DEF WriteRow, Typed
  <2>2. CASE r.row = 0 \/ \E q \in rows : q.id = r.row
    <3>1. t \in 1 .. MaxTokens /\ t \in 0 .. MaxTokens
      BY <1>3 DEF WriteRow, Typed, TypeOK
    <3>2. Written(r, t)
            \subseteq [id : 1 .. MaxTokens, tokenType : Kinds, token : 0 .. MaxTokens]
      <4> DEFINE Rows == [id : 1 .. MaxTokens, tokenType : Kinds, token : 0 .. MaxTokens]
      <4>1. rows \subseteq Rows
        BY DEF Typed, TypeOK
      <4>2. [id |-> t, tokenType |-> r.kind, token |-> t] \in Rows
        BY <2>1, <3>1
      <4>3. \A q \in rows : [q EXCEPT !.token = t] \in Rows
        BY <3>1, <4>1
      <4>4. QED
        BY <4>1, <4>2, <4>3 DEF Written
    <3>3. /\ [at |-> "collaborate", kind |-> r.kind, token |-> t] \in Requests
          /\ [at |-> "mail", kind |-> r.kind, token |-> t] \in Requests
      BY <2>1, <3>1 DEF Requests
    <3>4. request' \in [Calls -> Requests]
      BY <1>3, <2>2, <3>3, RequestType DEF WriteRow, Typed
    <3>5. TypeOK'
      BY <1>3, <2>2, <3>1, <3>2, <3>4 DEF WriteRow, Typed, TypeOK
    <3>6. QED
      BY <1>3, <2>1, <3>5, StillPresent DEF WriteRow, Exists
  <2>3. CASE ~(r.row = 0 \/ \E q \in rows : q.id = r.row)
    BY <1>3, <2>1, <2>3, Moved, IdleRequest DEF WriteRow, End
  <2>4. QED
    BY <2>2, <2>3
<1>4. CASE AddCollaborator(c)
  <2>1. Exists
    BY <1>4, Present DEF AddCollaborator
  <2>2. request' \in [Calls -> Requests]
    BY <1>4, ReadRequest, RequestType, EndType DEF AddCollaborator, Typed
  <2>3. TypeOK'
    BY <1>4, <2>2 DEF AddCollaborator, Typed, TypeOK, AcceptedStatus
  <2>4. QED
    BY <1>4, <2>1, <2>3, StillPresent DEF AddCollaborator, Exists
<1>5. CASE Mail(c)
  <2> DEFINE r == request[c]
  <2>1. Exists /\ r.kind \in Kinds /\ r.token \in 1 .. MaxTokens
    BY <1>5, Present, ReadRequest DEF Mail, Typed
  <2>2. request' \in [Calls -> Requests]
    BY <1>5, EndType DEF Mail, Typed
  <2>3. handed' \in [Kinds -> SUBSET (1 .. MaxTokens)]
    BY <1>5, <2>1 DEF Mail, Typed, TypeOK
  <2>4. TypeOK'
    BY <1>5, <2>2, <2>3 DEF Mail, Typed, TypeOK
  <2>5. QED
    BY <1>5, <2>1, <2>4, StillPresent DEF Mail, Exists
<1>6. QED
  BY <1>1, <1>2, <1>3, <1>4, <1>5 DEF Send

\* Requests that change the password.
LEMMA ReplaceType ==
  ASSUME Typed, NEW c \in Calls, Replace(c)
  PROVE  Typed'
<1> USE DEF account, tokens, mails
<1>1. ASSUME NEW kind \in {"ForgotPasswordToken", "OTP"}, NEW t \in mailed[kind],
             NEW p \in Passwords, NEW r \in Holding(kind, t),
             Goto(c, Changing(r.id, t, p)),
             UNCHANGED <<faults, account, tokens, mails, collaborator>>
      PROVE  Typed'
  <2>1. r.id \in 1 .. MaxTokens /\ Exists
    BY RowType DEF Holding, Kinds
  <2>2. t \in 1 .. MaxTokens
    BY MailedType DEF Typed, Kinds
  <2>3. Changing(r.id, t, p) \in Requests
    BY <2>1, <2>2 DEF Changing, Requests
  <2>4. QED
    BY <1>1, <2>1, <2>3, Moved
<1>2. ASSUME NEW p \in Passwords, NEW t \in mailed["ForgotPasswordToken"],
             ResetPassword(c, t, p)
      PROVE  Typed'
  BY <1>1, <1>2 DEF ResetPassword
<1>3. ASSUME NEW p \in Passwords, NEW t \in mailed["OTP"],
             ResetPasswordWithOTP(c, t, p)
      PROVE  Typed'
  BY <1>1, <1>3 DEF ResetPasswordWithOTP
<1>4. ASSUME NEW p \in Passwords, ChangePassword(c, p)
      PROVE  Typed'
  <2>1. Exists
    BY <1>4 DEF ChangePassword, Typed, NobodyYet
  <2>2. Changing(0, 0, p) \in Requests
    BY AccountsAssumption DEF Changing, Requests
  <2>3. QED
    BY <1>4, <2>1, <2>2, Moved DEF ChangePassword
<1>5. CASE SetPassword(c)
  <2> DEFINE r == request[c]
  <2>1. /\ Exists /\ user \in UserRow
        /\ r.row \in 0 .. MaxTokens /\ r.password \in Passwords
    BY <1>5, Present, ReadRequest DEF SetPassword, Typed
  <2>2. r.row # 0 => [at |-> "delete", row |-> r.row] \in Requests
    BY <2>1 DEF Requests
  <2>3. request' \in [Calls -> Requests]
    BY <1>5, <2>2, RequestType, EndType DEF SetPassword, Typed
  <2>4. user' \in UserRow
    BY <1>5, <2>1 DEF SetPassword, UserRow
  <2>5. uses' \in [1 .. MaxTokens -> 0 .. 2]
    BY <1>5 DEF SetPassword, Typed, TypeOK
  <2>6. TypeOK'
    BY <1>5, <2>3, <2>4, <2>5 DEF SetPassword, Typed, TypeOK
  <2>7. QED
    BY <2>4, <2>6, StillPresent, AccountsAssumption DEF Exists
<1>6. CASE DeleteRow(c)
  <2>1. Exists
    BY <1>6, Present DEF DeleteRow
  <2>2. request' \in [Calls -> Requests]
    BY <1>6, EndType DEF DeleteRow, Typed
  <2>3. TypeOK'
    BY <1>6, <2>2 DEF DeleteRow, Typed, TypeOK
  <2>4. QED
    BY <1>6, <2>1, <2>3, StillPresent DEF DeleteRow, Exists
<1>7. QED
  BY <1>2, <1>3, <1>4, <1>5, <1>6 DEF Replace

\* Requests that describe the user.
LEMMA DescribeType ==
  ASSUME Typed, NEW c \in Calls, Describe(c)
  PROVE  Typed'
<1> USE DEF account, tokens, mails
<1>1. ASSUME NEW role \in Roles, SelectRole(c, role)
      PROVE  Typed'
  <2>1. Exists
    BY <1>1 DEF SelectRole, Typed, NobodyYet
  <2>2. [at |-> "role", role |-> role] \in Requests
    BY DEF Requests
  <2>3. QED
    BY <1>1, <2>1, <2>2, Moved DEF SelectRole
<1>2. ASSUME NEW part \in Profile, FillIn(c, part)
      PROVE  Typed'
  <2>1. Exists
    BY <1>2 DEF FillIn, Typed, NobodyYet
  <2>2. [at |-> "fill", part |-> part] \in Requests
    BY DEF Requests
  <2>3. QED
    BY <1>2, <2>1, <2>2, Moved DEF FillIn
<1>3. CASE SetRole(c) \/ SetComplete(c)
  <2>1. /\ Exists /\ user \in UserRow
        /\ request[c].at = "role" => request[c].role \in Roles
        /\ request[c].at = "flag" => request[c].part \in Profile
    BY <1>3, Present, ReadRequest DEF SetRole, SetComplete, Typed
  <2>2. request' \in [Calls -> Requests]
    BY <1>3, EndType DEF SetRole, SetComplete, Typed
  <2>3. user' \in UserRow
    BY <1>3, <2>1 DEF SetRole, SetComplete, UserRow
  <2>4. TypeOK'
    BY <1>3, <2>2, <2>3 DEF SetRole, SetComplete, Typed, TypeOK
  <2>5. QED
    BY <2>3, <2>4, StillPresent, AccountsAssumption DEF Exists
<1>4. CASE WriteProfile(c)
  <2>1. Exists /\ request[c].part \in Profile
    BY <1>4, Present, ReadRequest DEF WriteProfile, Typed
  <2>2. request' \in [Calls -> Requests]
    BY <1>4, ReadRequest, RequestType DEF WriteProfile, Typed
  <2>3. TypeOK'
    BY <1>4, <2>1, <2>2 DEF WriteProfile, Typed, TypeOK
  <2>4. QED
    BY <1>4, <2>1, <2>3, StillPresent DEF WriteProfile, Exists
<1>5. QED
  BY <1>1, <1>2, <1>3, <1>4 DEF Describe

LEMMA TypedStep ==
  ASSUME Typed, [Next]_vars
  PROVE  Typed'
<1>1. ASSUME NEW status \in Answers, AnswerInvitation(status)
      PROVE  Typed'
  BY <1>1, AccountsAssumption
     DEF AnswerInvitation, account, tokens, mails, Typed, TypeOK, NobodyYet, Exists
<1>2. ASSUME NEW c \in Calls, Die(c)
      PROVE  Typed'
  BY <1>2, Moved, IdleRequest DEF Die, End, Idle
<1>3. ASSUME NEW kind \in Kinds, NEW t \in handed[kind], Arrive(kind, t)
      PROVE  Typed'
  <2>1. mailed' \in [Kinds -> SUBSET (1 .. MaxTokens)]
    BY <1>3, MailedType DEF Arrive, Typed, TypeOK
  <2>2. QED
    BY <1>3, <2>1 DEF Arrive, account, tokens, Typed, TypeOK, NobodyYet, Exists
<1>4. CASE UNCHANGED vars
  BY <1>4 DEF vars, account, tokens, mails, Typed, TypeOK, NobodyYet, Exists
<1>5. QED
  BY <1>1, <1>2, <1>3, <1>4, RegisterType, SendType, ReplaceType, DescribeType DEF Next

LEMMA TypedInit == Init => Typed
<1> SUFFICES ASSUME Init PROVE Typed
  OBVIOUS
<1>1. request \in [Calls -> Requests]
  BY IdleRequest DEF Init
<1>2. /\ handed \in [Kinds -> SUBSET (1 .. MaxTokens)]
      /\ mailed \in [Kinds -> SUBSET (1 .. MaxTokens)]
  BY DEF Init
<1>3. issued \in 0 .. MaxTokens /\ uses \in [1 .. MaxTokens -> 0 .. 2]
  BY AccountsAssumption DEF Init
<1>4. QED
  BY <1>1, <1>2, <1>3 DEF Init, Typed, TypeOK, NobodyYet, Idle

\* The columns of the tables and what requests carry; without a user there are no
\* tokens, and every request that is past signing up has one.
THEOREM AccountsTypeCorrect == Spec => []Typed
  BY TypedInit, TypedStep, PTL DEF Spec
-----------------------------------------------------------------------------
\* The row of a verification, the request that is about to make it, and the
\* requests that will delete a row.
Verification == {r \in rows : r.tokenType = "EmailVerificationToken"}
Pending(u) == u.at = "write" /\ u.kind = "EmailVerificationToken" /\ u.row = 0
Harmless(u) ==
  u.at \in {"change", "delete"} =>
    /\ u.row <= issued
    /\ \A r \in rows : r.id = u.row => r.tokenType # "EmailVerificationToken"

\* Rows have ids of their own, no request deletes the row of a verification, it is
\* made once, and is there unless the request that makes it died.
Identified ==
  /\ \A r, q \in rows : r.id = q.id => r = q
  /\ \A r \in rows : r.id <= issued
Single ==
  /\ \A r, q \in Verification : r = q
  /\ \A c \in Calls : Pending(request[c]) =>
       /\ Verification = {}
       /\ \A d \in Calls : Pending(request[d]) => c = d
Reachable ==
  "death" \notin faults /\ Exists =>
    \/ user.isEmailVerified
    \/ Verification # {}
    \/ \E c \in Calls : Pending(request[c])

VerifiableInv ==
  /\ Identified /\ Single /\ Reachable
  /\ \A c \in Calls : Harmless(request[c])

\* A step that leaves the rows and the verification alone.
LEMMA Aside ==
  ASSUME Typed, VerifiableInv, NEW c \in Calls, NEW u, Goto(c, u),
         ~Pending(u), ~Pending(request[c]) \/ "death" \in faults, Harmless(u),
         UNCHANGED <<faults, rows, issued>>,
         Exists' => Exists /\ (user.isEmailVerified => user'.isEmailVerified)
  PROVE  VerifiableInv'
<1>1. \A d \in Calls : request'[d] = IF d = c THEN u ELSE request[d]
  BY DEF Goto, Typed, TypeOK
<1>2. Verification' = Verification
  BY DEF Verification
<1>3. Identified' /\ Single'
  BY <1>1, <1>2 DEF VerifiableInv, Identified, Single
<1>4. Reachable'
  <2> SUFFICES ASSUME "death" \notin faults, Exists'
               PROVE  \/ user'.isEmailVerified
                      \/ Verification' # {}
                      \/ \E d \in Calls : Pending(request'[d])
    BY DEF Reachable, Pending
  <2>1. ASSUME NEW d \in Calls, Pending(request[d]) PROVE Pending(request'[d])
    BY <1>1, <2>1
  <2>2. QED
    BY <1>2, <2>1 DEF VerifiableInv, Reachable
<1>5. \A d \in Calls : Harmless(request[d])'
  BY <1>1 DEF VerifiableInv, Harmless
<1>6. QED
  BY <1>3, <1>4, <1>5 DEF VerifiableInv

\* A step that does not concern any of it.
LEMMA Apart ==
  ASSUME VerifiableInv, UNCHANGED <<faults, rows, issued, user, request>>
  PROVE  VerifiableInv'
  BY DEF VerifiableInv, Identified, Single, Reachable, Verification, Harmless,
         Pending, Exists

\* The user is made with the request that makes the row, or verified.
LEMMA CreateVerifiable ==
  ASSUME Typed, VerifiableInv, NEW c \in Calls, CreateUser(c) \/ CreateGoogleUser(c)
  PROVE  VerifiableInv'
<1>1. UNCHANGED <<faults, rows, issued>>
  BY DEF CreateUser, CreateGoogleUser, tokens
<1>2. CASE Exists
  BY <1>1, <1>2, Aside
     DEF CreateUser, CreateGoogleUser, End, Idle, Pending, Harmless
<1>3. CASE ~Exists
  <2>1. Verification = {} /\ \A d \in Calls : ~Pending(request[d])
    BY <1>3 DEF Typed, NobodyYet, Verification, Pending
  <2>2. CASE CreateGoogleUser(c)
    <3>1. user' = NewUser(None, TRUE) /\ Goto(c, Idle)
      BY <1>3, <2>2 DEF CreateGoogleUser, End
    <3>2. user'.isEmailVerified
      BY <3>1 DEF NewUser
    <3>3. \A d \in Calls : request'[d] = IF d = c THEN Idle ELSE request[d]
      BY <3>1 DEF Goto, Typed, TypeOK
    <3>4. ~Pending(Idle) /\ Harmless(Idle)
      BY DEF Pending, Harmless, Idle
    <3>5. Verification' = Verification /\ Identified'
      BY <1>1 DEF Verification, VerifiableInv, Identified
    <3>6. Single' /\ Reachable'
      BY <2>1, <3>2, <3>3, <3>4, <3>5 DEF Single, Reachable
    <3>7. \A d \in Calls : Harmless(request[d])'
      BY <1>1, <3>3, <3>4 DEF VerifiableInv, Harmless
    <3>8. QED
      BY <3>5, <3>6, <3>7 DEF VerifiableInv
  <2>3. CASE CreateUser(c)
    <3> DEFINE u == Found("EmailVerificationToken", 0)
    <3>1. Goto(c, u)
      BY <1>3, <2>3 DEF CreateUser
    <3>2. \A d \in Calls : request'[d] = IF d = c THEN u ELSE request[d]
      BY <3>1 DEF Goto, Typed, TypeOK
    <3>3. Pending(u) /\ Harmless(u)
      BY DEF Pending, Harmless, Found
    <3>4. Verification' = Verification /\ Identified'
      BY <1>1 DEF Verification, VerifiableInv, Identified
    <3>5. \A d \in Calls : Pending(request'[d]) <=> d = c
      BY <2>1, <3>2, <3>3
    <3>6. Single' /\ Reachable'
      BY <2>1, <3>4, <3>5 DEF Single, Reachable, Pending
    <3>7. \A d \in Calls : Harmless(request[d])'
      BY <1>1, <3>2, <3>3 DEF VerifiableInv, Harmless
    <3>8. QED
      BY <3>4, <3>6, <3>7 DEF VerifiableInv
  <2>4. QED
    BY <2>2, <2>3
<1>4. QED
  BY <1>2, <1>3
\* Rows that get another token stay what they are.
LEMMA Rewritten ==
  ASSUME VerifiableInv, NEW f, rows' = {f[q] : q \in rows},
         \A q \in rows : f[q].id = q.id /\ f[q].tokenType = q.tokenType
  PROVE  /\ \A r, q \in rows' : r.id = q.id => r = q
         /\ \A n : (\A r \in rows : r.id <= n) => \A r \in rows' : r.id <= n
         /\ \A r, q \in Verification' : r = q
         /\ Verification' = {} <=> Verification = {}
         /\ \A i : (\A r \in rows : r.id = i => r.tokenType # "EmailVerificationToken")
              => \A r \in rows' : r.id = i => r.tokenType # "EmailVerificationToken"
<1>1. \A r \in rows' : \E q \in rows :
        r = f[q] /\ r.id = q.id /\ r.tokenType = q.tokenType
  OBVIOUS
<1>2. \A r \in Verification' : \E q \in Verification : r = f[q]
  BY <1>1 DEF Verification
<1>3. \A q \in Verification : f[q] \in Verification'
  BY DEF Verification
<1>4. \A r, q \in Verification' : r = q
  BY <1>2 DEF VerifiableInv, Single
<1>5. \A r, q \in rows' : r.id = q.id => r = q
  BY <1>1 DEF VerifiableInv, Identified
<1>6. QED
  BY <1>1, <1>2, <1>3, <1>4, <1>5

\* A row is made or gets another token.
LEMMA WriteVerifiable ==
  ASSUME Typed, VerifiableInv, NEW c \in Calls, WriteRow(c)
  PROVE  VerifiableInv'
<1> DEFINE r == request[c]
           t == issued + 1
<1>1. issued \in Nat /\ \A q \in rows : q.id \in Nat /\ q.id # 0
  BY DEF Typed, TypeOK
<1>2. r.kind \in Kinds /\ r.row \in 0 .. MaxTokens /\ r.at = "write"
  BY ReadRequest DEF WriteRow, Typed
<1>3. CASE ~(r.row = 0 \/ \E q \in rows : q.id = r.row)
  <2>1. /\ Goto(c, Idle) /\ ~Pending(Idle) /\ Harmless(Idle)
        /\ UNCHANGED <<faults, rows, issued, user>>
    BY <1>3 DEF WriteRow, End, Idle, Pending, Harmless, account
  <2>2. ~Pending(r)
    BY <1>3 DEF Pending
  <2>3. QED
    BY <2>1, <2>2, Aside DEF Exists
<1>4. CASE r.row = 0 \/ \E q \in rows : q.id = r.row
  <2> DEFINE u == [at |-> IF r.kind = "PurchaserInviteToken" THEN "collaborate"
                          ELSE "mail", kind |-> r.kind, token |-> t]
             new == [id |-> t, tokenType |-> r.kind, token |-> t]
  <2>1. /\ rows' = Written(r, t) /\ issued' = t
        /\ Goto(c, u)
        /\ UNCHANGED <<faults, user>>
    BY <1>4 DEF WriteRow, account
  <2>2. \A d \in Calls : request'[d] = IF d = c THEN u ELSE request[d]
    BY <2>1 DEF Goto, Typed, TypeOK
  <2>3. ~Pending(u) /\ u.at \notin {"change", "delete"}
    BY DEF Pending
  <2>4. CASE r.row = 0
    <3>1. rows' = rows \cup {new}
      BY <2>1, <2>4 DEF Written
    <3>2. Identified'
      BY <1>1, <2>1, <3>1 DEF VerifiableInv, Identified
    <3>3. \A d \in Calls : Harmless(request[d])'
      <4> SUFFICES ASSUME NEW d \in Calls, request'[d].at \in {"change", "delete"}
                   PROVE  /\ request'[d].row <= t
                          /\ \A q \in rows' : q.id = request'[d].row =>
                               q.tokenType # "EmailVerificationToken"
        BY <2>1 DEF Harmless
      <4>1. request'[d] = request[d]
        BY <2>2, <2>3
      <4>2. request[d].row <= issued /\ request[d].row \in Nat
        <5>1. Harmless(request[d]) /\ request[d].at \in {"change", "delete"}
          BY <4>1 DEF VerifiableInv
        <5>2. request[d].row \in 0 .. MaxTokens \/ request[d].row \in 1 .. MaxTokens
          BY <5>1, ReadRequest DEF Typed
        <5>3. QED
          BY <5>1, <5>2, AccountsAssumption DEF Harmless
      <4>3. request[d].row <= t /\ request[d].row # t
        BY <1>1, <4>2
      <4>4. QED
        BY <3>1, <4>1, <4>3 DEF VerifiableInv, Harmless
    <3>4. CASE r.kind = "EmailVerificationToken"
      <4>1. Pending(r)
        BY <1>2, <2>4, <3>4 DEF Pending
      <4>2. Verification = {} /\ \A d \in Calls : Pending(request[d]) => d = c
        BY <4>1 DEF VerifiableInv, Single
      <4>3. Verification' = {new}
        BY <3>1, <3>4, <4>2 DEF Verification
      <4>4. \A d \in Calls : ~Pending(request'[d])
        BY <2>2, <2>3, <4>2
      <4>5. Single' /\ Reachable'
        BY <4>3, <4>4 DEF Single, Reachable, Pending
      <4>6. QED
        BY <3>2, <3>3, <4>5 DEF VerifiableInv
    <3>5. CASE r.kind # "EmailVerificationToken"
      <4>1. Verification' = Verification
        BY <3>1, <3>5 DEF Verification
      <4>2. ~Pending(r)
        BY <3>5 DEF Pending
      <4>3. \A d \in Calls : Pending(request'[d]) <=> Pending(request[d])
        BY <2>2, <2>3, <4>2
      <4>4. Single' /\ Reachable'
        BY <2>1, <4>1, <4>3 DEF VerifiableInv, Single, Reachable, Pending, Exists
      <4>5. QED
        BY <3>2, <3>3, <4>4 DEF VerifiableInv
    <3>6. QED
      BY <3>4, <3>5
  <2>5. CASE r.row # 0
    <3> DEFINE f == [q \in rows |-> IF q.id = r.row THEN [q EXCEPT !.token = t] ELSE q]
    <3>1. rows' = {f[q] : q \in rows}
      BY <2>1, <2>5 DEF Written
    <3>2. \A q \in rows : f[q].id = q.id /\ f[q].tokenType = q.tokenType
      BY DEF Typed, TypeOK
    <3> HIDE DEF f
    <3>3. Identified'
      <4>1. \A q \in rows : q.id <= t
        BY <1>1 DEF VerifiableInv, Identified
      <4>2. QED
        BY <2>1, <3>1, <3>2, <4>1, Rewritten DEF Identified
    <3>4. ~Pending(r)
      BY <2>5 DEF Pending
    <3>5. \A d \in Calls : Pending(request'[d]) <=> Pending(request[d])
      BY <2>2, <2>3, <3>4
    <3>6. /\ Verification' = {} <=> Verification = {}
          /\ \A x, y \in Verification' : x = y
      BY <3>1, <3>2, Rewritten
    <3>7. Single' /\ Reachable'
      BY <2>1, <3>5, <3>6 DEF VerifiableInv, Single, Reachable, Pending, Exists
    <3>8. \A d \in Calls : Harmless(request[d])'
      <4> SUFFICES ASSUME NEW d \in Calls, request'[d].at \in {"change", "delete"}
                   PROVE  /\ request'[d].row <= t
                          /\ \A q \in rows' : q.id = request'[d].row =>
                               q.tokenType # "EmailVerificationToken"
        BY <2>1 DEF Harmless
      <4>1. request'[d] = request[d]
        BY <2>2, <2>3
      <4>2. request[d].row <= issued /\ request[d].row \in Nat
        <5>1. Harmless(request[d]) /\ request[d].at \in {"change", "delete"}
          BY <4>1 DEF VerifiableInv
        <5>2. request[d].row \in 0 .. MaxTokens \/ request[d].row \in 1 .. MaxTokens
          BY <5>1, ReadRequest DEF Typed
        <5>3. QED
          BY <5>1, <5>2, AccountsAssumption DEF Harmless
      <4>3. request[d].row <= t
        BY <1>1, <4>2
      <4>4. \A q \in rows : q.id = request[d].row =>
              q.tokenType # "EmailVerificationToken"
        BY <4>1 DEF VerifiableInv, Harmless
      <4>5. QED
        BY <3>1, <3>2, <4>1, <4>3, <4>4, Rewritten
    <3>9. QED
      BY <3>3, <3>7, <3>8 DEF VerifiableInv
  <2>6. QED
    BY <2>4, <2>5
<1>5. QED
  BY <1>3, <1>4

\* Rows that are expired keep their kind, and those deleted are of another one.
LEMMA RemoveVerifiable ==
  ASSUME Typed, VerifiableInv, NEW c \in Calls, ExpireRow(c) \/ DeleteRow(c)
  PROVE  VerifiableInv'
<1>1. /\ UNCHANGED <<faults, user, issued>>
      /\ Goto(c, Idle)
      /\ ~Pending(request[c])
  BY DEF ExpireRow, DeleteRow, account, End, Pending
<1>2. \A d \in Calls : request'[d] = IF d = c THEN Idle ELSE request[d]
  BY <1>1 DEF Goto, Typed, TypeOK
<1>3. ~Pending(Idle) /\ Idle.at \notin {"change", "delete"}
  BY DEF Pending, Idle
<1>4. \A d \in Calls : Pending(request'[d]) <=> Pending(request[d])
  BY <1>1, <1>2, <1>3
<1>5. CASE ExpireRow(c)
  <2> DEFINE f == [q \in rows |->
                     IF q.id = request[c].row THEN [q EXCEPT !.token = EXPIRED] ELSE q]
  <2>1. rows' = {f[q] : q \in rows}
    BY <1>5 DEF ExpireRow
  <2>2. \A q \in rows : f[q].id = q.id /\ f[q].tokenType = q.tokenType
    BY DEF Typed, TypeOK
  <2> HIDE DEF f
  <2>3. Identified'
    BY <1>1, <2>1, <2>2, Rewritten DEF VerifiableInv, Identified
  <2>4. /\ Verification' = {} <=> Verification = {}
        /\ \A x, y \in Verification' : x = y
    BY <2>1, <2>2, Rewritten
  <2>5. Single' /\ Reachable'
    BY <1>1, <1>4, <2>4 DEF VerifiableInv, Single, Reachable, Pending, Exists
  <2>6. \A d \in Calls : Harmless(request[d])'
    <3> SUFFICES ASSUME NEW d \in Calls, request'[d].at \in {"change", "delete"}
                 PROVE  /\ request'[d].row <= issued
                        /\ \A q \in rows' : q.id = request'[d].row =>
                             q.tokenType # "EmailVerificationToken"
      BY <1>1 DEF Harmless
    <3>1. request'[d] = request[d]
      BY <1>2, <1>3
    <3>2. /\ request[d].row <= issued
          /\ \A q \in rows : q.id = request[d].row =>
               q.tokenType # "EmailVerificationToken"
      BY <3>1 DEF VerifiableInv, Harmless
    <3>3. QED
      BY <2>1, <2>2, <3>1, <3>2, Rewritten
  <2>7. QED
    BY <2>3, <2>5, <2>6 DEF VerifiableInv
<1>6. CASE DeleteRow(c)
  <2>1. rows' = {q \in rows : q.id # request[c].row}
    BY <1>6 DEF DeleteRow
  <2>2. \A q \in Verification : q.id # request[c].row
    BY <1>6 DEF DeleteRow, VerifiableInv, Harmless, Verification
  <2>3. Verification' = Verification
    BY <2>1, <2>2 DEF Verification
  <2>4. Identified'
    BY <1>1, <2>1 DEF VerifiableInv, Identified
  <2>5. Single' /\ Reachable'
    BY <1>1, <1>4, <2>3 DEF VerifiableInv, Single, Reachable, Pending, Exists
  <2>6. \A d \in Calls : Harmless(request[d])'
    BY <1>1, <1>2, <1>3, <2>1 DEF VerifiableInv, Harmless
  <2>7. QED
    BY <2>4, <2>5, <2>6 DEF VerifiableInv
<1>7. QED
  BY <1>5, <1>6

\* A request that will change the password holds a row of another kind.
LEMMA ReplaceVerifiable ==
  ASSUME Typed, VerifiableInv, NEW c \in Calls, Replace(c)
  PROVE  VerifiableInv'
<1> USE DEF account, tokens, mails
<1>1. ASSUME NEW kind \in {"ForgotPasswordToken", "OTP"}, NEW t,
             NEW p \in Passwords, NEW r \in Holding(kind, t),
             Goto(c, Changing(r.id, t, p)), ~Pending(request[c]),
             UNCHANGED <<faults, account, tokens, mails, collaborator>>
      PROVE  VerifiableInv'
  <2>1. r \in rows /\ r.tokenType # "EmailVerificationToken"
    BY DEF Holding, RowsOf
  <2>2. Harmless(Changing(r.id, t, p)) /\ ~Pending(Changing(r.id, t, p))
    BY <2>1 DEF Harmless, Changing, Pending, VerifiableInv, Identified
  <2>3. QED
    BY <1>1, <2>2, Aside DEF Exists
<1>2. ASSUME NEW p \in Passwords, NEW t,
             ResetPassword(c, t, p) \/ ResetPasswordWithOTP(c, t, p)
      PROVE  VerifiableInv'
  <2>1. ~Pending(request[c])
    BY <1>2 DEF ResetPassword, ResetPasswordWithOTP, Start, Idle, Pending
  <2>2. QED
    BY <1>1, <1>2, <2>1 DEF ResetPassword, ResetPasswordWithOTP
<1>3. ASSUME NEW p \in Passwords, ChangePassword(c, p)
      PROVE  VerifiableInv'
  <2>1. issued \in Nat /\ \A r \in rows : r.id # 0
    BY DEF Typed, TypeOK
  <2>2. Harmless(Changing(0, 0, p)) /\ ~Pending(Changing(0, 0, p))
    BY <2>1 DEF Harmless, Changing, Pending
  <2>3. ~Pending(request[c])
    BY <1>3 DEF ChangePassword, Start, Idle, Pending
  <2>4. QED
    BY <1>3, <2>2, <2>3, Aside DEF ChangePassword, Exists
<1>4. CASE SetPassword(c)
  <2> DEFINE u == IF request[c].row = 0 THEN Idle
                  ELSE [at |-> "delete", row |-> request[c].row]
  <2>1. Goto(c, u)
    BY <1>4 DEF SetPassword, End
  <2>2. Harmless(request[c]) /\ request[c].at = "change"
    BY <1>4 DEF SetPassword, VerifiableInv
  <2>3. Harmless(u) /\ ~Pending(u) /\ ~Pending(request[c])
    BY <2>2 DEF Harmless, Pending, Idle
  <2>4. user \in UserRow /\ Exists
    BY <2>2, Present
  <2>5. user'.isEmailVerified = user.isEmailVerified
    BY <1>4, <2>4 DEF SetPassword, UserRow
  <2>6. QED
    BY <1>4, <2>1, <2>3, <2>4, <2>5, Aside DEF SetPassword
<1>5. QED
  BY <1>2, <1>3, <1>4, RemoveVerifiable DEF Replace

\* All other steps.
LEMMA OtherVerifiable ==
  ASSUME Typed, VerifiableInv, NEW c \in Calls,
         Register(c) \/ Send(c) \/ Describe(c) \/ Die(c)
  PROVE  VerifiableInv'
<1> USE DEF account, tokens, mails
<1>1. ASSUME NEW u, Goto(c, u), u.at \notin {"write", "change", "delete"},
             ~Pending(request[c]),
             UNCHANGED <<faults, rows, issued, user>>
      PROVE  VerifiableInv'
  BY <1>1, Aside DEF Pending, Harmless, Exists
<1>2. ASSUME NEW p \in Passwords, SignUp(c, p) PROVE VerifiableInv'
  BY <1>1, <1>2 DEF SignUp, Start, Idle, Pending
<1>3. CASE GoogleLogin(c) \/ Login(c)
  BY <1>1, <1>3, Apart DEF GoogleLogin, Login, Start, Idle, Pending
<1>4. CASE Resend(c)
  BY <1>1, <1>4 DEF Resend, Start, End, Idle, Pending
<1>5. ASSUME NEW t, VerifyEmail(c, t) PROVE VerifiableInv'
  BY <1>1, <1>5 DEF VerifyEmail, Start, Idle, Pending
<1>6. CASE SetVerified(c) \/ SetRole(c) \/ SetComplete(c)
  <2> DEFINE u == IF request[c].at = "verify" THEN [request[c] EXCEPT !.at = "expire"]
                  ELSE Idle
  <2>1. Goto(c, u) /\ request[c].at \in {"verify", "role", "flag"}
    BY <1>6 DEF SetVerified, SetRole, SetComplete, End
  <2>2. u.at \in {"expire", "none", "idle"}
    <3>1. request[c] \in Requests
      BY ReadRequest DEF Typed
    <3>2. QED
      BY <2>1, <3>1 DEF Requests, Idle
  <2>3. Harmless(u) /\ ~Pending(u) /\ ~Pending(request[c])
    BY <2>1, <2>2 DEF Harmless, Pending
  <2>4. user \in UserRow /\ Exists
    BY <2>1, Present
  <2>5. user.isEmailVerified => user'.isEmailVerified
    BY <1>6, <2>4 DEF SetVerified, SetRole, SetComplete, UserRow
  <2>6. QED
    BY <1>6, <2>1, <2>3, <2>4, <2>5, Aside DEF SetVerified, SetRole, SetComplete
<1>7. CASE SendResetPassword(c) \/ SendOtp(c) \/ InviteUser(c)
  BY <1>1, <1>7 DEF SendResetPassword, SendOtp, InviteUser, Start, Idle, Pending
<1>8. CASE FindRow(c)
  <2> DEFINE kind == request[c].kind
  <2>1. PICK u : /\ Goto(c, u)
                 /\ \/ u = Idle
                    \/ \E r \in RowsOf(kind) : u = Found(kind, r.id)
                    \/ kind # "EmailVerificationToken" /\ u = Found(kind, 0)
    BY <1>8 DEF FindRow, End
  <2>2. \A r \in rows : r.id # 0
    BY DEF Typed, TypeOK
  <2>3. ~Pending(u) /\ Harmless(u)
    BY <2>1, <2>2 DEF Found, RowsOf, Pending, Harmless, Idle
  <2>4. QED
    BY <1>8, <2>1, <2>3, Aside DEF FindRow, Pending, Exists
<1>9. CASE AddCollaborator(c) \/ Mail(c)
  <2>1. request[c].at \in {"collaborate", "mail"} /\ request[c] \in Requests
    BY <1>9, ReadRequest DEF AddCollaborator, Mail, Typed
  <2>2. [request[c] EXCEPT !.at = "mail"].at = "mail"
    BY <2>1 DEF Requests
  <2>3. QED
    BY <1>1, <1>9, <2>1, <2>2 DEF AddCollaborator, Mail, End, Idle, Pending
<1>10. ASSUME NEW role, SelectRole(c, role) PROVE VerifiableInv'
  BY <1>1, <1>10 DEF SelectRole, Start, Idle, Pending
<1>11. ASSUME NEW part, FillIn(c, part) PROVE VerifiableInv'
  BY <1>1, <1>11 DEF FillIn, Start, Idle, Pending
<1>12. CASE WriteProfile(c)
  <2>1. [request[c] EXCEPT !.at = "flag"].at = "flag"
    BY <1>12, ReadRequest DEF WriteProfile, Typed, Requests
  <2>2. QED
    BY <1>1, <1>12, <2>1 DEF WriteProfile, Pending
<1>13. CASE Die(c)
  BY <1>13, Aside DEF Die, End, Idle, Pending, Harmless, Exists
<1>14. QED
  BY <1>2, <1>3, <1>4, <1>5, <1>6, <1>7, <1>8, <1>9, <1>10, <1>11, <1>12, <1>13,
     CreateVerifiable, WriteVerifiable, RemoveVerifiable DEF Register, Send, Describe

LEMMA VerifiableInit == Init => VerifiableInv
  BY DEF Init, VerifiableInv, Identified, Single, Reachable, Verification, Pending,
         Harmless, Exists, Idle

LEMMA VerifiableStep ==
  ASSUME Typed, VerifiableInv, [Next]_vars
  PROVE  VerifiableInv'
<1>1. ASSUME NEW status \in Answers, AnswerInvitation(status) PROVE VerifiableInv'
  BY <1>1, Apart DEF AnswerInvitation, account, tokens
<1>2. ASSUME NEW kind, NEW t, Arrive(kind, t) PROVE VerifiableInv'
  BY <1>2, Apart DEF Arrive, account, tokens
<1>3. CASE UNCHANGED vars
  BY <1>3, Apart DEF vars, account, tokens
<1>4. QED
  BY <1>1, <1>2, <1>3, ReplaceVerifiable, OtherVerifiable DEF Next

\* Whatever overlaps, there is one row of a verification at most, and unless a
\* request died whoever is not verified has one, so that resendVerifyEmail finds it.
THEOREM AlwaysVerifiableAlways == Spec => []AlwaysVerifiable
<1>1. VerifiableInv => AlwaysVerifiable
  BY DEF VerifiableInv, Single, Reachable, AlwaysVerifiable, Verification, RowsOf,
         AllIdle, Idle, Pending
<1>2. Typed /\ VerifiableInv /\ [Next]_vars => VerifiableInv'
  BY VerifiableStep
<1>3. QED
  BY <1>1, <1>2, VerifiableInit, AccountsTypeCorrect, PTL DEF Spec
-----------------------------------------------------------------------------
\* Whatever overlaps, the row of a verification holds the token issued last: no link
\* that was sent or is about to be is newer, and a request that will write to a row
\* of that kind found one.
Link == "EmailVerificationToken"
Older(x) == x <= issued /\ \A r \in Verification : r.token = 0 \/ x <= r.token
Sending(u) ==
  /\ u.at = "mail" /\ u.kind = Link => Older(u.token)
  /\ u.at = "collaborate" => u.kind # Link
  /\ u.at = "write" /\ u.kind = Link /\ u.row # 0 =>
       u.row <= issued /\ \A r \in rows : r.id = u.row => r.tokenType = Link

LinkInv ==
  /\ \A x \in handed[Link] : Older(x)
  /\ \A c \in Calls : Sending(request[c])

\* A step that only moves a request on, and one of none of them.
LEMMA LinkAside ==
  ASSUME Typed, LinkInv, NEW c \in Calls, NEW u, Goto(c, u), Sending(u),
         UNCHANGED <<rows, issued, handed>>
  PROVE  LinkInv'
<1>1. \A d \in Calls : request'[d] = IF d = c THEN u ELSE request[d]
  BY DEF Goto, Typed, TypeOK
<1>2. Verification' = Verification
  BY DEF Verification
<1>3. \A x : Older(x)' <=> Older(x)
  BY <1>2 DEF Older
<1>4. \A d \in Calls : Sending(request[d])'
  BY <1>1, <1>3 DEF LinkInv, Sending
<1>5. QED
  BY <1>3, <1>4 DEF LinkInv

LEMMA LinkApart ==
  ASSUME LinkInv, UNCHANGED <<rows, issued, handed, request>>
  PROVE  LinkInv'
<1>1. Verification' = Verification
  BY DEF Verification
<1>2. QED
  BY <1>1 DEF LinkInv, Older, Sending

\* A step that rewrites or removes rows, keeps what they are, and gives that of a
\* verification no token but none at all or a newer one.
LEMMA LinkRows ==
  ASSUME Typed, LinkInv, NEW c \in Calls, NEW u, Goto(c, u), Sending(u)',
         issued \in Nat, issued' \in {issued, issued + 1}, UNCHANGED handed,
         \A r \in rows' :
           \/ r.id = issued + 1
           \/ \E q \in rows : q.id = r.id /\ q.tokenType = r.tokenType,
         \A r \in Verification' :
           \/ r.token \in {0, issued + 1}
           \/ \E q \in Verification : q.token = r.token
  PROVE  LinkInv'
<1>1. \A d \in Calls : request'[d] = IF d = c THEN u ELSE request[d]
  BY DEF Goto, Typed, TypeOK
<1>2. ASSUME NEW x \in Nat, Older(x) PROVE Older(x)'
  BY <1>2 DEF Older
<1>3. \A x \in handed[Link] : x \in Nat
  BY MailedType DEF Link, Kinds, Typed
<1>4. ASSUME NEW d \in Calls, d # c PROVE Sending(request[d])'
  <2>1. Sending(request[d]) /\ request'[d] = request[d]
    BY <1>1, <1>4 DEF LinkInv
  <2>2. /\ request[d].at = "mail" => request[d].token \in Nat
        /\ request[d].at = "write" => request[d].row \in Nat
    <3>1. /\ request[d].at = "mail" => request[d].token \in 1 .. MaxTokens
          /\ request[d].at = "write" => request[d].row \in 0 .. MaxTokens
      BY ReadRequest DEF Typed
    <3>2. QED
      BY <3>1, AccountsAssumption
  <2>3. request[d].at = "mail" /\ request[d].kind = Link => Older(request[d].token)'
    <3>1. PICK x : x = request[d].token
      OBVIOUS
    <3>2. QED
      BY <1>2, <2>1, <2>2, <3>1 DEF Sending
  <2>4. QED
    BY <2>1, <2>2, <2>3 DEF Sending
<1>5. QED
  BY <1>1, <1>2, <1>3, <1>4 DEF LinkInv

LEMMA LinkWrite ==
  ASSUME Typed, VerifiableInv, LinkInv, NEW c \in Calls, WriteRow(c)
  PROVE  LinkInv'
<1> DEFINE r == request[c]
<1>1. /\ r.at = "write" /\ r.kind \in Kinds /\ r.row \in 0 .. MaxTokens
      /\ issued \in Nat
  <2>1. r.at = "write"
    BY DEF WriteRow
  <2>2. r.kind \in Kinds /\ r.row \in 0 .. MaxTokens
    BY <2>1, ReadRequest DEF Typed
  <2>3. QED
    BY <2>1, <2>2 DEF Typed, TypeOK
<1>2. CASE ~(r.row = 0 \/ \E q \in rows : q.id = r.row)
  <2>1. /\ Goto(c, Idle) /\ Sending(Idle)
        /\ UNCHANGED <<rows, issued, handed>>
    BY <1>2 DEF WriteRow, End, Idle, Sending, mails
  <2>2. QED
    BY <2>1, LinkAside
<1>3. CASE r.row = 0 \/ \E q \in rows : q.id = r.row
  <2>1. PICK t, k, u :
          /\ t = issued + 1 /\ k = r.kind
          /\ u = [at |-> IF k = "PurchaserInviteToken" THEN "collaborate" ELSE "mail",
                  kind |-> k, token |-> t]
    OBVIOUS
  <2>2. /\ rows' = Written(r, t) /\ issued' = t /\ Goto(c, u) /\ UNCHANGED handed
    BY <1>3, <2>1 DEF WriteRow, mails
  <2>3. \A q \in rows' :
          \/ q.id = t
          \/ \E p \in rows : p.id = q.id /\ p.tokenType = q.tokenType
    BY <2>2 DEF Written, Typed, TypeOK
  <2>4. \A q \in rows' : q.token = t \/ q \in rows
    BY <2>2 DEF Written, Typed, TypeOK
  <2>5. \A q \in Verification' : q.token = t \/ q \in Verification
    BY <2>4 DEF Verification
  <2>6. ASSUME k = Link PROVE \A q \in Verification' : q.token = t
    <3>1. CASE r.row = 0
      <4>1. Verification = {}
        BY <1>1, <2>1, <2>6, <3>1 DEF VerifiableInv, Single, Pending, Link
      <4>2. QED
        BY <2>5, <4>1
    <3>2. CASE r.row # 0
      <4>1. PICK p \in rows : p.id = r.row
        BY <1>3, <3>2
      <4>2. p \in Verification
        BY <1>1, <2>1, <2>6, <3>2, <4>1 DEF LinkInv, Sending, Verification, Link
      <4>3. \A q \in Verification : q.id = r.row
        BY <4>1, <4>2 DEF VerifiableInv, Single
      <4>4. \A q \in rows' : q.token = t \/ (q \in rows /\ q.id # r.row)
        BY <2>2, <3>2 DEF Written, Typed, TypeOK
      <4>5. QED
        BY <4>3, <4>4 DEF Verification
    <3>3. QED
      BY <3>1, <3>2
  <2>7. Sending(u)'
    <3>1. k = Link => Older(t)'
      BY <1>1, <2>1, <2>2, <2>6 DEF Older
    <3>2. QED
      BY <2>1, <3>1 DEF Sending, Link
  <2>8. QED
    BY <1>1, <2>1, <2>2, <2>3, <2>5, <2>7, LinkRows
<1>4. QED
  BY <1>2, <1>3

LEMMA LinkRemove ==
  ASSUME Typed, LinkInv, NEW c \in Calls, ExpireRow(c) \/ DeleteRow(c)
  PROVE  LinkInv'
<1>1. /\ UNCHANGED <<issued, handed>> /\ issued \in Nat
      /\ Goto(c, Idle) /\ Sending(Idle)'
  BY DEF ExpireRow, DeleteRow, End, Idle, Sending, mails, Typed, TypeOK
<1>2. \A r \in rows' :
        \E q \in rows : /\ q.id = r.id /\ q.tokenType = r.tokenType
                        /\ r.token = 0 \/ r.token = q.token
  BY DEF ExpireRow, DeleteRow, EXPIRED, Typed, TypeOK
<1>3. \A r \in Verification' :
        r.token = 0 \/ \E q \in Verification : q.token = r.token
  BY <1>2 DEF Verification
<1>4. QED
  BY <1>1, <1>2, <1>3, LinkRows

LEMMA LinkMail ==
  ASSUME Typed, LinkInv, NEW c \in Calls, Mail(c)
  PROVE  LinkInv'
<1>1. PICK k \in Kinds, t \in 1 .. MaxTokens :
        request[c].at = "mail" /\ request[c].kind = k /\ request[c].token = t
  BY ReadRequest DEF Mail, Typed
<1>2. /\ handed' = [handed EXCEPT ![k] = @ \cup {t}] /\ Goto(c, Idle)
      /\ UNCHANGED <<rows, issued>>
  BY <1>1 DEF Mail, End, tokens
<1>3. Verification' = Verification
  BY <1>2 DEF Verification
<1>4. \A x : Older(x)' <=> Older(x)
  BY <1>2, <1>3 DEF Older
<1>5. \A d \in Calls : request'[d] = IF d = c THEN Idle ELSE request[d]
  BY <1>2 DEF Goto, Typed, TypeOK
<1>6. Link \in Kinds /\ handed \in [Kinds -> SUBSET (1 .. MaxTokens)]
  BY DEF Link, Kinds, Typed, TypeOK
<1>7. \A x \in handed'[Link] : x \in handed[Link] \/ (k = Link /\ x = t)
  BY <1>2, <1>6
<1>8. k = Link => Older(t)
  BY <1>1 DEF LinkInv, Sending
<1>9. \A x \in handed'[Link] : Older(x)'
  BY <1>4, <1>7, <1>8 DEF LinkInv
<1>10. \A d \in Calls : Sending(request[d])'
  BY <1>2, <1>4, <1>5 DEF LinkInv, Sending, Idle
<1>11. QED
  BY <1>9, <1>10 DEF LinkInv

\* A request that changes the password, or does not concern any of it.
LEMMA LinkOther ==
  ASSUME Typed, VerifiableInv, LinkInv, NEW c \in Calls,
         Register(c) \/ Send(c) \/ Replace(c) \/ Describe(c) \/ Die(c)
  PROVE  LinkInv'
<1> USE DEF account, tokens, mails
<1>1. ASSUME NEW u, Goto(c, u), u.at \notin {"write", "mail", "collaborate"},
             UNCHANGED <<rows, issued, handed>>
      PROVE  LinkInv'
  BY <1>1, LinkAside DEF Sending
<1>2. ASSUME NEW p, SignUp(c, p) PROVE LinkInv'
  BY <1>1, <1>2 DEF SignUp
<1>3. CASE CreateUser(c)
  <2>1. Sending(Found(Link, 0)) /\ Sending(Idle)
    BY DEF Sending, Found, Idle
  <2>2. QED
    BY <1>3, <2>1, LinkAside DEF CreateUser, End, Link
<1>4. CASE GoogleLogin(c) \/ CreateGoogleUser(c) \/ Login(c) \/ Resend(c)
  BY <1>1, <1>4, LinkApart DEF GoogleLogin, CreateGoogleUser, Login, Resend, End, Idle
<1>5. ASSUME NEW t, VerifyEmail(c, t) PROVE LinkInv'
  BY <1>1, <1>5 DEF VerifyEmail
<1>6. CASE SetVerified(c) \/ WriteProfile(c)
  <2>1. PICK u : /\ u = [request[c] EXCEPT !.at = "expire"]
                    \/ u = [request[c] EXCEPT !.at = "flag"]
                 /\ Goto(c, u)
    BY <1>6 DEF SetVerified, WriteProfile
  <2>2. u.at \in {"expire", "flag"}
    BY <2>1, ReadRequest DEF Typed, Requests
  <2>3. QED
    BY <1>1, <1>6, <2>1, <2>2 DEF SetVerified, WriteProfile
<1>7. CASE SetRole(c) \/ SetComplete(c) \/ Die(c)
  BY <1>1, <1>7 DEF SetRole, SetComplete, Die, End, Idle
<1>8. CASE SendResetPassword(c) \/ SendOtp(c) \/ InviteUser(c)
  BY <1>1, <1>8 DEF SendResetPassword, SendOtp, InviteUser
<1>9. CASE FindRow(c)
  <2>1. PICK k, u : /\ k = request[c].kind /\ Goto(c, u)
                    /\ \/ u = Idle
                       \/ \E r \in RowsOf(k) : u = Found(k, r.id)
                       \/ u = Found(k, 0)
    BY <1>9 DEF FindRow, End
  <2>2. \A r \in RowsOf(k) : r.id <= issued /\ \A q \in rows : q.id = r.id => q = r
    BY DEF VerifiableInv, Identified, RowsOf
  <2>3. Sending(u)
    BY <2>1, <2>2 DEF Sending, Found, Idle, RowsOf
  <2>4. QED
    BY <1>9, <2>1, <2>3, LinkAside DEF FindRow
<1>10. CASE AddCollaborator(c)
  <2>1. PICK u : /\ u = Idle \/ u = [request[c] EXCEPT !.at = "mail"]
                 /\ Goto(c, u)
    BY <1>10 DEF AddCollaborator, End
  <2>2. request[c].kind # Link /\ request[c].at = "collaborate"
    BY <1>10 DEF AddCollaborator, LinkInv, Sending
  <2>3. u = Idle \/ (u.at = "mail" /\ u.kind # Link)
    <3>1. request[c] \in Requests
      BY ReadRequest DEF Typed
    <3>2. PICK q : q = [request[c] EXCEPT !.at = "mail"]
      OBVIOUS
    <3>3. q.at = "mail" /\ q.kind = request[c].kind
      BY <2>2, <3>1, <3>2 DEF Requests
    <3>4. QED
      BY <2>1, <2>2, <3>2, <3>3
  <2>4. Sending(u)
    BY <2>3 DEF Sending, Idle
  <2>5. QED
    BY <1>10, <2>1, <2>4, LinkAside DEF AddCollaborator
<1>11. ASSUME NEW t, NEW p, ResetPassword(c, t, p) \/ ResetPasswordWithOTP(c, t, p)
       PROVE  LinkInv'
  BY <1>1, <1>11 DEF ResetPassword, ResetPasswordWithOTP, Changing
<1>12. ASSUME NEW p, ChangePassword(c, p) PROVE LinkInv'
  BY <1>1, <1>12 DEF ChangePassword, Changing
<1>13. CASE SetPassword(c)
  BY <1>1, <1>13 DEF SetPassword, End, Idle
<1>14. ASSUME NEW role, SelectRole(c, role) PROVE LinkInv'
  BY <1>1, <1>14 DEF SelectRole
<1>15. ASSUME NEW part, FillIn(c, part) PROVE LinkInv'
  BY <1>1, <1>15 DEF FillIn
<1>16. QED
  BY <1>2, <1>3, <1>4, <1>5, <1>6, <1>7, <1>8, <1>9, <1>10, <1>11, <1>12, <1>13,
     <1>14, <1>15, LinkWrite, LinkMail, LinkRemove DEF Register, Send, Replace, Describe

LEMMA LinkStep ==
  ASSUME Typed, VerifiableInv, LinkInv, [Next]_vars
  PROVE  LinkInv'
<1>1. ASSUME NEW status, AnswerInvitation(status) PROVE LinkInv'
  BY <1>1, LinkApart DEF AnswerInvitation, tokens, mails
<1>2. ASSUME NEW kind, NEW t, Arrive(kind, t) PROVE LinkInv'
  BY <1>2, LinkApart DEF Arrive, tokens
<1>3. CASE UNCHANGED vars
  BY <1>3, LinkApart DEF vars, tokens, mails
<1>4. QED
  BY <1>1, <1>2, <1>3, LinkOther DEF Next

LEMMA LinkInit == Init => LinkInv
  BY DEF Init, LinkInv, Sending, Link, Kinds, Idle
-----------------------------------------------------------------------------
\* What a request knows of the tables where it runs alone: the row it will write,
\* the row whose token it sends, the row of the link it was called with.
Held(u) ==
  /\ u.at = "write" => IF u.row = 0 THEN RowsOf(u.kind) = {}
                       ELSE \E r \in RowsOf(u.kind) : r.id = u.row
  /\ u.at \in {"collaborate", "mail"} =>
       /\ \E r \in RowsOf(u.kind) : r.token = u.token
       /\ \A x \in handed[u.kind] : x <= u.token
  /\ u.at = "collaborate" => u.kind = "PurchaserInviteToken"
  /\ u.at \in {"verify", "expire"} =>
       \E r \in RowsOf("EmailVerificationToken") : r.id = u.row
  /\ u.at = "change" /\ u.row # 0 =>
       u.token # 0 /\ \E r \in rows : r.id = u.row /\ r.token = u.token
  /\ u.at = "delete" => \E r \in rows :
       r.id = u.row /\ r.token # 0 /\ uses[r.token] > 0

\* The newest mail of the kind still counts.
Current(kind) ==
  \A t \in Latest(kind) :
    \/ t \in Live(kind)
    \/ kind = "EmailVerificationToken" /\ user.isEmailVerified
    \/ uses[t] > 0

\* One request at a time; one row of each kind; a token is new when it is issued.
Alone == \A c, d \in Calls : request[c] # Idle /\ request[d] # Idle => c = d
Numbered ==
  /\ \A r \in rows : r.token <= issued
  /\ \A kind \in Kinds : \A t \in handed[kind] : t <= issued
  /\ \A t \in 1 .. MaxTokens : t > issued => uses[t] = 0
OneRow ==
  /\ \A r, q \in rows : r.tokenType = q.tokenType => r = q
  /\ \A r, q \in rows : r.token = q.token => r = q \/ r.token = 0
Knowing ==
  \A c \in Calls :
    /\ Held(request[c])
    /\ request[c].at = "expire" => user.isEmailVerified

\* Where no request dies, a mail counts unless a newer one is being sent, and a
\* token that was used is gone or about to be deleted.
Working ==
  \A kind \in Kinds \ {"PurchaserInviteToken"} :
    Current(kind) \/ \E c \in Calls : request[c].at = "mail" /\ request[c].kind = kind
Unused ==
  /\ \A t \in 1 .. MaxTokens : uses[t] <= 1
  /\ \A r \in rows : r.token # 0 =>
       \/ uses[r.token] = 0
       \/ \E c \in Calls : request[c].at = "delete" /\ request[c].row = r.id

\* All of it; and a token is issued to a user.
TokenInv ==
  Serial =>
    /\ Alone /\ Numbered /\ OneRow /\ Knowing
    /\ Exists \/ issued = 0
    /\ \A kind \in Kinds : Live(kind) \subseteq Latest(kind)
    /\ faults = {} => Working /\ Unused

LEMMA LatestMailed ==
  ASSUME TypeOK, NEW kind \in Kinds
  PROVE  /\ Latest(kind) \subseteq handed[kind]
         /\ handed[kind] \subseteq 1 .. MaxTokens
         /\ mailed[kind] \subseteq 1 .. MaxTokens
  BY MailedType DEF Latest

\* What holds of a request that runs alone, and of its next step.
LEMMA Stepped ==
  ASSUME Typed, Alone, NEW c \in Calls, NEW u, Goto(c, u),
         request[c] # Idle \/ AllIdle
  PROVE  /\ \A d \in Calls : d # c => request[d] = Idle /\ request'[d] = Idle
         /\ request'[c] = u
         /\ Alone'
  BY DEF Typed, TypeOK, Goto, Alone, AllIdle

\* A step that issues, sends and uses no token.
LEMMA NoToken ==
  ASSUME Typed, TokenInv, Serial, NEW c \in Calls, NEW u, Goto(c, u),
         request[c] # Idle \/ AllIdle,
         request[c].at \notin {"mail", "delete"} \/ faults # {},
         Held(u), u.at = "expire" => user'.isEmailVerified,
         UNCHANGED <<faults, tokens, handed>>,
         Exists => Exists' /\ (user.isEmailVerified => user'.isEmailVerified)
  PROVE  TokenInv'
<1> USE DEF tokens
<1>1. /\ \A d \in Calls : d # c => request[d] = Idle /\ request'[d] = Idle
      /\ request'[c] = u
      /\ Alone'
  BY Stepped DEF TokenInv
<1>2. \A kind : /\ RowsOf(kind)' = RowsOf(kind) /\ handed'[kind] = handed[kind]
                /\ Live(kind)' = Live(kind) /\ Latest(kind)' = Latest(kind)
  BY DEF RowsOf, Live, Latest
<1>3. Numbered' /\ OneRow'
  BY <1>2 DEF TokenInv, Numbered, OneRow
<1>4. Knowing'
  <2>1. Held(Idle)' /\ Idle.at # "expire"
    BY DEF Held, Idle
  <2>2. Held(u)'
    BY <1>2 DEF Held
  <2>3. QED
    BY <1>1, <2>1, <2>2 DEF Knowing, Held
<1>5. (Exists \/ issued = 0)'
  BY DEF TokenInv
<1>6. \A kind \in Kinds : (Live(kind) \subseteq Latest(kind))'
  BY <1>2 DEF TokenInv
<1>7. ASSUME faults = {} PROVE Working' /\ Unused'
  <2>1. \A d \in Calls : request[d].at \notin {"mail", "delete"}
    BY <1>1, <1>7 DEF Idle
  <2>2. \A kind \in Kinds \ {"PurchaserInviteToken"} : Current(kind)
    BY <1>7, <2>1 DEF TokenInv, Working
  <2>3. ASSUME NEW kind \in Kinds \ {"PurchaserInviteToken"} PROVE Current(kind)'
    <3>1. CASE Exists
      BY <1>2, <2>2, <3>1 DEF Current
    <3>2. CASE ~Exists
      <4>1. handed[kind] = {}
        BY <3>2, LatestMailed DEF TokenInv, Numbered, Typed
      <4>2. Latest(kind)' = {}
        BY <1>2, <4>1, LatestMailed DEF Typed
      <4>3. QED
        BY <4>2 DEF Current
    <3>3. QED
      BY <3>1, <3>2
  <2>4. QED
    BY <1>7, <2>1, <2>3 DEF TokenInv, Working, Unused
<1>8. QED
  BY <1>1, <1>3, <1>4, <1>5, <1>6, <1>7 DEF TokenInv

\* A step of none of the requests.
LEMMA NoStep ==
  ASSUME TokenInv, UNCHANGED <<faults, user, tokens, handed, request>>
  PROVE  TokenInv'
<1> USE DEF tokens
<1>1. \A kind : /\ RowsOf(kind)' = RowsOf(kind) /\ handed'[kind] = handed[kind]
                /\ Live(kind)' = Live(kind) /\ Latest(kind)' = Latest(kind)
  BY DEF RowsOf, Live, Latest
<1>2. \A kind : Current(kind)' <=> Current(kind)
  BY <1>1 DEF Current
<1>3. Knowing' <=> Knowing
  BY <1>1 DEF Knowing, Held
<1>4. QED
  BY <1>1, <1>2, <1>3
     DEF TokenInv, Serial, Alone, Numbered, OneRow, Working, Unused, Exists

\* The step that gives a row of the kind a new token.
LEMMA WriteToken ==
  ASSUME Typed, VerifiableInv, TokenInv, Serial, NEW c \in Calls, WriteRow(c)
  PROVE  TokenInv'
<1> DEFINE r == request[c]
<1>1. PICK k \in Kinds :
        r.kind = k /\ r.at = "write" /\ r.row \in 0 .. MaxTokens /\ Exists
  BY ReadRequest, Present DEF WriteRow, Typed
<1>2. PICK t \in 1 .. MaxTokens : t = issued + 1 /\ t # 0 /\ issued \in Nat
  BY DEF WriteRow, Typed, TypeOK
<1> DEFINE u == [at |-> IF k = "PurchaserInviteToken" THEN "collaborate" ELSE "mail",
                 kind |-> k, token |-> t]
<1>3. Held(r)
  BY DEF TokenInv, Knowing
<1>4. r.row = 0 \/ \E q \in rows : q.id = r.row
  BY <1>1, <1>3 DEF Held, RowsOf
<1>5. /\ rows' = Written(r, t) /\ issued' = t /\ Goto(c, u)
      /\ UNCHANGED <<faults, user, uses, handed>>
  BY <1>1, <1>2, <1>4 DEF WriteRow, account, mails
<1>6. PICK new : /\ new.tokenType = k /\ new.token = t
                 /\ rows' = {q \in rows : q.tokenType # k} \cup {new}
  <2>1. CASE r.row = 0
    <3> DEFINE n == [id |-> t, tokenType |-> k, token |-> t]
    <3>1. rows' = rows \cup {n}
      BY <1>1, <1>5, <2>1 DEF Written
    <3>2. \A q \in rows : q.tokenType # k
      BY <1>1, <1>3, <2>1 DEF Held, RowsOf
    <3>3. rows' = {q \in rows : q.tokenType # k} \cup {n}
      BY <3>1, <3>2
    <3>4. n.tokenType = k /\ n.token = t
      OBVIOUS
    <3>5. QED
      BY <3>3, <3>4
  <2>2. CASE r.row # 0
    <3>1. PICK p \in rows : p.tokenType = k /\ p.id = r.row
      BY <1>1, <1>3, <2>2 DEF Held, RowsOf
    <3>2. \A q \in rows : (q.id = r.row <=> q = p) /\ (q.tokenType # k <=> q # p)
      BY <3>1 DEF VerifiableInv, Identified, TokenInv, OneRow
    <3> DEFINE n == [p EXCEPT !.token = t]
    <3>3. rows' = {IF q = p THEN n ELSE q : q \in rows}
      <4>1. rows' = {IF q.id = r.row THEN [q EXCEPT !.token = t] ELSE q : q \in rows}
        BY <1>5, <2>2 DEF Written
      <4>2. \A q \in rows : (IF q.id = r.row THEN [q EXCEPT !.token = t] ELSE q)
                              = IF q = p THEN n ELSE q
        BY <3>2
      <4>3. QED
        BY <4>1, <4>2
    <3>4. n.tokenType = k /\ n.token = t
      BY <3>1 DEF Typed, TypeOK
    <3> HIDE DEF n
    <3>5. rows' = {q \in rows : q.tokenType # k} \cup {n}
      BY <3>1, <3>2, <3>3
    <3>6. QED
      BY <3>4, <3>5
  <2>3. QED
    BY <2>1, <2>2
<1>7. /\ \A d \in Calls : d # c => request[d] = Idle /\ request'[d] = Idle
      /\ request'[c] = u
      /\ Alone'
  BY <1>1, <1>5, Stepped DEF TokenInv, Idle
<1>8. /\ \A kind : kind # k => RowsOf(kind)' = RowsOf(kind)
      /\ RowsOf(k)' = {new}
  BY <1>6 DEF RowsOf
<1>9. \A kind : handed'[kind] = handed[kind] /\ Latest(kind)' = Latest(kind)
  BY <1>5 DEF Latest
<1>10. \A q \in rows : q.token \in Nat /\ q.token < t
  BY <1>2 DEF TokenInv, Numbered, Typed, TypeOK
<1>11. \A kind \in Kinds : \A x \in handed[kind] : x < t
  BY <1>2, LatestMailed DEF TokenInv, Numbered, Typed
<1>12. Numbered'
  <2>1. \A q \in rows' : q.token <= t
    BY <1>2, <1>6, <1>10
  <2>2. \A kind \in Kinds : \A x \in handed'[kind] : x <= t
    BY <1>2, <1>9, <1>11, LatestMailed DEF Typed
  <2>3. \A x \in 1 .. MaxTokens : x > t => uses'[x] = 0
    BY <1>2, <1>5 DEF TokenInv, Numbered
  <2>4. QED
    BY <1>5, <2>1, <2>2, <2>3 DEF Numbered
<1>13. OneRow'
  BY <1>2, <1>6, <1>10 DEF TokenInv, OneRow
<1>14. Knowing'
  <2>1. Held(Idle)' /\ Idle.at # "expire"
    BY DEF Held, Idle
  <2>2. Held(u)' /\ u.at # "expire"
    <3>1. \A x \in handed'[k] : x <= t
      BY <1>2, <1>9, <1>11, LatestMailed DEF Typed
    <3>2. QED
      BY <1>6, <1>8, <3>1 DEF Held
  <2>3. QED
    BY <1>7, <2>1, <2>2 DEF Knowing, Held
<1>15. (Exists \/ issued = 0)'
  BY <1>1, <1>5 DEF Exists
<1>16. /\ \A kind : kind # k => Live(kind)' = Live(kind)
       /\ Live(k)' = {}
  BY <1>1, <1>2, <1>6, <1>8, <1>9, <1>11 DEF Live
<1>17. \A kind \in Kinds : (Live(kind) \subseteq Latest(kind))'
  BY <1>9, <1>16 DEF TokenInv
<1>18. ASSUME faults = {} PROVE Working' /\ Unused'
  <2>1. \A d \in Calls : request[d].at \notin {"mail", "delete"}
    BY <1>1, <1>7 DEF Idle
  <2>2. \A kind \in Kinds \ {"PurchaserInviteToken"} : Current(kind)
    BY <1>18, <2>1 DEF TokenInv, Working
  <2>3. \A kind \in Kinds \ {"PurchaserInviteToken"} :
          kind # k => (Current(kind))'
    BY <1>5, <1>9, <1>16, <2>2 DEF Current
  <2>4. k # "PurchaserInviteToken" => request'[c].at = "mail" /\ request'[c].kind = k
    BY <1>7
  <2>5. Working'
    BY <2>3, <2>4 DEF Working
  <2>6. uses[t] = 0
    BY <1>2 DEF TokenInv, Numbered
  <2>7. \A q \in rows' : q.token # 0 => uses'[q.token] = 0
    BY <1>5, <1>6, <1>18, <2>1, <2>6 DEF TokenInv, Unused
  <2>8. QED
    BY <1>5, <1>18, <2>5, <2>7 DEF TokenInv, Unused
<1>19. QED
  BY <1>5, <1>7, <1>12, <1>13, <1>14, <1>15, <1>17, <1>18 DEF TokenInv

\* The mail with the token of the row.
LEMMA MailToken ==
  ASSUME Typed, TokenInv, Serial, NEW c \in Calls, Mail(c)
  PROVE  TokenInv'
<1> USE DEF tokens, account, mails
<1> DEFINE r == request[c]
<1>1. PICK k \in Kinds, t \in 1 .. MaxTokens :
        r.at = "mail" /\ r.kind = k /\ r.token = t
  BY ReadRequest DEF Mail, Typed
<1>2. /\ handed' = [handed EXCEPT ![k] = @ \cup {t}]
      /\ Goto(c, Idle)
      /\ UNCHANGED <<faults, user, tokens>>
  BY <1>1 DEF Mail, End
<1>3. PICK p \in rows : p.tokenType = k /\ p.token = t
  BY <1>1 DEF TokenInv, Knowing, Held, RowsOf
<1>4. \A kind : RowsOf(kind)' = RowsOf(kind)
  BY <1>2 DEF RowsOf
<1>5. RowsOf(k) = {p}
  BY <1>3 DEF RowsOf, TokenInv, OneRow
<1>6. \A kind \in Kinds : kind # k => handed'[kind] = handed[kind]
  BY <1>2 DEF Typed, TypeOK
<1>7. handed'[k] = handed[k] \cup {t} /\ handed[k] \subseteq 1 .. MaxTokens
  BY <1>1, <1>2 DEF Typed, TypeOK
<1>8. handed'[k] = handed[k] \cup {t} /\ Latest(k)' = {t}
  <2>1. \A x \in handed[k] : x <= t
    BY <1>1 DEF TokenInv, Knowing, Held
  <2>2. QED
    BY <1>1, <1>7, <2>1 DEF Latest
<1>9. \A kind \in Kinds : kind # k =>
        /\ handed'[kind] = handed[kind] /\ Latest(kind)' = Latest(kind)
        /\ Live(kind)' = Live(kind)
  BY <1>4, <1>6 DEF Latest, Live
<1>10. Live(k)' = {t}
  BY <1>3, <1>4, <1>5, <1>8 DEF Live
<1>11. /\ \A d \in Calls : d # c => request[d] = Idle /\ request'[d] = Idle
       /\ request'[c] = Idle
       /\ Alone'
  BY <1>1, <1>2, Stepped DEF TokenInv, Idle
<1>12. Numbered'
  BY <1>2, <1>3, <1>8, <1>9 DEF TokenInv, Numbered
<1>13. OneRow' /\ (Exists \/ issued = 0)'
  BY <1>2 DEF TokenInv, OneRow, Exists
<1>14. Knowing'
  BY <1>11 DEF Knowing, Held, Idle
<1>15. \A kind \in Kinds : (Live(kind) \subseteq Latest(kind))'
  BY <1>8, <1>9, <1>10 DEF TokenInv
<1>16. ASSUME faults = {} PROVE Working' /\ Unused'
  <2>1. \A d \in Calls : d # c => request[d].at \notin {"mail", "delete"}
    BY <1>11 DEF Idle
  <2>2. ASSUME NEW kind \in Kinds \ {"PurchaserInviteToken"}, kind # k
        PROVE  Current(kind)'
    <3>1. Current(kind)
      BY <1>1, <1>16, <2>1, <2>2 DEF TokenInv, Working
    <3>2. QED
      BY <1>2, <1>9, <2>2, <3>1 DEF Current
  <2>3. Current(k)'
    BY <1>8, <1>10 DEF Current
  <2>4. Working'
    BY <2>2, <2>3 DEF Working
  <2>5. Unused'
    BY <1>1, <1>2, <1>16, <2>1 DEF TokenInv, Unused
  <2>6. QED
    BY <2>4, <2>5
<1>17. QED
  BY <1>2, <1>11, <1>12, <1>13, <1>14, <1>15, <1>16 DEF TokenInv

\* The row of the link that was followed is expired, and the user verified by now.
LEMMA ExpireToken ==
  ASSUME Typed, VerifiableInv, TokenInv, Serial, NEW c \in Calls, ExpireRow(c)
  PROVE  TokenInv'
<1> USE DEF tokens, account, mails
<1> DEFINE r == request[c]
           k == "EmailVerificationToken"
<1>1. r.at = "expire" /\ r.row \in 1 .. MaxTokens /\ user.isEmailVerified
  BY ReadRequest DEF ExpireRow, Typed, TokenInv, Knowing
<1>2. Goto(c, Idle) /\ UNCHANGED <<faults, user, issued, uses, handed>>
  BY DEF ExpireRow, End
<1>3. PICK p \in rows : p.tokenType = k /\ p.id = r.row
  BY <1>1 DEF TokenInv, Knowing, Held, RowsOf
<1> DEFINE n == [p EXCEPT !.token = EXPIRED]
<1>4. \A q \in rows : (q.id = r.row <=> q = p) /\ (q.tokenType # k <=> q # p)
  BY <1>3 DEF VerifiableInv, Identified, TokenInv, OneRow
<1>5. rows' = {IF q = p THEN n ELSE q : q \in rows}
  <2>1. \A q \in rows : (IF q.id = r.row THEN [q EXCEPT !.token = EXPIRED] ELSE q)
                          = IF q = p THEN n ELSE q
    BY <1>4
  <2>2. QED
    BY <2>1 DEF ExpireRow
<1>6. n.tokenType = k /\ n.token = 0
  BY <1>3 DEF Typed, TypeOK, EXPIRED
<1> HIDE DEF n
<1>7. rows' = {q \in rows : q.tokenType # k} \cup {n}
  BY <1>3, <1>4, <1>5
<1>8. /\ \A d \in Calls : d # c => request[d] = Idle /\ request'[d] = Idle
      /\ request'[c] = Idle
      /\ Alone'
  BY <1>1, <1>2, Stepped DEF TokenInv, Idle
<1>9. \A kind : handed'[kind] = handed[kind] /\ Latest(kind)' = Latest(kind)
  BY <1>2 DEF Latest
<1>10. /\ \A kind : kind # k => RowsOf(kind)' = RowsOf(kind)
       /\ RowsOf(k)' = {n}
  BY <1>6, <1>7 DEF RowsOf
<1>11. /\ \A kind : kind # k => Live(kind)' = Live(kind)
       /\ Live(k)' = {}
  <2>1. k \in Kinds
    BY DEF Kinds
  <2>2. 0 \notin handed[k]
    BY <2>1, LatestMailed DEF Typed
  <2>3. QED
    BY <1>6, <1>9, <1>10, <2>2 DEF Live
<1>12. Numbered'
  <2>1. \A q \in rows' : q.token <= issued
    BY <1>6, <1>7 DEF TokenInv, Numbered, Typed, TypeOK
  <2>2. QED
    BY <1>2, <1>9, <2>1 DEF TokenInv, Numbered
<1>13. OneRow'
  BY <1>6, <1>7 DEF TokenInv, OneRow
<1>14. Knowing' /\ (Exists \/ issued = 0)'
  BY <1>2, <1>8 DEF TokenInv, Knowing, Held, Idle, Exists
<1>15. \A kind \in Kinds : (Live(kind) \subseteq Latest(kind))'
  BY <1>9, <1>11 DEF TokenInv
<1>16. ASSUME faults = {} PROVE Working' /\ Unused'
  <2>1. \A d \in Calls : request[d].at \notin {"mail", "delete"}
    BY <1>1, <1>8 DEF Idle
  <2>2. \A kind \in Kinds \ {"PurchaserInviteToken"} : Current(kind)
    BY <1>16, <2>1 DEF TokenInv, Working
  <2>3. ASSUME NEW kind \in Kinds \ {"PurchaserInviteToken"} PROVE Current(kind)'
    <3>1. CASE kind = k
      BY <1>1, <1>2, <3>1 DEF Current
    <3>2. CASE kind # k
      BY <1>2, <1>9, <1>11, <2>2, <3>2 DEF Current
    <3>3. QED
      BY <3>1, <3>2
  <2>4. Unused'
    BY <1>2, <1>6, <1>7, <1>16, <2>1 DEF TokenInv, Unused
  <2>5. QED
    BY <2>3, <2>4 DEF Working
<1>17. QED
  BY <1>2, <1>8, <1>12, <1>13, <1>14, <1>15, <1>16 DEF TokenInv

\* The password is changed with the token of the row, which was not used before.
LEMMA UseToken ==
  ASSUME Typed, TokenInv, Serial, NEW c \in Calls, SetPassword(c),
         request[c].row # 0
  PROVE  TokenInv'
<1> DEFINE r == request[c]
<1>1. r.at = "change" /\ Exists /\ user \in UserRow
  BY Present DEF SetPassword
<1>2. PICK p \in rows : p.id = r.row /\ p.token = r.token /\ r.token # 0
  BY <1>1 DEF TokenInv, Knowing, Held
<1>3. PICK t \in 1 .. MaxTokens : t = r.token /\ t <= issued
  BY <1>2 DEF TokenInv, Numbered, Typed, TypeOK
<1> DEFINE u == [at |-> "delete", row |-> p.id]
<1>4. /\ uses' = [uses EXCEPT ![t] = IF @ = 0 THEN 1 ELSE 2]
      /\ Goto(c, u)
      /\ UNCHANGED <<faults, rows, issued, handed>>
  BY <1>2, <1>3 DEF SetPassword, mails
<1>5. user' \in UserRow /\ user'.isEmailVerified = user.isEmailVerified /\ Exists'
  <2>1. user' \in UserRow /\ user'.isEmailVerified = user.isEmailVerified
    BY <1>1, ReadRequest DEF SetPassword, UserRow, Typed
  <2>2. QED
    BY <2>1, AccountsAssumption DEF Exists
<1>6. /\ \A d \in Calls : d # c => request[d] = Idle /\ request'[d] = Idle
      /\ request'[c] = u
      /\ Alone'
  BY <1>1, <1>4, Stepped DEF TokenInv, Idle
<1>7. \A kind : /\ RowsOf(kind)' = RowsOf(kind) /\ handed'[kind] = handed[kind]
                /\ Live(kind)' = Live(kind) /\ Latest(kind)' = Latest(kind)
  BY <1>4 DEF RowsOf, Live, Latest
<1>8. /\ \A x \in 1 .. MaxTokens : x # t => uses'[x] = uses[x]
      /\ uses'[t] = IF uses[t] = 0 THEN 1 ELSE 2
  BY <1>4 DEF Typed, TypeOK
<1>9. Numbered'
  BY <1>3, <1>4, <1>7, <1>8 DEF TokenInv, Numbered, Typed, TypeOK
<1>10. OneRow' /\ (Exists \/ issued = 0)'
  BY <1>4, <1>5 DEF TokenInv, OneRow
<1>11. Knowing'
  <2>1. Held(Idle)' /\ Idle.at # "expire"
    BY DEF Held, Idle
  <2>2. uses'[p.token] > 0 /\ p.token # 0
    BY <1>2, <1>3, <1>8
  <2>3. Held(u)' /\ u.at # "expire"
    BY <1>4, <2>2 DEF Held
  <2>4. QED
    BY <1>6, <2>1, <2>3 DEF Knowing, Held
<1>12. \A kind \in Kinds : (Live(kind) \subseteq Latest(kind))'
  BY <1>7 DEF TokenInv
<1>13. ASSUME faults = {} PROVE Working' /\ Unused'
  <2>1. \A d \in Calls : request[d].at \notin {"mail", "delete"}
    BY <1>1, <1>6 DEF Idle
  <2>2. ASSUME NEW kind \in Kinds \ {"PurchaserInviteToken"} PROVE Current(kind)'
    <3>1. Current(kind)
      BY <1>13, <2>1 DEF TokenInv, Working
    <3>2. \A x \in Latest(kind) : x \in 1 .. MaxTokens
      BY LatestMailed DEF Typed
    <3>3. \A x \in Latest(kind) : uses[x] > 0 => uses'[x] > 0
      BY <1>8, <3>2
    <3>4. QED
      BY <1>5, <1>7, <3>1, <3>3 DEF Current
  <2>3. uses[t] = 0
    BY <1>2, <1>3, <1>13, <2>1 DEF TokenInv, Unused
  <2>4. \A x \in 1 .. MaxTokens : uses'[x] <= 1
    BY <1>8, <1>13, <2>3 DEF TokenInv, Unused
  <2>5. ASSUME NEW q \in rows, q.token # 0
        PROVE  \/ uses'[q.token] = 0
               \/ \E d \in Calls : request'[d].at = "delete" /\ request'[d].row = q.id
    <3>1. CASE q = p
      BY <1>6, <3>1
    <3>2. CASE q # p
      <4>1. q.token # t /\ q.token \in 1 .. MaxTokens
        BY <1>2, <1>3, <2>5, <3>2 DEF TokenInv, OneRow, Typed, TypeOK
      <4>2. uses[q.token] = 0
        BY <1>13, <2>1, <2>5 DEF TokenInv, Unused
      <4>3. QED
        BY <1>8, <4>1, <4>2
    <3>3. QED
      BY <3>1, <3>2
  <2>6. QED
    BY <1>4, <2>2, <2>4, <2>5 DEF Working, Unused
<1>14. QED
  BY <1>4, <1>6, <1>9, <1>10, <1>11, <1>12, <1>13 DEF TokenInv

\* The row whose token was used goes.
LEMMA DeleteToken ==
  ASSUME Typed, VerifiableInv, TokenInv, Serial, NEW c \in Calls, DeleteRow(c)
  PROVE  TokenInv'
<1> USE DEF account, mails
<1> DEFINE r == request[c]
<1>1. r.at = "delete"
  BY DEF DeleteRow
<1>2. PICK p \in rows : p.id = r.row /\ p.token # 0 /\ uses[p.token] > 0
  BY <1>1 DEF TokenInv, Knowing, Held
<1>3. Goto(c, Idle) /\ UNCHANGED <<faults, user, issued, uses, handed>>
  BY DEF DeleteRow, End
<1>4. rows' = rows \ {p}
  BY <1>2 DEF DeleteRow, VerifiableInv, Identified
<1>5. /\ \A d \in Calls : d # c => request[d] = Idle /\ request'[d] = Idle
      /\ request'[c] = Idle
      /\ Alone'
  BY <1>1, <1>3, Stepped DEF TokenInv, Idle
<1>6. \A kind : handed'[kind] = handed[kind] /\ Latest(kind)' = Latest(kind)
  BY <1>3 DEF Latest
<1>7. \A kind : /\ Live(kind)' \subseteq Live(kind)
                /\ \A t \in Live(kind) : t # p.token => t \in Live(kind)'
  BY <1>4, <1>6 DEF Live, RowsOf
<1>8. Numbered' /\ OneRow' /\ (Exists \/ issued = 0)'
  BY <1>3, <1>4, <1>6 DEF TokenInv, Numbered, OneRow, Exists
<1>9. Knowing'
  BY <1>5 DEF Knowing, Held, Idle
<1>10. \A kind \in Kinds : (Live(kind) \subseteq Latest(kind))'
  BY <1>6, <1>7 DEF TokenInv
<1>11. ASSUME faults = {} PROVE Working' /\ Unused'
  <2>1. \A d \in Calls : request[d].at # "mail"
    BY <1>1, <1>5 DEF Idle
  <2>2. ASSUME NEW kind \in Kinds \ {"PurchaserInviteToken"} PROVE Current(kind)'
    <3>1. Current(kind)
      BY <1>11, <2>1 DEF TokenInv, Working
    <3>2. QED
      BY <1>2, <1>3, <1>6, <1>7, <3>1 DEF Current
  <2>3. \A d \in Calls : request[d].at = "delete" => d = c
    BY <1>5 DEF Idle
  <2>4. \A q \in rows : q # p => q.id # p.id
    BY DEF VerifiableInv, Identified
  <2>5. Unused'
    BY <1>2, <1>3, <1>4, <1>11, <2>3, <2>4 DEF TokenInv, Unused
  <2>6. QED
    BY <2>2, <2>5 DEF Working
<1>12. QED
  BY <1>3, <1>5, <1>8, <1>9, <1>10, <1>11 DEF TokenInv

\* All other steps.
LEMMA OtherToken ==
  ASSUME Typed, VerifiableInv, TokenInv, Serial, NEW c \in Calls,
         Register(c) \/ Send(c) \/ Replace(c) \/ Describe(c) \/ Die(c)
  PROVE  TokenInv'
<1> USE DEF account, mails
<1>1. Start(c) => request[c] = Idle /\ AllIdle
  BY DEF Start, Serial
<1>2. request[c].at # "idle" => request[c] # Idle
  BY DEF Idle
<1>3. Held(request[c])
  BY DEF TokenInv, Knowing
<1>4. ASSUME NEW u, Goto(c, u), Held(u), u.at # "expire",
             Start(c) \/ request[c].at \notin {"idle", "mail", "delete"},
             UNCHANGED <<faults, user, tokens, handed>>
      PROVE  TokenInv'
  BY <1>1, <1>2, <1>4, NoToken DEF Exists, Idle
<1>5. \A u : u.at \notin {"write", "collaborate", "mail", "verify", "expire", "change",
                          "delete"} => Held(u)
  BY DEF Held
<1>6. ASSUME NEW p, SignUp(c, p) PROVE TokenInv'
  BY <1>4, <1>5, <1>6 DEF SignUp
<1>7. CASE CreateUser(c)
  <2>1. CASE Exists
    BY <1>4, <1>5, <1>7, <2>1 DEF CreateUser, End, Idle
  <2>2. CASE ~Exists
    <3> DEFINE u == Found("EmailVerificationToken", 0)
    <3>1. Held(u) /\ u.at = "write"
      BY <2>2 DEF Held, Found, RowsOf, Typed, NobodyYet
    <3>2. QED
      BY <1>2, <1>7, <2>2, <3>1, NoToken DEF CreateUser
  <2>3. QED
    BY <2>1, <2>2
<1>8. CASE GoogleLogin(c)
  BY <1>4, <1>5, <1>8, NoStep DEF GoogleLogin
<1>9. CASE CreateGoogleUser(c)
  <2>1. Held(Idle) /\ Idle.at = "idle"
    BY <1>5 DEF Idle
  <2>2. Exists => Exists' /\ user' = user
    BY <1>9 DEF CreateGoogleUser, Exists
  <2>3. QED
    BY <1>2, <1>9, <2>1, <2>2, NoToken DEF CreateGoogleUser, End
<1>10. CASE Login(c)
  BY <1>4, <1>5, <1>10, NoStep DEF Login
<1>11. CASE Resend(c)
  BY <1>4, <1>5, <1>11 DEF Resend, End, Idle
<1>12. ASSUME NEW t, VerifyEmail(c, t) PROVE TokenInv'
  <2>1. PICK r \in RowsOf("EmailVerificationToken") :
          Goto(c, [at |-> "verify", row |-> r.id])
    BY <1>12 DEF VerifyEmail, Holding
  <2>2. Held([at |-> "verify", row |-> r.id])
    BY DEF Held
  <2>3. QED
    BY <1>4, <1>12, <2>1, <2>2 DEF VerifyEmail
<1>13. CASE SetVerified(c)
  <2>1. Exists /\ user \in UserRow
    BY <1>13, Present DEF SetVerified
  <2>2. user' \in UserRow /\ user'.isEmailVerified
    BY <1>13, <2>1 DEF SetVerified, UserRow
  <2>3. Exists'
    BY <2>2, AccountsAssumption DEF Exists
  <2>4. PICK u : u = [request[c] EXCEPT !.at = "expire"]
    OBVIOUS
  <2>5. u.at = "expire" /\ u.row = request[c].row
    BY <1>13, <2>4, ReadRequest DEF SetVerified, Typed, Requests
  <2>6. Held(u)
    BY <1>3, <1>13, <2>5 DEF Held, SetVerified
  <2>7. QED
    BY <1>2, <1>13, <2>1, <2>2, <2>3, <2>4, <2>6, NoToken DEF SetVerified
<1>14. CASE SendResetPassword(c) \/ SendOtp(c) \/ InviteUser(c)
  BY <1>4, <1>5, <1>14 DEF SendResetPassword, SendOtp, InviteUser
<1>15. CASE FindRow(c)
  <2>1. PICK u : /\ Goto(c, u)
                 /\ \/ u = Idle
                    \/ \E r \in RowsOf(request[c].kind) : u = Found(request[c].kind, r.id)
                    \/ RowsOf(request[c].kind) = {} /\ u = Found(request[c].kind, 0)
    BY <1>15 DEF FindRow, End
  <2>2. \A r \in rows : r.id # 0
    BY DEF Typed, TypeOK
  <2>3. Held(u) /\ u.at # "expire"
    BY <2>1, <2>2 DEF Held, Found, Idle, RowsOf
  <2>4. QED
    BY <1>4, <1>15, <2>1, <2>3 DEF FindRow
<1>16. CASE AddCollaborator(c)
  <2>1. CASE collaborator # None
    BY <1>4, <1>5, <1>16, <2>1 DEF AddCollaborator, End, Idle
  <2>2. CASE collaborator = None
    <3>1. PICK u : u = [request[c] EXCEPT !.at = "mail"]
      OBVIOUS
    <3>2. u.at = "mail" /\ u.kind = request[c].kind /\ u.token = request[c].token
      BY <1>16, <3>1, ReadRequest DEF AddCollaborator, Typed, Requests
    <3>3. Held(u)
      BY <1>3, <1>16, <3>2 DEF Held, AddCollaborator
    <3>4. QED
      BY <1>4, <1>16, <2>2, <3>1, <3>2, <3>3 DEF AddCollaborator
  <2>3. QED
    BY <2>1, <2>2
<1>17. ASSUME NEW kind, NEW t, NEW p, NEW r \in Holding(kind, t), NEW k \in Kinds,
              t \in mailed[k], Start(c), Goto(c, Changing(r.id, t, p)),
              UNCHANGED <<faults, account, tokens, mails, collaborator>>
       PROVE  TokenInv'
  <2>1. t # 0
    BY <1>17, LatestMailed DEF Typed
  <2>2. Held(Changing(r.id, t, p)) /\ Changing(r.id, t, p).at # "expire"
    BY <2>1 DEF Held, Changing, Holding, RowsOf
  <2>3. QED
    BY <1>4, <1>17, <2>2
<1>18. ASSUME NEW p, NEW t \in mailed["ForgotPasswordToken"], ResetPassword(c, t, p)
       PROVE  TokenInv'
  BY <1>17, <1>18 DEF ResetPassword, Kinds
<1>19. ASSUME NEW p, NEW t \in mailed["OTP"], ResetPasswordWithOTP(c, t, p)
       PROVE  TokenInv'
  BY <1>17, <1>19 DEF ResetPasswordWithOTP, Kinds
<1>20. ASSUME NEW p, ChangePassword(c, p) PROVE TokenInv'
  <2>1. Held(Changing(0, 0, p)) /\ Changing(0, 0, p).at # "expire"
    BY DEF Held, Changing
  <2>2. QED
    BY <1>4, <1>20, <2>1 DEF ChangePassword
<1>21. CASE (request[c].row = 0 /\ SetPassword(c)) \/ SetRole(c) \/ SetComplete(c)
  <2>1. Exists /\ user \in UserRow /\ request[c].at \in {"change", "role", "flag"}
    BY <1>21, Present DEF SetPassword, SetRole, SetComplete
  <2>2. user'.isEmailVerified = user.isEmailVerified
    BY <1>21, <2>1 DEF SetPassword, SetRole, SetComplete, UserRow
  <2>3. Exists'
    <3>1. /\ request[c].at = "change" => request[c].password \in Passwords
          /\ request[c].at = "role" => request[c].role \in Roles
          /\ request[c].at = "flag" => request[c].part \in Profile
      BY ReadRequest DEF Typed
    <3>2. user' \in UserRow
      BY <1>21, <2>1, <3>1 DEF SetPassword, SetRole, SetComplete, UserRow
    <3>3. QED
      BY <3>2, AccountsAssumption DEF Exists
  <2>4. Held(Idle) /\ Idle.at = "idle"
    BY <1>5 DEF Idle
  <2>5. UNCHANGED <<faults, tokens, handed>> /\ Goto(c, Idle)
    BY <1>21 DEF SetPassword, SetRole, SetComplete, End, tokens
  <2>6. QED
    BY <1>2, <2>1, <2>2, <2>3, <2>4, <2>5, NoToken
<1>22. ASSUME NEW role, SelectRole(c, role) PROVE TokenInv'
  BY <1>4, <1>5, <1>22 DEF SelectRole
<1>23. ASSUME NEW part, FillIn(c, part) PROVE TokenInv'
  BY <1>4, <1>5, <1>23 DEF FillIn
<1>24. CASE WriteProfile(c)
  <2>1. PICK u : u = [request[c] EXCEPT !.at = "flag"]
    OBVIOUS
  <2>2. u.at = "flag"
    BY <1>24, <2>1, ReadRequest DEF WriteProfile, Typed, Requests
  <2>3. QED
    BY <1>4, <1>5, <1>24, <2>1, <2>2 DEF WriteProfile
<1>25. CASE Die(c)
  <2>1. Held(Idle) /\ Idle.at = "idle"
    BY <1>5 DEF Idle
  <2>2. QED
    BY <1>25, <2>1, NoToken DEF Die, End, Exists
<1>26. CASE Register(c)
  BY <1>6, <1>7, <1>8, <1>9, <1>10, <1>11, <1>12, <1>13, <1>26, ExpireToken DEF Register
<1>27. CASE Send(c)
  BY <1>14, <1>15, <1>16, <1>27, WriteToken, MailToken DEF Send
<1>28. CASE Replace(c)
  BY <1>18, <1>19, <1>20, <1>21, <1>28, UseToken, DeleteToken DEF Replace
<1>29. CASE Describe(c)
  BY <1>21, <1>22, <1>23, <1>24, <1>29 DEF Describe
<1>30. QED
  BY <1>25, <1>26, <1>27, <1>28, <1>29

LEMMA TokenStep ==
  ASSUME Typed, VerifiableInv, TokenInv, [Next]_vars
  PROVE  TokenInv'
<1>1. CASE ~Serial
  <2>1. faults' = faults
    BY DEF Next, vars, AnswerInvitation, Register, SignUp, CreateUser, GoogleLogin,
           CreateGoogleUser, Login, Resend, VerifyEmail, SetVerified, ExpireRow, Send,
           SendResetPassword, SendOtp, InviteUser, FindRow, WriteRow, AddCollaborator,
           Mail, Replace, ResetPassword, ResetPasswordWithOTP, ChangePassword,
           SetPassword, DeleteRow, Describe, SelectRole, SetRole, FillIn, WriteProfile,
           SetComplete, Die, Arrive
  <2>2. QED
    BY <1>1, <2>1 DEF TokenInv, Serial
<1>2. CASE Serial
  <2>1. ASSUME NEW status, AnswerInvitation(status) PROVE TokenInv'
    BY <2>1, NoStep DEF AnswerInvitation, account, tokens, mails
  <2>2. ASSUME NEW kind, NEW t, Arrive(kind, t) PROVE TokenInv'
    BY <2>2, NoStep DEF Arrive, account, tokens
  <2>3. CASE UNCHANGED vars
    BY <2>3, NoStep DEF vars, account, mails
  <2>4. QED
    BY <1>2, <2>1, <2>2, <2>3, OtherToken DEF Next
<1>3. QED
  BY <1>1, <1>2

LEMMA TokenInit == Init => TokenInv
<1> SUFFICES ASSUME Init PROVE TokenInv
  OBVIOUS
<1>1. \A kind \in Kinds : handed[kind] = {}
  BY DEF Init
<1>2. \A kind \in Kinds : handed[kind] = {} /\ Latest(kind) = {} /\ Live(kind) = {}
  BY <1>1 DEF Latest, Live
<1>3. Working /\ Unused
  BY <1>2, AccountsAssumption DEF Init, Working, Unused, Current
<1>4. Knowing /\ Alone
  BY DEF Init, Knowing, Held, Alone, Idle
<1>5. Numbered /\ OneRow
  BY <1>2, AccountsAssumption DEF Init, Numbered, OneRow
<1>6. QED
  BY <1>2, <1>3, <1>4, <1>5 DEF Init, TokenInv

\* The invariants of the tokens, together.
LEMMA AccountsInvariant == Spec => [](Typed /\ VerifiableInv /\ LinkInv /\ TokenInv)
<1>1. Init => Typed /\ VerifiableInv /\ LinkInv /\ TokenInv
  BY TypedInit, TokenInit, LinkInit, VerifiableInit
<1>2. Typed /\ VerifiableInv /\ LinkInv /\ TokenInv /\ [Next]_vars
        => (Typed /\ VerifiableInv /\ LinkInv /\ TokenInv)'
  BY TypedStep, VerifiableStep, LinkStep, TokenStep
<1>3. QED
  BY <1>1, <1>2, PTL DEF Spec

\* However late and in whatever order mails arrive, of each kind only the token that
\* was issued last opens anything: the link of a verification whatever overlaps or
\* dies, the others where requests follow each other.  Where none overlapped or
\* died, it does so until it was used, the user verified, or while there is no
\* password to reset.
THEOREM LatestMailWorksAlways == Spec => []LatestMailWorks
<1>1. Typed /\ LinkInv => Live(Link) \subseteq Latest(Link)
  <2> SUFFICES ASSUME Typed, LinkInv, NEW r \in RowsOf(Link), r.token \in handed[Link],
                      NEW x \in handed[Link]
               PROVE  x <= r.token
    BY DEF Live, Latest
  <2>1. r \in Verification /\ r.token # 0
    BY MailedType DEF RowsOf, Verification, Link, Kinds, Typed
  <2>2. QED
    BY <2>1 DEF LinkInv, Older
<1>2. Typed /\ LinkInv /\ TokenInv => LatestMailWorks
  <2> SUFFICES ASSUME Typed, LinkInv, TokenInv,
                      NEW kind \in Kinds \ {"PurchaserInviteToken"}
               PROVE  /\ kind = Link \/ Serial => Opens(kind) \subseteq Latest(kind)
                      /\ faults = {} /\ AllIdle => \A t \in Latest(kind) :
                           \/ t \in Opens(kind)
                           \/ NoPassword(kind)
                           \/ kind = Link /\ user.isEmailVerified
                           \/ uses[t] > 0
    BY DEF LatestMailWorks, Link
  <2>1. Opens(kind) \subseteq Live(kind) /\ (NoPassword(kind) \/ Opens(kind) = Live(kind))
    BY DEF Opens
  <2>2. kind = Link \/ Serial => Opens(kind) \subseteq Latest(kind)
    BY <1>1, <2>1 DEF TokenInv
  <2>3. faults = {} /\ AllIdle => Current(kind)
    BY DEF TokenInv, Working, AllIdle, Idle, Serial
  <2>4. QED
    BY <2>1, <2>2, <2>3 DEF Current, Link
<1>3. QED
  BY <1>1, <1>2, AccountsInvariant, PTL

\* Where requests neither overlap nor die, a link or a one-time password changes
\* the password once.
THEOREM TokenWorksOnceAlways == Spec => []TokenWorksOnce
<1>1. Typed /\ TokenInv => TokenWorksOnce
  BY DEF Typed, TokenInv, Unused, TokenWorksOnce, Serial
<1>2. QED
  BY <1>1, AccountsInvariant, PTL
=============================================================================
