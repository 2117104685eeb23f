------------------------------ MODULE Accounts ------------------------------
(***************************************************************************)
(* One account (AuthService): signing up with a password or with Google,   *)
(* the links and one-time passwords that reach the user by mail, the       *)
(* password, the role and the profile, and the invitation of the user by   *)
(* a purchaser.  A request is several queries; between two of them other   *)
(* requests about the same account may run.                                *)
(*                                                                         *)
(* A token stands for what is signed or drawn at random: a number that     *)
(* was not used before.  The database promises unique e-mail addresses and *)
(* unique pairs of purchaser and collaborator, and nothing about tokens.   *)
(* Mails are handed to a service and not waited for: they arrive late, in  *)
(* any order, or never.                                                    *)
(***************************************************************************)
EXTENDS Integers

CONSTANTS
  Calls,         \* requests that can be in flight at the same time
  Passwords,     \* what the user may choose
  None,          \* null in a column
  Roles,         \* bound: what the user may select
  Profile,       \* bound: parts of the profile the user fills in
  Answers,       \* bound: answers to an invitation
  MaxTokens,     \* bound: tokens that can be issued
  FaultSets      \* what can happen: sets of "overlap", "death"

AcceptedStatus == {"PENDING", "ACCEPTED", "REJECTED"}
UserRow ==
  [password : Passwords \cup {None}, isEmailVerified : BOOLEAN,
   role : Roles \cup {None}, complete : SUBSET Profile]

ASSUME AccountsAssumption ==
  /\ None \notin Passwords \cup Roles \cup AcceptedStatus \cup UserRow
  /\ Roles \subseteq {"PROVIDER", "PURCHASER"}
  /\ Answers \subseteq AcceptedStatus
  /\ Profile \subseteq {"about", "address", "experience"}
  /\ MaxTokens \in Nat
  /\ FaultSets \subseteq SUBSET {"overlap", "death"}

VARIABLES
  faults,         \* what can happen in this behaviour
  user,           \* the row of table User, if there is one
  session,        \* whether the user has logged in
  profile,        \* rows of tables About, Address and Experiences
  rows,           \* rows of table VerficationToken
  issued,         \* tokens so far
  handed,         \* per kind, the tokens handed to the mail service
  mailed,         \* per kind, those that reached the user so far
  uses,           \* per token, how often it changed the password: 2 is more than once
  collaborator,   \* accpetedStatus of the row of table Collaborators, or None
  request         \* per call: where it is and what it read

account == <<user, session, profile>>
tokens == <<rows, issued, uses>>
mails == <<handed, mailed>>
vars == <<faults, account, tokens, mails, collaborator, request>>

Kinds == {"EmailVerificationToken", "ForgotPasswordToken", "OTP",
          "PurchaserInviteToken"}
EXPIRED == 0

Exists == user # None
RowsOf(kind) == {r \in rows : r.tokenType = kind}
Holding(kind, t) == {r \in RowsOf(kind) : r.token = t}

NewUser(password, verified) ==
  [password |-> password, isEmailVerified |-> verified, role |-> None,
   complete |-> {}]

Idle == [at |-> "idle"]
AllIdle == \A c \in Calls : request[c] = Idle
Goto(c, r) == request' = [request EXCEPT ![c] = r]
End(c) == Goto(c, Idle)

\* The row a token will be written to, 0 for a new one.
Found(kind, row) == [at |-> "write", kind |-> kind, row |-> row]

\* A new request; only where requests overlap is it not the only one.
Start(c) ==
  /\ request[c] = Idle
  /\ "overlap" \in faults \/ AllIdle

-----------------------------------------------------------------------------
\* basicSignup finds no user of that address.
SignUp(c, password) ==
  /\ Start(c)
  /\ ~Exists
  /\ Goto(c, [at |-> "signing", password |-> password])
  /\ UNCHANGED <<faults, account, tokens, mails, collaborator>>

FaultyCreateUser(c) ==                \* faulty: an address registered meanwhile
  /\ request[c].at = "signing"        \* is not refused
  /\ user' = IF Exists THEN user ELSE NewUser(request[c].password, FALSE)
  /\ Goto(c, Found("EmailVerificationToken", 0))
  /\ UNCHANGED <<faults, session, profile, tokens, mails, collaborator>>

\* The address is unique.  The row of the token is another query.
CreateUser(c) ==
  /\ request[c].at = "signing"
  /\ IF Exists
     THEN End(c) /\ UNCHANGED user
     ELSE /\ user' = NewUser(request[c].password, FALSE)
          /\ Goto(c, Found("EmailVerificationToken", 0))
  /\ UNCHANGED <<faults, session, profile, tokens, mails, collaborator>>

\* validateGoogleUser: logs in, as a new user if there is none.
GoogleLogin(c) ==
  /\ Start(c)
  /\ IF Exists
     THEN session' = TRUE /\ UNCHANGED request
     ELSE Goto(c, [at |-> "joining"]) /\ UNCHANGED session
  /\ UNCHANGED <<faults, user, profile, tokens, mails, collaborator>>

CreateGoogleUser(c) ==
  /\ request[c].at = "joining"
  /\ IF Exists
     THEN UNCHANGED <<user, session>>
     ELSE /\ user' = NewUser(None, TRUE)
          /\ session' = TRUE
  /\ End(c)
  /\ UNCHANGED <<faults, profile, tokens, mails, collaborator>>

\* basicLogin with the right password: who is not verified gets a new link.
Login(c) ==
  /\ Start(c)
  /\ Exists /\ user.password # None
  /\ IF user.isEmailVerified
     THEN session' = TRUE /\ UNCHANGED request
     ELSE Goto(c, [at |-> "resend"]) /\ UNCHANGED session
  /\ UNCHANGED <<faults, user, profile, tokens, mails, collaborator>>

\* resendVerifyEmail reads the user, on its own or called by basicLogin.
Resend(c) ==
  /\ Start(c) \/ request[c].at = "resend"
  /\ Exists
  /\ IF user.isEmailVerified
     THEN End(c)
     ELSE Goto(c, [at |-> "find", kind |-> "EmailVerificationToken"])
  /\ UNCHANGED <<faults, account, tokens, mails, collaborator>>

-----------------------------------------------------------------------------
\* sendResetPassword.
SendResetPassword(c) ==
  /\ Start(c)
  /\ Exists
  /\ Goto(c, [at |-> "find", kind |-> "ForgotPasswordToken"])
  /\ UNCHANGED <<faults, account, tokens, mails, collaborator>>

\* sendOtp, for a user who is logged in.
SendOtp(c) ==
  /\ Start(c)
  /\ session
  /\ Goto(c, [at |-> "find", kind |-> "OTP"])
  /\ UNCHANGED <<faults, account, tokens, mails, collaborator>>

\* inviteUser, by a purchaser: neither a purchaser nor someone invited before.
InviteUser(c) ==
  /\ Start(c)
  /\ Exists /\ user.role # "PURCHASER"
  /\ collaborator = None
  /\ Goto(c, [at |-> "find", kind |-> "PurchaserInviteToken"])
  /\ UNCHANGED <<faults, account, tokens, mails, collaborator>>

\* getToken returns any row of the kind.  Without one, another kind of token gets
\* its row now; a verification does not, resendVerifyEmail throws.
FindRow(c) ==
  /\ request[c].at = "find"
  /\ LET kind == request[c].kind IN
     \/ \E r \in RowsOf(kind) : Goto(c, Found(kind, r.id))
     \/ /\ RowsOf(kind) = {}
        /\ IF kind = "EmailVerificationToken" THEN End(c) ELSE Goto(c, Found(kind, 0))
  /\ UNCHANGED <<faults, account, tokens, mails, collaborator>>

FaultyWritten(r, t) ==                \* faulty: the old row stays
  rows \cup {[id |-> t, tokenType |-> r.kind, token |-> t]}

\* updateToken of the row that was found, addToken if there was none.
Written(r, t) ==
  IF r.row = 0
  THEN rows \cup {[id |-> t, tokenType |-> r.kind, token |-> t]}
  ELSE {IF q.id = r.row THEN [q EXCEPT !.token = t] ELSE q : q \in rows}

\* The row may be gone by now: updateToken throws.
WriteRow(c) ==
  LET r == request[c]
      t == issued + 1 IN
  /\ r.at = "write"
  /\ t <= MaxTokens
  /\ IF r.row = 0 \/ \E q \in rows : q.id = r.row
     THEN /\ rows' = Written(r, t)
          /\ issued' = t
          /\ Goto(c, [at |-> IF r.kind = "PurchaserInviteToken" THEN "collaborate"
                             ELSE "mail",
                      kind |-> r.kind, token |-> t])
     ELSE End(c) /\ UNCHANGED <<rows, issued>>
  /\ UNCHANGED <<faults, account, uses, mails, collaborator>>

\* addCollaborators; the pair is unique.
AddCollaborator(c) ==
  /\ request[c].at = "collaborate"
  /\ IF collaborator = None
     THEN /\ collaborator' = "PENDING"
          /\ Goto(c, [request[c] EXCEPT !.at = "mail"])
     ELSE End(c) /\ UNCHANGED collaborator
  /\ UNCHANGED <<faults, account, tokens, mails>>

\* sendEmail hands the mail over; whether it leaves, nobody waits for or learns.
Mail(c) ==
  LET r == request[c] IN
  /\ r.at = "mail"
  /\ handed' = [handed EXCEPT ![r.kind] = @ \cup {r.token}]
  /\ End(c)
  /\ UNCHANGED <<faults, account, tokens, mailed, collaborator>>

\* A mail arrives at last: in any order, and those that are lost never do.
Arrive(kind, t) ==
  /\ t \in handed[kind] \ mailed[kind]
  /\ mailed' = [mailed EXCEPT ![kind] = @ \cup {t}]
  /\ UNCHANGED <<faults, account, tokens, handed, collaborator, request>>

-----------------------------------------------------------------------------
\* verifyEmail: the row of the link is read, the user updated, the row expired.
VerifyEmail(c, t) ==
  /\ Start(c)
  /\ \E r \in Holding("EmailVerificationToken", t) :
       Goto(c, [at |-> "verify", row |-> r.id])
  /\ UNCHANGED <<faults, account, tokens, mails, collaborator>>

SetVerified(c) ==
  /\ request[c].at = "verify"
  /\ user' = [user EXCEPT !.isEmailVerified = TRUE]
  /\ Goto(c, [request[c] EXCEPT !.at = "expire"])
  /\ UNCHANGED <<faults, session, profile, tokens, mails, collaborator>>

ExpireRow(c) ==
  /\ request[c].at = "expire"
  /\ rows' = {IF r.id = request[c].row THEN [r EXCEPT !.token = EXPIRED] ELSE r :
                r \in rows}
  /\ End(c)
  /\ UNCHANGED <<faults, account, issued, uses, mails, collaborator>>

\* What a request that will change the password keeps in hand.
Changing(row, t, password) ==
  [at |-> "change", row |-> row, token |-> t, password |-> password]

\* resetPassword.  It compares with the password there is, and throws without one.
ResetPassword(c, t, password) ==
  /\ Start(c)
  /\ user.password \notin {None, password}
  /\ \E r \in Holding("ForgotPasswordToken", t) :
       Goto(c, Changing(r.id, t, password))
  /\ UNCHANGED <<faults, account, tokens, mails, collaborator>>

\* resetPasswordWithOTP looks at one of the rows, whichever comes first.
ResetPasswordWithOTP(c, t, password) ==
  /\ Start(c)
  /\ session
  /\ \E r \in Holding("OTP", t) : Goto(c, Changing(r.id, t, password))
  /\ UNCHANGED <<faults, account, tokens, mails, collaborator>>

\* changePassword, with the right old password.
ChangePassword(c, password) ==
  /\ Start(c)
  /\ session
  /\ user.password \notin {None, password}
  /\ Goto(c, Changing(0, 0, password))
  /\ UNCHANGED <<faults, account, tokens, mails, collaborator>>

SetPassword(c) ==
  LET r == request[c] IN
  /\ r.at = "change"
  /\ user' = [user EXCEPT !.password = r.password]
  /\ IF r.row = 0
     THEN End(c) /\ UNCHANGED uses
     ELSE /\ uses' = [uses EXCEPT ![r.token] = IF @ = 0 THEN 1 ELSE 2]
          /\ Goto(c, [at |-> "delete", row |-> r.row])
  /\ UNCHANGED <<faults, session, profile, rows, issued, mails, collaborator>>

FaultyDeleteRow(c) ==                 \* faulty: the row stays
  /\ request[c].at = "delete"
  /\ End(c)
  /\ UNCHANGED <<faults, account, tokens, mails, collaborator>>

\* deleteToken, of the row that was read, whatever it holds by now; it throws when
\* the row is gone, and the password stays changed.
DeleteRow(c) ==
  /\ request[c].at = "delete"
  /\ rows' = {r \in rows : r.id # request[c].row}
  /\ End(c)
  /\ UNCHANGED <<faults, account, issued, uses, mails, collaborator>>

-----------------------------------------------------------------------------
\* selectRole: of a user who has none.
SelectRole(c, role) ==
  /\ Start(c)
  /\ session
  /\ user.role = None
  /\ Goto(c, [at |-> "role", role |-> role])
  /\ UNCHANGED <<faults, account, tokens, mails, collaborator>>

SetRole(c) ==
  /\ request[c].at = "role"
  /\ user' = [user EXCEPT !.role = request[c].role]
  /\ End(c)
  /\ UNCHANGED <<faults, session, profile, tokens, mails, collaborator>>

\* about, address and experience, the last for providers: the guard of the route
\* read the user, a row is written, then the flag of the user.
FillIn(c, part) ==
  /\ Start(c)
  /\ session
  /\ part = "experience" => user.role = "PROVIDER"
  /\ Goto(c, [at |-> "fill", part |-> part])
  /\ UNCHANGED <<faults, account, tokens, mails, collaborator>>

WriteProfile(c) ==
  /\ request[c].at = "fill"
  /\ profile' = profile \cup {request[c].part}
  /\ Goto(c, [request[c] EXCEPT !.at = "flag"])
  /\ UNCHANGED <<faults, user, session, tokens, mails, collaborator>>

SetComplete(c) ==
  /\ request[c].at = "flag"
  /\ user' = [user EXCEPT !.complete = @ \cup {request[c].part}]
  /\ End(c)
  /\ UNCHANGED <<faults, session, profile, tokens, mails, collaborator>>

\* addToUsedUsers: the answer to an invitation, and any other one after it.
AnswerInvitation(status) ==
  /\ session
  /\ collaborator # None
  /\ collaborator' = status
  /\ UNCHANGED <<faults, account, tokens, mails, request>>

\* A request ends between two queries: the process died, or the database failed.
Die(c) ==
  /\ "death" \in faults
  /\ request[c] # Idle
  /\ End(c)
  /\ UNCHANGED <<faults, account, tokens, mails, collaborator>>

-----------------------------------------------------------------------------
Init ==
  /\ faults \in FaultSets
  /\ user = None
  /\ session = FALSE
  /\ profile = {}
  /\ rows = {}
  /\ issued = 0
  /\ handed = [k \in Kinds |-> {}]
  /\ mailed = [k \in Kinds |-> {}]
  /\ uses = [t \in 1 .. MaxTokens |-> 0]
  /\ collaborator = None
  /\ request = [c \in Calls |-> Idle]

\* Requests that sign up, log in and get a link verified.
Register(c) ==
  \/ \E p \in Passwords : SignUp(c, p)
  \/ CreateUser(c) \/ GoogleLogin(c) \/ CreateGoogleUser(c)
  \/ Login(c) \/ Resend(c)
  \/ \E t \in mailed["EmailVerificationToken"] : VerifyEmail(c, t)
  \/ SetVerified(c) \/ ExpireRow(c)

\* Requests that send a token.
Send(c) ==
  \/ SendResetPassword(c) \/ SendOtp(c) \/ InviteUser(c)
  \/ FindRow(c) \/ WriteRow(c) \/ AddCollaborator(c) \/ Mail(c)

\* Requests that change the password.
Replace(c) ==
  \/ \E p \in Passwords :
       \/ \E t \in mailed["ForgotPasswordToken"] : ResetPassword(c, t, p)
       \/ \E t \in mailed["OTP"] : ResetPasswordWithOTP(c, t, p)
       \/ ChangePassword(c, p)
  \/ SetPassword(c) \/ DeleteRow(c)

\* Requests that describe the user.
Describe(c) ==
  \/ \E role \in Roles : SelectRole(c, role)
  \/ SetRole(c)
  \/ \E part \in Profile : FillIn(c, part)
  \/ WriteProfile(c) \/ SetComplete(c)

Next ==
  \/ \E c \in Calls :
       Register(c) \/ Send(c) \/ Replace(c) \/ Describe(c) \/ Die(c)
  \/ \E status \in Answers : AnswerInvitation(status)
  \/ \E kind \in Kinds : \E t \in handed[kind] : Arrive(kind, t)

Spec == Init /\ [][Next]_vars

-----------------------------------------------------------------------------
Serial == "overlap" \notin faults

\* Of the tokens of a kind that were handed to the mail service, those a row still
\* holds, those that open something, and the one issued last.  A reset link opens
\* nothing where there is no password to compare with (resetPassword throws).
Live(kind) == {r.token : r \in RowsOf(kind)} \cap handed[kind]
NoPassword(kind) ==
  kind = "ForgotPasswordToken" /\ Exists /\ user.password = None
Opens(kind) == IF NoPassword(kind) THEN {} ELSE Live(kind)
Latest(kind) == {t \in handed[kind] : \A s \in handed[kind] : s <= t}

Requests ==
  [at : {"idle", "joining", "resend"}]
  \cup [at : {"signing"}, password : Passwords]
  \cup [at : {"find"}, kind : Kinds]
  \cup [at : {"write"}, kind : Kinds, row : 0 .. MaxTokens]
  \cup [at : {"collaborate", "mail"}, kind : Kinds, token : 1 .. MaxTokens]
  \cup [at : {"verify", "expire", "delete"}, row : 1 .. MaxTokens]
  \cup [at : {"change"}, row : 0 .. MaxTokens, token : 0 .. MaxTokens,
        password : Passwords]
  \cup [at : {"role"}, role : Roles]
  \cup [at : {"fill", "flag"}, part : Profile]

\* The columns of the tables (schema.prisma), and what requests carry.
TypeOK ==
  /\ user \in {None} \cup UserRow
  /\ session \in BOOLEAN
  /\ profile \subseteq Profile
  /\ rows \subseteq [id : 1 .. MaxTokens, tokenType : Kinds,
                     token : 0 .. MaxTokens]
  /\ issued \in 0 .. MaxTokens
  /\ handed \in [Kinds -> SUBSET (1 .. MaxTokens)]
  /\ mailed \in [Kinds -> SUBSET (1 .. MaxTokens)]
  /\ uses \in [1 .. MaxTokens -> 0 .. 2]
  /\ collaborator \in AcceptedStatus \cup {None}
  /\ request \in [Calls -> Requests]

\* Whoever signed up with a password and is not verified can ask for a new link:
\* the only place resendVerifyEmail writes to, the one row of that kind, is there
\* unless a request died.  It is one at most whatever happens (basicSignup, 93).
AlwaysVerifiable ==
  LET verification == RowsOf("EmailVerificationToken") IN
  /\ \A r, q \in verification : r = q
  /\ "death" \notin faults /\ AllIdle /\ Exists =>
       (user.isEmailVerified \/ verification # {})

\* Whatever arrives, and in which order, of the tokens of a kind that were handed
\* to the mail service only the one issued last opens anything: a newer mail puts
\* the older ones out of use even if it is lost.  The link of a verification keeps
\* this however requests overlap or die, the others where requests follow each
\* other (sendResetPassword, sendOtp, resendVerifyEmail).  With no request under
\* way, none having overlapped or died, the newest opens something until it was
\* used: the link of a verification until the user is verified, any other until it
\* changed the password; a reset link does not while a Google account has none.
LatestMailWorks ==
  \A kind \in Kinds \ {"PurchaserInviteToken"} :
    /\ kind = "EmailVerificationToken" \/ Serial => Opens(kind) \subseteq Latest(kind)
    /\ faults = {} /\ AllIdle => \A t \in Latest(kind) :
         \/ t \in Opens(kind)
         \/ NoPassword(kind)
         \/ kind = "EmailVerificationToken" /\ user.isEmailVerified
         \/ uses[t] > 0

\* A link or a one-time password changes the password once, where requests neither
\* overlap nor die: resetPassword and resetPasswordWithOTP delete its row last.
TokenWorksOnce ==
  faults = {} => \A t \in 1 .. MaxTokens : uses[t] <= 1
=============================================================================
