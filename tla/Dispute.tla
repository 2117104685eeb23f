------------------------------- MODULE Dispute -------------------------------
(***************************************************************************)
(* One dispute between two members of a project (DisputeService).  An      *)
(* administrator of the platform resolves it, both parties answer the      *)
(* resolution, either may go the legal way, which asks for a resolution    *)
(* anew, and the one who raised it may close it.  updateDispute reads the  *)
(* row, decides, and writes the columns it decided on: between the awaits  *)
(* other requests do the same.                                             *)
(***************************************************************************)
EXTENDS Integers

CONSTANTS
  Calls,              \* requests that can be in flight at the same time
  raisedBy, raisedTo, \* the parties
  MaxResolutions      \* bound: resolutions given in one dispute

ASSUME DisputeAssumption ==
  /\ raisedBy # raisedTo
  /\ MaxResolutions \in Nat

VARIABLES
  overlap,     \* whether requests overlap in this behaviour
  dispute,     \* the row of table Dispute
  given,       \* resolutions the administrator wrote, which numbers them
  body         \* per request: the update it is about to write

vars == <<overlap, dispute, given, body>>

DisputeStatus == {"INREVIEW", "CLOSED", "RESOLVED", "LEGALWAY"}
ResolutionType == {"FAQ", "WRITTEN"}
EndStates == {"CLOSED", "RESOLVED"}
Parties == {raisedBy, raisedTo}

\* What a party answered, and to which resolution.
Answer(agree, about) == [agree |-> agree, about |-> about]
Unanswered == Answer("null", 0)

AnswerOf(p) ==
  IF p = raisedBy THEN dispute.isRaisedByAgree ELSE dispute.isRaisedToAgree
Answered(p) == AnswerOf(p) # Unanswered

\* createDispute; resolution stands for the columns that describe one.
NewDispute ==
  [status |-> "INREVIEW", isMoAgree |-> "null", resolutionType |-> "null",
   resolution |-> 0, isRaisedByAgree |-> Unanswered,
   isRaisedToAgree |-> Unanswered, closed |-> FALSE]

Idle == [at |-> "none"]
AllIdle == \A c \in Calls : body[c] = Idle

-----------------------------------------------------------------------------
FaultyDecide(c, update) ==            \* faulty: CLOSED is not an end
  /\ body[c] = Idle
  /\ overlap \/ AllIdle
  /\ dispute.status # "RESOLVED"
  /\ body' = [body EXCEPT ![c] = update]
  /\ UNCHANGED <<overlap, dispute>>

\* updateDispute reads the dispute and rejects one that has ended; update is what
\* it will write.
Decide(c, update) ==
  /\ body[c] = Idle
  /\ overlap \/ AllIdle
  /\ dispute.status \notin EndStates
  /\ body' = [body EXCEPT ![c] = update]
  /\ UNCHANGED <<overlap, dispute>>

\* A written resolution of a dispute that had gone the legal way takes the answers
\* back.
Resolve(c, type) ==
  /\ dispute.resolutionType = "null" \/ dispute.status = "LEGALWAY"
  /\ given < MaxResolutions
  /\ given' = given + 1
  /\ Decide(c, [at |-> "resolve", type |-> type, resolution |-> given + 1,
                anew |-> type = "WRITTEN" /\ dispute.status = "LEGALWAY"])

FaultySettles(p) == TRUE              \* faulty: one answer is enough

\* Whether the answer of one party is the second one.
Settles(p) == \E q \in Parties \ {p} : Answered(q)

\* The second answer resolves the dispute, whatever the two of them are.
AnswerResolution(c, p, agree) ==
  /\ dispute.isMoAgree = "true"
  /\ ~Answered(p)
  /\ Decide(c, [at |-> "answer", by |-> p, settles |-> Settles(p),
                answer |-> Answer(agree, dispute.resolution)])
  /\ UNCHANGED given

\* Only the one who raised a dispute closes it.
Close(c) == Decide(c, [at |-> "close"]) /\ UNCHANGED given

\* Either party goes the legal way.
LegalWay(c) ==
  /\ dispute.isMoAgree # "null"
  /\ Decide(c, [at |-> "legalWay"])
  /\ UNCHANGED given

-----------------------------------------------------------------------------
\* The row after each of the updates.  An entry of the FAQ settles the dispute, a
\* written resolution waits for the parties.
WithResolution(u) ==
  [dispute EXCEPT !.resolutionType = u.type, !.resolution = u.resolution,
     !.isMoAgree = "true",
     !.status = IF u.type = "FAQ" THEN "RESOLVED" ELSE "INREVIEW",
     !.isRaisedByAgree = IF u.anew THEN Unanswered ELSE @,
     !.isRaisedToAgree = IF u.anew THEN Unanswered ELSE @]

WithAnswer(u) ==
  [dispute EXCEPT !.status = IF u.settles THEN "RESOLVED" ELSE @,
     !.isRaisedByAgree = IF u.by = raisedBy THEN u.answer ELSE @,
     !.isRaisedToAgree = IF u.by = raisedBy THEN @ ELSE u.answer]

FaultyClosed ==                       \* faulty: closing is not recorded
  [dispute EXCEPT !.status = "CLOSED"]
Closed == [dispute EXCEPT !.status = "CLOSED", !.closed = TRUE]

FaultyOpenAgain ==                    \* faulty: the answers are kept
  [dispute EXCEPT !.status = "LEGALWAY", !.isMoAgree = "null"]

\* What was resolved is open again.
OpenAgain ==
  [dispute EXCEPT !.status = "LEGALWAY", !.isMoAgree = "null",
     !.isRaisedByAgree = Unanswered, !.isRaisedToAgree = Unanswered]

\* The update by id, of the columns decided on before.
Write(c) ==
  LET u == body[c] IN
  /\ \/ u.at = "resolve" /\ dispute' = WithResolution(u)
     \/ u.at = "answer" /\ dispute' = WithAnswer(u)
     \/ u.at = "close" /\ dispute' = Closed
     \/ u.at = "legalWay" /\ dispute' = OpenAgain
  /\ body' = [body EXCEPT ![c] = Idle]
  /\ UNCHANGED <<overlap, given>>

\* A request that never gets to its update.
Lose(c) ==
  /\ body[c] # Idle
  /\ body' = [body EXCEPT ![c] = Idle]
  /\ UNCHANGED <<overlap, dispute, given>>

Init ==
  /\ overlap \in BOOLEAN
  /\ dispute = NewDispute
  /\ given = 0
  /\ body = [c \in Calls |-> Idle]

Next == \E c \in Calls :
  \/ \E type \in ResolutionType : Resolve(c, type)
  \/ \E p \in Parties, agree \in {"true", "false"} : AnswerResolution(c, p, agree)
  \/ Close(c)
  \/ LegalWay(c)
  \/ Write(c)
  \/ Lose(c)

Spec == Init /\ [][Next]_vars

-----------------------------------------------------------------------------
Answers == [agree : {"null", "true", "false"}, about : 0 .. MaxResolutions]

Updates ==
  [at : {"none", "close", "legalWay"}]
  \cup [at : {"resolve"}, type : ResolutionType, resolution : 1 .. MaxResolutions,
        anew : BOOLEAN]
  \cup [at : {"answer"}, by : Parties, settles : BOOLEAN,
        answer : Answers \ {Unanswered}]

\* The columns of the row (schema.prisma, Dispute).
TypeOK ==
  /\ overlap \in BOOLEAN
  /\ given \in 0 .. MaxResolutions
  /\ dispute \in [status : DisputeStatus, isMoAgree : {"null", "true"},
                  resolutionType : {"null"} \cup ResolutionType,
                  resolution : 0 .. MaxResolutions,
                  isRaisedByAgree : Answers, isRaisedToAgree : Answers,
                  closed : BOOLEAN]
  /\ body \in [Calls -> Updates]

\* However requests overlap: what counts as resolved has a resolution, and what
\* counts as closed was closed by the one who raised it (updateDispute, closed).
EndedForAReason ==
  /\ dispute.status = "RESOLVED" => dispute.resolutionType # "null"
  /\ dispute.status = "CLOSED" => dispute.closed

\* As long as requests do not overlap, a dispute that has ended stays as it is
\* (updateDispute, END_STATE).
DisputeEndsOnce ==
  [][~overlap /\ dispute.status \in EndStates => UNCHANGED dispute]_vars

\* As long as requests do not overlap, a dispute is resolved exactly when the
\* resolution is an entry of the FAQ or both parties have answered it: never
\* before, and nobody waits for an answer that is there (updateDispute, isAgree).
ResolvedWhenAnswered ==
  ~overlap =>
    (dispute.status = "RESOLVED" <=>
       dispute.resolutionType = "FAQ" \/ \A p \in Parties : Answered(p))

\* As long as requests do not overlap, an answer in the row is one to the
\* resolution in the row, and none is left when the parties have gone the legal
\* way (updateDispute, legalWay).
AnswersCurrent ==
  ~overlap =>
    \A p \in Parties : Answered(p) =>
      /\ AnswerOf(p).about = dispute.resolution
      /\ dispute.isMoAgree = "true"
=============================================================================
