---------------------------- MODULE DisputeProofs ----------------------------
(***************************************************************************)
(* Proofs about Dispute, for any number of requests and of resolutions.    *)
(***************************************************************************)
EXTENDS Dispute, TLAPS

\* Rows are dealt with column by column.
Row == [status : DisputeStatus, isMoAgree : {"null", "true"},
        resolutionType : {"null"} \cup ResolutionType,
        resolution : 0 .. MaxResolutions,
        isRaisedByAgree : Answers, isRaisedToAgree : Answers, closed : BOOLEAN]

LEMMA RowType == TypeOK => dispute \in Row
  BY DEF TypeOK, Row

LEMMA UnansweredType == Unanswered \in Answers
  BY DisputeAssumption DEF Unanswered, Answer, Answers

LEMMA IdleType == Idle \in Updates
  BY DEF Idle, Updates

\* What an update carries, by its kind.
LEMMA ReadUpdate ==
  ASSUME TypeOK, NEW c \in Calls
  PROVE  /\ body[c] \in Updates
         /\ body[c] = Idle <=> body[c].at = "none"
         /\ body[c].at = "resolve" =>
              /\ body[c].type \in ResolutionType
              /\ body[c].resolution \in 1 .. MaxResolutions
              /\ body[c].anew \in BOOLEAN
         /\ body[c].at = "answer" =>
              /\ body[c].by \in Parties /\ body[c].settles \in BOOLEAN
              /\ body[c].answer \in Answers /\ body[c].answer # Unanswered
<1>1. body[c] \in Updates
  BY DEF TypeOK
<1>2. body[c] = Idle <=> body[c].at = "none"
  BY <1>1 DEF Updates, Idle
<1>3. QED
  BY <1>1, <1>2 DEF Updates

LEMMA BodyType ==
  ASSUME TypeOK, NEW c \in Calls, NEW u \in Updates, body' = [body EXCEPT ![c] = u]
  PROVE  body' \in [Calls -> Updates]
  BY DEF TypeOK

\* The rows after the updates.
LEMMA WrittenType ==
  ASSUME TypeOK, NEW c \in Calls, Write(c)
  PROVE  dispute' \in Row
<1> DEFINE u == body[c]
<1>1. CASE u.at = "resolve" /\ dispute' = WithResolution(u)
  <2>1. u.resolution \in 0 .. MaxResolutions /\ u.type \in ResolutionType
    BY <1>1, ReadUpdate, DisputeAssumption
  <2>2. QED
    BY <1>1, <2>1, RowType, UnansweredType DEF WithResolution, Row, DisputeStatus
<1>2. CASE u.at = "answer" /\ dispute' = WithAnswer(u)
  BY <1>2, RowType, ReadUpdate DEF WithAnswer, Row, DisputeStatus
<1>3. CASE dispute' = Closed
  BY <1>3, RowType DEF Closed, Row, DisputeStatus
<1>4. CASE dispute' = OpenAgain
  BY <1>4, RowType, UnansweredType DEF OpenAgain, Row, DisputeStatus
<1>5. QED
  BY <1>1, <1>2, <1>3, <1>4 DEF Write

LEMMA TypeInit == Init => TypeOK
<1> SUFFICES ASSUME Init PROVE TypeOK
  OBVIOUS
<1>1. body \in [Calls -> Updates]
  BY IdleType DEF Init
<1>2. QED
  BY <1>1, UnansweredType, DisputeAssumption
     DEF Init, TypeOK, NewDispute, DisputeStatus

LEMMA TypeStep ==
  ASSUME TypeOK, [Next]_vars
  PROVE  TypeOK'
<1> USE DisputeAssumption
<1>1. ASSUME NEW c \in Calls, NEW type \in ResolutionType, Resolve(c, type)
      PROVE  TypeOK'
  <2> DEFINE u == [at |-> "resolve", type |-> type, resolution |-> given + 1,
                   anew |-> type = "WRITTEN" /\ dispute.status = "LEGALWAY"]
  <2>1. given' \in 1 .. MaxResolutions /\ given' = given + 1
    BY <1>1 DEF Resolve, TypeOK
  <2>2. u \in Updates
    BY <2>1 DEF Updates
  <2>3. body' = [body EXCEPT ![c] = u] /\ UNCHANGED <<overlap, dispute>>
    BY <1>1 DEF Resolve, Decide
  <2>4. QED
    BY <2>1, <2>2, <2>3, BodyType DEF TypeOK
<1>2. ASSUME NEW c \in Calls, NEW p \in Parties, NEW agree \in {"true", "false"},
             AnswerResolution(c, p, agree)
      PROVE  TypeOK'
  <2> DEFINE u == [at |-> "answer", by |-> p, settles |-> Settles(p),
                   answer |-> Answer(agree, dispute.resolution)]
  <2>1. Answer(agree, dispute.resolution) \in Answers \ {Unanswered}
    BY RowType DEF Row, Answer, Answers, Unanswered
  <2>2. Settles(p) \in BOOLEAN
    BY DEF Settles
  <2>3. u \in Updates
    BY <2>1, <2>2 DEF Updates
  <2>4. body' = [body EXCEPT ![c] = u] /\ UNCHANGED <<overlap, dispute, given>>
    BY <1>2 DEF AnswerResolution, Decide
  <2>5. QED
    BY <2>3, <2>4, BodyType DEF TypeOK
<1>3. ASSUME NEW c \in Calls, Close(c) \/ LegalWay(c)
      PROVE  TypeOK'
  <2>1. [at |-> "close"] \in Updates /\ [at |-> "legalWay"] \in Updates
    BY DEF Updates
  <2>2. QED
    BY <1>3, <2>1, BodyType DEF Close, LegalWay, Decide, TypeOK
<1>4. ASSUME NEW c \in Calls, Write(c)
      PROVE  TypeOK'
  BY <1>4, WrittenType, IdleType, BodyType DEF Write, TypeOK, Row
<1>5. ASSUME NEW c \in Calls, Lose(c)
      PROVE  TypeOK'
  BY <1>5, IdleType, BodyType DEF Lose, TypeOK
<1>6. CASE UNCHANGED vars
  BY <1>6 DEF vars, TypeOK
<1>7. QED
  BY <1>1, <1>2, <1>3, <1>4, <1>5, <1>6 DEF Next

\* The columns of the row and of the updates under way.
THEOREM DisputeTypeCorrect == Spec => []TypeOK
  BY TypeInit, TypeStep, PTL DEF Spec

-----------------------------------------------------------------------------
\* Answers are given to a resolution that is there.
ReasonInv ==
  /\ EndedForAReason
  /\ dispute.isMoAgree = "true" => dispute.resolutionType # "null"
  /\ \A c \in Calls : body[c].at = "answer" => dispute.resolutionType # "null"

\* However requests overlap: a dispute is resolved with a resolution and closed by
\* the one who raised it (updateDispute).
THEOREM AlwaysEndedForAReason == Spec => []EndedForAReason
<1>1. Init => ReasonInv
  BY DEF Init, ReasonInv, EndedForAReason, NewDispute, Idle
<1>2. TypeOK /\ ReasonInv /\ [Next]_vars => ReasonInv'
  <2> SUFFICES ASSUME TypeOK, ReasonInv, [Next]_vars PROVE ReasonInv'
    OBVIOUS
  <2>1. ASSUME NEW c \in Calls, NEW u, Decide(c, u),
               u.at = "answer" => dispute.resolutionType # "null"
        PROVE  ReasonInv'
    BY <2>1 DEF Decide, ReasonInv, EndedForAReason, TypeOK
  <2>2. ASSUME NEW c \in Calls, NEW type \in ResolutionType, Resolve(c, type)
        PROVE  ReasonInv'
    BY <2>1, <2>2 DEF Resolve
  <2>3. ASSUME NEW c \in Calls, NEW p \in Parties, NEW agree \in {"true", "false"},
               AnswerResolution(c, p, agree)
        PROVE  ReasonInv'
    BY <2>1, <2>3 DEF AnswerResolution, ReasonInv
  <2>4. ASSUME NEW c \in Calls, Close(c) \/ LegalWay(c)
        PROVE  ReasonInv'
    BY <2>1, <2>4 DEF Close, LegalWay
  <2>5. ASSUME NEW c \in Calls, Write(c)
        PROVE  ReasonInv'
    <3> DEFINE u == body[c]
    <3>1. \A d \in Calls : body'[d].at = "answer" => body[d].at = "answer"
      BY <2>5 DEF Write, TypeOK, Idle
    <3>2. CASE u.at = "resolve" /\ dispute' = WithResolution(u)
      BY <3>1, <3>2, RowType, ReadUpdate
         DEF WithResolution, Row, ReasonInv, EndedForAReason, ResolutionType
    <3>3. CASE u.at = "answer" /\ dispute' = WithAnswer(u)
      BY <3>1, <3>3, RowType DEF WithAnswer, Row, ReasonInv, EndedForAReason
    <3>4. CASE dispute' = Closed
      BY <3>1, <3>4, RowType DEF Closed, Row, ReasonInv, EndedForAReason
    <3>5. CASE dispute' = OpenAgain
      BY <3>1, <3>5, RowType DEF OpenAgain, Row, ReasonInv, EndedForAReason
    <3>6. QED
      BY <2>5, <3>2, <3>3, <3>4, <3>5 DEF Write
  <2>6. ASSUME NEW c \in Calls, Lose(c)
        PROVE  ReasonInv'
    BY <2>6 DEF Lose, ReasonInv, EndedForAReason, TypeOK, Idle
  <2>7. CASE UNCHANGED vars
    BY <2>7 DEF vars, ReasonInv, EndedForAReason
  <2>8. QED
    BY <2>2, <2>3, <2>4, <2>5, <2>6, <2>7 DEF Next
<1>3. ReasonInv => EndedForAReason
  BY DEF ReasonInv
<1>4. QED
  BY <1>1, <1>2, <1>3, DisputeTypeCorrect, PTL DEF Spec
-----------------------------------------------------------------------------
\* The columns of the two parties.
LEMMA Columns ==
  /\ AnswerOf(raisedBy) = dispute.isRaisedByAgree
  /\ AnswerOf(raisedTo) = dispute.isRaisedToAgree
  /\ Settles(raisedBy) <=> dispute.isRaisedToAgree # Unanswered
  /\ Settles(raisedTo) <=> dispute.isRaisedByAgree # Unanswered
  BY DisputeAssumption DEF AnswerOf, Settles, Answered, Parties

\* Where requests do not overlap: what the columns tell of each other, ...
Sound ==
  LET a == dispute.isRaisedByAgree
      b == dispute.isRaisedToAgree
  IN
  /\ dispute.status = "RESOLVED" <=>
       dispute.resolutionType = "FAQ" \/ (a # Unanswered /\ b # Unanswered)
  /\ dispute.resolutionType = "null" \/ dispute.status = "LEGALWAY" =>
       a = Unanswered /\ b = Unanswered
  /\ dispute.isMoAgree = "true" =>
       dispute.resolutionType # "null" /\ dispute.status # "LEGALWAY"
  /\ a # Unanswered => a.about = dispute.resolution /\ dispute.isMoAgree = "true"
  /\ b # Unanswered => b.about = dispute.resolution /\ dispute.isMoAgree = "true"

\* ... and what an update still knows of the row when it is written.
Fresh(u) ==
  /\ u # Idle => dispute.status \notin EndStates
  /\ u.at = "resolve" =>
       dispute.resolutionType = "null" \/ dispute.status = "LEGALWAY"
  /\ u.at = "answer" =>
       /\ dispute.isMoAgree = "true" /\ u.answer.about = dispute.resolution
       /\ u.by = raisedBy =>
            /\ dispute.isRaisedByAgree = Unanswered
            /\ u.settles <=> dispute.isRaisedToAgree # Unanswered
       /\ u.by = raisedTo =>
            /\ dispute.isRaisedToAgree = Unanswered
            /\ u.settles <=> dispute.isRaisedByAgree # Unanswered

AloneInv ==
  ~overlap =>
    /\ Sound
    /\ \A c \in Calls : Fresh(body[c])
    /\ \A c, d \in Calls : body[c] # Idle /\ body[d] # Idle => c = d

LEMMA IdleFresh == Fresh(Idle) /\ Fresh(Idle)'
  BY DEF Fresh, Idle

\* A request that decides on an update.
LEMMA DecideAlone ==
  ASSUME TypeOK, AloneInv, NEW c \in Calls, NEW u, Decide(c, u),
         ~overlap => Fresh(u)
  PROVE  AloneInv'
<1> SUFFICES ASSUME ~overlap
             PROVE  /\ Sound'
                    /\ \A d \in Calls : Fresh(body[d])'
                    /\ \A d, e \in Calls : body'[d] # Idle /\ body'[e] # Idle => d = e
  BY DEF AloneInv, Decide
<1>1. \A d \in Calls : body'[d] = IF d = c THEN u ELSE Idle
  BY DEF Decide, AllIdle, TypeOK
<1>2. Sound'
  BY DEF AloneInv, Sound, Decide
<1>3. \A d \in Calls : Fresh(body'[d])
  BY <1>1, IdleFresh
<1>4. \A d \in Calls : Fresh(body[d])'
  BY <1>3 DEF Fresh, Decide
<1>5. QED
  BY <1>1, <1>2, <1>4

\* A written update was fresh, and leaves the columns in order.
LEMMA WriteAlone ==
  ASSUME TypeOK, AloneInv, NEW c \in Calls, Write(c)
  PROVE  AloneInv'
<1> DEFINE u == body[c]
<1> SUFFICES ASSUME ~overlap
             PROVE  /\ Sound'
                    /\ \A d \in Calls : Fresh(body[d])'
                    /\ \A d, e \in Calls : body'[d] # Idle /\ body'[e] # Idle => d = e
  BY DEF AloneInv, Write
<1>1. u # Idle
  BY DEF Write, Idle
<1>2. \A d \in Calls : body'[d] = Idle
  BY <1>1 DEF Write, AloneInv, TypeOK
<1>3. Sound /\ Fresh(u)
  BY DEF AloneInv
<1>4. dispute.status \notin EndStates
  BY <1>1, <1>3 DEF Fresh
<1>5. CASE u.at = "resolve" /\ dispute' = WithResolution(u)
  <2>1. dispute.isRaisedByAgree = Unanswered /\ dispute.isRaisedToAgree = Unanswered
    BY <1>3, <1>5 DEF Fresh, Sound
  <2>2. /\ dispute'.isRaisedByAgree = Unanswered
        /\ dispute'.isRaisedToAgree = Unanswered
        /\ dispute'.resolutionType = u.type
        /\ dispute'.status = IF u.type = "FAQ" THEN "RESOLVED" ELSE "INREVIEW"
    BY <1>5, <2>1, RowType DEF WithResolution, Row
  <2>3. u.type \in ResolutionType
    BY <1>5, ReadUpdate
  <2>4. Sound'
    BY <2>2, <2>3 DEF Sound, ResolutionType, Unanswered, Answer
  <2>5. QED
    BY <1>2, <2>4, IdleFresh
<1>6. CASE u.at = "answer" /\ dispute' = WithAnswer(u)
  <2>1. u.by \in Parties /\ u.answer # Unanswered
    BY <1>6, ReadUpdate
  <2>2. /\ dispute'.isRaisedByAgree =
             IF u.by = raisedBy THEN u.answer ELSE dispute.isRaisedByAgree
        /\ dispute'.isRaisedToAgree =
             IF u.by = raisedBy THEN dispute.isRaisedToAgree ELSE u.answer
        /\ dispute'.status = IF u.settles THEN "RESOLVED" ELSE dispute.status
        /\ dispute'.resolutionType = dispute.resolutionType
        /\ dispute'.resolution = dispute.resolution
        /\ dispute'.isMoAgree = dispute.isMoAgree
    BY <1>6, RowType DEF WithAnswer, Row
  <2>3. /\ dispute.isMoAgree = "true" /\ u.answer.about = dispute.resolution
        /\ u.by = raisedBy =>
             /\ dispute.isRaisedByAgree = Unanswered
             /\ u.settles <=> dispute.isRaisedToAgree # Unanswered
        /\ u.by = raisedTo =>
             /\ dispute.isRaisedToAgree = Unanswered
             /\ u.settles <=> dispute.isRaisedByAgree # Unanswered
    BY <1>3, <1>6 DEF Fresh
  <2>4. dispute.status # "RESOLVED" /\ dispute.resolutionType # "FAQ"
    BY <1>3, <1>4 DEF Sound, EndStates
  <2>5. dispute.resolutionType # "null" /\ dispute.status # "LEGALWAY"
    BY <1>3, <2>3 DEF Sound
  <2>6. Sound'
    BY <1>3, <2>1, <2>2, <2>3, <2>4, <2>5 DEF Sound, Parties
  <2>7. QED
    BY <1>2, <2>6, IdleFresh
<1>7. CASE dispute' = Closed
  <2>1. dispute'.status = "CLOSED"
        /\ UNCHANGED <<dispute.isRaisedByAgree, dispute.isRaisedToAgree,
                       dispute.resolutionType, dispute.resolution, dispute.isMoAgree>>
    BY <1>7, RowType DEF Closed, Row
  <2>2. Sound'
    BY <1>3, <1>4, <2>1 DEF Sound, EndStates
  <2>3. QED
    BY <1>2, <2>2, IdleFresh
<1>8. CASE dispute' = OpenAgain
  <2>1. /\ dispute'.isRaisedByAgree = Unanswered
        /\ dispute'.isRaisedToAgree = Unanswered
        /\ dispute'.resolutionType = dispute.resolutionType
        /\ dispute'.status = "LEGALWAY" /\ dispute'.isMoAgree = "null"
    BY <1>8, RowType DEF OpenAgain, Row
  <2>2. dispute.resolutionType # "FAQ"
    BY <1>3, <1>4 DEF Sound, EndStates
  <2>3. Sound'
    BY <2>1, <2>2 DEF Sound, Unanswered, Answer
  <2>4. QED
    BY <1>2, <2>3, IdleFresh
<1>9. QED
  BY <1>5, <1>6, <1>7, <1>8 DEF Write
\* Where requests do not overlap, what one decides on still holds when it writes.
THEOREM AloneCorrect == Spec => []AloneInv
<1>1. Init => AloneInv
  <2> SUFFICES ASSUME Init PROVE AloneInv
    OBVIOUS
  <2>1. \A c \in Calls : body[c] = Idle
    BY DEF Init
  <2>2. Sound
    BY DEF Init, NewDispute, Sound
  <2>3. QED
    BY <2>1, <2>2, IdleFresh DEF AloneInv
<1>2. TypeOK /\ AloneInv /\ [Next]_vars => AloneInv'
  <2> SUFFICES ASSUME TypeOK, AloneInv, [Next]_vars PROVE AloneInv'
    OBVIOUS
  <2>1. ASSUME NEW c \in Calls, NEW type \in ResolutionType, Resolve(c, type)
        PROVE  AloneInv'
    <3> DEFINE u == [at |-> "resolve", type |-> type, resolution |-> given + 1,
                     anew |-> type = "WRITTEN" /\ dispute.status = "LEGALWAY"]
    <3>1. Fresh(u)
      BY <2>1 DEF Resolve, Decide, Fresh
    <3>2. Decide(c, u)
      BY <2>1 DEF Resolve
    <3>3. QED
      BY <3>1, <3>2, DecideAlone
  <2>2. ASSUME NEW c \in Calls, NEW p \in Parties, NEW agree \in {"true", "false"},
               AnswerResolution(c, p, agree)
        PROVE  AloneInv'
    <3> DEFINE u == [at |-> "answer", by |-> p, settles |-> Settles(p),
                     answer |-> Answer(agree, dispute.resolution)]
    <3>1. /\ dispute.isMoAgree = "true" /\ dispute.status \notin EndStates
          /\ AnswerOf(p) = Unanswered
      BY <2>2 DEF AnswerResolution, Decide, Answered
    <3>2. Fresh(u)
      BY <3>1, Columns, DisputeAssumption DEF Fresh, Parties, Answer
    <3>3. Decide(c, u)
      BY <2>2 DEF AnswerResolution
    <3>4. QED
      BY <3>2, <3>3, DecideAlone
  <2>3. ASSUME NEW c \in Calls, Close(c)
        PROVE  AloneInv'
    <3>1. Fresh([at |-> "close"])
      BY <2>3 DEF Close, Decide, Fresh
    <3>2. QED
      BY <2>3, <3>1, DecideAlone DEF Close
  <2>4. ASSUME NEW c \in Calls, LegalWay(c)
        PROVE  AloneInv'
    <3>1. Fresh([at |-> "legalWay"])
      BY <2>4 DEF LegalWay, Decide, Fresh
    <3>2. QED
      BY <2>4, <3>1, DecideAlone DEF LegalWay
  <2>5. ASSUME NEW c \in Calls, Lose(c)
        PROVE  AloneInv'
    <3>1. \A d \in Calls : body'[d] = IF d = c THEN Idle ELSE body[d]
      BY <2>5 DEF Lose, TypeOK
    <3>2. UNCHANGED <<overlap, dispute>>
      BY <2>5 DEF Lose
    <3>3. QED
      BY <3>1, <3>2, IdleFresh DEF AloneInv, Sound, Fresh
  <2>6. CASE UNCHANGED vars
    BY <2>6 DEF vars, AloneInv, Sound, Fresh
  <2>7. QED
    BY <2>1, <2>2, <2>3, <2>4, <2>5, <2>6, WriteAlone DEF Next
<1>3. QED
  BY <1>1, <1>2, DisputeTypeCorrect, PTL DEF Spec

\* As long as requests do not overlap, a dispute is resolved exactly when the
\* resolution is an entry of the FAQ or both parties have answered it.
THEOREM AlwaysResolvedWhenAnswered == Spec => []ResolvedWhenAnswered
<1>1. AloneInv => ResolvedWhenAnswered
  BY Columns DEF AloneInv, Sound, ResolvedWhenAnswered, Answered, Parties
<1>2. QED
  BY <1>1, AloneCorrect, PTL

\* As long as requests do not overlap, an answer in the row is one to the
\* resolution in the row.
THEOREM AlwaysAnswersCurrent == Spec => []AnswersCurrent
<1>1. AloneInv => AnswersCurrent
  BY Columns DEF AloneInv, Sound, AnswersCurrent, Answered, Parties
<1>2. QED
  BY <1>1, AloneCorrect, PTL

\* As long as requests do not overlap, a dispute that has ended stays as it is.
THEOREM EndsOnce == Spec => DisputeEndsOnce
<1>1. TypeOK /\ AloneInv /\ [Next]_vars =>
        [~overlap /\ dispute.status \in EndStates => UNCHANGED dispute]_vars
  <2> SUFFICES ASSUME AloneInv, NEW c \in Calls, Write(c), ~overlap
               PROVE  dispute.status \notin EndStates
    BY DEF Next, vars, Resolve, AnswerResolution, Close, LegalWay, Decide, Lose
  <2>1. body[c] # Idle /\ Fresh(body[c])
    BY DEF Write, Idle, AloneInv
  <2>2. QED
    BY <2>1 DEF Fresh
<1>2. QED
  BY <1>1, DisputeTypeCorrect, AloneCorrect, PTL DEF Spec, DisputeEndsOnce
=============================================================================
