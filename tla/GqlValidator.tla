---------------------------- MODULE GqlValidator ----------------------------
(***************************************************************************)
(* One GQL request of engine/gql from its sender to the validator's        *)
(* verdict: it is encoded into a frame, may lose its tail on the way, is   *)
(* decoded, and passes the two stages of ValidateFrame.  Stage 2 asks the  *)
(* session four questions one after the other, with no lock around them,   *)
(* while the session is locked and unlocked by others.                     *)
(***************************************************************************)
EXTENDS GqlCodec

CONSTANTS
  Queries,    \* what senders ask
  Users,      \* user IDs; a namespace is one of them or some other text
  MaxChanges  \* bounds how often the session changes

ASSUME ValidatorAssumption ==
  /\ \A q \in Queries : IsGQLQuery(q)
  /\ <<>> \notin Users /\ MaxChanges \in Nat

VARIABLES
  session,   \* what the daemon's SessionInfo would answer
  sent,      \* the sender's query
  data,      \* the frame's bytes on the way
  pc,        \* where the validator stands, and its verdict
  query,     \* the decoded query
  userID,    \* what session.UserID() returned
  changes,
  \* History of the run, read by properties only.
  seen       \* the sessions there were since stage 2 began

requestVars == <<session, sent, data, pc, query, userID, changes, seen>>
messageVars == <<sent, data, query>>

\* SessionInfo: IsUnlocked, whether ActiveHandle is not empty, UserID, which is
\* empty before authentication, and HasRole("admin").
Locked == [unlocked |-> FALSE, handle |-> FALSE, user |-> <<>>, admin |-> FALSE]
UnlockedBy(u, h, a) == [unlocked |-> TRUE, handle |-> h, user |-> u, admin |-> a]

-----------------------------------------------------------------------------

RequestInit ==
  /\ session \in {Locked} \cup {UnlockedBy(u, TRUE, FALSE) : u \in Users}
  /\ sent \in Queries
  /\ data = <<>> /\ pc = "compose"
  /\ query = Malformed /\ userID = <<>>
  /\ changes = 0 /\ seen = {}

\* NewQueryFrame and Frame.Encode; or a frame that no client should send here.
Send ==
  /\ pc = "compose" /\ pc' = "wire"
  /\ \/ \E order \in SetToSeqs(DOMAIN sent.fields) :
          data' = NewQueryFrame(sent, order)
     \/ data' \in {NewResultFrame(<<0>>), NewErrorFrame(<<0>>)}
  /\ UNCHANGED <<session, sent, query, userID, changes, seen>>

\* The tail of the frame is lost in transit.
Cut ==
  /\ pc = "wire" /\ pc' = "cut"
  /\ \E n \in 0 .. Len(data) - 1 : data' = SubSeq(data, 1, n)
  /\ UNCHANGED <<session, sent, query, userID, changes, seen>>

\* DecodeFrame and stage 1; RESULT and ERROR frames end with neither a query
\* nor an error.
Receive ==
  /\ pc \in {"wire", "cut"}
  /\ IF ~ FrameDecodes(data) THEN pc' = "refused" /\ UNCHANGED <<query, seen>>
     ELSE IF data[2] \in {RESULT, ERROR}
          THEN pc' = "nothing" /\ UNCHANGED <<query, seen>>
          ELSE /\ query' = Stage1(data)
               /\ pc' = IF query' = Malformed THEN "refused" ELSE "unlocked?"
               /\ seen' = {session}
  /\ UNCHANGED <<session, sent, data, userID, changes>>

\* validateACL starts; having no session at all is refused like a locked one.
CheckUnlocked ==
  /\ pc = "unlocked?"
  /\ pc' = IF session.unlocked THEN "handle?" ELSE "refused"
  /\ UNCHANGED <<session, messageVars, userID, changes, seen>>

\* ActiveHandle is empty when the session is locked, or was unlocked with an empty
\* handle; then the credentials.
CheckHandle ==
  /\ pc = "handle?"
  /\ pc' = IF \/ ~ session.handle
              \/ isWriteOperation(query.operation) /\ query.credentials = <<>>
           THEN "refused" ELSE "user?"
  /\ UNCHANGED <<session, messageVars, userID, changes, seen>>

\* With the empty user ID, of an anonymous or a locked session, any namespace will
\* do.
CheckUser ==
  /\ pc = "user?"
  /\ userID' = session.user
  /\ pc' = IF session.user \in {<<>>, query.namespace} THEN "accepted"
                                                       ELSE "admin?"
  /\ UNCHANGED <<session, messageVars, changes, seen>>

\* Slip: the role is taken for granted.
CheckAdmin_Anyone ==
  /\ pc = "admin?" /\ pc' = "accepted"
  /\ UNCHANGED <<session, messageVars, userID, changes, seen>>

CheckAdmin ==
  /\ pc = "admin?"
  /\ pc' = IF session.admin THEN "accepted" ELSE "refused"
  /\ UNCHANGED <<session, messageVars, userID, changes, seen>>

\* Somebody locks the session, or unlocks it for some user with some handle.
ChangeSession ==
  /\ changes < MaxChanges /\ changes' = changes + 1
  /\ \/ session' = Locked
     \/ \E u \in Users \cup {<<>>}, h, a \in BOOLEAN : session' = UnlockedBy(u, h, a)
  /\ seen' = IF seen = {} \/ pc \in {"accepted", "refused"} THEN seen
                                                            ELSE seen \cup {session'}
  /\ UNCHANGED <<messageVars, pc, userID>>

RequestNext ==
  \/ Send \/ Cut \/ Receive
  \/ CheckUnlocked \/ CheckHandle \/ CheckUser \/ CheckAdmin
  \/ ChangeSession

RequestSpec == RequestInit /\ [][RequestNext]_requestVars

-----------------------------------------------------------------------------

\* What the wire format can carry.
Encodable(q) ==
  /\ Cardinality(DOMAIN q.fields) <= MaxFieldsCount
  /\ \A s \in {q.operation, q.namespace, q.entryID, q.category, q.title,
               q.credentials} \cup DOMAIN q.fields
              \cup {q.fields[k] : k \in DOMAIN q.fields} : Len(s) < Radix

\* Decoding inverts encoding, in whatever order the map yields its fields, and
\* no part of a frame passes for the whole: the validator accepts the query that
\* was sent or none, as long as counts and lengths fit their place on the wire.
AcceptedAsSent ==
  pc = "accepted" /\ Encodable(sent) => query = sent

\* The namespace rule, of one session at one moment.
MayUse(s, namespace) == s.user \in {<<>>, namespace} \/ s.admin

\* However the session changes between the four questions, an accepted query met
\* an unlocked session with a handle and brings the credentials a write needs;
\* and some unlocked session of the time may use its namespace, unless the session
\* was locked meanwhile (see NamespaceMatches).  So when the session stands still,
\* that session gave every right the query needed.
AccessJustified ==
  pc = "accepted" =>
    /\ \E s \in seen : s.unlocked /\ s.handle
    /\ isWriteOperation(query.operation) => query.credentials # <<>>
    /\ Locked \in seen \/ \E s \in seen : s.unlocked /\ MayUse(s, query.namespace)

-----------------------------------------------------------------------------
(* A statement of the program that its code does not keep.                 *)

\* validator.go:61-63, "Session must be unlocked for any operation [...] Namespace
\* must match session UserID (RBAC)": the namespace was one that some unlocked
\* session of the time may use.  The code asks for UserID (validator.go:261) after
\* and apart from IsUnlocked, and a locked session has none.
NamespaceMatches ==
  pc = "accepted" => \E s \in seen : s.unlocked /\ MayUse(s, query.namespace)

=============================================================================
