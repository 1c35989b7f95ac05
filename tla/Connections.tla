---------------------------- MODULE Connections ----------------------------
(***************************************************************************)
(* Saved connections: create, update, delete, test and query, and the       *)
(* queries of connections that are not saved (internal/connections).        *)
(*                                                                          *)
(* A step is one statement, or one call that leaves the process.  Test and  *)
(* Query read the configuration and the secret by two statements, dial, and *)
(* Test writes its result by a third; edits fit in between.  A statement    *)
(* that fails ends the request without effect.                              *)
(***************************************************************************)
EXTENDS Integers

CONSTANTS
    Ids,      \* connection ids, in the order of creation
    Actors,   \* users who query a connection they do not save
    Requests, \* goroutines that test or query
    Configs,
    Secrets,  \* secret maps with at least one entry
    Errors,   \* errors a connector may return: see Classify
    Burst     \* capacity of a connection's token bucket

Codes == {"timeout", "network_unreachable", "auth_failed", "permission_denied",
          "not_found", "rate_limited", "invalid_config", "unknown"}

-----------------------------------------------------------------------------
(* Classify.  An error is the typed causes errors.As and errors.Is find in   *)
(* its chain, as pairs <<type, detail>>, and the codes its message hints at. *)

\* The order in which Classify asks for the types.
Types == <<"health", "deadline", "canceled", "postgres", "mysql", "aws", "azure",
           "google", "net">>

\* The order in which classifyByMessage looks for phrases.
Phrases == <<"auth_failed", "permission_denied", "network_unreachable", "timeout",
             "not_found", "rate_limited", "invalid_config">>

Place(seq, x) == CHOOSE i \in DOMAIN seq : seq[i] = x

Postgres == {<<"28P01", "auth_failed">>, <<"28000", "auth_failed">>,
             <<"3D000", "not_found">>, <<"42501", "permission_denied">>}
MySQL == {<<"1045", "auth_failed">>, <<"1049", "not_found">>,
          <<"1044", "permission_denied">>, <<"1142", "permission_denied">>}
AWS == {<<"AccessDenied", "permission_denied">>, <<"ExpiredToken", "auth_failed">>,
        <<"NoSuchKey", "not_found">>, <<"ThrottlingException", "rate_limited">>}
HTTPStatus == {<<"401", "auth_failed">>, <<"403", "permission_denied">>,
               <<"404", "not_found">>, <<"429", "rate_limited">>}
Net == {<<"timeout", "timeout">>, <<"other", "network_unreachable">>}
Ended == {<<"context", "timeout">>}

Table == [type \in {Types[i] : i \in DOMAIN Types} |->
            CASE type = "health" -> {<<c, c>> : c \in Codes}
              [] type \in {"deadline", "canceled"} -> Ended
              [] type = "postgres" -> Postgres
              [] type = "mysql" -> MySQL
              [] type = "aws" -> AWS
              [] type \in {"azure", "google"} -> HTTPStatus
              [] type = "net" -> Net]

\* What a typed cause says; every driver's other errors are "unknown".
Meaning(cause) ==
    LET known == {code \in Codes : <<cause[2], code>> \in Table[cause[1]]}
    IN IF known = {} THEN "unknown" ELSE CHOOSE code \in known : TRUE

\* The cause whose type Classify asks for first.
Foremost(causes) ==
    CHOOSE c \in causes : \A d \in causes \ {c} : Place(Types, c[1]) <= Place(Types, d[1])

\* Mutant: the words of the message are looked at before the types.
ClassifyByWords(e) ==
    LET hinted == {c \in Codes \cap e.words :
                     \A d \in e.words : Place(Phrases, c) <= Place(Phrases, d)}
    IN IF hinted # {} THEN CHOOSE c \in hinted : TRUE
       ELSE IF e.chain # {} THEN Meaning(Foremost(e.chain)) ELSE "unknown"

Classify(e) ==
    LET hinted == {c \in Codes \cap e.words :
                     \A d \in e.words : Place(Phrases, c) <= Place(Phrases, d)}
    IN IF e.chain # {} THEN Meaning(Foremost(e.chain))
       ELSE IF hinted # {} THEN CHOOSE c \in hinted : TRUE ELSE "unknown"

NoError == [chain |-> {}, words |-> {}]

\* What the drivers return when the context of the call is cancelled.
Canceled == [chain |-> {<<"canceled", "context">>, <<"net", "other">>}, words |-> {}]

ASSUME ConnectionsAssumption ==
    /\ Burst \in Nat \ {0}
    /\ Ids \cap Actors = {} /\ Ids \cup Actors # {}
    /\ Configs # {}
    /\ {NoError, Canceled} \cap Errors = {}
    /\ {"none", "same"} \cap Secrets = {}

-----------------------------------------------------------------------------
VARIABLES
    row,   \* the rows of the table connections
    req,   \* local state of the goroutines
    tokens \* perConnectionLimiter: tokens left, by connection or ad-hoc actor

vars == <<row, req, tokens>>

Keys == Ids \cup Actors
Stored == Secrets \cup {"none"}   \* secret_encrypted, '' being "none"
Given == Stored \cup {"same"}     \* UpdateInput.Secret, nil being "same"
Edits == {"none", "between", "after"}

\* dialed, cause and crossed are history: what the test recorded in the row
\* dialled, what it met, and whether it was overtaken by an edit.
Rows == [state : {"absent", "stored", "deleted"}, config : Configs, secret : Stored,
         status : {"unverified", "healthy", "unhealthy"}, code : Codes \cup {""},
         dialed : Configs \X Stored, cause : Errors \cup {NoError, Canceled},
         crossed : Edits]

\* edited is history: whether, and where, an edit overtook the request.
Locals == [pc : {"idle", "get", "secret", "dial", "record"},
           op : {"test", "query", "adhoc"}, key : Keys, config : Configs,
           secret : Stored, err : Errors \cup {NoError, Canceled}, client : {"there", "gone"},
           edited : Edits]

TypeOK ==
    /\ row \in [Ids -> Rows]
    /\ req \in [Requests -> Locals]
    /\ tokens \in [Keys -> 0..Burst]

AnyConfig == CHOOSE c \in Configs : TRUE

Unverified(state, config, secret) ==
    [state |-> state, config |-> config, secret |-> secret, status |-> "unverified",
     code |-> "", dialed |-> <<config, secret>>, cause |-> NoError, crossed |-> "none"]

Idle == [pc |-> "idle", op |-> "query", key |-> CHOOSE k \in Keys : TRUE,
         config |-> AnyConfig, secret |-> "none", err |-> NoError, client |-> "there",
         edited |-> "none"]

Init ==
    /\ row = [c \in Ids |-> Unverified("absent", AnyConfig, "none")]
    /\ req = [r \in Requests |-> Idle]
    /\ tokens = [k \in Keys |-> Burst]

-----------------------------------------------------------------------------
\* encryptSecret: an empty map is stored as ''.
CreateConnection(c, config, secret) ==
    /\ row[c].state = "absent"
    /\ row' = [row EXCEPT ![c] = Unverified("stored", config, secret)]
    /\ UNCHANGED <<req, tokens>>

\* The requests under way that have read connection c's row.
Overtaken(c) ==
    [r \in Requests |->
        IF req[r].key # c \/ req[r].edited # "none" THEN req[r]
        ELSE IF req[r].pc = "secret" THEN [req[r] EXCEPT !.edited = "between"]
        ELSE IF req[r].pc \in {"dial", "record"} THEN [req[r] EXCEPT !.edited = "after"]
        ELSE req[r]]

\* Mutant: only the configuration and the secret are written.
ResetNothing(old, config, secret) ==
    [old EXCEPT !.config = config, !.secret = secret]

\* Both UPDATE statements reset what the last test wrote.
Reset(old, config, secret) == Unverified("stored", config, secret)

\* Without a secret in the request the stored one stays, with an empty map it
\* goes.
UpdateConnection(c, config, given) ==
    /\ row[c].state = "stored"
    /\ row' = [row EXCEPT ![c] =
                 Reset(@, config, IF given = "same" THEN @.secret ELSE given)]
    /\ req' = Overtaken(c)
    /\ UNCHANGED tokens

DeleteConnection(c) ==
    /\ row[c].state = "stored"
    /\ row' = [row EXCEPT ![c].state = "deleted"]
    /\ UNCHANGED <<req, tokens>>

-----------------------------------------------------------------------------
\* Mutant: a connection that has no bucket tokens left is tested all the same.
AllowAlways(k) == tokens' = [tokens EXCEPT ![k] = @ - 1]

\* perConnectionLimiter.Allow: before anything is read of the connection.
Allow(k) ==
    /\ tokens[k] > 0
    /\ tokens' = [tokens EXCEPT ![k] = @ - 1]

Begin(r, op, k, pc, config, secret) ==
    /\ req[r].pc = "idle"
    /\ Allow(k)
    /\ req' = [req EXCEPT ![r] = [pc |-> pc, op |-> op, key |-> k, config |-> config,
                                  secret |-> secret, err |-> NoError, client |-> "there",
                                  edited |-> "none"]]
    /\ UNCHANGED row

TestConnection(r, c) == Begin(r, "test", c, "get", AnyConfig, "none")

\* Of the handlers and of source nodes.
Query(r, c) == Begin(r, "query", c, "get", AnyConfig, "none")

\* What is queried comes with the request, and no row is read.
QueryAdhoc(r, a, config, secret) == Begin(r, "adhoc", a, "dial", config, secret)

Ends(r) == req' = [req EXCEPT ![r] = Idle]

\* ErrNotFound, or the statement fails.
Refused(r) ==
    /\ req[r].pc \in {"get", "secret"}
    /\ Ends(r)
    /\ UNCHANGED <<row, tokens>>

Reads(r, pc) ==
    /\ req[r].pc = pc
    /\ row[req[r].key].state = "stored"
    /\ req[r].client = "there"

GetRow(r) ==
    /\ Reads(r, "get")
    /\ req' = [req EXCEPT ![r] = [@ EXCEPT !.pc = "secret",
                                           !.config = row[req[r].key].config]]
    /\ UNCHANGED <<row, tokens>>

GetSecret(r) ==
    /\ Reads(r, "secret")
    /\ req' = [req EXCEPT ![r] = [@ EXCEPT !.pc = "dial",
                                           !.secret = row[req[r].key].secret]]
    /\ UNCHANGED <<row, tokens>>

\* decryptSecretFor: the ciphertext is of another key.  The error is not
\* classified, and Test records nothing.
CannotDecrypt(r) ==
    /\ Reads(r, "secret")
    /\ row[req[r].key].secret # "none"
    /\ Ends(r)
    /\ UNCHANGED <<row, tokens>>

\* Connector.Execute: a frame or a classified error goes back to the caller.
DialQuery(r) ==
    /\ req[r].pc = "dial" /\ req[r].op # "test"
    /\ Ends(r)
    /\ UNCHANGED <<row, tokens>>

\* Connector.Test.
DialTest(r, err) ==
    /\ req[r].pc = "dial" /\ req[r].op = "test"
    /\ err = Canceled => req[r].client = "gone"
    /\ req' = [req EXCEPT ![r] = [@ EXCEPT !.pc = "record", !.err = err]]
    /\ UNCHANGED <<row, tokens>>

Result(r) ==
    [state |-> "stored", config |-> row[req[r].key].config, secret |-> row[req[r].key].secret,
     status |-> IF req[r].err = NoError THEN "healthy" ELSE "unhealthy",
     code |-> IF req[r].err = NoError THEN "" ELSE Classify(req[r].err),
     dialed |-> <<req[r].config, req[r].secret>>,
     cause |-> req[r].err, crossed |-> req[r].edited]

\* Mutant: the result is written by an upsert.
SetTestResultUpsert(r) ==
    /\ req[r].pc = "record" /\ req[r].client = "there"
    /\ row' = [row EXCEPT ![req[r].key] = Result(r)]
    /\ Ends(r)
    /\ UNCHANGED tokens

\* Mutant: the result is written whether or not the client is still there.
SetTestResultDetached(r) ==
    /\ req[r].pc = "record"
    /\ row' = IF row[req[r].key].state = "stored"
              THEN [row EXCEPT ![req[r].key] = Result(r)] ELSE row
    /\ Ends(r)
    /\ UNCHANGED tokens

\* SetTestResult, with the context of the request: an UPDATE of the row as it
\* is by now, or of none.
SetTestResult(r) ==
    /\ req[r].pc = "record" /\ req[r].client = "there"
    /\ row' = IF row[req[r].key].state = "stored"
              THEN [row EXCEPT ![req[r].key] = Result(r)] ELSE row
    /\ Ends(r)
    /\ UNCHANGED tokens

\* The context is cancelled, or the statement fails: nothing is recorded.
ResultLost(r) ==
    /\ req[r].pc = "record"
    /\ Ends(r)
    /\ UNCHANGED <<row, tokens>>

ClientLeaves(r) ==
    /\ req[r].pc # "idle" /\ req[r].client = "there"
    /\ req' = [req EXCEPT ![r].client = "gone"]
    /\ UNCHANGED <<row, tokens>>

\* rate.Limiter: time passes.
Refill(k) ==
    /\ tokens[k] < Burst
    /\ tokens' = [tokens EXCEPT ![k] = @ + 1]
    /\ UNCHANGED <<row, req>>

\* The server is killed and started again: the limiters are new.
Restart ==
    /\ req' = [r \in Requests |-> Idle]
    /\ tokens' = [k \in Keys |-> Burst]
    /\ UNCHANGED row

RequestStep(r) ==
    \/ \E c \in Ids : TestConnection(r, c) \/ Query(r, c)
    \/ \E a \in Actors, config \in Configs, secret \in Stored :
          QueryAdhoc(r, a, config, secret)
    \/ Refused(r) \/ GetRow(r) \/ GetSecret(r) \/ CannotDecrypt(r)
    \/ DialQuery(r) \/ \E err \in Errors \cup {NoError, Canceled} : DialTest(r, err)
    \/ SetTestResult(r) \/ ResultLost(r) \/ ClientLeaves(r)

EditStep(c) ==
    \/ \E config \in Configs, secret \in Stored : CreateConnection(c, config, secret)
    \/ \E config \in Configs, given \in Given : UpdateConnection(c, config, given)
    \/ DeleteConnection(c)

Next ==
    \/ \E r \in Requests : RequestStep(r)
    \/ \E c \in Ids : EditStep(c)
    \/ \E k \in Keys : Refill(k)
    \/ Restart

Spec == Init /\ [][Next]_vars

-----------------------------------------------------------------------------
\* The badge a user sees speaks of what is stored: a connection that is
\* healthy or unhealthy was tested with its present configuration and secret,
\* read by two statements, unless an edit overtook that very test.
StatusSpeaksOfStored ==
    \A c \in Ids :
       row[c].state = "stored" /\ row[c].status # "unverified" /\ row[c].crossed = "none"
          => row[c].dialed = <<row[c].config, row[c].secret>>

\* The status, the code and what the test met agree in every row, though two
\* UPDATE statements reset them and a third, of any number of concurrent
\* tests, sets them (FR-05:248, "do not corrupt the persisted state"); and a
\* typed cause decides the code, whatever the words of the message.
RowIsCoherent ==
    \A c \in Ids :
       /\ row[c].status = "unhealthy" <=> row[c].code # ""
       /\ row[c].status = "unhealthy" <=> row[c].cause # NoError
       /\ \A cause \in row[c].cause.chain :
             row[c].cause.chain = {cause} => row[c].code = Meaning(cause)

\* A client that leaves cancels the dial, which Classify calls a timeout; the
\* same cancellation keeps it from being recorded against the target.
UnhealthyHasCause ==
    \A c \in Ids : row[c].status = "unhealthy" => row[c].cause # Canceled

\* A connection deleted during a test does not come back with its result.
DeletedStaysDeleted ==
    [][\A c \in Ids : row[c].state = "deleted" => row'[c] = row[c]]_row

\* "A saved configuration change invalidates the previous verification"
\* (FR-05:155): the status is never that of a test from before an edit.
EditInvalidates ==
    \A c \in Ids : row[c].status # "unverified" => row[c].crossed = "none"

\* "The in-flight execution completes against the pre-update credentials"
\* (FR-03:341): it dials with a configuration and a secret of one version.
DialsOneVersion ==
    \A r \in Requests : req[r].pc = "dial" => req[r].edited # "between"

\* The state "SHALL be updated on every call to Test (regardless of outcome)"
\* (FR-05:152): a test that has dialled records what it found.
EveryTestRecords ==
    [][\A r \in Requests :
          req[r].pc = "record" /\ req'[r].pc = "idle"
             /\ row[req[r].key].state = "stored"
          => row'[req[r].key].cause = req[r].err]_vars

=============================================================================
